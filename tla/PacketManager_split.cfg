SPECIFICATION LinkSpec
CONSTANTS
    Base = 2
    HeadSize = 2
    Messages <- OneSize
    MaxSends <- OneWay
    NetCap = 3
    SplitHeads = TRUE
    Failures = FALSE
INVARIANT BodyHasRoom
