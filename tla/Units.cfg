SPECIFICATION UFairSpec
CONSTANTS
    Lexemes <- MCLexemes
    Blanks <- MCBlanks
    MaxLexemes = 4
    PathLists <- MCPathLists
    FileSets <- MCFileSets
    BadFiles <- MCBadFiles
    ShaderNames = {"n", "m"}
    LightIds = {1, 2}
    MaxSPaths = 3
    MaxCommands = 3
    PolyPrims <- MCPolyPrims
    MeshPrims <- MCMeshPrims
    BucketSize = 3
    Settings <- MCSettings
    Bounds <- MCBounds
    UvDim = 8
    MaxSplit = 2
    MaxParts = 1
    MaxObjs = 5
    MaxInserts = 2
    MaxWorlds = 2
    Sources <- MCSources
    Attribs <- MCAttribs
    ActLights <- MCActLights
    Ambients = {"amb", "amb2", "fog"}
    BadLights = {"broken", "fog"}
    MaxFop = 2
    MaxGrids = 3
    NServers = 2
    Unresolvable = {}
    Texts <- MCTexts
    Chunks <- MCChunks
    Included <- MCIncluded
    CodeBlocks <- MCCodeBlocks
    VarTypes <- MCVarTypes
    Numbers = {"1", "2"}
INVARIANTS
    UTypeOK CommandsAsWritten FindsFirst LightsMeant PatchesCover
    RefsExact SplitsPartition BucketsServe RunsAsWritten LightsCurrent
    SocketsOwned WaitsInVain TextAsMeant CodeAsWritten
PROPERTY UnitsGoOn
CHECK_DEADLOCK FALSE
