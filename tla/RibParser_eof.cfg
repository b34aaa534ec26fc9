SPECIFICATION RSpec
CONSTANTS
    Lexemes <- MCLexemes
    Blanks <- MCBlanks
    MaxLexemes = 3
INVARIANT EofTokenIsName
CHECK_DEADLOCK FALSE
