SPECIFICATION FairSpec
CONSTANTS
    Chars = {"f", "n", "1", "_", " ", "(", "/"}
    MaxLen = 4
    Sources <- MCSources
INVARIANTS
    TokensTile
    LongestMatch
PROPERTIES
    EofIsFinal
    LexerEnds
    Tokenizes
CHECK_DEADLOCK FALSE
