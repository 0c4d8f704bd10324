SPECIFICATION FairSpec
CONSTANTS
    Alphabet = {"f", "n", "1", "-", "_", " ", "(", "/"}
    MaxLen = 4
    Chars <- MCChars
    Sources <- MCSources
INVARIANTS
    OneAhead
    FramesAreLines
PROPERTIES
    PeekIsNext
    CallsReturn
    Tokenizes
CHECK_DEADLOCK FALSE
