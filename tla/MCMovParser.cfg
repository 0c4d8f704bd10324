SPECIFICATION ParserFairSpec
CONSTANTS
    Chars <- MCChars
    Sources <- MCSources
INVARIANTS
    ParsedTokens
    ParsedIsWritten
    RefusedIsWrong
    ParsedMovAssembles
PROPERTIES
    ParseEnds
CHECK_DEADLOCK FALSE
