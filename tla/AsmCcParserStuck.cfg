SPECIFICATION ParserFairSpec
CONSTANTS
    MaxBody = 2
    Chars <- MCChars
    Sources <- TestProgram
PROPERTY
    FuncDeclIsParsed
CHECK_DEADLOCK FALSE
