SPECIFICATION ParserFairSpec
CONSTANTS
    MaxBody = 2
    Chars <- MCChars
    Sources <- MCSources
INVARIANTS
    ReturnedIsEmpty
    RefusedIsWrong
PROPERTIES
    BodyStandsStill
    EndsOrBody
CHECK_DEADLOCK FALSE
