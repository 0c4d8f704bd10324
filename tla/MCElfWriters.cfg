SPECIFICATION MCSpec
CONSTANTS
    MaxCalls = 5
    Scripts <- MCScripts
    Given <- MCGiven
    Label <- MCLabels
    Olds <- MCOlds
    Cuts = {0, 1, 3, 40, 64, 128, 256, 272, 383, 384, 400, 450, 470}
INVARIANTS
    MainIsObject
    AllOrNothing
    FirstOnly
    PatchesByLabel
    CountsTell
PROPERTIES
    WritersAgree
CHECK_DEADLOCK FALSE
