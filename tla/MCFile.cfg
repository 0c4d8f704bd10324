SPECIFICATION FairSharedSpec
CONSTANTS
    PageSize = 2
    Datas <- MCDatas
    Olds <- MCOlds
    Cuts = {0, 1, 2, 3, 4, 5}
INVARIANTS
    StreamIsBeginning
    FileIsBeginning
    LoadedIsFile
PROPERTIES
    WriteEnds
    KeepsPromise
CHECK_DEADLOCK FALSE
