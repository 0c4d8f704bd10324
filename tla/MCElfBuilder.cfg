SPECIFICATION MCSpec
CONSTANTS
    Codes <- MCCodes
    Orders <- AllOrders
    U32 = 65536
    Olds <- MCOlds
    Cuts = {0, 40, 64, 70, 150, 300, 400, 470, 520}
INVARIANTS
    HeadersWherePredicted
    SectionsInPlace
    SectionNamesResolve
    SymbolNamesResolve
    CutFileIsNoObject
    SymbolTypesAgree
PROPERTIES
    DeliversTheCode
    BuildEnds
CHECK_DEADLOCK FALSE
