SPECIFICATION Spec
CONSTANTS
    Value = {a, b}
    Moved = a
    NothrowMove = FALSE
    Bits = 6
    MaxCapacity = 6
    MaxItems = 5
    Huge = {}
    Source <- Lists
    Call <- AllCalls
    MayFail <- Others
    NoCall = NoCall
INVARIANTS
    CapacityIsTheLimit
    DoublingStops
PROPERTIES
    KeepsMinimum
    LeavesReserve
    ActsLikeDeque
