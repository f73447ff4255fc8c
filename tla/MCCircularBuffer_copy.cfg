SPECIFICATION Spec
CONSTANTS
    Value = {a, b, c}
    Raw = Raw
    Moved = Moved
    NothrowMove = FALSE
    MaxCapacity = 4
SYMMETRY ValueSymmetry
INVARIANTS
    TypeOK
    PointersAgree
    NoLifecycleFault
    LiveIsWindow
    IInv
PROPERTIES
    ThrowKeepsElements
    ImplementsDeque
