SPECIFICATION Spec
CONSTANTS
    MaxCapacity = 4
    MaxItems = 5
    Moved = Moved
INVARIANTS
    OneByOneIsAtOnce
    PositionStaysInside
CHECK_DEADLOCK FALSE
