SPECIFICATION FairSpec
CONSTANTS
    Value = {a, b, c}
    Raw = Raw
    Moved = Moved
    NothrowMove = TRUE
    MaxCapacity = 3
PROPERTIES
    ImplementsDeque
    EveryCallReturns
