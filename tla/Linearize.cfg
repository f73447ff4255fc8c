SPECIFICATION Spec
CONSTANTS
    MaxCapacity = 7
INVARIANTS
    Linearized
    NoLifecycleFault
    LiveIsWindow
    ThrowLosesAtMostOne
PROPERTIES
    Terminates
CHECK_DEADLOCK FALSE
