SPECIFICATION Spec
CONSTANTS
    MaxCapacity = 5
    MaxItems = 6
    Excluded = {"is_uninitialized", "rinsert handler"}
INVARIANTS
    KeepsCapacityElements
    NoLifecycleFault
    LiveIsWindow
PROPERTIES
    Terminates
CHECK_DEADLOCK FALSE
