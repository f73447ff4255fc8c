SPECIFICATION Spec
CONSTANTS
    MaxCapacity = 5
    MaxItems = 6
    Excluded = {"rinsert handler"}
INVARIANT NoLifecycleFault
CHECK_DEADLOCK FALSE
