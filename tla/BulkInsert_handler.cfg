SPECIFICATION Spec
CONSTANTS
    MaxCapacity = 5
    MaxItems = 6
    Excluded = {"is_uninitialized"}
INVARIANT LiveIsWindow
CHECK_DEADLOCK FALSE
