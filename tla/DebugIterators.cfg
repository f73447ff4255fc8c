SPECIFICATION Spec
CONSTANTS
    Buffer = {b1, b2}
    Iterator = {i1, i2}
    Temp = Temp
    Null = Null
    MaxCapacity = 4
    MaxSlots = 4
SYMMETRY Addresses
INVARIANTS
    RegistryIsExact
    InvalidatesAsDocumented
    ValidKeepsItsPosition
