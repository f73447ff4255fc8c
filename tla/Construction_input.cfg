SPECIFICATION Spec
CONSTANTS
    Buffer = {x, y}
    NoBlock = NoBlock
    Raw = Raw
    Dead = Dead
    MaxCapacity = 2
    MaxItems = 3
    Defects = {"input"}
INVARIANTS
    OneOwner
