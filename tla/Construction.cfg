SPECIFICATION Spec
CONSTANTS
    Buffer = {x, y}
    NoBlock = NoBlock
    Raw = Raw
    Dead = Dead
    MaxCapacity = 3
    MaxItems = 4
    Defects = {}
INVARIANTS
    OneOwner
    LiveIsWindow
    NoMemoryFault
PROPERTIES
    BuildsTheLastItems
    ThrowIsContained
    HandsOver
    ErasesTheEnds
