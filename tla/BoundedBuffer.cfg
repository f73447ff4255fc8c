SPECIFICATION FairSpec
CONSTANTS
    Producer = {p1, p2}
    Consumer = {c1, c2}
    Nobody = Nobody
    Capacity = 2
    Preload = 1
    Produced = 2
    Consumed = 2
    MaxSpurious = 1
    MaxThrows = 1
    PopMayThrow = FALSE
INVARIANTS
    TypeOK
    ExactlyOnceInOrder
    NoLostWakeup
PROPERTIES
    LosesNothing
    AllFinish
CHECK_DEADLOCK FALSE
