SPECIFICATION FairSpec
CONSTANTS
    b1 = b1
    b2 = b2
    i1 = i1
    i2 = i2
    i3 = i3
    World = World
    NoMap = NoMap
    NoThread = NoThread
    BaseMap = {b1, b2}
    Instance = {i1, i2, i3}
    Parent <- TwoDungeons
    Worker = {w1, w2, w3}
    QueueCapacity = 2
INVARIANTS
    PendingIsExact
    WorldThreadIsAlone
    NoLostWakeup
    NoUpdateLost
PROPERTIES
    ImplementsTick
    UpdateEnds
