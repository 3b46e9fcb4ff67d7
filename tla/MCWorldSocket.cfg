SPECIFICATION FairSpec
CONSTANTS
    World = world
    Net = net
    w1 = w1
    w2 = w2
    Worker <- TwoWorkers
    MaxSessions = 2
    OutBufferSize = 3
    HighWaterMark = 3
    PacketSizes <- OnePacketSize
    MaxPackets = 4
INVARIANTS
    OutputInOrder
    LockKeepsSession
    RefsExact
    UpdateFindsBuffer
PROPERTIES
    SentOrClosed
    GoneClientIsFreed
