SPECIFICATION FairSpec
CONSTANTS
    ra1 = ra1
    ra2 = ra2
    RaClient = {ra1, ra2}
    Stalled = {ra1}
    Address = {1, 2}
    Soap = Soap
    Console = Console
    QueueBlocks = 1
    MaxOutput = 2
    MaxCommands <- MCCommands
INVARIANTS
    AnswersInOrder
    SoapCommandAlive
PROPERTIES
    SoapAnswersAll
    CommandsEnd
    StopEnds
CHECK_DEADLOCK FALSE
