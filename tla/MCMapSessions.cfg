SPECIFICATION FairSpec
CONSTANTS
    alice = alice
    bob = bob
    Session = {alice, bob}
    Map = {continent, dungeon}
    Home = continent
    World = World
    Kinds <- MCKinds
    MaxPackets <- MCPackets
INVARIANTS
    PlayersAgree
PROPERTIES
    ListsFrozen
    PacketsTaken
    TransferEnds
