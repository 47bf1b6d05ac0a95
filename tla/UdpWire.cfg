SPECIFICATION Spec

CONSTANTS
    Streams <- MCStreams
    ReliablePackets <- MCReliablePackets
    Contexts <- MCContexts
    NoContext <- MCNoContext
    MaxFrames = 3
    MaxReceipts = 6
    BaseSpan = 64
    PlayerLife = 6
    ObjectiveLife = 5
    HostileLife = 8
    MaxSpirit = 8

INVARIANT NothingIsInvented
INVARIANT SyncIsInOrder
INVARIANT StatsAreShown

CHECK_DEADLOCK FALSE
