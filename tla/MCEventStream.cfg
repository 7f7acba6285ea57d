SPECIFICATION FairSpec
CONSTANTS
    Backends = {b1}
    Setups <- MCSetups
    MaxBlock = 6
    ChannelSize = 2
    ChunkSize = 3
    MaxU64 = 6
    Confirmations = 2
INVARIANTS
    TypeOK
    NoHeadSubLeak
PROPERTIES
    ImplementsLogFeed
    BuildResolves
    LogsFlow
