SPECIFICATION SpecAnyWs
CONSTANTS
    Backends = {b1}
    Setups <- MCAhead
    MaxBlock = 5
    ChannelSize = 2
    ChunkSize = 2
    MaxU64 = 5
    Confirmations = 1
PROPERTIES
    NeverRedelivers
