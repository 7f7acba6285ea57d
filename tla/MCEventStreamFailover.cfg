SPECIFICATION Spec
CONSTANTS
    Backends = {b1, b2}
    Setups <- MCResume
    MaxBlock = 5
    ChannelSize = 2
    ChunkSize = 2
    MaxU64 = 5
    Confirmations = 1
PROPERTIES
    NoSilentGap
