SPECIFICATION VoiceSpec
CONSTANTS
    HostPeers = 2
    MaxOrders = 2
    BufferSize = 11
    Chunk = 4
    Frame = 3
    Cursors = 32
    Samples = 12
INVARIANT MicIsOptional
CHECK_DEADLOCK FALSE
