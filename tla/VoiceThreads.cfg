\* Three peers; a ring of 11 samples, chunks of 4 and frames of 3, whose
\* cursors overflow at 32; a queue of three nodes whose consumer frees
\* payloads after ReadUnlock, as that of the voice threads does.
SPECIFICATION ThreadsSpec
CONSTANTS
    HostPeers = 3
    MaxOrders = 4
    BufferSize = 11
    Chunk = 4
    Frame = 3
    Cursors = 32
    Samples = 12
    MinListSize = 3
    MaxNodes = 5
    MaxWrites = 5
    StoresInOrder = TRUE
    FreeAfterUnlock = TRUE
INVARIANTS LightsTrue MicFollowsOrders  RingIntact
PROPERTIES SettledStaysOff VoiceSettles ImplementsChannel
CHECK_DEADLOCK FALSE
