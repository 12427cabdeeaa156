\* Three players and a cap of two voice streams, with as many sources; two
\* slots for placed streams.  The game pauses and resumes at any time; the
\* server uses the streams it has created.
SPECIFICATION SoundSpec
CONSTANTS
    Players = {1, 2, 3}
    Sources = {s1, s2}
    NoSource = NoSource
    MaxStreams = 2
    MaxPackets = 1
    MaxOrders = 2
    MAX_STREAMS = 2
    Addrs = {a1, a2}
    Null = Null
    MaxCommands = 3
    Faults = {"pause"}
INVARIANTS
    SourcesConserved RoomForAll MutesFollowOrders
    PointersLive NothingLeaks SilentInPause
PROPERTIES
    OrdersCarriedOut StreamsSettle
