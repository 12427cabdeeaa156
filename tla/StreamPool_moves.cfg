\* No pauses, and a server that moves only streams it has created.
SPECIFICATION PoolSpec
CONSTANTS
    MAX_STREAMS = 2
    Addrs = {a1, a2}
    Null = Null
    MaxCommands = 3
    Faults = {}
INVARIANT FoundStreamIsThere
