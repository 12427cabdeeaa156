CONSTANTS
    PlayerIds = {1}
    VehicleIds = {1}
    NoTarget = NoTarget
    NoPlayer = NoPlayer
    VoiceServer = TRUE
SPECIFICATION Spec
INVARIANTS
    SpectatedPlayerInPool
    AliveAsReported
    SessionsApart
    ClearedMeansAnswered
PROPERTIES
    NobodyStuck
CHECK_DEADLOCK FALSE
