CONSTANTS
    MinListSize = 3
    MaxNodes = 4
    MaxWrites = 5
    StoresInOrder = TRUE
    FreeAfterUnlock = TRUE
SPECIFICATION QueueSpec
INVARIANT FreedAsReceived
CHECK_DEADLOCK FALSE
