CONSTANTS
    MinListSize = 3
    MaxNodes = 4
    MaxWrites = 3
    StoresInOrder = FALSE
    FreeAfterUnlock = FALSE
SPECIFICATION QueueSpec
INVARIANT DeliveredInOrder
CHECK_DEADLOCK FALSE
