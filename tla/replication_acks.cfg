CONSTANTS
    MaxLsn = 3
    MaxChunk = 2
    MaxSessions = 2
    MaxCrashes = 1
SPECIFICATION FairSpec
CHECK_DEADLOCK FALSE
INVARIANT AcknowledgedByHand
