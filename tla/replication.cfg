CONSTANTS
    MaxLsn = 3
    MaxChunk = 2
    MaxSessions = 2
    MaxCrashes = 1
SPECIFICATION FairSpec
INVARIANTS TypeOK QueueExact FlushedCovers NothingSkipped
PROPERTIES RecordsArrive SlotFollows
CHECK_DEADLOCK FALSE
