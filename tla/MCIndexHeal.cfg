\* No restart and no compaction: the tick heals what the calls leave behind, one
\* entry a tick, so that there may be more to heal than the batch takes.
CONSTANTS
    MaxId = 2
    MaxDataId = 4
    Sessions = {s1}
    HealBatch = 1
    StaleTrigger = 100
    MaxRequests = 3
    MaxRestarts = 0
SPECIFICATION FairSpec
INVARIANTS TypeOK IdMapBijective MappedToOwnVector DataIdsUnique
PROPERTY EventuallySettled
CHECK_DEADLOCK FALSE
