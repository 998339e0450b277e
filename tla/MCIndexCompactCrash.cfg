\* Compaction renumbers VECTOR_MAP and the process is killed before the next
\* dump.  The constraints leave out the runs that reuse a data id and those
\* where compaction meets an insert in flight.
CONSTANTS
    MaxId = 2
    MaxDataId = 3
    Sessions = {s1}
    HealBatch = 2
    StaleTrigger = 10
    MaxRequests = 3
    MaxRestarts = 2
SPECIFICATION Spec
INVARIANT MappedToOwnVector
CONSTRAINTS DataIdsUnique QuietCompaction
CHECK_DEADLOCK FALSE
