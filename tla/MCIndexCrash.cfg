\* The process is killed, or stops gracefully, once, at any moment; compaction at
\* any tick, racing the calls in flight.
CONSTANTS
    MaxId = 2
    MaxDataId = 2
    Sessions = {s1}
    HealBatch = 2
    StaleTrigger = 10
    MaxRequests = 3
    MaxRestarts = 1
SPECIFICATION Spec
INVARIANT ReverseMapSound
PROPERTY LoadTruthful
CHECK_DEADLOCK FALSE
