\* Two calls of store_metrics that may overlap, with any number of phases; the
\* store is closed or dropped; batches split the channel; the task may panic.
CONSTANTS
    Capacity = 3
    BatchSize = 2
    MaxEvents = 6
    MaxCalls = 2
    Panics = TRUE
SPECIFICATION FairMetricsSpec
INVARIANTS TypeOK WrittenInOrder Accounted CloseFlushes StalePhasesRemoved
PROPERTIES ImplementsContract EventuallyResolved
CHECK_DEADLOCK FALSE
