\* Two hooks at once, three events, files of one line, room for two files; the
\* file at the start may become too old.
CONSTANTS
    Hooks = {h1, h2}
    MaxPerFile = 1
    MaxFiles = 2
    PruneAge = 1
    MaxEvents = 3
    MaxClock = 2
    MaxFaults = 1
SPECIFICATION FairSpec
INVARIANTS TypeOK OldestFirst QueuedAccounted
PROPERTY QueueDrains
CHECK_DEADLOCK FALSE
