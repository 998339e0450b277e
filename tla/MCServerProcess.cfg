\* Three starts of the daemon, a stop command and a crash; one session each.
CONSTANTS
    MaxProcs = 3
    MaxAtOnce = 2
    MaxSessions = 1
    MaxStops = 1
    MaxCrashes = 1
SPECIFICATION FairSpec
INVARIANTS TypeOK ServingAlone ServingReachable
PROPERTY NoLimbo
CHECK_DEADLOCK FALSE
