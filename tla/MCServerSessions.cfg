\* One daemon with one session, stopped while the session is in a request.
CONSTANTS
    MaxProcs = 1
    MaxAtOnce = 1
    MaxSessions = 1
    MaxStops = 1
    MaxCrashes = 0
SPECIFICATION Spec
INVARIANT SessionsJoined
CHECK_DEADLOCK FALSE
