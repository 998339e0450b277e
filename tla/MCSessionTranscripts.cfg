\* Two sessions, two cycles, two requests in flight, room for one held buffer;
\* deltas late, twice, out of order, with a gap, above the cap.
CONSTANTS
    MaxBytes = 5
    MaxHoles = 1
    MaxOffset = 9
    Sids = {s1, s2}
    Features = {f, g}
    Workers = {w1, w2}
    MaxHeld = 1
    Deltas <- MCDeltas
    MaxRequests = 3
    MaxBufs = 3
SPECIFICATION FairSpec
INVARIANTS TypeOK ContentExact ElidedExact OneOwner
PROPERTY ResidencyEnds
CHECK_DEADLOCK FALSE
