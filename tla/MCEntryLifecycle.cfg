\* A status change in flight, a background tick, and corrections of corrections
\* and of restored entries around them.  No two entries have the same content.
CONSTANTS
    Contents = {1, 2, 3}
    MaxId = 3
    Calls = {c1}
    BadCycleLimit = 1
    DeadKnowledge <- MCDeadKnowledge
    MaxTicks = 1
SPECIFICATION Spec
INVARIANTS TypeOK ChainClean CorrectionsTracked PreQuarantineExact SupersededRetired
PROPERTY QuarantineLeftOnRequest
CONSTRAINT OwnContents
CHECK_DEADLOCK FALSE
