SPECIFICATION FairSpec
CONSTANTS
    NKinds = 2
    MaxVersion = 1
    Slots = {r1, r2}
    Requests = {q1}
INVARIANT TypeOK
PROPERTIES SnapshotCatchesUp CacheCatchesUp StopEndsQuiet
CHECK_DEADLOCK FALSE
