\* Three shapes with two versions each, six renders of one canvas, and four workers:
\* one to each request, and some left behind by errors.
SPECIFICATION FairSpec
CONSTANTS
    Shapes = {s1, s2, s3}
    Versions = {v1, v2}
    Workers = {w1, w2, w3, w4}
    MaxRenders = 6
    Nothing = Nothing
INVARIANTS
    TypeOK
    PendingIsServed
    SpinnerIsBacked
    SettledShowsCurrent
PROPERTIES
    Settles
    DrawsTheLatest
