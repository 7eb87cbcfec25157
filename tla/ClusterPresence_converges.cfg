SPECIFICATION FairSpec
CONSTANTS
    Clusters = {c1, c2}
    MaxFetches = 2
    MaxTrouble = 3
    Nothing = Nothing
INVARIANTS
    OneRetryChain
    StreamFollowsFirst
PROPERTIES
    Converges
    Watches
