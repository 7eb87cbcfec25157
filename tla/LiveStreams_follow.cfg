SPECIFICATION FairSpec
CONSTANTS
    Clusters = {c1, c2}
    Hooks = {"overview", "resources", "notices"}
    MaxChains = 3
    MaxOutages = 2
    Nothing = Nothing
INVARIANTS
    NeverDeaf
    RefIsCurrent
PROPERTIES
    Reconnects
CHECK_DEADLOCK FALSE
