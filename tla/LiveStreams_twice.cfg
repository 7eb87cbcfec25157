SPECIFICATION Spec
CONSTANTS
    Clusters = {c1, c2}
    Hooks = {"overview"}
    MaxChains = 3
    MaxOutages = 1
    Nothing = Nothing
INVARIANTS
    OneConnectionPerCluster
CHECK_DEADLOCK FALSE
