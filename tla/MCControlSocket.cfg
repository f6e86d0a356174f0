SPECIFICATION FairSpec
CONSTANTS
    Procs = {p1, p2}
    Backlog = 1
    BackoffMin = 1
    BackoffMax = 3
    Nothing = Nothing
    Dead = Dead
INVARIANTS
    OwnerKeepsPath
PROPERTIES
    LeftoverReplaced
    ServesAgain
