CONSTANTS
    Snapshots = {s1, s2}
    Pids = {p1}
    MaxSeq = 1
    Torn = Torn
    None = None
SPECIFICATION FairSpec
INVARIANTS
    NeverTorn
    NoLeftovers
PROPERTIES
    LeftoversUntouched
    KeepsContract
    StoreReturns
