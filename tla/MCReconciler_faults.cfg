CONSTANTS
    NumIds = 2
    Addrs = {a1, a2}
    Peers = {p1}
    Weights = {w1}
    Materials = {m1}
    Descs <- SwapDescs
    None = None
    MaxGen = 1
    Static <- OneStatic
    Env = {"bind", "build", "refresh", "store", "crash", "load"}
SPECIFICATION Spec
INVARIANTS
    AppliedMatchesServing
    ResumesAfterCrash
    TypeOK
    NothingUndeclared
PROPERTIES
    MovesKeepAListener
