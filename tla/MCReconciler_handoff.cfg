CONSTANTS
    NumIds = 3
    Addrs = {a1, a2, a3}
    Peers = {p1}
    Weights = {w1}
    Materials = {m1}
    Descs <- SwapDescs
    None = None
    MaxGen = 2
    Static <- EmptyStatic
    Env = {"bind", "crash"}
SPECIFICATION Spec
SYMMETRY Symmetry
INVARIANTS
    AppliedMeansServed
    FaultFreeConverges
PROPERTIES
    SnapshotAdvances
