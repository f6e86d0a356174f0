CONSTANTS
    NumIds = 1
    Addrs = {a1}
    Peers = {p1, p2}
    Weights = {w1}
    Materials = {m1}
    Descs <- SwapDescs
    None = None
    MaxGen = 3
    Static <- EmptyStatic
    Env = {"conns"}
SPECIFICATION Spec
INVARIANTS
    DeleteClosesEverything
