CONSTANTS
    NumIds = 2
    Addrs = {a1, a2}
    Peers = {p1}
    Weights = {w1}
    Materials = {m1, m2}
    Descs <- TlsDescs
    None = None
    MaxGen = 3
    Static <- EmptyStatic
    Env = {"rotate", "bind"}
SPECIFICATION Spec
SYMMETRY Symmetry
INVARIANTS
    UnchangedServesMaterial
