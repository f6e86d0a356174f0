CONSTANTS
    NumIds = 1
    Addrs = {a1}
    Peers = {p1}
    Weights = {w1}
    Materials = {m1, m2}
    Descs <- TlsDescs
    None = None
    MaxGen = 2
    Static <- EmptyStatic
    Env = {"bind", "rotate"}
SPECIFICATION Spec
INVARIANTS
    RetryReplays
