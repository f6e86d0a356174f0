CONSTANTS
    NumIds = 2
    Addrs = {a1}
    Peers = {p1}
    Weights = {w1}
    Materials = {m1, m2}
    Descs <- ListenDescs
    None = None
    MaxGen = 2
    Static <- EmptyStatic
    Env = {"conns", "exit", "rotate", "build", "dup", "clash"}
SPECIFICATION Spec
SYMMETRY Symmetry
INVARIANTS
    SlotDescribesTask
    RotationTakesEffect
PROPERTIES
    UndisturbedListeners
    DeletesAreBounded
