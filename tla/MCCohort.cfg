CONSTANT Conns = {c1, c2, c3}
SPECIFICATION FairSpec
INVARIANTS
    CountExact
    UpdateKeepsConnections
    ForcedCoversKilled
PROPERTIES
    KeepsContract
    DeadlineDrainCompletes
    StopCompletes
