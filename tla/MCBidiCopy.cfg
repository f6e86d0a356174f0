CONSTANTS
    Total <- MCTotal
    BufSize = 2
    Window = 2
SPECIFICATION FairSpec
INVARIANTS
    RelaysInOrder
    ShutAfterEverything
    ReportsWhatItDelivered
PROPERTIES
    KeepsContract
    LockstepCompletes
