CONSTANTS
    Clients = {c1, c2}
    Socks = {s1, s2, s3}
    MaxBatch = 4
    None = None
    Early = FALSE
SPECIFICATION FairSpec
INVARIANTS
    MapEntriesLive
    OneReaderPerClient
    BatchSentOnce
    DrainedLeavesNothing
PROPERTIES
    RebuildFreesSocket
