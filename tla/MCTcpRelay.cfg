SPECIFICATION FairSpec
CONSTANTS
    Half = 11
    MinReplica = 2
    Vnodes = {0, 1, 2, 3, 4}
    HashOfVnode <- MCHashOfVnode
    Ips = {1, 2, 3}
    HashOfIp <- MCHashOfIp
    MaxWeight = 4
    MaxPayload = 2
    HeaderSize = 2
    PeekSize = 3
    NoHook = NoHook
    Configs <- MCConfigs
    ClientsOf <- MCClientsOf
    AddrLists <- MCAddrLists
INVARIANTS
    PeerGetsStream
    PicksFollowWeights
PROPERTIES
    AcceptingAddressReached
    SetupEnds
