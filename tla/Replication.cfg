CONSTANTS
    Nodes <- MCNodes
    TotalShards = 2
    Addrs = {"a", "b"}
    AddrOf <- MCAddrOf
    Clients = {c1}
    Entries = {1, 2}
    NsOf <- MCNsOf
    SvcOf <- MCSvcOf
    Hash <- MCHash
    ReceiveTimes = {1, 2}
    QueueCapacity = 1
    MaxBatch = 2
    MaxOutages = 2
SPECIFICATION FairSpec
INVARIANTS
    TypeOK
    CopiesInShard
    AckedStored
    NoSilentLoss
PROPERTIES
    
    
    IngestAnswered
    ReplicaConverges
CHECK_DEADLOCK FALSE
