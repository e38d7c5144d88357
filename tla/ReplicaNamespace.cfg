CONSTANTS
    Nodes <- MCNodes
    TotalShards = 2
    Addrs = {"a", "b"}
    AddrOf <- MCAddrOf
    Clients = {c1}
    Entries = {1, 3}
    NsOf <- MCNsOf
    SvcOf <- MCSvcOf
    Hash <- MCHash
    ReceiveTimes = {1}
    QueueCapacity = 1
    MaxBatch = 1
    MaxOutages = 0
SPECIFICATION Spec
INVARIANTS
    NamespaceFlows
CHECK_DEADLOCK FALSE
