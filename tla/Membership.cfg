CONSTANTS
    Nodes <- MCNodes
    TotalShards = 1
    Addrs = {"a"}
    NodeAddr = "a"
    Coordinators = {c1, c2}
    NoLeader = NoLeader
    Timeout = 1
SPECIFICATION FairSpec
INVARIANTS
    TypeOK
PROPERTIES
    
    FailoverCompletes
    ImplementsFSM
