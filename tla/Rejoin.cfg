CONSTANTS
    Nodes <- MCNodes
    TotalShards = 2
    Addrs = {"a"}
    NodeAddr = "a"
    Coordinators = {c1}
    NoLeader = NoLeader
    Timeout = 1
SPECIFICATION FairSpec
PROPERTIES
    RejoinedNodeHealthy
