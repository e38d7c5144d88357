CONSTANTS
    Nodes <- MCNodes
    TotalShards = 2
    Addrs = {"a"}
    Coordinators = {c1, c2}
    Commands <- MCCommands
    Pollers = {1}
    MaxLog = 4
SYMMETRY MCSymmetry
SPECIFICATION Spec
INVARIANTS
    ReplicasAgree
    CacheIsPastState
