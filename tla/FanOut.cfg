CONSTANTS
    Nodes = {n1, n2}
    Handlers = {h1, h2}
    Requests <- MCRequests
    Match <- MCMatch
    TsOf <- MCTs
    Old = {2}
    FanOutLimit = 1
    DefaultLimit = 2
    IntMax = 2
    NodeTimeout = 1
    TTL = 1
    MaxItems = 1
    MaxEvents = 2
SPECIFICATION Spec
SYMMETRY MCSymmetry
INVARIANTS
    TypeOK
    PageExact
    TotalLowerBound
    NotTooStale
