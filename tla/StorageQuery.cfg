CONSTANTS
    Writers = {w1, w2}
    Entries = {1, 2, 3, 4, 5}
    RemoteEntries = {}
    SizeOf <- MCSizes
    TsOf <- MCTimestamps
    ShardOf <- MCOneShard
    Remote <- MCNoRemote
    ReplicaShards = {}
    MaxSegmentBytes = 2
    MergeThreshold = 3
    MaxCutoff = 3
    BloomEnabled = TRUE
    QueryTerms = {0, 2}
    MaxCrashes = 1
    MaxFaults = 0
SPECIFICATION Spec
SYMMETRY MCSymmetry
INVARIANTS
    QueryComplete
    AckedFindable
CHECK_DEADLOCK FALSE
