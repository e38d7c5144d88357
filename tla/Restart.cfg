CONSTANTS
    Writers = {w1}
    Entries = {1, 2, 3}
    RemoteEntries = {}
    SizeOf <- MCSizes
    TsOf <- MCTimestamps
    ShardOf <- MCOneShard
    Remote <- MCNoRemote
    ReplicaShards = {}
    MaxSegmentBytes = 2
    MergeThreshold = 3
    MaxCutoff = 0
    BloomEnabled = FALSE
    QueryTerms = {}
    MaxCrashes = 1
    MaxFaults = 0
SPECIFICATION Spec
INVARIANTS
    RestartSucceeds
CHECK_DEADLOCK FALSE
