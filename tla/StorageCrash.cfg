CONSTANTS
    Writers = {w1, w2}
    Entries = {1, 2, 3, 4, 5}
    RemoteEntries = {11, 12}
    SizeOf <- MCSizes
    TsOf <- MCRemoteTs
    ShardOf <- MCOneShard
    Remote <- MCRemoteFirst
    ReplicaShards = {0}
    MaxSegmentBytes = 2
    MergeThreshold = 3
    MaxCutoff = 2
    BloomEnabled = TRUE
    QueryTerms = {}
    MaxCrashes = 2
    MaxFaults = 1
SPECIFICATION Spec
INVARIANTS
    TypeOK
    
    AckedIndexed
    
    
    
PROPERTIES
    SegmentsOnlyGrow
    
CHECK_DEADLOCK FALSE
