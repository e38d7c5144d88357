--------------------------- MODULE MCStorageNode ---------------------------
(* Constants of the StorageNode runs.                                      *)
EXTENDS StorageNode, TLC

\* Two small records share a segment; a larger one fills a segment alone.
MCSizes == [e \in AllEntries |-> IF e = 3 THEN 2 ELSE 1]

\* Timestamps arrive out of order; entry 1 carries none.
MCTimestamps == [e \in AllEntries |-> IF e = 1 THEN 0 ELSE IF e = 2 THEN 2 ELSE 1]

MCOneShard == [e \in AllEntries |-> 0]
MCNoRemote == <<>>

\* The primary's closed segment 1, of one shard, with unexpired entries.
MCRemoteFirst == [p \in {1} |-> {11, 12}]
MCRemoteTs == [e \in AllEntries |-> IF e \in RemoteEntries THEN MaxCutoff ELSE MCTimestamps[e]]

\* Handlers are alike.
MCSymmetry == Permutations(Writers)
=============================================================================
