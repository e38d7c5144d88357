---------------------------- MODULE MCMetadataFSM ----------------------------
(* Four nodes and five shards: the shards do not divide evenly among two, *)
(* three or four nodes.                                                   *)
EXTENDS MetadataFSM

MCNodes == 1 .. 4
MCTimes == 0 .. 1
=============================================================================
