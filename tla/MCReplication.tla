--------------------------- MODULE MCReplication ----------------------------
(* Constants of the Replication runs.  The entries belong to shard 0.      *)
(* Entry 1 has no namespace.  Entry 2 loses its namespace, and with it its *)
(* shard, on the way to the replica; entry 3 loses it and keeps its shard. *)
EXTENDS Replication

MCNodes == {1, 2}
MCAddrOf == <<"a", "b">>
MCNsOf  == <<"", "x", "x">>
MCSvcOf == <<"s", "t", "s">>
MCHash  == [k \in {"", "x"} \X {"s", "t"} |-> IF k = <<"", "t">> THEN 1 ELSE 0]
=============================================================================
