----------------------------- MODULE MetadataFSM -----------------------------
(***************************************************************************)
(* The metadata state machine as one copy: what the replicated coordinator *)
(* cluster promises.  Each step is one committed command.                  *)
(***************************************************************************)
EXTENDS ClusterState

CONSTANT Times  \* the times a coordinator may read from its clock

ASSUME TimesAssumption == Times \subseteq Nat

VARIABLE state

vars == <<state>>

Init == state = NewFSM

RegisterNode(n, a, t) == state' = Apply(state, CmdRegisterNode(n, a, t))

UpdateHeartbeat(n, t) == state' = Apply(state, CmdUpdateHeartbeat(n, t))

MarkNodeUnhealthy(n) == state' = Apply(state, CmdMarkUnhealthy(n))

Next ==
  \E n \in Nodes :
     \/ \E a \in Addrs, t \in Times : RegisterNode(n, a, t)
     \/ \E t \in Times : UpdateHeartbeat(n, t)
     \/ MarkNodeUnhealthy(n)

Spec == Init /\ [][Next]_vars

-----------------------------------------------------------------------------
\* The metadata always has its declared shape: a command never stores a value
\* of the wrong kind in a node or shard record.
TypeOK == state \in ClusterStates

\* Shards are only ever assigned to healthy nodes: after any sequence of
\* registrations, heartbeats and failures no primary or replica slot names a
\* node that is unhealthy or was never registered.  In particular marking the
\* last healthy node unhealthy, where rebalancePrimary returns early, still
\* releases every shard.
OwnersAreHealthy ==
  \A s \in Shards :
     {state.primary[s], state.replica[s]} \subseteq Healthy(state) \cup {NoNode}

\* No shard is left without an owner while a healthy node exists, and every
\* shard has a replica on another node while two healthy nodes exist.
EveryShardServed ==
  \A s \in Shards :
     /\ Healthy(state) # {} => state.primary[s] # NoNode
     /\ \A n \in Healthy(state) :
           n # state.primary[s] => state.replica[s] # NoNode
     /\ state.replica[s] # NoNode => state.replica[s] # state.primary[s]

\* A node's own shard list and the shard map say the same thing.
\* applyMarkUnhealthy releases primaries through the list alone, so a list that
\* missed a shard would leave that shard with a dead primary.
OwnedListsMatch ==
  \A n \in Nodes : state.owned[n] = {s \in Shards : state.primary[s] = n}

\* After every command the shard map is the one Placement describes: the path that
\* led to a set of healthy nodes leaves no trace in it.
PlacementFollowsMembership == Placement(state)

\* The shards are spread evenly: two healthy nodes differ by at most one shard.
Balanced ==
  \A m, n \in Healthy(state) :
     Cardinality(state.owned[m]) <= Cardinality(state.owned[n]) + 1

\* Ownership moves only when the set of healthy nodes changes: a heartbeat, a
\* registration of a healthy node that restarted, or a second MarkUnhealthy of
\* the same node never moves a shard.
StableOwnership ==
  [][Healthy(state') = Healthy(state) =>
       /\ state'.primary = state.primary
       /\ state'.replica = state.replica
       /\ state'.owned = state.owned]_vars
=============================================================================
