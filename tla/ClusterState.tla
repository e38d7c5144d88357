---------------------------- MODULE ClusterState ----------------------------
(***************************************************************************)
(* The cluster metadata kept by the Raft state machine                     *)
(* (internal/metadata/state.go) and the three commands that change it      *)
(* (internal/metadata/fsm.go), as pure functions from a state to a state.  *)
(*                                                                         *)
(* A node ID is a string in the code and the code only compares and sorts  *)
(* IDs, so here it is a natural number: its place in the string order.     *)
(* NoNode is the empty string, which sorts before every ID.                *)
(* A node's sorted, duplicate-free list of shards is the set of shards.    *)
(***************************************************************************)
EXTENDS SortedSets

CONSTANTS
  Nodes,        \* IDs of the storage nodes that may ever register
  TotalShards,  \* the number of shards, fixed when the cluster is created
  Addrs         \* the gRPC addresses nodes advertise

ASSUME NodesAssumption == Nodes \subseteq Nat /\ IsFiniteSet(Nodes)
ASSUME ShardsAssumption == TotalShards \in Nat

Shards == 0 .. TotalShards - 1
NoNode == -1
NoAddr == ""

Statuses == {"absent", "healthy", "unhealthy"}

\* Nodes map: status ("absent": no record), address, owned (Shards), lastSeen.
\* Shards map: primary (PrimaryNode) and replica (ReplicaNode).
ClusterStates ==
  [status   : [Nodes -> Statuses],
   address  : [Nodes -> Addrs \cup {NoAddr}],
   owned    : [Nodes -> SUBSET Shards],
   lastSeen : [Nodes -> Nat],
   primary  : [Shards -> Nodes \cup {NoNode}],
   replica  : [Shards -> Nodes \cup {NoNode}]]

NewFSM ==
  [status   |-> [n \in Nodes |-> "absent"],
   address  |-> [n \in Nodes |-> NoAddr],
   owned    |-> [n \in Nodes |-> {}],
   lastSeen |-> [n \in Nodes |-> 0],
   primary  |-> [s \in Shards |-> NoNode],
   replica  |-> [s \in Shards |-> NoNode]]

Healthy(st) == {n \in Nodes : st.status[n] = "healthy"}

-----------------------------------------------------------------------------
(***************************************************************************)
(* Placement.  sort.Strings(healthyIDs)[i] is SortedAt(Healthy(st), i).    *)
(***************************************************************************)
\* The shards are 0 .. TotalShards-1, so a shard is its own place in allShards.
RoundRobin(s, H) == SortedAt(H, s % Cardinality(H))

FirstOther(H, p) == IF H \ {p} = {} THEN NoNode ELSE SortedAt(H \ {p}, 0)

\* Mutant: the nodes' shard lists are not cleared before they are filled again.
rebalancePrimary_KeepsLists(st) ==
  LET H     == Healthy(st)
      owner == [s \in Shards |-> RoundRobin(s, H)]
  IN  IF H = {}
        THEN st
        ELSE [st EXCEPT !.primary = owner,
                        !.owned = [n \in Nodes |->
                           @[n] \cup {s \in Shards : owner[s] = n}]]

\* Mutant: the index is computed from the shard count instead of the node count.
rebalancePrimary_Blocks(st) ==
  LET H     == Healthy(st)
      owner == [s \in Shards |->
                  SortedAt(H, IF s < Cardinality(H) THEN s ELSE 0)]
  IN  IF H = {}
        THEN st
        ELSE [st EXCEPT !.primary = owner,
                        !.owned = [n \in Nodes |-> {s \in Shards : owner[s] = n}]]

rebalancePrimary(st) ==
  LET H     == Healthy(st)
      owner == [s \in Shards |-> RoundRobin(s, H)]
  IN  IF H = {}
        THEN st
        ELSE [st EXCEPT !.primary = owner,
                        !.owned = [n \in Nodes |-> {s \in Shards : owner[s] = n}]]

\* Mutant: the first healthy node is taken even when it is the primary.
assignReplicas_AnyHealthy(st) ==
  [st EXCEPT !.replica =
     [s \in Shards |-> FirstOther(Healthy(st), NoNode)]]

assignReplicas(st) ==
  [st EXCEPT !.replica =
     [s \in Shards |-> FirstOther(Healthy(st), st.primary[s])]]

-----------------------------------------------------------------------------
(***************************************************************************)
(* The commands.                                                           *)
(***************************************************************************)
\* Mutant: a healthy node that registers again is treated as the only member
\* that needs work: its shard list is dropped and only the replicas are redone.
applyRegisterNode_DropsList(st, n, addr, now) ==
  LET fresh == [st EXCEPT !.status[n]   = "healthy",
                          !.address[n]  = addr,
                          !.lastSeen[n] = now,
                          !.owned[n]    = {}]
  IN  IF st.status[n] = "healthy"
        THEN fresh
        ELSE assignReplicas(rebalancePrimary(fresh))

\* Mutant: every registration claims all unowned or foreign shards for itself.
applyRegisterNode_Claims(st, n, addr, now) ==
  [st EXCEPT !.status[n]   = "healthy",
             !.address[n]  = addr,
             !.lastSeen[n] = now,
             !.primary     = [s \in Shards |-> n],
             !.owned       = [m \in Nodes |-> IF m = n THEN Shards ELSE {}],
             !.replica     = [s \in Shards |-> FirstOther(Healthy(st), n)]]

applyRegisterNode(st, n, addr, now) ==
  LET fresh == [st EXCEPT !.status[n]   = "healthy",
                          !.address[n]  = addr,
                          !.lastSeen[n] = now,
                          !.owned[n]    = {}]
  IN  IF st.status[n] = "healthy"
        THEN [st EXCEPT !.address[n] = addr, !.lastSeen[n] = now]
        ELSE assignReplicas(rebalancePrimary(fresh))

\* Mutant: a heartbeat makes the node healthy again.
applyUpdateHeartbeat_Revives(st, n, now) ==
  IF st.status[n] = "absent"
    THEN st ELSE [st EXCEPT !.lastSeen[n] = now, !.status[n] = "healthy"]

\* The command only records the time: an unhealthy node stays unhealthy.
applyUpdateHeartbeat(st, n, now) ==
  IF st.status[n] = "absent" THEN st ELSE [st EXCEPT !.lastSeen[n] = now]

\* Mutant: a status value that no reader knows.
released_Down(st, n) ==
  [st EXCEPT
     !.primary = [s \in Shards |-> IF s \in st.owned[n] THEN NoNode ELSE @[s]],
     !.replica = [s \in Shards |-> IF @[s] = n THEN NoNode ELSE @[s]],
     !.status[n] = "down",
     !.owned[n]  = {}]

\* Primaries are released through the node's own shard list.
released(st, n) ==
  [st EXCEPT
     !.primary = [s \in Shards |-> IF s \in st.owned[n] THEN NoNode ELSE @[s]],
     !.replica = [s \in Shards |-> IF @[s] = n THEN NoNode ELSE @[s]],
     !.status[n] = "unhealthy",
     !.owned[n]  = {}]

\* Mutant: shards are redistributed before the node is set unhealthy.
applyMarkUnhealthy_RebalanceFirst(st, n) ==
  IF st.status[n] = "absent"
    THEN st
    ELSE [assignReplicas(rebalancePrimary(st)) EXCEPT !.status[n] = "unhealthy"]

applyMarkUnhealthy(st, n) ==
  IF st.status[n] = "absent"
    THEN st
    ELSE assignReplicas(rebalancePrimary(released(st, n)))

CmdRegisterNode(n, a, t) == [type |-> "RegisterNode", node |-> n, addr |-> a, now |-> t]
CmdUpdateHeartbeat(n, t)   == [type |-> "UpdateHeartbeat", node |-> n, now |-> t]
CmdMarkUnhealthy(n) == [type |-> "MarkUnhealthy", node |-> n]

Apply(st, cmd) ==
  CASE cmd.type = "RegisterNode" ->
         applyRegisterNode(st, cmd.node, cmd.addr, cmd.now)
    [] cmd.type = "UpdateHeartbeat" ->
         applyUpdateHeartbeat(st, cmd.node, cmd.now)
    [] cmd.type = "MarkUnhealthy" ->
         applyMarkUnhealthy(st, cmd.node)

-----------------------------------------------------------------------------
\* Ownership depends on who is healthy and on nothing else: whatever the order
\* of joins, failures and returns that led to a set of healthy nodes, the shard
\* map is the round-robin one over that set.  With no healthy node left every
\* shard is unowned and every list is empty.
Placement(st) ==
  LET H == Healthy(st)
  IN  /\ \A s \in Shards :
            st.primary[s] = IF H = {} THEN NoNode ELSE RoundRobin(s, H)
      /\ \A n \in Nodes : st.owned[n] = {s \in Shards : st.primary[s] = n}
      /\ \A s \in Shards : st.replica[s] = FirstOther(H, st.primary[s])
=============================================================================
