------------------------- MODULE CoordinatorCluster -------------------------
(***************************************************************************)
(* The replicated metadata: every coordinator applies the committed Raft   *)
(* log to its own FSM (internal/metadata/fsm.go), takes snapshots of it,   *)
(* crashes and restores from the last one, or receives another's snapshot  *)
(* when it is behind.  Storage nodes poll any coordinator into a cache     *)
(* (internal/cluster/state_cache.go), which routes their writes.           *)
(*                                                                         *)
(* Raft is the library hashicorp/raft: it appears as one committed log     *)
(* that each coordinator applies in order, and a snapshot store.           *)
(***************************************************************************)
EXTENDS ClusterState

CONSTANTS
  Coordinators,  \* coordinator processes
  Pollers,       \* the storage nodes whose caches are followed
  Commands,      \* commands that may be proposed
  MaxLog         \* bound on the committed log

ASSUME LogAssumption == MaxLog \in Nat /\ Pollers \subseteq Nodes

\* What the services propose: the commands of the FSM, with clock readings.
ASSUME CommandsAssumption ==
  \A cmd \in Commands : \E n \in Nodes :
     \/ cmd = CmdMarkUnhealthy(n)
     \/ /\ "now" \in DOMAIN cmd /\ cmd.now \in Nat
        /\ \/ cmd = CmdUpdateHeartbeat(n, cmd.now)
           \/ \E a \in Addrs : cmd = CmdRegisterNode(n, a, cmd.now)

VARIABLES
  log,      \* committed commands (external: hashicorp/raft)
  states,   \* history: the state one FSM reaches after each prefix of log
  up,       \* per coordinator: the process runs
  fsm,      \* per coordinator: FSM.state
  applied,  \* per coordinator: how much of the log is in fsm
  snap,     \* per coordinator: stored snapshot [index, state]
  cache     \* per storage node: StateCache.state

vars == <<log, states, up, fsm, applied, snap, cache>>

\* What applying the first k commands to a new FSM gives.
StateAfter(k) == states[k + 1]

\* GetClusterState and protoToClusterState: LastSeen does not reach the node.
protoToClusterState_Swapped(state) ==
  [state EXCEPT !.lastSeen = [n \in Nodes |-> 0], !.primary = state.replica, !.replica = state.primary]
protoToClusterState(state) == [state EXCEPT !.lastSeen = [n \in Nodes |-> 0]]

Init ==
  /\ log = <<>> /\ states = <<NewFSM>>
  /\ up = [c \in Coordinators |-> TRUE]
  /\ fsm = [c \in Coordinators |-> NewFSM]
  /\ applied = [c \in Coordinators |-> 0]
  /\ snap = [c \in Coordinators |-> [index |-> 0, state |-> NewFSM]]
  /\ cache = [n \in Pollers |-> protoToClusterState(NewFSM)]

\* A command proposed through the leader commits.
Commit(cmd) ==
  /\ Len(log) < MaxLog
  /\ log' = Append(log, cmd)
  /\ states' = Append(states, Apply(Last(states), cmd))
  /\ UNCHANGED <<up, fsm, applied, snap, cache>>

\* FSM.Apply of the next committed command.
ApplyNext(c) ==
  /\ up[c] /\ applied[c] < Len(log)
  /\ fsm' = [fsm EXCEPT ![c] = Apply(@, log[applied[c] + 1])]
  /\ applied' = [applied EXCEPT ![c] = @ + 1]
  /\ UNCHANGED <<log, states, up, snap, cache>>

\* What Persist writes and Restore reads back: encoding/json of the whole
\* ClusterState, whose maps of strings, ints and int slices it returns as they were.
Persisted_NoReplicas(state) == [state EXCEPT !.replica = [s \in Shards |-> NoNode]]
Persisted(state) == state

\* FSM.Snapshot and Persist, at an index the coordinator has applied.
Snapshot(c) ==
  /\ up[c] /\ snap[c].index < applied[c]
  /\ snap' = [snap EXCEPT ![c] = [index |-> applied[c], state |-> Persisted(fsm[c])]]
  /\ UNCHANGED <<log, states, up, fsm, applied, cache>>

Crash(c) ==
  /\ up[c]
  /\ up' = [up EXCEPT ![c] = FALSE]
  /\ fsm' = [fsm EXCEPT ![c] = NewFSM]
  /\ applied' = [applied EXCEPT ![c] = 0]
  /\ UNCHANGED <<log, states, snap, cache>>

\* NewRaft calls FSM.Restore, which replaces the state, with the last snapshot;
\* the log after it is applied again.
Restart(c) ==
  /\ ~up[c]
  /\ up' = [up EXCEPT ![c] = TRUE]
  /\ fsm' = [fsm EXCEPT ![c] = snap[c].state]
  /\ applied' = [applied EXCEPT ![c] = snap[c].index]
  /\ UNCHANGED <<log, states, snap, cache>>

\* A coordinator that is behind d's snapshot is sent that snapshot.
InstallSnapshot(c, d) ==
  /\ up[c] /\ applied[c] < snap[d].index
  /\ fsm' = [fsm EXCEPT ![c] = snap[d].state]
  /\ applied' = [applied EXCEPT ![c] = snap[d].index]
  /\ snap' = [snap EXCEPT ![c] = snap[d]]
  /\ UNCHANGED <<log, states, up, cache>>

\* StateCache.refresh from whichever coordinator the node is connected to.
Refresh(n, c) ==
  /\ up[c]
  /\ cache' = [cache EXCEPT ![n] = protoToClusterState(fsm[c])]
  /\ UNCHANGED <<log, states, up, fsm, applied, snap>>

Next ==
  \/ \E cmd \in Commands : Commit(cmd)
  \/ \E c \in Coordinators :
        \/ ApplyNext(c) \/ Snapshot(c) \/ Crash(c) \/ Restart(c)
        \/ \E d \in Coordinators : InstallSnapshot(c, d)
        \/ \E n \in Pollers : Refresh(n, c)

Spec == Init /\ [][Next]_vars

-----------------------------------------------------------------------------
\* Every coordinator's state is the log prefix it has applied, whatever mix of
\* replay, crash, snapshot and restore got it there: two coordinators that have
\* applied the same commands answer alike.
ReplicasAgree ==
  \A c \in Coordinators :
     /\ up[c] => fsm[c] = StateAfter(applied[c])
     /\ snap[c].state = StateAfter(snap[c].index)

\* A node routes by a state the cluster really was in, perhaps an old one: the
\* primary, the replica and the addresses it uses were assigned together.
CacheIsPastState ==
  \A n \in Pollers : \E k \in 0..Len(log) :
     /\ cache[n].primary = StateAfter(k).primary
     /\ cache[n].replica = StateAfter(k).replica
     /\ cache[n].address = StateAfter(k).address

=============================================================================
