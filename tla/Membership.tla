----------------------------- MODULE Membership -----------------------------
(***************************************************************************)
(* Cluster membership over time: storage-node processes that start,        *)
(* register, catch up, heartbeat and crash (cmd/node/main.go and           *)
(* internal/cluster), and the liveness checker that runs on the leading    *)
(* coordinator (internal/metadata/liveness.go).  The Raft cluster appears  *)
(* as what it offers the code: one committed metadata state st, a leader   *)
(* that can change or be missing, and commands only the leader commits.    *)
(*                                                                         *)
(* Time is counted in heartbeat intervals, and the present is always the   *)
(* instant Now: when an interval passes, every recorded LastSeen moves one *)
(* interval into the past.  0 stands for everything older than the         *)
(* timeout.  Coordinators are taken to read the same clock.                *)
(***************************************************************************)
EXTENDS ClusterState

CONSTANTS
  Coordinators,  \* the coordinator processes
  NoLeader,      \* an election is in progress
  Timeout,       \* heartbeat timeout, in heartbeat intervals
  NodeAddr       \* the address a node advertises

ASSUME MembershipAssumption ==
  /\ Timeout \in Nat \ {0}
  /\ NodeAddr \in Addrs
  /\ NoLeader \notin Coordinators

VARIABLES
  st,       \* the committed cluster state
  leader,   \* the coordinator whose raft.State() is Leader
  pending,  \* per coordinator: nodes checkLiveness found stale and has yet to mark
  proc      \* per node: where main.go is

vars == <<st, leader, pending, proc>>

Now == Timeout + 1
ProcStates == {"down", "registering", "catchup", "serving", "local"}

Stale(n) == Now - st.lastSeen[n] > Timeout

Init ==
  /\ st = NewFSM
  /\ leader \in Coordinators
  /\ pending = [c \in Coordinators |-> {}]
  /\ proc = [n \in Nodes |-> "down"]

-----------------------------------------------------------------------------
(* Storage node                                                            *)

Start(n) ==
  /\ proc[n] = "down"
  /\ proc' = [proc EXCEPT ![n] = "registering"]
  /\ UNCHANGED <<st, leader, pending>>

Registered(n) == Apply(st, CmdRegisterNode(n, NodeAddr, Now))

\* Register reaches the leader and its reply the node.
RegisterOk(n) ==
  /\ proc[n] = "registering" /\ leader # NoLeader
  /\ st' = Registered(n)
  /\ proc' = [proc EXCEPT ![n] = "catchup"]
  /\ UNCHANGED <<leader, pending>>

\* The command commits, the reply is lost (Unavailable) and Register tries again.
RegisterReplyLost(n) ==
  /\ proc[n] = "registering" /\ leader # NoLeader
  /\ st' = Registered(n)
  /\ UNCHANGED <<leader, pending, proc>>

\* Register returns an error: its 30 s ran out without a leader, or the leader
\* answered Internal, with the command committed or not.  The node starts in
\* local-only mode, without heartbeats.
RegisterGivesUp(n) ==
  /\ proc[n] = "registering"
  /\ st' = st \/ (leader # NoLeader /\ st' = Registered(n))
  /\ proc' = [proc EXCEPT ![n] = "local"]
  /\ UNCHANGED <<leader, pending>>

\* CatchUp returns; the heartbeat sender and the gRPC server start.
FinishCatchUp(n) ==
  /\ proc[n] = "catchup"
  /\ proc' = [proc EXCEPT ![n] = "serving"]
  /\ UNCHANGED <<st, leader, pending>>

SendHeartbeat(n) ==
  /\ proc[n] = "serving" /\ leader # NoLeader
  /\ st' = Apply(st, CmdUpdateHeartbeat(n, Now))
  /\ UNCHANGED <<leader, pending, proc>>

Crash(n) ==
  /\ proc[n] # "down"
  /\ proc' = [proc EXCEPT ![n] = "down"]
  /\ UNCHANGED <<st, leader, pending>>

-----------------------------------------------------------------------------
(* Coordinators                                                            *)

LeaderChange(c) ==
  /\ c # leader
  /\ leader' = c
  /\ UNCHANGED <<st, pending, proc>>

\* Mutant: only nodes that own a primary shard are examined.
StaleNodes_Owners == {n \in Healthy(st) : Stale(n) /\ st.owned[n] # {}}

StaleNodes == {n \in Healthy(st) : Stale(n)}

\* checkLiveness takes one snapshot of the state and decides from it.
CheckLiveness(c) ==
  /\ leader = c /\ pending[c] = {} /\ StaleNodes # {}
  /\ pending' = [pending EXCEPT ![c] = StaleNodes]
  /\ UNCHANGED <<st, leader, proc>>

\* Mutant: the checker edits the state itself instead of committing a command.
MarkUnhealthy_Direct(c, n) ==
  /\ n \in pending[c]
  /\ pending' = [pending EXCEPT ![c] = @ \ {n}]
  /\ st' = [st EXCEPT !.status[n] = "unhealthy"]
  /\ UNCHANGED <<leader, proc>>

\* One r.Apply per stale node; it fails when leadership was lost meanwhile.
MarkUnhealthy(c, n) ==
  /\ n \in pending[c]
  /\ pending' = [pending EXCEPT ![c] = @ \ {n}]
  /\ st' = IF leader = c THEN Apply(st, CmdMarkUnhealthy(n)) ELSE st
  /\ UNCHANGED <<leader, proc>>

\* One heartbeat interval passes.  A serving node that can reach a leader has
\* sent its heartbeat within it.
Tick ==
  /\ \A n \in Nodes : (proc[n] = "serving" /\ leader # NoLeader) => st.lastSeen[n] = Now
  /\ st' = [st EXCEPT !.lastSeen = [n \in Nodes |-> IF @[n] = 0 THEN 0 ELSE @[n] - 1]]
  /\ UNCHANGED <<leader, pending, proc>>

-----------------------------------------------------------------------------
NodeStep(n) ==
  \/ Start(n) \/ RegisterOk(n) \/ RegisterReplyLost(n) \/ RegisterGivesUp(n)
  \/ FinishCatchUp(n) \/ SendHeartbeat(n) \/ Crash(n)

Next ==
  \/ \E n \in Nodes : NodeStep(n)
  \/ \E c \in Coordinators \cup {NoLeader} : LeaderChange(c)
  \/ \E c \in Coordinators : CheckLiveness(c)
  \/ \E c \in Coordinators, n \in Nodes : MarkUnhealthy(c, n)
  \/ Tick

\* Timers fire and running goroutines make progress.  Nothing is assumed of
\* crashes, restarts, lost replies or elections.
Fairness ==
  /\ WF_vars(Tick)
  /\ \A n \in Nodes : WF_vars(RegisterOk(n)) /\ WF_vars(FinishCatchUp(n)) /\ WF_vars(SendHeartbeat(n))
  /\ \A c \in Coordinators :
        WF_vars(CheckLiveness(c)) /\ \A n \in Nodes : WF_vars(MarkUnhealthy(c, n))

Spec == Init /\ [][Next]_vars
FairSpec == Spec /\ Fairness

-----------------------------------------------------------------------------
\* The metadata keeps its shape and clocks never run ahead of the present.
TypeOK ==
  /\ st \in ClusterStates /\ \A n \in Nodes : st.lastSeen[n] <= Now
  /\ leader \in Coordinators \cup {NoLeader}
  /\ pending \in [Coordinators -> SUBSET Nodes]
  /\ proc \in [Nodes -> ProcStates]

\* A node's record turns healthy only while that node is registering: neither a
\* heartbeat nor the checker revives it.
OnlyRegistrationRevives ==
  [][\A n \in Nodes :
       (st.status[n] # "healthy" /\ st'.status[n] = "healthy") => proc[n] = "registering"]_vars

\* Failover: once a leader stays and a set of nodes stays dead, eventually no
\* shard has a dead primary or replica, for good.
FailoverCompletes ==
  \A n \in Nodes : \A c \in Coordinators :
     <>[](leader = c /\ proc[n] = "down")
       => <>[](\A s \in Shards : n \notin {st.primary[s], st.replica[s]})

\* Every change of the metadata is one command of the state machine, so what
\* MetadataFSM proves of every command sequence holds here (times left out).
FSM == INSTANCE MetadataFSM WITH
          Times <- {0}, state <- [st EXCEPT !.lastSeen = [n \in Nodes |-> 0]]
ImplementsFSM == FSM!Spec

\* A node that restarted, registered and keeps heartbeating to a stable leader
\* is eventually healthy for good.
RejoinedNodeHealthy ==
  \A n \in Nodes : \A c \in Coordinators :
     <>[](leader = c /\ proc[n] = "serving") => <>[](st.status[n] = "healthy")

=============================================================================
