-------------------------- MODULE Membership_proofs --------------------------
(***************************************************************************)
(* Proofs about cluster membership, for any finite set of nodes and any    *)
(* number of shards and coordinators: the processes around the metadata    *)
(* change it by commands of the state machine only.                        *)
(***************************************************************************)
EXTENDS Membership, ClusterState_proofs

-----------------------------------------------------------------------------
(***************************************************************************)
(* What a command writes besides the placement.                            *)
(***************************************************************************)

\* Redistribution touches neither statuses nor addresses nor times.
LEMMA ReassignKeeps ==
  ASSUME NEW s \in ClusterStates
  PROVE  LET r == assignReplicas(rebalancePrimary(s))
         IN  r.status = s.status /\ r.address = s.address /\ r.lastSeen = s.lastSeen
<1> DEFINE q == rebalancePrimary(s)
<1>1. /\ q.status = s.status /\ q.address = s.address /\ q.lastSeen = s.lastSeen
      /\ DOMAIN q = DOMAIN s
  BY DEF rebalancePrimary, ClusterStates
<1> HIDE DEF q
<1>2. DOMAIN q = {"status", "address", "owned", "lastSeen", "primary", "replica"}
  BY <1>1 DEF ClusterStates
<1>3. assignReplicas(q).status = q.status /\ assignReplicas(q).address = q.address
      /\ assignReplicas(q).lastSeen = q.lastSeen
  BY <1>2 DEF assignReplicas
<1> QED
  BY <1>1, <1>3 DEF q

\* A registration makes the node healthy and writes its address and time.
LEMMA RegisterWrites ==
  ASSUME NEW s \in ClusterStates, NEW n \in Nodes, NEW a \in Addrs, NEW t \in Nat
  PROVE  LET r == applyRegisterNode(s, n, a, t)
         IN  \A m \in Nodes : /\ r.status[m] = IF m = n THEN "healthy" ELSE s.status[m]
                              /\ r.address[m] = IF m = n THEN a ELSE s.address[m]
                              /\ r.lastSeen[m] = IF m = n THEN t ELSE s.lastSeen[m]
<1>1. CASE s.status[n] = "healthy"
  BY <1>1 DEF applyRegisterNode, ClusterStates
<1>2. CASE s.status[n] # "healthy"
  <2> DEFINE f == [s EXCEPT !.status[n] = "healthy", !.address[n] = a,
                            !.lastSeen[n] = t, !.owned[n] = {}]
  <2>1. applyRegisterNode(s, n, a, t) = assignReplicas(rebalancePrimary(f))
    BY <1>2 DEF applyRegisterNode
  <2>2. /\ f \in ClusterStates
        /\ f.status = [s.status EXCEPT ![n] = "healthy"]
        /\ f.address = [s.address EXCEPT ![n] = a]
        /\ f.lastSeen = [s.lastSeen EXCEPT ![n] = t]
    BY Zenon DEF ClusterStates, Statuses
  <2> HIDE DEF f
  <2>3. /\ applyRegisterNode(s, n, a, t).status = f.status
        /\ applyRegisterNode(s, n, a, t).address = f.address
        /\ applyRegisterNode(s, n, a, t).lastSeen = f.lastSeen
    BY <2>1, <2>2, ReassignKeeps
  <2> QED
    BY <2>2, <2>3 DEF ClusterStates
<1> QED
  BY <1>1, <1>2

\* A heartbeat writes the time of a node that has a record.
LEMMA HeartbeatWrites ==
  ASSUME NEW s \in ClusterStates, NEW n \in Nodes, NEW t \in Nat
  PROVE  /\ applyUpdateHeartbeat(s, n, t).status = s.status
         /\ applyUpdateHeartbeat(s, n, t).address = s.address
         /\ \A m \in Nodes : applyUpdateHeartbeat(s, n, t).lastSeen[m] \in {s.lastSeen[m], t}
BY DEF applyUpdateHeartbeat, ClusterStates

\* A mark makes a node that has a record unhealthy.
LEMMA MarkWrites ==
  ASSUME NEW s \in ClusterStates, NEW n \in Nodes
  PROVE  LET r == applyMarkUnhealthy(s, n)
         IN  /\ r.status = IF s.status[n] = "absent"
                             THEN s.status ELSE [s.status EXCEPT ![n] = "unhealthy"]
             /\ r.address = s.address /\ r.lastSeen = s.lastSeen
<1>1. CASE s.status[n] = "absent"
  BY <1>1 DEF applyMarkUnhealthy
<1>2. CASE s.status[n] # "absent"
  <2> DEFINE f == released(s, n)
  <2>1. applyMarkUnhealthy(s, n) = assignReplicas(rebalancePrimary(f))
    BY <1>2 DEF applyMarkUnhealthy
  <2>2. /\ f \in ClusterStates
        /\ f.status = [s.status EXCEPT ![n] = "unhealthy"]
        /\ f.address = s.address /\ f.lastSeen = s.lastSeen
    BY Zenon DEF released, ClusterStates, Statuses
  <2> HIDE DEF f
  <2> QED
    BY <1>2, <2>1, <2>2, ReassignKeeps
<1> QED
  BY <1>1, <1>2

-----------------------------------------------------------------------------
(***************************************************************************)
(* The commands of the abstract state machine, whose states have no times. *)
(***************************************************************************)
Timeless(s) == [s EXCEPT !.lastSeen = [n \in Nodes |-> 0]]

\* The instance's operators on states are those of ClusterState.
LEMMA SamePlacementOps ==
  ASSUME NEW s
  PROVE  /\ FSM!Healthy(s) = Healthy(s)
         /\ FSM!rebalancePrimary(s) = rebalancePrimary(s)
         /\ FSM!assignReplicas(s) = assignReplicas(s)
<1>1. FSM!Healthy(s) = Healthy(s)
  BY Zenon DEF FSM!Healthy, Healthy
<1>2. FSM!Shards = Shards /\ FSM!NoNode = NoNode
  BY DEF FSM!Shards, Shards, FSM!NoNode, NoNode
<1>0. ASSUME NEW S PROVE FSM!Cardinality(S) = Cardinality(S)
  BY Zenon DEF FSM!Cardinality, Cardinality
<1>3. ASSUME NEW H, NEW i PROVE FSM!SortedAt(H, i) = SortedAt(H, i)
  BY <1>0, Zenon DEF FSM!SortedAt, SortedAt, FSM!Rank, Rank
<1>4. ASSUME NEW H, NEW x PROVE FSM!RoundRobin(x, H) = RoundRobin(x, H)
  BY <1>0, <1>3, Zenon DEF FSM!RoundRobin, RoundRobin
<1>5. ASSUME NEW H, NEW p PROVE FSM!FirstOther(H, p) = FirstOther(H, p)
  BY <1>2, <1>3, Zenon DEF FSM!FirstOther, FirstOther
<1>6. FSM!rebalancePrimary(s) = rebalancePrimary(s)
  <2> DEFINE H == Healthy(s)
             owner == [x \in Shards |-> RoundRobin(x, H)]
             lists == [n \in Nodes |-> {x \in Shards : owner[x] = n}]
             other == [x \in Shards |-> FSM!RoundRobin(x, H)]
             them  == [n \in Nodes |-> {x \in Shards : other[x] = n}]
  <2>1. other = owner
    BY <1>4
  <2>2. them = lists
    BY <2>1, Zenon
  <2>3. FSM!rebalancePrimary(s) = IF H = {} THEN s ELSE [s EXCEPT !.primary = other, !.owned = them]
    BY <1>1, <1>2, Zenon DEF FSM!rebalancePrimary
  <2>4. rebalancePrimary(s) = IF H = {} THEN s ELSE [s EXCEPT !.primary = owner, !.owned = lists]
    BY Zenon DEF rebalancePrimary
  <2> QED
    BY <2>1, <2>2, <2>3, <2>4, Zenon
<1>7. FSM!assignReplicas(s) = assignReplicas(s)
  <2> DEFINE mine  == [x \in Shards |-> FirstOther(Healthy(s), s.primary[x])]
             other == [x \in Shards |-> FSM!FirstOther(Healthy(s), s.primary[x])]
  <2>1. other = mine
    BY <1>5
  <2>2. FSM!assignReplicas(s) = [s EXCEPT !.replica = other]
    BY <1>1, <1>2, Zenon DEF FSM!assignReplicas
  <2>3. assignReplicas(s) = [s EXCEPT !.replica = mine]
    BY Zenon DEF assignReplicas
  <2> QED
    BY <2>1, <2>2, <2>3, Zenon
<1> QED
  BY <1>1, <1>6, <1>7

\* Nor do the three commands differ.
LEMMA SameCommands ==
  ASSUME NEW s, NEW n, NEW a, NEW t
  PROVE  /\ FSM!applyRegisterNode(s, n, a, t) = applyRegisterNode(s, n, a, t)
         /\ FSM!applyUpdateHeartbeat(s, n, t) = applyUpdateHeartbeat(s, n, t)
         /\ FSM!applyMarkUnhealthy(s, n) = applyMarkUnhealthy(s, n)
<1>1. FSM!applyRegisterNode(s, n, a, t) = applyRegisterNode(s, n, a, t)
  BY SamePlacementOps, Zenon DEF FSM!applyRegisterNode, applyRegisterNode
<1>2. FSM!applyUpdateHeartbeat(s, n, t) = applyUpdateHeartbeat(s, n, t)
  BY Zenon DEF FSM!applyUpdateHeartbeat, applyUpdateHeartbeat
<1>3. FSM!released(s, n) = released(s, n)
  <2>1. FSM!Shards = Shards /\ FSM!NoNode = NoNode
    BY DEF FSM!Shards, Shards, FSM!NoNode, NoNode
  <2> QED
    BY <2>1, Zenon DEF FSM!released, released
<1>4. FSM!applyMarkUnhealthy(s, n) = applyMarkUnhealthy(s, n)
  BY <1>3, SamePlacementOps, Zenon DEF FSM!applyMarkUnhealthy, applyMarkUnhealthy
<1> QED
  BY <1>1, <1>2, <1>4

\* A step of the abstract machine, in terms of the committed state.
LEMMA AbstractStep ==
  ASSUME NEW n \in Nodes,
         \/ \E a \in Addrs : Timeless(st') = applyRegisterNode(Timeless(st), n, a, 0)
         \/ Timeless(st') = applyUpdateHeartbeat(Timeless(st), n, 0)
         \/ Timeless(st') = applyMarkUnhealthy(Timeless(st), n)
  PROVE  FSM!Next
<1>1. ASSUME NEW a \in Addrs, Timeless(st') = applyRegisterNode(Timeless(st), n, a, 0)
      PROVE  FSM!Next
  <2>1. FSM!RegisterNode(n, a, 0)
    BY <1>1, SameCommands DEF FSM!RegisterNode, FSM!Apply, FSM!CmdRegisterNode, Timeless
  <2> QED
    BY <2>1 DEF FSM!Next
<1>2. CASE Timeless(st') = applyUpdateHeartbeat(Timeless(st), n, 0)
  <2>1. FSM!UpdateHeartbeat(n, 0)
    BY <1>2, SameCommands DEF FSM!UpdateHeartbeat, FSM!Apply, FSM!CmdUpdateHeartbeat, Timeless
  <2> QED
    BY <2>1 DEF FSM!Next
<1>3. CASE Timeless(st') = applyMarkUnhealthy(Timeless(st), n)
  <2>1. FSM!MarkNodeUnhealthy(n)
    BY <1>3, SameCommands DEF FSM!MarkNodeUnhealthy, FSM!Apply, FSM!CmdMarkUnhealthy, Timeless
  <2> QED
    BY <2>1 DEF FSM!Next
<1> QED
  BY <1>1, <1>2, <1>3

\* Two states that agree in every field are equal.
LEMMA SameFields ==
  ASSUME NEW r \in ClusterStates, NEW s \in ClusterStates,
         r.status = s.status, r.address = s.address, r.owned = s.owned,
         r.lastSeen = s.lastSeen, r.primary = s.primary, r.replica = s.replica
  PROVE  r = s
BY DEF ClusterStates

\* Forgetting the times keeps everything else.
LEMMA TimelessFields ==
  ASSUME NEW s \in ClusterStates
  PROVE  LET r == Timeless(s)
         IN  /\ r \in ClusterStates
             /\ r.status = s.status /\ r.address = s.address /\ r.owned = s.owned
             /\ r.primary = s.primary /\ r.replica = s.replica
             /\ r.lastSeen = [n \in Nodes |-> 0]
             /\ Healthy(r) = Healthy(s)
             /\ Placement(s) => Placement(r)
<1> DEFINE r == Timeless(s)
<1>1. /\ r \in ClusterStates
      /\ r.status = s.status /\ r.address = s.address /\ r.owned = s.owned
      /\ r.primary = s.primary /\ r.replica = s.replica
      /\ r.lastSeen = [n \in Nodes |-> 0]
  BY DEF Timeless, ClusterStates
<1> HIDE DEF r
<1>2. Healthy(r) = Healthy(s)
  BY <1>1 DEF Healthy
<1>3. Placement(s) => Placement(r)
  BY <1>1, <1>2 DEF Placement
<1> QED
  BY <1>1, <1>2, <1>3 DEF r

\* Two placed states with the same statuses and addresses differ in times only.
LEMMA SameTimeless ==
  ASSUME NEW r \in ClusterStates, NEW s \in ClusterStates, Placement(r), Placement(s),
         r.status = s.status, r.address = s.address, r.lastSeen = [n \in Nodes |-> 0]
  PROVE  Timeless(s) = r
<1>1. Healthy(r) = Healthy(s)
  BY DEF Healthy
<1>2. r.primary = s.primary /\ r.replica = s.replica /\ r.owned = s.owned
  BY <1>1, SamePlacement
<1>3. Timeless(s) \in ClusterStates
  BY TimelessFields
<1> QED
  BY <1>2, <1>3, TimelessFields, SameFields

-----------------------------------------------------------------------------
(***************************************************************************)
(* What a step does to the committed state.                                *)
(***************************************************************************)
Aged(s) == [s EXCEPT !.lastSeen = [n \in Nodes |-> IF @[n] = 0 THEN 0 ELSE @[n] - 1]]

\* A step commits one command, passes time, or leaves the metadata alone; only
\* a node that is registering has a registration committed.
LEMMA MetadataStep ==
  ASSUME [Next]_vars
  PROVE  \/ st' = st
         \/ \E n \in Nodes : proc[n] = "registering" /\ st' = applyRegisterNode(st, n, NodeAddr, Now)
         \/ \E n \in Nodes : st' = applyUpdateHeartbeat(st, n, Now)
         \/ \E n \in Nodes : st' = applyMarkUnhealthy(st, n)
         \/ st' = Aged(st)
<1>1. \A n \in Nodes : /\ Registered(n) = applyRegisterNode(st, n, NodeAddr, Now)
                       /\ Apply(st, CmdUpdateHeartbeat(n, Now)) = applyUpdateHeartbeat(st, n, Now)
                       /\ Apply(st, CmdMarkUnhealthy(n)) = applyMarkUnhealthy(st, n)
  BY DEF Registered, Apply, CmdRegisterNode, CmdUpdateHeartbeat, CmdMarkUnhealthy
<1>2. ASSUME NEW n \in Nodes, NodeStep(n)
      PROVE  \/ st' = st
             \/ proc[n] = "registering" /\ st' = Registered(n)
             \/ st' = Apply(st, CmdUpdateHeartbeat(n, Now))
  BY <1>2 DEF NodeStep, Start, RegisterOk, RegisterReplyLost, RegisterGivesUp, FinishCatchUp,
     SendHeartbeat, Crash
<1>3. ASSUME NEW c \in Coordinators, NEW n \in Nodes, MarkUnhealthy(c, n)
      PROVE  st' = st \/ st' = Apply(st, CmdMarkUnhealthy(n))
  BY <1>3 DEF MarkUnhealthy
<1>4. Tick => st' = Aged(st)
  BY Zenon DEF Tick, Aged
<1>5. \A c \in Coordinators : CheckLiveness(c) => st' = st
  BY DEF CheckLiveness
<1>6. \A c \in Coordinators \cup {NoLeader} : LeaderChange(c) => st' = st
  BY DEF LeaderChange
<1>7. CASE UNCHANGED vars
  BY <1>7 DEF vars
<1>8. CASE Next
  BY <1>1, <1>2, <1>3, <1>4, <1>5, <1>6, <1>8, ZenonT(60) DEF Next
<1> QED
  BY <1>7, <1>8

\* The clock readings are natural numbers and the address is a known one.
LEMMA Readings == Now \in Nat /\ NodeAddr \in Addrs
BY MembershipAssumption DEF Now

\* Time passing changes times only, and towards the past.
LEMMA AgedFields ==
  ASSUME NEW s \in ClusterStates
  PROVE  LET r == Aged(s)
         IN  /\ r \in ClusterStates
             /\ r.status = s.status /\ r.address = s.address
             /\ \A n \in Nodes : r.lastSeen[n] <= s.lastSeen[n]
             /\ Placement(s) => Placement(r)
<1> DEFINE r == Aged(s)
           older == [n \in Nodes |-> IF s.lastSeen[n] = 0 THEN 0 ELSE s.lastSeen[n] - 1]
<1>1. r = [s EXCEPT !.lastSeen = older]
  BY DEF Aged, ClusterStates
<1>2. older \in [Nodes -> Nat] /\ \A n \in Nodes : older[n] <= s.lastSeen[n]
  BY DEF ClusterStates
<1> HIDE DEF older, r
<1>3. /\ r \in ClusterStates
      /\ r.status = s.status /\ r.address = s.address /\ r.owned = s.owned
      /\ r.primary = s.primary /\ r.replica = s.replica /\ r.lastSeen = older
  BY <1>1, <1>2 DEF ClusterStates
<1>4. Healthy(r) = Healthy(s)
  BY <1>3 DEF Healthy
<1>5. Placement(s) => Placement(r)
  BY <1>3, <1>4 DEF Placement
<1> QED
  BY <1>2, <1>3, <1>5, Zenon DEF r

-----------------------------------------------------------------------------
(***************************************************************************)
(* The inductive invariant: the type, and the placement that the commands  *)
(* need to keep the shard lists and the shard map together.                *)
(***************************************************************************)
MInv == TypeOK /\ Placement(st)

\* The committed state keeps its shape, its placement and its bound on times.
LEMMA StatePreserved ==
  ASSUME MInv, [Next]_vars
  PROVE  /\ st' \in ClusterStates /\ Placement(st')
         /\ \A n \in Nodes : st'.lastSeen[n] <= Now
<1>1. st \in ClusterStates /\ Placement(st) /\ \A n \in Nodes : st.lastSeen[n] <= Now
  BY DEF MInv, TypeOK
<1>2. Now \in Nat /\ NodeAddr \in Addrs /\ st.lastSeen \in [Nodes -> Nat]
  BY <1>1, Readings DEF ClusterStates
<1> HIDE DEF Now
<1>3. ASSUME NEW n \in Nodes, st' = applyRegisterNode(st, n, NodeAddr, Now)
      PROVE  st' \in ClusterStates /\ Placement(st') /\ \A m \in Nodes : st'.lastSeen[m] <= Now
  <2>1. \A m \in Nodes : st'.lastSeen[m] = IF m = n THEN Now ELSE st.lastSeen[m]
    BY <1>1, <1>2, <1>3, RegisterWrites, SMTT(30)
  <2>2. \A m \in Nodes : st'.lastSeen[m] <= Now
    BY <1>1, <1>2, <2>1
  <2>3. st' \in ClusterStates /\ Placement(st')
    BY <1>1, <1>2, <1>3, RegisterPreserves, ZenonT(60)
  <2> QED
    BY <2>2, <2>3
<1>4. ASSUME NEW n \in Nodes, st' = applyUpdateHeartbeat(st, n, Now)
      PROVE  st' \in ClusterStates /\ Placement(st') /\ \A m \in Nodes : st'.lastSeen[m] <= Now
  <2>1. \A m \in Nodes : st'.lastSeen[m] \in {st.lastSeen[m], Now}
    BY <1>1, <1>2, <1>4, HeartbeatWrites, ZenonT(60)
  <2>2. \A m \in Nodes : st'.lastSeen[m] <= Now
    BY <1>1, <1>2, <2>1
  <2>3. st' \in ClusterStates /\ Placement(st')
    BY <1>1, <1>2, <1>4, HeartbeatPreserves, ZenonT(60)
  <2> QED
    BY <2>2, <2>3
<1>5. ASSUME NEW n \in Nodes, st' = applyMarkUnhealthy(st, n)
      PROVE  st' \in ClusterStates /\ Placement(st') /\ \A m \in Nodes : st'.lastSeen[m] <= Now
  <2>1. st'.lastSeen = st.lastSeen
    BY <1>1, <1>5, MarkWrites, Zenon
  <2> QED
    BY <1>1, <1>5, <2>1, MarkPreserves, ZenonT(60)
<1>6. CASE st' = Aged(st)
  <2>1. st' \in ClusterStates /\ Placement(st') /\ \A m \in Nodes : st'.lastSeen[m] <= st.lastSeen[m]
    BY <1>1, <1>6, AgedFields
  <2>2. st'.lastSeen \in [Nodes -> Nat]
    BY <2>1 DEF ClusterStates
  <2> QED
    BY <1>1, <1>2, <2>1, <2>2
<1> QED
  BY <1>1, <1>3, <1>4, <1>5, <1>6, MetadataStep, Zenon

\* Every step of nodes, leader and checker.
LEMMA StepPreservesMInv ==
  ASSUME MInv, [Next]_vars
  PROVE  MInv'
<1>1. /\ st' \in ClusterStates /\ Placement(st')
      /\ \A n \in Nodes : st'.lastSeen[n] <= Now
  BY StatePreserved
<1>2. StaleNodes \in SUBSET Nodes
  BY DEF StaleNodes, Healthy
<1>3. /\ leader' \in Coordinators \cup {NoLeader}
      /\ pending' \in [Coordinators -> SUBSET Nodes]
      /\ proc' \in [Nodes -> ProcStates]
  <2> USE DEF MInv, TypeOK
  <2>1. ASSUME NEW n \in Nodes, NodeStep(n)
        PROVE  leader' = leader /\ pending' = pending /\ proc' \in [Nodes -> ProcStates]
    BY <2>1 DEF NodeStep, Start, RegisterOk, RegisterReplyLost, RegisterGivesUp, FinishCatchUp,
       SendHeartbeat, Crash, ProcStates
  <2>2. ASSUME NEW c \in Coordinators \cup {NoLeader}, LeaderChange(c)
        PROVE  leader' \in Coordinators \cup {NoLeader} /\ pending' = pending /\ proc' = proc
    BY <2>2 DEF LeaderChange
  <2>3. ASSUME NEW c \in Coordinators, CheckLiveness(c)
        PROVE  leader' = leader /\ pending' \in [Coordinators -> SUBSET Nodes] /\ proc' = proc
    BY <1>2, <2>3 DEF CheckLiveness
  <2>4. ASSUME NEW c \in Coordinators, NEW n \in Nodes, MarkUnhealthy(c, n)
        PROVE  leader' = leader /\ pending' \in [Coordinators -> SUBSET Nodes] /\ proc' = proc
    BY <2>4 DEF MarkUnhealthy
  <2>5. CASE Tick
    BY <2>5 DEF Tick
  <2>6. CASE UNCHANGED vars
    BY <2>6 DEF vars
  <2> QED
    BY <2>1, <2>2, <2>3, <2>4, <2>5, <2>6, ZenonT(60) DEF Next
<1> QED
  BY <1>1, <1>3 DEF MInv, TypeOK, Now

\* An empty cluster is well placed.
LEMMA InitMInv == Init => MInv
<1> SUFFICES ASSUME Init PROVE MInv
  OBVIOUS
<1>1. st = NewFSM
  BY DEF Init
<1>2. NewFSM \in ClusterStates /\ \A n \in Nodes : NewFSM.lastSeen[n] = 0
  BY DEF NewFSM, ClusterStates, Statuses, Shards
<1>3. Healthy(NewFSM) = {}
  BY Zenon DEF NewFSM, Healthy
<1>4. Placement(NewFSM)
  BY <1>3, NoNodeNotANode, Zenon DEF NewFSM, Placement, FirstOther
<1> QED
  BY <1>1, <1>2, <1>4, Readings DEF MInv, TypeOK, Init, ProcStates

\* The metadata keeps its shape and no recorded time is ahead of the present,
\* whatever the nodes, the leader and the checker do.
THEOREM TypeCorrect == Spec => []TypeOK
<1>1. MInv => TypeOK
  BY DEF MInv
<1> QED
  BY <1>1, InitMInv, StepPreservesMInv, PTL DEF Spec

\* Only a node that is registering becomes healthy: neither heartbeats nor the
\* liveness checker revive a record.
THEOREM OnlyRegistrationRevivesTheorem == Spec => OnlyRegistrationRevives
<1>1. ASSUME MInv, [Next]_vars
      PROVE  [\A n \in Nodes : (st.status[n] # "healthy" /\ st'.status[n] = "healthy")
                                  => proc[n] = "registering"]_vars
  <2> SUFFICES ASSUME NEW m \in Nodes, st.status[m] # "healthy", st'.status[m] = "healthy"
               PROVE  proc[m] = "registering"
    BY Zenon
  <2>1. st \in ClusterStates /\ st.status \in [Nodes -> Statuses]
    BY <1>1 DEF MInv, TypeOK, ClusterStates
  <2>2. ASSUME NEW n \in Nodes, proc[n] = "registering", st' = applyRegisterNode(st, n, NodeAddr, Now)
        PROVE  proc[m] = "registering"
    <3>1. st'.status[m] = IF m = n THEN "healthy" ELSE st.status[m]
      BY <2>1, <2>2, Readings, RegisterWrites
    <3> QED
      BY <2>2, <3>1
  <2>3. ASSUME NEW n \in Nodes, st' = applyUpdateHeartbeat(st, n, Now)
        PROVE  FALSE
    BY <2>1, <2>3, Readings, HeartbeatWrites, ZenonT(60)
  <2>4. ASSUME NEW n \in Nodes, st' = applyMarkUnhealthy(st, n)
        PROVE  FALSE
    <3>1. st'.status = st.status \/ st'.status = [st.status EXCEPT ![n] = "unhealthy"]
      BY <2>1, <2>4, MarkWrites, Zenon
    <3> QED
      BY <2>1, <3>1
  <2>5. st' # Aged(st) /\ st' # st
    BY <2>1, AgedFields, Zenon
  <2> QED
    BY <1>1, <2>2, <2>3, <2>4, <2>5, MetadataStep, ZenonT(60)
<1> QED
  BY <1>1, InitMInv, StepPreservesMInv, PTL DEF Spec, OnlyRegistrationRevives

\* Each step, with the times left out, is a command of the state machine or
\* leaves its state as it was.
LEMMA StepRefines ==
  ASSUME MInv, [Next]_vars
  PROVE  [FSM!Next]_(FSM!vars)
<1>1. st \in ClusterStates /\ Placement(st) /\ st' \in ClusterStates /\ Placement(st')
  BY StatePreserved DEF MInv, TypeOK
<1> DEFINE s == Timeless(st)
<1>2. /\ s \in ClusterStates /\ Placement(s) /\ s.status = st.status /\ s.address = st.address
      /\ s.lastSeen = [n \in Nodes |-> 0] /\ 0 \in Nat
  BY <1>1, TimelessFields
<1>3. Timeless(st') = s => UNCHANGED FSM!vars
  BY Zenon DEF FSM!vars, Timeless
<1> HIDE DEF s
<1>4. ASSUME NEW n \in Nodes, st' = applyRegisterNode(st, n, NodeAddr, Now)
      PROVE  FSM!Next
  <2> DEFINE r == applyRegisterNode(s, n, NodeAddr, 0)
  <2>1. r \in ClusterStates /\ Placement(r)
    BY <1>2, Readings, RegisterPreserves, ZenonT(60)
  <2>2. \A m \in Nodes : /\ r.status[m] = IF m = n THEN "healthy" ELSE s.status[m]
                         /\ r.address[m] = IF m = n THEN NodeAddr ELSE s.address[m]
                         /\ r.lastSeen[m] = IF m = n THEN 0 ELSE s.lastSeen[m]
    BY <1>2, Readings, RegisterWrites
  <2>3. \A m \in Nodes : /\ st'.status[m] = IF m = n THEN "healthy" ELSE st.status[m]
                         /\ st'.address[m] = IF m = n THEN NodeAddr ELSE st.address[m]
    BY <1>1, <1>4, Readings, RegisterWrites, SMTT(30)
  <2> HIDE DEF r
  <2>4. r.status = st'.status /\ r.address = st'.address /\ r.lastSeen = [x \in Nodes |-> 0]
    BY <1>1, <1>2, <2>1, <2>2, <2>3 DEF ClusterStates
  <2>5. Timeless(st') = r
    BY <1>1, <2>1, <2>4, SameTimeless, ZenonT(60)
  <2> QED
    BY <2>5, Readings, AbstractStep, Zenon DEF r, s
<1>5. ASSUME NEW n \in Nodes, st' = applyUpdateHeartbeat(st, n, Now)
      PROVE  UNCHANGED FSM!vars
  <2>1. st'.status = s.status /\ st'.address = s.address
    BY <1>1, <1>2, <1>5, Readings, HeartbeatWrites, ZenonT(60)
  <2>2. Timeless(st') = s
    BY <1>1, <1>2, <2>1, SameTimeless, ZenonT(60)
  <2> QED
    BY <1>3, <2>2, Zenon
<1>6. ASSUME NEW n \in Nodes, st' = applyMarkUnhealthy(st, n)
      PROVE  FSM!Next
  <2> DEFINE r == applyMarkUnhealthy(s, n)
  <2>1. r \in ClusterStates /\ Placement(r)
    BY <1>2, MarkPreserves, Zenon
  <2>2. /\ r.status = IF s.status[n] = "absent" THEN s.status ELSE [s.status EXCEPT ![n] = "unhealthy"]
        /\ r.address = s.address /\ r.lastSeen = s.lastSeen
    BY <1>2, MarkWrites, Zenon
  <2>3. /\ st'.status = IF st.status[n] = "absent" THEN st.status ELSE [st.status EXCEPT ![n] = "unhealthy"]
        /\ st'.address = st.address
    BY <1>1, <1>6, MarkWrites, ZenonT(60)
  <2> HIDE DEF r
  <2>4. r.status = st'.status /\ r.address = st'.address /\ r.lastSeen = [x \in Nodes |-> 0]
    BY <1>2, <2>2, <2>3, ZenonT(60)
  <2>5. Timeless(st') = r
    BY <1>1, <2>1, <2>4, SameTimeless, Zenon
  <2> QED
    BY <2>5, AbstractStep, Zenon DEF r, s
<1>7. CASE st' = Aged(st)
  <2>1. st'.status = s.status /\ st'.address = s.address
    BY <1>1, <1>2, <1>7, AgedFields, ZenonT(60)
  <2>2. Timeless(st') = s
    BY <1>1, <1>2, <2>1, SameTimeless, ZenonT(60)
  <2> QED
    BY <1>3, <2>2
<1>8. CASE st' = st
  BY <1>3, <1>8, Zenon DEF s
<1> QED
  BY <1>4, <1>5, <1>6, <1>7, <1>8, MetadataStep, ZenonT(60)

\* Membership implements the metadata state machine: what MetadataFSM promises
\* of every command sequence holds of the state that nodes, leader changes and
\* the liveness checker produce.
THEOREM ImplementsFSMTheorem == Spec => ImplementsFSM
<1>1. Init => FSM!Init
  <2> SUFFICES ASSUME Init PROVE FSM!Init
    OBVIOUS
  <2>1. FSM!Shards = Shards /\ FSM!NoNode = NoNode /\ FSM!NoAddr = NoAddr
    BY DEF FSM!Shards, Shards, FSM!NoNode, NoNode, FSM!NoAddr, NoAddr
  <2>2. FSM!NewFSM = NewFSM
    BY <2>1, Zenon DEF FSM!NewFSM, NewFSM
  <2>3. [NewFSM EXCEPT !.lastSeen = [n \in Nodes |-> 0]] = NewFSM
    BY SMTT(30) DEF NewFSM
  <2> QED
    BY <2>2, <2>3, Zenon DEF Init, FSM!Init
<1> QED
  BY <1>1, InitMInv, StepPreservesMInv, StepRefines, PTL DEF Spec, ImplementsFSM, FSM!Spec
==============================================================================
