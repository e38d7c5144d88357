---------------------- MODULE CoordinatorCluster_proofs ----------------------
(***************************************************************************)
(* Proofs about the replicated metadata, for any number of coordinators,   *)
(* storage nodes, shards and commands: replay, crash, restore and snapshot *)
(* transfer never take a coordinator off the committed history.            *)
(***************************************************************************)
EXTENDS CoordinatorCluster, ClusterState_proofs

-----------------------------------------------------------------------------
\* Every proposed command takes a placed state to a placed state.
LEMMA ApplyPreserves ==
  ASSUME NEW s \in ClusterStates, Placement(s), NEW cmd \in Commands
  PROVE  Apply(s, cmd) \in ClusterStates /\ Placement(Apply(s, cmd))
<1>1. PICK n \in Nodes :
         \/ cmd = CmdMarkUnhealthy(n)
         \/ /\ cmd.now \in Nat
            /\ \/ cmd = CmdUpdateHeartbeat(n, cmd.now)
               \/ \E a \in Addrs : cmd = CmdRegisterNode(n, a, cmd.now)
  BY CommandsAssumption
<1>2. ASSUME NEW a \in Addrs, NEW t \in Nat, cmd = CmdRegisterNode(n, a, t)
      PROVE  Apply(s, cmd) \in ClusterStates /\ Placement(Apply(s, cmd))
  <2>1. Apply(s, cmd) = applyRegisterNode(s, n, a, t)
    BY <1>2 DEF Apply, CmdRegisterNode
  <2> QED
    BY <2>1, RegisterPreserves, ZenonT(60)
<1>3. ASSUME NEW t \in Nat, cmd = CmdUpdateHeartbeat(n, t)
      PROVE  Apply(s, cmd) \in ClusterStates /\ Placement(Apply(s, cmd))
  <2>1. Apply(s, cmd) = applyUpdateHeartbeat(s, n, t)
    BY <1>3 DEF Apply, CmdUpdateHeartbeat
  <2> QED
    BY <2>1, HeartbeatPreserves, ZenonT(60)
<1>4. CASE cmd = CmdMarkUnhealthy(n)
  <2>1. Apply(s, cmd) = applyMarkUnhealthy(s, n)
    BY <1>4, ZenonT(60) DEF Apply, CmdMarkUnhealthy
  <2> QED
    BY <2>1, MarkPreserves, ZenonT(60)
<1> QED
  BY <1>1, <1>2, <1>3, <1>4, ZenonT(60)

\* A new FSM is a placed state.
LEMMA NewFSMPlaced == NewFSM \in ClusterStates /\ Placement(NewFSM)
<1>1. NewFSM \in ClusterStates
  BY DEF NewFSM, ClusterStates, Statuses, Shards
<1>2. Healthy(NewFSM) = {}
  BY DEF NewFSM, Healthy
<1> QED
  BY <1>1, <1>2, NoNodeNotANode, ZenonT(60) DEF NewFSM, Placement, FirstOther

-----------------------------------------------------------------------------
(***************************************************************************)
(* The inductive invariant.  The history is the run of one FSM over the    *)
(* log; snapshots and running coordinators stand somewhere on it, and what *)
(* a node cached was once read from such a coordinator.                    *)
(***************************************************************************)
History ==
  /\ log \in Seq(Commands) /\ states \in Seq(ClusterStates)
  /\ Len(states) = Len(log) + 1
  /\ \A k \in 1 .. Len(log) + 1 : Placement(states[k])
  /\ \A k \in 1 .. Len(log) : states[k + 1] = Apply(states[k], log[k])

OnHistory(index, state) == index \in 0 .. Len(log) /\ state = states[index + 1]

RInv ==
  /\ History
  /\ up \in [Coordinators -> BOOLEAN]
  /\ fsm \in [Coordinators -> ClusterStates] /\ applied \in [Coordinators -> Nat]
  /\ snap \in [Coordinators -> [index : Nat, state : ClusterStates]]
  /\ cache \in [Pollers -> ClusterStates]
  /\ \A c \in Coordinators :
        /\ up[c] => OnHistory(applied[c], fsm[c])
        /\ OnHistory(snap[c].index, snap[c].state)
  /\ \A n \in Pollers : \E k \in 0 .. Len(log) :
        cache[n] = protoToClusterState(states[k + 1])

\* What a node receives of a state is a state.
LEMMA ProtoType ==
  ASSUME NEW s \in ClusterStates
  PROVE  /\ protoToClusterState(s) \in ClusterStates
         /\ protoToClusterState(s).primary = s.primary
         /\ protoToClusterState(s).replica = s.replica
         /\ protoToClusterState(s).address = s.address
BY Zenon DEF protoToClusterState, ClusterStates

\* Empty logs and fresh state machines.
LEMMA InitRInv == Init => RInv
<1> SUFFICES ASSUME Init PROVE RInv
  OBVIOUS
<1>1. log = <<>> /\ states = <<NewFSM>>
  BY DEF Init
<1>2. History
  BY <1>1, NewFSMPlaced, SMTT(30) DEF History
<1>3. states[1] = NewFSM /\ Len(log) = 0
  BY <1>1, ZenonT(60)
<1>4. up \in [Coordinators -> BOOLEAN]
  BY DEF Init
<1>5. /\ fsm \in [Coordinators -> ClusterStates] /\ applied \in [Coordinators -> Nat]
      /\ snap \in [Coordinators -> [index : Nat, state : ClusterStates]]
      /\ cache \in [Pollers -> ClusterStates]
  BY NewFSMPlaced, ProtoType, ZenonT(60) DEF Init
<1>6. \A c \in Coordinators : OnHistory(applied[c], fsm[c]) /\ OnHistory(snap[c].index, snap[c].state)
  BY <1>3 DEF Init, OnHistory
<1>7. \A n \in Pollers : cache[n] = protoToClusterState(states[0 + 1])
  BY <1>3 DEF Init
<1> QED
  BY <1>2, <1>3, <1>4, <1>5, <1>6, <1>7 DEF RInv

\* A commit extends the history and moves nothing that stands on it.
LEMMA CommitStep ==
  ASSUME RInv, NEW cmd \in Commands, Commit(cmd)
  PROVE  RInv'
<1> DEFINE s == states[Len(log) + 1]
           r == Apply(s, cmd)
<1>1. /\ log \in Seq(Commands) /\ states \in Seq(ClusterStates) /\ Len(log) \in Nat
      /\ Len(states) = Len(log) + 1
  BY DEF RInv, History
<1>2. s \in ClusterStates /\ Placement(s)
  BY <1>1 DEF RInv, History
<1>3. r \in ClusterStates /\ Placement(r)
  BY <1>2, ApplyPreserves, Zenon
<1>4. log' = Append(log, cmd) /\ states' = Append(states, r)
  BY <1>1, Zenon DEF Commit, Last
<1> HIDE DEF r, s
<1>5. /\ log' \in Seq(Commands) /\ Len(log') = Len(log) + 1
      /\ \A k \in 1 .. Len(log) : log'[k] = log[k]
      /\ log'[Len(log) + 1] = cmd
  BY <1>1, <1>4, SMTT(30)
<1>6. /\ states' \in Seq(ClusterStates) /\ Len(states') = Len(log) + 2
      /\ \A k \in 1 .. Len(log) + 1 : states'[k] = states[k]
      /\ states'[Len(log) + 2] = r
  BY <1>1, <1>3, <1>4, SMTT(30)
<1>7. History'
  <2>1. \A k \in 1 .. Len(log') + 1 : Placement(states'[k])
    <3> TAKE k \in 1 .. Len(log') + 1
    <3>1. CASE k = Len(log) + 2
      BY <3>1, <1>3, <1>6, Zenon
    <3>2. CASE k \in 1 .. Len(log) + 1
      BY <3>2, <1>6, ZenonT(60) DEF RInv, History
    <3> QED
      BY <1>1, <1>5, <3>1, <3>2, SMTT(30)
  <2>2. \A k \in 1 .. Len(log') : states'[k + 1] = Apply(states'[k], log'[k])
    <3> TAKE k \in 1 .. Len(log')
    <3>1. CASE k = Len(log) + 1
      <4>1. states'[k] = s /\ states'[k + 1] = r /\ log'[k] = cmd
        BY <3>1, <1>1, <1>5, <1>6, SMTT(30) DEF s
      <4> QED
        BY <4>1, ZenonT(60) DEF r
    <3>2. CASE k \in 1 .. Len(log)
      <4>1. states'[k] = states[k] /\ states'[k + 1] = states[k + 1] /\ log'[k] = log[k]
        BY <3>2, <1>1, <1>5, <1>6, SMTT(30)
      <4>2. states[k + 1] = Apply(states[k], log[k])
        BY <3>2, Zenon DEF RInv, History
      <4> QED
        BY <4>1, <4>2, Zenon
    <3> QED
      BY <1>1, <1>5, <3>1, <3>2, SMTT(30)
  <2> QED
    BY <1>1, <1>5, <1>6, <2>1, <2>2, SMTT(30) DEF History
<1>8. ASSUME NEW i, NEW x, OnHistory(i, x)
      PROVE  i \in 0 .. Len(log') /\ x = states'[i + 1]
  BY <1>1, <1>5, <1>6, <1>8, SMTT(30) DEF OnHistory
<1>9. UNCHANGED <<up, fsm, applied, snap, cache>>
  BY Zenon DEF Commit
<1>10. \A c \in Coordinators :
          /\ up'[c] => (OnHistory(applied[c], fsm[c]))'
          /\ (OnHistory(snap[c].index, snap[c].state))'
  BY <1>8, <1>9, ZenonT(60) DEF RInv, OnHistory
<1>11. \A n \in Pollers : \E k \in 0 .. Len(log') : cache'[n] = protoToClusterState(states'[k + 1])
  <2> TAKE n \in Pollers
  <2>1. PICK k \in 0 .. Len(log) : cache[n] = protoToClusterState(states[k + 1])
    BY DEF RInv
  <2>2. k \in 0 .. Len(log') /\ states'[k + 1] = states[k + 1]
    BY <1>1, <1>5, <1>6, SMTT(30)
  <2> QED
    BY <1>9, <2>1, <2>2, ZenonT(60)
<1> QED
  BY <1>7, <1>9, <1>10, <1>11, ZenonT(60) DEF RInv

\* Replaying the next command moves a coordinator one place along the history.
LEMMA ApplyNextStep ==
  ASSUME RInv, NEW c \in Coordinators, ApplyNext(c)
  PROVE  RInv'
<1> DEFINE k == applied[c]
<1>1. /\ up[c] /\ k < Len(log) /\ k \in 0 .. Len(log) /\ fsm[c] = states[k + 1]
      /\ Len(log) \in Nat
  BY DEF ApplyNext, RInv, OnHistory, History
<1>2. UNCHANGED <<log, states, up, snap, cache>>
  BY DEF ApplyNext
<1>3. k + 1 \in 1 .. Len(log)
  BY <1>1, SMTT(30)
<1>4. states[(k + 1) + 1] = Apply(fsm[c], log[k + 1])
  BY <1>1, <1>3, Zenon DEF RInv, History
<1>5. states[(k + 1) + 1] \in ClusterStates
  BY <1>1, <1>3, SMTT(30) DEF RInv, History
<1> HIDE DEF k
<1>6. /\ fsm' = [fsm EXCEPT ![c] = states[(k + 1) + 1]]
      /\ applied' = [applied EXCEPT ![c] = k + 1]
  BY <1>4, Zenon DEF ApplyNext, k
<1>7. fsm' \in [Coordinators -> ClusterStates] /\ applied' \in [Coordinators -> Nat]
  BY <1>1, <1>5, <1>6, SMTT(30) DEF RInv
<1>8. \A d \in Coordinators : up'[d] => (OnHistory(applied[d], fsm[d]))'
  BY <1>1, <1>2, <1>3, <1>6, SMTT(30) DEF RInv, OnHistory
<1> QED
  BY <1>2, <1>7, <1>8, Zenon DEF RInv, History, OnHistory

\* What Persist writes is the state at the index the snapshot names.
LEMMA SnapshotStep ==
  ASSUME RInv, NEW c \in Coordinators, Snapshot(c)
  PROVE  RInv'
<1> DEFINE new == [index |-> applied[c], state |-> fsm[c]]
<1>1. UNCHANGED <<log, states, up, fsm, applied, cache>> /\ up[c]
  BY DEF Snapshot
<1>2. OnHistory(applied[c], fsm[c]) /\ new \in [index : Nat, state : ClusterStates]
  BY <1>1, Zenon DEF RInv
<1>3. snap' = [snap EXCEPT ![c] = new]
  BY DEF Snapshot, Persisted
<1>4. new.index = applied[c] /\ new.state = fsm[c]
  OBVIOUS
<1> HIDE DEF new
<1>5. snap' \in [Coordinators -> [index : Nat, state : ClusterStates]]
  BY <1>2, <1>3, ZenonT(60) DEF RInv
<1>6. \A d \in Coordinators : (OnHistory(snap[d].index, snap[d].state))'
  BY <1>1, <1>2, <1>3, <1>4, ZenonT(60) DEF RInv, OnHistory
<1> QED
  BY <1>1, <1>5, <1>6, Zenon DEF RInv, History, OnHistory

\* A stopped coordinator claims nothing.
LEMMA CrashStep ==
  ASSUME RInv, NEW c \in Coordinators, Crash(c)
  PROVE  RInv'
<1>1. UNCHANGED <<log, states, snap, cache>>
  BY DEF Crash
<1>2. /\ up' = [up EXCEPT ![c] = FALSE]
      /\ fsm' = [fsm EXCEPT ![c] = NewFSM]
      /\ applied' = [applied EXCEPT ![c] = 0]
  BY DEF Crash
<1>3. /\ up' \in [Coordinators -> BOOLEAN]
      /\ fsm' \in [Coordinators -> ClusterStates] /\ applied' \in [Coordinators -> Nat]
  BY <1>2, NewFSMPlaced, ZenonT(60) DEF RInv
<1>4. \A d \in Coordinators : up'[d] => (OnHistory(applied[d], fsm[d]))'
  <2> SUFFICES ASSUME NEW d \in Coordinators, up'[d] PROVE (OnHistory(applied[d], fsm[d]))'
    OBVIOUS
  <2>1. d # c
    BY <1>2, ZenonT(60) DEF RInv
  <2>2. up[d] /\ applied'[d] = applied[d] /\ fsm'[d] = fsm[d]
    BY <1>2, <2>1, ZenonT(60) DEF RInv
  <2> QED
    BY <1>1, <2>2, ZenonT(60) DEF RInv, OnHistory
<1> QED
  BY <1>1, <1>3, <1>4, ZenonT(60) DEF RInv, History, OnHistory

\* Restore puts a restarted coordinator where its snapshot was taken.
LEMMA RestartStep ==
  ASSUME RInv, NEW c \in Coordinators, Restart(c)
  PROVE  RInv'
<1>1. UNCHANGED <<log, states, snap, cache>>
  BY DEF Restart
<1>2. /\ up' = [up EXCEPT ![c] = TRUE]
      /\ fsm' = [fsm EXCEPT ![c] = snap[c].state]
      /\ applied' = [applied EXCEPT ![c] = snap[c].index]
  BY DEF Restart
<1>3. OnHistory(snap[c].index, snap[c].state) /\ snap[c] \in [index : Nat, state : ClusterStates]
  BY DEF RInv
<1>4. /\ up' \in [Coordinators -> BOOLEAN]
      /\ fsm' \in [Coordinators -> ClusterStates] /\ applied' \in [Coordinators -> Nat]
  BY <1>2, <1>3, ZenonT(60) DEF RInv
<1>5. \A d \in Coordinators : up'[d] => (OnHistory(applied[d], fsm[d]))'
  <2> SUFFICES ASSUME NEW d \in Coordinators, up'[d] PROVE (OnHistory(applied[d], fsm[d]))'
    OBVIOUS
  <2>1. CASE d = c
    BY <1>1, <1>2, <1>3, <2>1, ZenonT(60) DEF RInv, OnHistory
  <2>2. CASE d # c
    <3>1. up[d] /\ applied'[d] = applied[d] /\ fsm'[d] = fsm[d]
      BY <1>2, <2>2, ZenonT(60) DEF RInv
    <3> QED
      BY <1>1, <3>1 DEF RInv, OnHistory
  <2> QED
    BY <2>1, <2>2, ZenonT(60)
<1> QED
  BY <1>1, <1>4, <1>5 DEF RInv, History, OnHistory

\* An installed snapshot moves a coordinator that lags to the snapshot's place.
LEMMA InstallStep ==
  ASSUME RInv, NEW c \in Coordinators, NEW d \in Coordinators, InstallSnapshot(c, d)
  PROVE  RInv'
<1>1. UNCHANGED <<log, states, up, cache>>
  BY DEF InstallSnapshot
<1>2. /\ fsm' = [fsm EXCEPT ![c] = snap[d].state]
      /\ applied' = [applied EXCEPT ![c] = snap[d].index]
      /\ snap' = [snap EXCEPT ![c] = snap[d]]
  BY DEF InstallSnapshot
<1>3. OnHistory(snap[d].index, snap[d].state) /\ snap[d] \in [index : Nat, state : ClusterStates]
  BY DEF RInv
<1>4. /\ fsm' \in [Coordinators -> ClusterStates] /\ applied' \in [Coordinators -> Nat]
      /\ snap' \in [Coordinators -> [index : Nat, state : ClusterStates]]
  BY <1>2, <1>3, ZenonT(60) DEF RInv
<1>5. \A e \in Coordinators : /\ up'[e] => (OnHistory(applied[e], fsm[e]))'
                              /\ (OnHistory(snap[e].index, snap[e].state))'
  BY <1>1, <1>2, <1>3, ZenonT(60) DEF RInv, OnHistory
<1> QED
  BY <1>1, <1>4, <1>5, ZenonT(60) DEF RInv, History, OnHistory

\* A refresh copies the state of a running coordinator, and so one of the history.
LEMMA RefreshStep ==
  ASSUME RInv, NEW n \in Pollers, NEW c \in Coordinators, Refresh(n, c)
  PROVE  RInv'
<1>1. UNCHANGED <<log, states, up, fsm, applied, snap>> /\ up[c]
  BY DEF Refresh
<1>2. cache' = [cache EXCEPT ![n] = protoToClusterState(fsm[c])]
  BY DEF Refresh
<1>3. protoToClusterState(fsm[c]) \in ClusterStates
  BY ProtoType, ZenonT(60) DEF RInv
<1>4. cache' \in [Pollers -> ClusterStates]
  BY <1>2, <1>3, ZenonT(60) DEF RInv
<1>5. applied[c] \in 0 .. Len(log) /\ fsm[c] = states[applied[c] + 1]
  BY <1>1, ZenonT(60) DEF RInv, OnHistory
<1>6. \A m \in Pollers : \E k \in 0 .. Len(log) : cache'[m] = protoToClusterState(states[k + 1])
  <2> TAKE m \in Pollers
  <2>1. CASE m = n
    <3>1. cache'[m] = protoToClusterState(states[applied[c] + 1])
      BY <1>2, <1>5, <2>1, ZenonT(60) DEF RInv
    <3> QED
      BY <1>5, <3>1, ZenonT(60)
  <2>2. CASE m # n
    <3>1. cache'[m] = cache[m]
      BY <1>2, <2>2, ZenonT(60) DEF RInv
    <3> QED
      BY <3>1, ZenonT(60) DEF RInv
  <2> QED
    BY <2>1, <2>2, ZenonT(60)
<1> QED
  BY <1>1, <1>4, <1>6, ZenonT(60) DEF RInv, History, OnHistory

\* One step per operation of the coordinators and of a polling node.
LEMMA StepPreservesRInv ==
  ASSUME RInv, [Next]_vars
  PROVE  RInv'
<1>1. CASE UNCHANGED vars
  BY <1>1, ZenonT(60) DEF RInv, History, OnHistory, vars
<1>2. CASE Next
  BY ZenonT(60), <1>2, CommitStep, ApplyNextStep, SnapshotStep, CrashStep, RestartStep, InstallStep,
     RefreshStep DEF Next
<1> QED
  BY <1>1, <1>2, ZenonT(60)

-----------------------------------------------------------------------------
\* Whatever mix of replay, crash, snapshot and restore led to it, a running
\* coordinator's FSM, and every stored snapshot, is the state one FSM reaches on
\* the log prefix it claims.
THEOREM ReplicasAgreeTheorem == Spec => []ReplicasAgree
<1>1. RInv => ReplicasAgree
  BY ZenonT(60) DEF RInv, OnHistory, ReplicasAgree, StateAfter
<1> QED
  BY <1>1, InitRInv, StepPreservesRInv, PTL DEF Spec

\* The cache a storage node routes by holds primaries, replicas and addresses of
\* one committed state, however old.
THEOREM CacheIsPastStateTheorem == Spec => []CacheIsPastState
<1>1. RInv => CacheIsPastState
  <2> SUFFICES ASSUME RInv, NEW n \in Pollers
               PROVE  \E k \in 0 .. Len(log) :
                         /\ cache[n].primary = StateAfter(k).primary
                         /\ cache[n].replica = StateAfter(k).replica
                         /\ cache[n].address = StateAfter(k).address
    BY DEF CacheIsPastState
  <2>1. PICK k \in 0 .. Len(log) : cache[n] = protoToClusterState(states[k + 1])
    BY DEF RInv
  <2>2. states[k + 1] \in ClusterStates
    BY DEF RInv, History
  <2> QED
    BY <2>1, <2>2, ProtoType, SMTT(30) DEF StateAfter
<1> QED
  BY <1>1, InitRInv, StepPreservesRInv, PTL DEF Spec

\* Every running coordinator serves the round-robin placement over the nodes it
\* knows to be healthy, even while it lags or has just been restored.
THEOREM ReplicasPlaced == Spec => [](\A c \in Coordinators : up[c] => Placement(fsm[c]))
<1>1. RInv => \A c \in Coordinators : up[c] => Placement(fsm[c])
  <2> SUFFICES ASSUME RInv, NEW c \in Coordinators, up[c] PROVE Placement(fsm[c])
    OBVIOUS
  <2>1. applied[c] \in 0 .. Len(log) /\ fsm[c] = states[applied[c] + 1] /\ Len(log) \in Nat
    BY DEF RInv, OnHistory, History
  <2>2. applied[c] + 1 \in 1 .. Len(log) + 1
    BY <2>1
  <2> QED
    BY <2>1, <2>2, ZenonT(60) DEF RInv, History
<1> QED
  BY <1>1, InitRInv, StepPreservesRInv, PTL DEF Spec
==============================================================================
