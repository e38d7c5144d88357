------------------------- MODULE MetadataFSM_proofs -------------------------
(***************************************************************************)
(* Proofs about the metadata state machine, for every finite set of nodes  *)
(* and every number of shards.                                             *)
(***************************************************************************)
EXTENDS MetadataFSM, ClusterState_proofs

-----------------------------------------------------------------------------
(***************************************************************************)
(* The inductive invariant and what follows from it.                       *)
(***************************************************************************)
IInv == TypeOK /\ Placement(state)

\* One committed command keeps the inductive invariant: one step per command.
LEMMA StepPreserves ==
  ASSUME IInv, [Next]_vars
  PROVE  IInv'
<1> USE DEF IInv, TypeOK
<1>1. ASSUME NEW n \in Nodes, NEW a \in Addrs, NEW t \in Times, RegisterNode(n, a, t)
      PROVE  IInv'
  <2>1. state' = applyRegisterNode(state, n, a, t)
    BY <1>1 DEF RegisterNode, Apply, CmdRegisterNode
  <2> QED
    BY <2>1, RegisterPreserves, TimesAssumption
<1>2. ASSUME NEW n \in Nodes, NEW t \in Times, UpdateHeartbeat(n, t)
      PROVE  IInv'
  <2>1. state' = applyUpdateHeartbeat(state, n, t)
    BY <1>2 DEF UpdateHeartbeat, Apply, CmdUpdateHeartbeat
  <2> QED
    BY <2>1, HeartbeatPreserves, TimesAssumption
<1>3. ASSUME NEW n \in Nodes, MarkNodeUnhealthy(n)
      PROVE  IInv'
  <2>1. state' = applyMarkUnhealthy(state, n)
    BY <1>3 DEF MarkNodeUnhealthy, Apply, CmdMarkUnhealthy
  <2> QED
    BY <2>1, MarkPreserves
<1>4. CASE UNCHANGED vars
  <2>1. state' = state
    BY <1>4 DEF vars
  <2> QED
    BY <2>1
<1> QED
  BY <1>1, <1>2, <1>3, <1>4 DEF Next

\* Initially no node is registered and no shard is owned.
LEMMA InitPlaced == Init => IInv
<1> SUFFICES ASSUME Init PROVE IInv
  OBVIOUS
<1>1. state \in ClusterStates
  BY DEF Init, NewFSM, ClusterStates, Statuses, Shards
<1>2. Healthy(state) = {}
  BY DEF Init, NewFSM, Healthy
<1>3. Placement(state)
  BY <1>2, NoNodeNotANode, Zenon DEF Init, NewFSM, Placement, FirstOther
<1> QED
  BY <1>1, <1>3 DEF IInv, TypeOK

\* Apply keeps the metadata's shape, whatever commands are committed.
THEOREM TypeCorrect == Spec => []TypeOK
<1>1. IInv => TypeOK
  BY Zenon DEF IInv
<1> QED
  BY InitPlaced, StepPreserves, <1>1, PTL DEF Spec

\* For every set of nodes and number of shards, the metadata keeps its shape
\* and the shard map is the round-robin one over the healthy nodes, after any
\* sequence of registrations, heartbeats and failures.
THEOREM PlacementInvariant == Spec => [](TypeOK /\ PlacementFollowsMembership)
<1>1. IInv => TypeOK /\ PlacementFollowsMembership
  BY DEF IInv, PlacementFollowsMembership
<1> QED
  BY InitPlaced, StepPreserves, <1>1, PTL DEF Spec

\* What the placement means for one state: owners are healthy, no shard is
\* orphaned while a healthy node exists, lists and shard map agree.
LEMMA PlacementMeans ==
  ASSUME IInv
  PROVE  OwnersAreHealthy /\ EveryShardServed /\ OwnedListsMatch
<1> DEFINE H == Healthy(state)
<1>1. H \in SUBSET Nodes /\ H \in SUBSET Nat /\ IsFiniteSet(H)
  BY HealthyFinite
<1>2. ASSUME NEW s \in Shards
      PROVE  /\ state.primary[s] \in H \cup {NoNode}
             /\ H # {} => state.primary[s] \in H
             /\ state.replica[s] \in (H \ {state.primary[s]}) \cup {NoNode}
             /\ H \ {state.primary[s]} # {} => state.replica[s] \in H \ {state.primary[s]}
  <2>1. state.primary[s] = IF H = {} THEN NoNode ELSE RoundRobin(s, H)
    BY DEF IInv, Placement
  <2>2. state.replica[s] = FirstOther(H, state.primary[s])
    BY DEF IInv, Placement
  <2>3. H # {} => RoundRobin(s, H) \in H
    BY <1>1, RoundRobinMember
  <2>4. /\ FirstOther(H, state.primary[s]) \in (H \ {state.primary[s]}) \cup {NoNode}
        /\ H \ {state.primary[s]} # {} =>
              FirstOther(H, state.primary[s]) \in H \ {state.primary[s]}
    <3> HIDE DEF H
    <3> QED BY <1>1, FirstOtherMember
  <2> HIDE DEF H
  <2> QED
    BY <2>1, <2>2, <2>3, <2>4
<1>3. OwnersAreHealthy
  BY <1>2 DEF OwnersAreHealthy
<1>4. EveryShardServed
  BY <1>1, <1>2, NoNodeNotANode DEF EveryShardServed
<1>5. OwnedListsMatch
  BY DEF OwnedListsMatch, IInv, Placement
<1> QED
  BY <1>3, <1>4, <1>5

\* Primary and replica slots only ever name healthy nodes.
THEOREM OwnersHealthyTheorem == Spec => []OwnersAreHealthy
BY InitPlaced, StepPreserves, PlacementMeans, PTL DEF Spec

\* No shard is without an owner while a healthy node exists, nor without a
\* replica while two exist, and a replica is never the primary.
THEOREM EveryShardServedTheorem == Spec => []EveryShardServed
BY InitPlaced, StepPreserves, PlacementMeans, PTL DEF Spec

\* A node's shard list always names exactly the shards it is the primary of.
THEOREM OwnedListsTheorem == Spec => []OwnedListsMatch
BY InitPlaced, StepPreserves, PlacementMeans, PTL DEF Spec

\* No command moves a shard unless it changes the set of healthy nodes.
THEOREM StableOwnershipTheorem == Spec => StableOwnership
<1>1. IInv /\ IInv' => [Healthy(state') = Healthy(state) =>
                           /\ state'.primary = state.primary
                           /\ state'.replica = state.replica
                           /\ state'.owned = state.owned]_vars
  BY SamePlacement DEF IInv, TypeOK
<1> QED
  BY <1>1, InitPlaced, StepPreserves, PTL DEF Spec, StableOwnership
-----------------------------------------------------------------------------
(* How even the placement is.                                              *)

\* The shards whose turn i is among k nodes.
Turn(i, k) == {s \in Shards : s % k = i}

\* A number moved within its round of k, or to the round before, keeps its turn.
LEMMA MovedTurn ==
  ASSUME NEW k \in Nat \ {0}, NEW r \in Nat
  PROVE  /\ \A d \in Int : (r % k) + d \in 0 .. k - 1 /\ r + d >= 0 => (r + d) % k = (r % k) + d
         /\ r >= k => (r - k) % k = r % k
         /\ r < k => r % k = r
<1>1. ASSUME NEW d \in Int, (r % k) + d \in 0 .. k - 1, r + d >= 0 PROVE (r + d) % k = (r % k) + d
  BY <1>1
<1>2. ASSUME r >= k PROVE (r - k) % k = r % k
  <2>1. PICK q, j : q = r \div k /\ j = r % k
    OBVIOUS
  <2>2. q \in Nat /\ j \in 0 .. k - 1 /\ r = q * k + j
    BY <2>1
  <2>3. q >= 1
    BY <1>2, <2>2
  <2>4. PICK p : p = q - 1
    OBVIOUS
  <2>5. p \in Nat /\ q = p + 1
    BY <2>2, <2>3, <2>4
  <2>6. r - k = p * k + j
    BY <2>2, <2>5
  <2>7. (p * k + j) % k = j
    BY <2>2, <2>5
  <2> QED
    BY <2>1, <2>6, <2>7
<1>3. ASSUME r < k PROVE r % k = r
  BY <1>3
<1> QED
  BY <1>1, <1>2, <1>3

\* Two turns get the same number of shards, or one more.
LEMMA EvenTurns ==
  ASSUME NEW k \in Nat \ {0}, NEW i \in 0 .. k - 1, NEW j \in 0 .. k - 1
  PROVE  /\ Cardinality(Turn(i, k)) \in Nat /\ Cardinality(Turn(j, k)) \in Nat
         /\ Cardinality(Turn(i, k)) <= Cardinality(Turn(j, k)) + 1
<1>1. \A s \in Shards : s \in Nat /\ \A r \in Nat : r <= s => r \in Shards
  BY ShardsAssumption DEF Shards
<1>2. IsFiniteSet(Shards)
  BY ShardsAssumption, FS_Interval DEF Shards
<1>3. PICK A, B, C : A = Turn(i, k) /\ B = Turn(j, k) /\ C = A \ {i}
  OBVIOUS
<1>4. IsFiniteSet(A) /\ IsFiniteSet(B) /\ IsFiniteSet(C)
  <2>1. A \subseteq Shards /\ B \subseteq Shards /\ C \subseteq Shards
    BY <1>3 DEF Turn
  <2> QED
    BY <1>2, <2>1, FS_Subset, Zenon
<1>5. Cardinality(A) \in Nat /\ Cardinality(B) \in Nat /\ Cardinality(C) \in Nat
  BY <1>4, FS_CardinalityType, Zenon
<1>6. Cardinality(A) <= Cardinality(C) + 1
  <2>1. CASE i \in A
    BY <1>3, <1>4, <1>5, <2>1, FS_RemoveElement
  <2>2. CASE i \notin A
    <3>1. A = C
      BY <1>3, <2>2, Zenon
    <3> QED
      BY <1>5, <3>1
  <2> QED
    BY <2>1, <2>2
<1>7. Cardinality(C) <= Cardinality(B)
  <2>1. PICK d : d = IF j <= i THEN j - i ELSE j - i - k
    OBVIOUS
  <2>2. d \in Int
    BY <2>1
  <2>3. ASSUME NEW s \in C PROVE s \in Nat /\ s + d \in B
    <3>1. s \in Shards /\ s \in Nat /\ s % k = i /\ s # i
      BY <1>1, <1>3, <2>3 DEF Turn
    <3>2. s >= k
      <4>1. s < k => s % k = s
        BY <3>1, MovedTurn, Zenon
      <4> QED
        BY <3>1, <4>1
    <3>3. PICK e : e = j - i
      OBVIOUS
    <3>4. e \in Int /\ i + e = j
      BY <3>3
    <3>5. CASE j <= i
      <4>1. s + e >= 0 /\ s + e <= s /\ d = e
        BY <2>1, <3>1, <3>2, <3>3, <3>5
      <4>2. (s + e) % k = j
        BY <3>1, <3>4, <4>1, MovedTurn
      <4>3. s + e \in Nat /\ s + e \in Shards
        BY <1>1, <3>1, <3>4, <4>1
      <4> QED
        BY <1>3, <3>1, <4>1, <4>2, <4>3 DEF Turn
    <3>6. CASE ~(j <= i)
      <4>1. PICK t : t = s - k
        OBVIOUS
      <4>2. t \in Nat /\ t % k = i
        <5>1. (s - k) % k = s % k
          BY <3>1, <3>2, MovedTurn, Zenon
        <5> QED
          BY <3>1, <3>2, <4>1, <5>1
      <4>3. t + e >= 0 /\ t + e <= s /\ s + d = t + e
        BY <2>1, <3>1, <3>3, <3>6, <4>1, <4>2
      <4>4. (t + e) % k = j
        BY <3>4, <4>2, <4>3, MovedTurn
      <4>5. t + e \in Nat /\ t + e \in Shards
        BY <1>1, <3>1, <3>4, <4>2, <4>3
      <4> QED
        BY <1>3, <3>1, <4>3, <4>4, <4>5 DEF Turn
    <3> QED
      BY <3>5, <3>6
  <2> DEFINE f == [s \in C |-> s + d]
  <2>4. f \in [C -> B]
    BY <2>3, Zenon
  <2>5. \A s, t \in C : f[s] = f[t] => s = t
    BY <2>2, <2>3
  <2>6. f \in Injection(C, B)
    BY <2>4, <2>5, Zenon DEF Injection, IsInjective
  <2> QED
    BY <1>4, <2>6, FS_Injection, Zenon
<1> QED
  BY <1>3, <1>5, <1>6, <1>7

\* rebalancePrimary deals the shards out evenly: after any sequence of commands
\* two healthy nodes differ by at most one shard.
THEOREM BalancedTheorem == Spec => []Balanced
<1>1. IInv => Balanced
  <2> SUFFICES ASSUME IInv, NEW m \in Healthy(state), NEW n \in Healthy(state)
               PROVE  Cardinality(state.owned[m]) <= Cardinality(state.owned[n]) + 1
    BY Zenon DEF Balanced
  <2>1. PICK H, k : H = Healthy(state) /\ k = Cardinality(H)
    OBVIOUS
  <2>2. H \in SUBSET Nodes /\ H \in SUBSET Nat /\ IsFiniteSet(H) /\ m \in H /\ n \in H
    BY <2>1, HealthyFinite, Zenon
  <2>3. k \in Nat \ {0}
    BY <2>1, <2>2, FS_CardinalityType, FS_EmptySet
  <2>4. ASSUME NEW x \in H PROVE Rank(x, H) \in 0 .. k - 1 /\ state.owned[x] = Turn(Rank(x, H), k)
    <3>1. Rank(x, H) \in 0 .. k - 1
      BY <2>1, <2>2, RankRange, Zenon
    <3>2. state.owned[x] = {s \in Shards : state.primary[s] = x}
      BY <2>2, Zenon DEF IInv, Placement
    <3>3. ASSUME NEW s \in Shards PROVE state.primary[s] = x <=> s % k = Rank(x, H)
      <4>1. state.primary[s] = SortedAt(H, s % k)
        BY <2>1, <2>2, Zenon DEF IInv, Placement, RoundRobin
      <4>2. s % k \in 0 .. k - 1
        BY <2>3, ShardsAssumption DEF Shards
      <4>3. SortedAt(H, s % k) \in H /\ Rank(SortedAt(H, s % k), H) = s % k
        BY <2>1, <2>2, <4>2, SortedAtMember, Zenon
      <4> QED
        BY <2>2, <4>1, <4>3, RankInjective, Zenon
    <3> QED
      BY <3>1, <3>2, <3>3, Zenon DEF Turn
  <2> QED
    BY <2>2, <2>3, <2>4, EvenTurns, Zenon
<1> QED
  BY <1>1, InitPlaced, StepPreserves, PTL DEF Spec
=============================================================================
