------------------------ MODULE ClusterState_proofs -------------------------
(***************************************************************************)
(* What the metadata commands do to one cluster state, for every finite    *)
(* set of nodes and every number of shards: the facts the proofs about the *)
(* state machine and about the nodes that route by it rest on.             *)
(***************************************************************************)
EXTENDS ClusterState, FiniteSetTheorems, TLAPS

-----------------------------------------------------------------------------
(***************************************************************************)
(* healthyIDs, the list that sort.Strings orders before shards are handed  *)
(* out: it has exactly one ID at each of its places.                       *)
(***************************************************************************)

\* A larger ID has a larger rank: every ID before m is before n, and so is m.
LEMMA RankMonotone ==
  ASSUME NEW H \in SUBSET Nat, IsFiniteSet(H), NEW m \in H, NEW n \in H, m < n
  PROVE  Rank(m, H) < Rank(n, H)
<1> DEFINE M == {k \in H : k < m}
           N == {k \in H : k < n}
<1>1. IsFiniteSet(N) /\ Cardinality(N) \in Nat
  BY FS_Subset, FS_CardinalityType
<1>2. M \in SUBSET N
  <2>1. \A k \in Nat : k < m => k < n
    OBVIOUS
  <2> QED
    BY <2>1, Zenon
<1>3. m \in N /\ m \notin M
  BY SMT
<1>4. Cardinality(M) \in Nat /\ Cardinality(M) <= Cardinality(N) /\ Cardinality(M) # Cardinality(N)
  <2> HIDE DEF M, N
  <2>1. IsFiniteSet(M) /\ Cardinality(M) <= Cardinality(N)
        /\ (Cardinality(N) = Cardinality(M) => N = M)
    BY <1>1, <1>2, FS_Subset
  <2> QED
    BY <2>1, <1>3, FS_CardinalityType
<1> QED
  BY <1>1, <1>4 DEF Rank

\* Ranks stay below the size of the set, so they index its sorted list.
LEMMA RankRange ==
  ASSUME NEW H \in SUBSET Nat, IsFiniteSet(H), NEW n \in H
  PROVE  Rank(n, H) \in 0 .. Cardinality(H) - 1
<1> DEFINE N == {k \in H : k < n}
<1>1. N \in SUBSET H /\ n \in H /\ n \notin N
  BY SMT
<1>2. /\ IsFiniteSet(N) /\ Cardinality(N) <= Cardinality(H)
      /\ Cardinality(H) = Cardinality(N) => H = N
  BY <1>1, FS_Subset
<1>3. Cardinality(N) \in Nat /\ Cardinality(H) \in Nat
  BY <1>2, FS_CardinalityType
<1>4. Cardinality(N) # Cardinality(H)
  <2> HIDE DEF N
  <2> QED BY <1>1, <1>2
<1> QED
  BY <1>2, <1>3, <1>4 DEF Rank

\* No two IDs have the same rank.
LEMMA RankInjective ==
  ASSUME NEW H \in SUBSET Nat, IsFiniteSet(H), NEW a \in H, NEW b \in H, Rank(a, H) = Rank(b, H)
  PROVE  a = b
<1>1. Rank(a, H) \in Int /\ Rank(b, H) \in Int
  BY RankRange, FS_CardinalityType
<1>2. CASE a < b
  BY <1>1, <1>2, RankMonotone
<1>3. CASE b < a
  BY <1>1, <1>3, RankMonotone
<1> QED
  BY <1>2, <1>3

\* The sorted list has an element at every place: SortedAt(H, i) is a member.
LEMMA SortedAtMember ==
  ASSUME NEW H \in SUBSET Nat, IsFiniteSet(H), NEW i \in 0 .. Cardinality(H) - 1
  PROVE  SortedAt(H, i) \in H /\ Rank(SortedAt(H, i), H) = i
<1> DEFINE I == 0 .. Cardinality(H) - 1
           f == [n \in H |-> Rank(n, H)]
<1>1. Cardinality(H) \in Nat
  BY FS_CardinalityType
<1>2. IsFiniteSet(I) /\ Cardinality(I) = Cardinality(H)
  BY <1>1, FS_Interval
<1>3. f \in [H -> I]
  BY RankRange
<1>4. \A a, b \in H : f[a] = f[b] => a = b
  BY RankInjective
<1>5. f \in Injection(H, I)
  BY <1>3, <1>4 DEF Injection, IsInjective
<1>6. f \in Surjection(H, I)
  <2> HIDE DEF f, I
  <2> QED BY <1>2, <1>5, FS_Injection
<1>7. \E n \in H : Rank(n, H) = i
  BY <1>6, Zenon DEF Surjection
<1> QED
  BY <1>7 DEF SortedAt

-----------------------------------------------------------------------------
(***************************************************************************)
(* The two placement functions.                                            *)
(***************************************************************************)

\* Healthy nodes are a finite set of natural numbers.
LEMMA HealthyFinite ==
  ASSUME NEW st
  PROVE  Healthy(st) \in SUBSET Nodes /\ Healthy(st) \in SUBSET Nat
         /\ IsFiniteSet(Healthy(st))
BY NodesAssumption, FS_Subset, Zenon DEF Healthy

\* Round robin always lands on a member of the set.
LEMMA RoundRobinMember ==
  ASSUME NEW H \in SUBSET Nat, IsFiniteSet(H), H # {}, NEW s \in Shards
  PROVE  RoundRobin(s, H) \in H
<1>1. Cardinality(H) \in Nat \ {0}
  BY FS_CardinalityType, FS_EmptySet
<1>2. s \in Nat
  BY ShardsAssumption DEF Shards
<1>3. s % Cardinality(H) \in 0 .. Cardinality(H) - 1
  BY <1>1, <1>2
<1> QED
  BY <1>3, SortedAtMember DEF RoundRobin

\* The replica is a member other than the primary, and exists if one does.
LEMMA FirstOtherMember ==
  ASSUME NEW H \in SUBSET Nat, IsFiniteSet(H), NEW p
  PROVE  /\ FirstOther(H, p) \in (H \ {p}) \cup {NoNode}
         /\ H \ {p} # {} => FirstOther(H, p) \in H \ {p}
<1> DEFINE G == H \ {p}
<1>1. CASE G = {}
  BY <1>1 DEF FirstOther
<1>2. CASE G # {}
  <2>1. G \in SUBSET Nat /\ IsFiniteSet(G)
    BY FS_Subset, Zenon
  <2>2. Cardinality(G) \in Nat \ {0}
    <3> HIDE DEF G
    <3> QED BY <1>2, <2>1, FS_CardinalityType, FS_EmptySet
  <2>3. 0 \in 0 .. Cardinality(G) - 1
    BY <2>2
  <2>4. SortedAt(G, 0) \in G
    <3> HIDE DEF G
    <3> QED BY <2>1, <2>3, SortedAtMember
  <2> QED
    BY <1>2, <2>4 DEF FirstOther
<1> QED
  BY <1>1, <1>2

-----------------------------------------------------------------------------
(***************************************************************************)
(* What the reassignment that ends a registration and a failure does.      *)
(***************************************************************************)

\* NoNode is not the ID of a node.
LEMMA NoNodeNotANode == NoNode \notin Nodes
BY NodesAssumption DEF NoNode

\* rebalancePrimary followed by assignReplicas, as every membership change
\* runs them, yields the round-robin placement over the healthy nodes.  When
\* none is healthy rebalancePrimary returns early, so the caller must have
\* released everything: that is the last hypothesis.
LEMMA Reassigned ==
  ASSUME NEW st \in ClusterStates,
         Healthy(st) = {} => /\ \A s \in Shards : st.primary[s] = NoNode
                             /\ \A n \in Nodes : st.owned[n] = {}
  PROVE  LET r == assignReplicas(rebalancePrimary(st))
         IN  r \in ClusterStates /\ r.status = st.status /\ Placement(r)
<1> DEFINE H == Healthy(st)
           q == rebalancePrimary(st)
           r == assignReplicas(q)
<1>1. H \in SUBSET Nodes /\ H \in SUBSET Nat /\ IsFiniteSet(H)
  BY HealthyFinite
<1>2. /\ q \in ClusterStates
      /\ q.status = st.status
      /\ \A s \in Shards : q.primary[s] = IF H = {} THEN NoNode ELSE RoundRobin(s, H)
      /\ \A n \in Nodes : q.owned[n] = {s \in Shards : q.primary[s] = n}
  <2>1. CASE H = {}
    <3>1. q = st
      BY <2>1 DEF rebalancePrimary
    <3> QED
      BY <2>1, <3>1, NoNodeNotANode
  <2>2. CASE H # {}
    <3> DEFINE owner == [s \in Shards |-> RoundRobin(s, H)]
               lists == [n \in Nodes |-> {s \in Shards : owner[s] = n}]
    <3>1. q = [st EXCEPT !.primary = owner, !.owned = lists]
      BY <2>2 DEF rebalancePrimary
    <3>2. owner \in [Shards -> Nodes \cup {NoNode}]
      <4>1. \A s \in Shards : RoundRobin(s, H) \in H
        BY <1>1, <2>2, RoundRobinMember
      <4> QED
        BY <1>1, <4>1
    <3>3. \A s \in Shards : owner[s] = RoundRobin(s, H)
      OBVIOUS
    <3>4. /\ lists \in [Nodes -> SUBSET Shards]
          /\ \A n \in Nodes : lists[n] = {s \in Shards : owner[s] = n}
      OBVIOUS
    <3> HIDE DEF owner, lists, H, q
    <3>5. /\ q \in ClusterStates
          /\ q.status = st.status /\ q.primary = owner /\ q.owned = lists
      BY <3>1, <3>2, <3>4, Zenon DEF ClusterStates
    <3> QED
      BY <2>2, <3>3, <3>4, <3>5
  <2> QED
    BY <2>1, <2>2
<1>3. Healthy(q) = H
  BY <1>2 DEF Healthy
<1>4. r = [q EXCEPT !.replica = [s \in Shards |-> FirstOther(H, q.primary[s])]]
  BY <1>3 DEF assignReplicas
<1>5. \A s \in Shards : FirstOther(H, q.primary[s]) \in Nodes \cup {NoNode}
  BY <1>1, FirstOtherMember
<1>6. /\ r \in ClusterStates
      /\ r.status = q.status /\ r.primary = q.primary /\ r.owned = q.owned
      /\ \A s \in Shards : r.replica[s] = FirstOther(H, r.primary[s])
  <2> HIDE DEF q, H
  <2> QED
    BY <1>2, <1>4, <1>5 DEF ClusterStates
<1>7. Healthy(r) = H
  BY <1>2, <1>6 DEF Healthy
<1> QED
  <2> HIDE DEF q, H, r
  <2>1. Placement(r)
    BY <1>2, <1>6, <1>7 DEF Placement
  <2> QED
    BY <1>2, <1>6, <2>1 DEF q, r

-----------------------------------------------------------------------------
(***************************************************************************)
(* Each command preserves the type and the placement.                      *)
(***************************************************************************)

\* Registering a healthy node refreshes its record; any other node joins and
\* the shards are placed again.
LEMMA RegisterPreserves ==
  ASSUME NEW st \in ClusterStates, Placement(st),
         NEW n \in Nodes, NEW a \in Addrs, NEW t \in Nat
  PROVE  LET r == applyRegisterNode(st, n, a, t)
         IN  r \in ClusterStates /\ Placement(r)
<1> DEFINE r == applyRegisterNode(st, n, a, t)
<1>1. CASE st.status[n] = "healthy"
  <2>1. r = [st EXCEPT !.address[n] = a, !.lastSeen[n] = t]
    BY <1>1 DEF applyRegisterNode
  <2> HIDE DEF r
  <2>2. /\ r \in ClusterStates
        /\ r.status = st.status /\ r.owned = st.owned
        /\ r.primary = st.primary /\ r.replica = st.replica
    BY <2>1, Zenon DEF ClusterStates
  <2>3. Healthy(r) = Healthy(st)
    BY <2>2 DEF Healthy
  <2>4. Placement(r)
    BY <2>2, <2>3 DEF Placement
  <2> QED
    BY <2>2, <2>4 DEF r
<1>2. CASE st.status[n] # "healthy"
  <2> DEFINE f == [st EXCEPT !.status[n] = "healthy", !.address[n] = a,
                             !.lastSeen[n] = t, !.owned[n] = {}]
  <2>1. r = assignReplicas(rebalancePrimary(f))
    BY <1>2 DEF applyRegisterNode
  <2>2. f \in ClusterStates /\ f.status[n] = "healthy"
    BY Zenon DEF ClusterStates, Statuses
  <2>3. Healthy(f) # {}
    BY <2>2 DEF Healthy
  <2> HIDE DEF f
  <2> QED
    BY <2>1, <2>2, <2>3, Reassigned
<1> QED
  BY <1>1, <1>2

\* A heartbeat only writes a time.
LEMMA HeartbeatPreserves ==
  ASSUME NEW st \in ClusterStates, Placement(st), NEW n \in Nodes, NEW t \in Nat
  PROVE  LET r == applyUpdateHeartbeat(st, n, t)
         IN  r \in ClusterStates /\ Placement(r)
<1> DEFINE r == applyUpdateHeartbeat(st, n, t)
<1>1. r = st \/ r = [st EXCEPT !.lastSeen[n] = t]
  BY DEF applyUpdateHeartbeat
<1> HIDE DEF r
<1>2. /\ r \in ClusterStates
      /\ r.status = st.status /\ r.owned = st.owned
      /\ r.primary = st.primary /\ r.replica = st.replica
  BY <1>1 DEF ClusterStates
<1>3. Healthy(r) = Healthy(st)
  BY <1>2 DEF Healthy
<1>4. Placement(r)
  BY <1>2, <1>3 DEF Placement
<1> QED
  BY <1>2, <1>4 DEF r

\* Marking a node unhealthy.  When it was the last healthy one, rebalancePrimary
\* returns early: that all shards are free by then rests on the node's list
\* naming every shard it is the primary of, which Placement says.
LEMMA MarkPreserves ==
  ASSUME NEW st \in ClusterStates, Placement(st), NEW n \in Nodes
  PROVE  LET r == applyMarkUnhealthy(st, n)
         IN  r \in ClusterStates /\ Placement(r)
<1>1. CASE st.status[n] = "absent"
  BY <1>1 DEF applyMarkUnhealthy
<1>2. CASE st.status[n] # "absent"
  <2> DEFINE f == released(st, n)
  <2>1. applyMarkUnhealthy(st, n) = assignReplicas(rebalancePrimary(f))
    BY <1>2 DEF applyMarkUnhealthy
  <2>2. /\ f.status = [st.status EXCEPT ![n] = "unhealthy"]
        /\ f.owned = [st.owned EXCEPT ![n] = {}]
        /\ f.primary = [s \in Shards |->
                          IF s \in st.owned[n] THEN NoNode ELSE st.primary[s]]
        /\ f.replica = [s \in Shards |->
                          IF st.replica[s] = n THEN NoNode ELSE st.replica[s]]
        /\ f.address = st.address /\ f.lastSeen = st.lastSeen
        /\ f \in ClusterStates
    BY Zenon DEF released, ClusterStates, Statuses
  <2> HIDE DEF f
  <2>3. ASSUME Healthy(f) = {}
        PROVE  /\ \A s \in Shards : f.primary[s] = NoNode
               /\ \A m \in Nodes : f.owned[m] = {}
    <3>1. Healthy(st) \in SUBSET {n}
      BY <2>2, <2>3 DEF Healthy, ClusterStates
    <3>2. \A s \in Shards : st.primary[s] \in {n, NoNode}
      <4>1. \A s \in Shards : Healthy(st) # {} => st.primary[s] \in Healthy(st)
        BY HealthyFinite, RoundRobinMember DEF Placement
      <4>2. \A s \in Shards : Healthy(st) = {} => st.primary[s] = NoNode
        BY DEF Placement
      <4> QED
        BY <3>1, <4>1, <4>2
    <3>3. \A m \in Nodes : st.owned[m] = {s \in Shards : st.primary[s] = m}
      BY DEF Placement
    <3>4. \A s \in Shards : f.primary[s] = NoNode
      BY <2>2, <3>2, <3>3
    <3>5. \A m \in Nodes : f.owned[m] = {}
      BY <2>2, <3>2, <3>3, NoNodeNotANode DEF ClusterStates
    <3> QED
      BY <3>4, <3>5
  <2> QED
    BY <2>1, <2>2, <2>3, Reassigned, Zenon
<1> QED
  BY <1>1, <1>2

\* Two placed states with the same healthy nodes have the same shard map.
LEMMA SamePlacement ==
  ASSUME NEW st \in ClusterStates, NEW r \in ClusterStates,
         Placement(st), Placement(r), Healthy(r) = Healthy(st)
  PROVE  r.primary = st.primary /\ r.replica = st.replica /\ r.owned = st.owned
<1>1. \A s \in Shards : r.primary[s] = st.primary[s]
  BY DEF Placement
<1>2. r.primary = st.primary
  BY <1>1 DEF ClusterStates
<1>3. \A s \in Shards : r.replica[s] = st.replica[s]
  BY <1>2 DEF Placement
<1>4. \A n \in Nodes : r.owned[n] = st.owned[n]
  <2>1. \A n \in Nodes : st.owned[n] = {s \in Shards : st.primary[s] = n}
    BY DEF Placement
  <2>2. \A n \in Nodes : r.owned[n] = {s \in Shards : r.primary[s] = n}
    BY DEF Placement
  <2> TAKE n \in Nodes
  <2>3. {s \in Shards : r.primary[s] = n} = {s \in Shards : st.primary[s] = n}
    BY <1>1
  <2> QED
    BY <2>1, <2>2, <2>3, Zenon
<1> QED
  BY <1>2, <1>3, <1>4 DEF ClusterStates
=============================================================================
