------------------------- MODULE Replication_proofs -------------------------
(***************************************************************************)
(* Proofs about ingestion and replication, for any number of nodes,        *)
(* clients, shards and entries, any batch size and queue capacity, and any *)
(* number of outages.                                                      *)
(***************************************************************************)
EXTENDS Replication, ClusterState_proofs

-----------------------------------------------------------------------------
(* The inductive invariant: what the three properties need of the state.   *)

Calls == {Idle} \cup [first : Nodes, at : Nodes, todo : Seq(Entries) \ {<<>>}]

\* Shapes: every address in a cache is some node's, so a forwarded call and an
\* enqueued copy always go to a node.
WellFormed ==
  /\ st \in ClusterStates /\ Placement(st)
  /\ cache \in [Nodes -> ClusterStates]
  /\ proc \in [Nodes -> Procs]
  /\ queue \in [Nodes -> [Nodes -> Seq(Jobs)]]
  /\ call \in [Clients -> Calls]
  /\ DOMAIN store = Nodes /\ \A n \in Nodes : Held(n) \in SUBSET Copies
  /\ owed \in SUBSET (Entries \X Nodes)

\* A queued job carries the shard of its entry.
JobsFiled ==
  \A n, m \in Nodes : \A j \in Queued(n, m) :
     j.shard = ShardID(NsOf[j.copy.id], SvcOf[j.copy.id])

IInv == WellFormed /\ JobsFiled /\ CopiesInShard /\ AckedStored /\ NoSilentLoss

-----------------------------------------------------------------------------
(* Helpers.                                                                *)

\* The elements of a sequence.
Elems(q) == {q[i] : i \in DOMAIN q}

\* Appending a job to a channel adds it to the queued ones.
LEMMA ElemsAppend ==
  ASSUME NEW S, NEW q \in Seq(S), NEW j \in S
  PROVE  Append(q, j) \in Seq(S) /\ Elems(Append(q, j)) = Elems(q) \cup {j}
<1>1. /\ Append(q, j) \in Seq(S)
      /\ Len(q) \in Nat /\ DOMAIN q = 1 .. Len(q)
      /\ DOMAIN Append(q, j) = 1 .. Len(q) + 1
      /\ \A i \in 1 .. Len(q) : Append(q, j)[i] = q[i]
      /\ Append(q, j)[Len(q) + 1] = j
  OBVIOUS
<1>2. \A i : i \in 1 .. Len(q) + 1 <=> i \in 1 .. Len(q) \/ i = Len(q) + 1
  BY <1>1
<1> QED
  BY <1>1, <1>2 DEF Elems

\* Taking the head job off a channel leaves the others queued.
LEMMA ElemsTail ==
  ASSUME NEW S, NEW q \in Seq(S), q # <<>>
  PROVE  /\ Tail(q) \in Seq(S) /\ Head(q) \in S /\ Head(q) \in Elems(q)
         /\ Elems(q) = Elems(Tail(q)) \cup {Head(q)}
<1>1. /\ Tail(q) \in Seq(S) /\ Head(q) \in S /\ Head(q) = q[1]
      /\ Len(q) \in Nat \ {0} /\ DOMAIN q = 1 .. Len(q)
      /\ DOMAIN Tail(q) = 1 .. Len(q) - 1
      /\ \A i \in 1 .. Len(q) - 1 : Tail(q)[i] = q[i + 1]
  OBVIOUS
<1>2. Elems(q) \subseteq Elems(Tail(q)) \cup {Head(q)}
  <2> SUFFICES ASSUME NEW i \in 1 .. Len(q), i # 1
               PROVE  q[i] \in Elems(Tail(q))
    BY <1>1 DEF Elems
  <2>1. i - 1 \in 1 .. Len(q) - 1 /\ (i - 1) + 1 = i
    BY <1>1
  <2> QED
    BY <1>1, <2>1, Zenon DEF Elems
<1>3. Elems(Tail(q)) \cup {Head(q)} \subseteq Elems(q)
  <2>1. \A i \in 1 .. Len(q) - 1 : i + 1 \in 1 .. Len(q)
    BY <1>1
  <2>2. 1 \in 1 .. Len(q)
    BY <1>1
  <2> QED
    BY <1>1, <2>1, <2>2 DEF Elems
<1> QED
  BY <1>1, <1>2, <1>3 DEF Elems

\* Every entry has a shard.
LEMMA ShardOfEntry ==
  ASSUME NEW ns \in Namespaces, NEW svc \in Services
  PROVE  ShardID(ns, svc) \in Shards
<1>1. Hash[<<ns, svc>>] \in Nat /\ TotalShards \in Nat /\ TotalShards > 0
  BY ReplicationAssumption, ShardsAssumption
<1> QED
  BY <1>1 DEF ShardID, Shards

\* An address of the cluster is some node's.
LEMMA NodeAtNode ==
  ASSUME NEW a \in Addrs
  PROVE  NodeAt(a) \in Nodes
BY ReplicationAssumption DEF NodeAt

\* What a handler computes from its cache is defined: the entry's shard, its
\* owners, and the nodes it forwards and copies to.
LEMMA Routing ==
  ASSUME WellFormed, NEW c \in Clients, call[c] # Idle
  PROVE  /\ Handler(c) \in Nodes /\ call[c].first \in Nodes
         /\ call[c].todo \in Seq(Entries) /\ call[c].todo # <<>> /\ Entry(c) \in Entries
         /\ EntryShard(c) \in Shards
         /\ CopyTo(c) \in Nodes \cup {NoNode}
         /\ NodeAddress(Handler(c), Primary(c)) # NoAddr
              => NodeAt(NodeAddress(Handler(c), Primary(c))) \in Nodes
<1>1. call[c] \in [first : Nodes, at : Nodes, todo : Seq(Entries) \ {<<>>}]
  BY DEF WellFormed, Calls
<1>2. /\ Handler(c) \in Nodes /\ call[c].first \in Nodes
      /\ call[c].todo \in Seq(Entries) /\ call[c].todo # <<>>
  BY <1>1 DEF Handler
<1>3. Entry(c) \in Entries
  BY <1>2 DEF Entry
<1>4. EntryShard(c) \in Shards
  BY <1>3, ShardOfEntry, Zenon DEF EntryShard, Namespaces, Services
<1>5. cache[Handler(c)] \in ClusterStates
  BY <1>2 DEF WellFormed
<1>6. Primary(c) \in Nodes \cup {NoNode} /\ Replica(c) \in Nodes \cup {NoNode}
  BY <1>4, <1>5 DEF Primary, Replica, ClusterStates
<1>7. /\ NodeAddress(Handler(c), Primary(c)) \in Addrs \cup {NoAddr}
      /\ NodeAddress(Handler(c), Replica(c)) \in Addrs \cup {NoAddr}
  BY <1>5, <1>6 DEF NodeAddress, ClusterStates
<1>8. CopyTo(c) \in Nodes \cup {NoNode}
  BY <1>7, NodeAtNode DEF CopyTo
<1> QED
  BY <1>2, <1>3, <1>4, <1>7, <1>8, NodeAtNode

\* A batch of several entries goes on after its first.
LEMMA TailNonEmpty ==
  ASSUME NEW S, NEW q \in Seq(S), q # <<>>, Len(q) # 1
  PROVE  Tail(q) \in Seq(S) \ {<<>>}
<1>1. Tail(q) \in Seq(S) /\ Len(Tail(q)) = Len(q) - 1 /\ Len(q) \in Nat \ {0}
  OBVIOUS
<1>2. Len(Tail(q)) # 0
  BY <1>1
<1>3. Len(<<>>) = 0
  OBVIOUS
<1>4. Tail(q) # <<>>
  BY <1>2, <1>3, Zenon
<1> QED
  BY <1>1, <1>4

\* Taking the next entry of a batch leaves a well-formed call.
LEMMA NextEntryCalls ==
  ASSUME WellFormed, NEW c \in Clients, call[c] # Idle, NextEntry(c)
  PROVE  call' \in [Clients -> Calls]
<1> DEFINE k == call[c]
<1>1. k.first \in Nodes /\ k.todo \in Seq(Entries) /\ k.todo # <<>>
  BY Routing
<1>2. Len(k.todo) # 1 => Tail(k.todo) \in Seq(Entries) \ {<<>>}
  <2> HIDE DEF k
  <2> QED
    BY <1>1, TailNonEmpty
<1>3. [first |-> k.first, at |-> k.first, todo |-> Tail(k.todo)] \in Calls \/ Len(k.todo) = 1
  BY <1>1, <1>2 DEF Calls
<1>4. Idle \in Calls
  BY DEF Calls
<1> QED
  BY <1>3, <1>4 DEF NextEntry, WellFormed

-----------------------------------------------------------------------------
(* What an action that leaves disks, channels and reports alone, or only   *)
(* adds to the disks, cannot disturb.                                      *)

Properties == JobsFiled /\ CopiesInShard /\ AckedStored /\ NoSilentLoss

\* Routing and process steps touch no copy.
LEMMA Frame ==
  ASSUME IInv, UNCHANGED <<store, queue, acked, owed, missed, unchecked>>
  PROVE  Properties'
BY DEF IInv, Properties, JobsFiled, CopiesInShard, AckedStored, NoSilentLoss, Held, Queued

\* Appending a bag of copies to a disk keeps what was there.
LEMMA AppendedHolds ==
  ASSUME WellFormed, NEW n \in Nodes, NEW more,
         store' = [store EXCEPT ![n] = Appended(@, more)]
  PROVE  /\ DOMAIN store' = Nodes
         /\ Held(n)' = Held(n) \cup DOMAIN more
         /\ \A m \in Nodes \ {n} : Held(m)' = Held(m)
BY DEF WellFormed, Held, Appended

\* The bag of one copy.
LEMMA OneDomain == \A c : DOMAIN One(c) = {c}
BY DEF One

\* Disks that only grow keep acknowledged entries stored.
LEMMA GrowingKeepsAcked ==
  ASSUME AckedStored, \A n \in Nodes : Held(n) \subseteq Held(n)', acked' = acked
  PROVE  AckedStored'
BY DEF AckedStored

-----------------------------------------------------------------------------
(* Ingestion.                                                              *)

\* A call is opened, answered, forwarded or given up: only call changes.
LEMMA CallSteps ==
  ASSUME IInv, NEW c \in Clients,
         \/ \E n \in Nodes, batch \in Batches : Send(c, n, batch)
         \/ Unavailable(c) \/ Forward(c) \/ AppendFails(c)
  PROVE  IInv'
<1> USE DEF IInv
<1>1. /\ UNCHANGED <<st, cache, proc, store, queue, acked, owed, missed, unchecked>>
  BY DEF Send, Unavailable, Forward, AppendFails, nodeVars
<1>2. call' \in [Clients -> Calls]
  <2>1. ASSUME NEW n \in Nodes, NEW batch \in Batches, Send(c, n, batch)
        PROVE  call' \in [Clients -> Calls]
    <3>1. batch \in Seq(Entries) \ {<<>>}
      <4>1. PICK k \in 1 .. MaxBatch : batch \in [1 .. k -> Entries]
        BY DEF Batches
      <4>2. k \in Nat /\ k > 0
        BY <4>1, ReplicationAssumption
      <4>3. batch \in Seq(Entries) /\ Len(batch) = k
        BY <4>1, <4>2
      <4> QED
        BY <4>2, <4>3
    <3>2. [first |-> n, at |-> n, todo |-> batch] \in Calls
      BY <3>1 DEF Calls
    <3> QED
      BY <2>1, <3>2 DEF Send, WellFormed
  <2>2. CASE Unavailable(c)
    BY <2>2, NextEntryCalls DEF Unavailable
  <2>3. CASE Forward(c)
    <3> DEFINE m == NodeAt(NodeAddress(Handler(c), Primary(c)))
    <3>1. call[c] # Idle /\ call' = [call EXCEPT ![c].at = m]
      BY <2>3 DEF Forward
    <3>2. m \in Nodes
      BY <2>3, Routing DEF Forward
    <3>3. call[c] \in [first : Nodes, at : Nodes, todo : Seq(Entries) \ {<<>>}]
      BY <3>1 DEF WellFormed, Calls
    <3> HIDE DEF m
    <3>4. [call[c] EXCEPT !.at = m] \in Calls
      BY <3>2, <3>3, Zenon DEF Calls
    <3> QED
      BY <3>1, <3>4 DEF WellFormed
  <2>4. CASE AppendFails(c)
    BY <2>4 DEF AppendFails, WellFormed, Calls
  <2> QED
    BY <2>1, <2>2, <2>3, <2>4, ZenonT(60)
<1>3. WellFormed'
  BY <1>1, <1>2 DEF WellFormed, Held
<1>4. Properties'
  BY <1>1, Frame, Zenon
<1> QED
  BY <1>3, <1>4 DEF Properties

\* A node's channels after a job for m was put into one of them, or dropped.
LEMMA Enqueued ==
  ASSUME WellFormed, NEW n \in Nodes, NEW m \in Nodes \cup {NoNode},
         NEW job \in Jobs, Enqueue(n, m, job)
  PROVE  /\ queue' \in [Nodes -> [Nodes -> Seq(Jobs)]]
         /\ owed' = owed \cup (IF m = NoNode THEN {} ELSE {<<job.copy.id, m>>})
         /\ missed \subseteq missed'
         /\ \A k, l \in Nodes : /\ Queued(k, l) \subseteq Queued(k, l)'
                               /\ Queued(k, l)' \subseteq Queued(k, l) \cup {job}
         /\ m # NoNode => <<job.copy.id, m>> \in missed' \/ job \in Queued(n, m)'
<1>1. CASE m = NoNode \/ Full(n, m)
  <2>1. queue' = queue
    BY <1>1 DEF Enqueue
  <2>2. \A k, l : Queued(k, l)' = Queued(k, l)
    BY <2>1 DEF Queued
  <2>3. /\ owed' = owed \cup (IF m = NoNode THEN {} ELSE {<<job.copy.id, m>>})
        /\ missed \subseteq missed'
        /\ m # NoNode => <<job.copy.id, m>> \in missed'
    BY <1>1 DEF Enqueue
  <2> QED
    BY <2>1, <2>2, <2>3 DEF WellFormed
<1>2. CASE m # NoNode /\ ~Full(n, m)
  <2>1. /\ m \in Nodes
        /\ queue' = [queue EXCEPT ![n][m] = Append(queue[n][m], job)]
        /\ owed' = owed \cup {<<job.copy.id, m>>} /\ missed' = missed
    BY <1>2 DEF Enqueue
  <2>2. queue[n][m] \in Seq(Jobs)
    BY <2>1 DEF WellFormed
  <2>3. /\ Append(queue[n][m], job) \in Seq(Jobs)
        /\ Elems(Append(queue[n][m], job)) = Elems(queue[n][m]) \cup {job}
    BY <2>2, ElemsAppend
  <2>4. queue' \in [Nodes -> [Nodes -> Seq(Jobs)]]
    BY <2>1, <2>3 DEF WellFormed
  <2>5. \A k, l \in Nodes : queue'[k][l] = IF k = n /\ l = m THEN Append(queue[n][m], job)
                                                          ELSE queue[k][l]
    BY <2>1, ZenonT(60) DEF WellFormed
  <2>6. \A k, l \in Nodes : Queued(k, l) = Elems(queue[k][l]) /\ Queued(k, l)' = Elems(queue'[k][l])
    BY DEF Queued, Elems
  <2>7. \A k, l \in Nodes : Queued(k, l)' = IF k = n /\ l = m THEN Queued(n, m) \cup {job}
                                                            ELSE Queued(k, l)
    BY <2>1, <2>3, <2>5, <2>6
  <2> QED
    BY <1>2, <2>1, <2>4, <2>7, ZenonT(60)
<1> QED
  BY <1>1, <1>2, Zenon

\* The primary writes an entry: it is on its disk when it is acknowledged, and
\* its copy is queued or dropped with a log line when it becomes owed.
LEMMA WriteLocalStep ==
  ASSUME IInv, NEW c \in Clients, NEW at \in ReceiveTimes, NEW lost \in BOOLEAN,
         WriteLocal(c, at, lost)
  PROVE  IInv'
<1> USE DEF IInv
<1>1. call[c] # Idle
  BY DEF WriteLocal
<1>2. PICK n \in Nodes, e \in Entries, m \in Nodes \cup {NoNode} :
         n = Handler(c) /\ e = Entry(c) /\ m = CopyTo(c)
  BY <1>1, Routing, Zenon
<1>3. PICK copy \in Copies :
         /\ copy = [id |-> e, ns |-> NsOf[e], svc |-> SvcOf[e], at |-> at]
         /\ copy.id = e /\ copy.ns = NsOf[e] /\ Shard(copy) = ShardID(NsOf[e], SvcOf[e])
  <2> DEFINE r == [id |-> e, ns |-> NsOf[e], svc |-> SvcOf[e], at |-> at]
  <2>1. NsOf[e] \in Namespaces /\ SvcOf[e] \in Services
    BY Zenon DEF Namespaces, Services
  <2>2. r \in Copies
    BY <2>1 DEF Copies
  <2>3. r.id = e /\ r.ns = NsOf[e] /\ Shard(r) = ShardID(NsOf[e], SvcOf[e])
    BY DEF Shard
  <2>4. r = [id |-> e, ns |-> NsOf[e], svc |-> SvcOf[e], at |-> at]
    OBVIOUS
  <2> HIDE DEF r
  <2> QED
    BY <2>2, <2>3, <2>4, ZenonT(60)
<1>4. PICK job \in Jobs :
         /\ job = [copy |-> copy, shard |-> Shard(copy)]
         /\ job.copy = copy /\ job.shard = ShardID(NsOf[e], SvcOf[e])
  <2>1. Shard(copy) \in Shards
    <3>1. NsOf[e] \in Namespaces /\ SvcOf[e] \in Services
      BY ZenonT(60) DEF Namespaces, Services
    <3> QED
      BY <1>3, <3>1, ShardOfEntry, ZenonT(60)
  <2> DEFINE r == [copy |-> copy, shard |-> Shard(copy)]
  <2>2. r \in Jobs /\ r.copy = copy /\ r.shard = ShardID(NsOf[e], SvcOf[e])
    BY <1>3, <2>1 DEF Jobs
  <2>3. r = [copy |-> copy, shard |-> Shard(copy)]
    BY ZenonT(60)
  <2> HIDE DEF r
  <2> QED
    BY <2>2, <2>3, ZenonT(60)
<1>5. /\ store' = [store EXCEPT ![n] = Appended(@, One(copy))]
      /\ Enqueue(n, m, job)
      /\ acked' \subseteq acked \cup {e}
      /\ NextEntry(c)
      /\ UNCHANGED <<st, cache, proc, unchecked>>
  BY <1>2, <1>3, <1>4, ZenonT(60) DEF WriteLocal, nodeVars
<1>6. /\ DOMAIN store' = Nodes
      /\ Held(n)' = Held(n) \cup {copy}
      /\ \A k \in Nodes \ {n} : Held(k)' = Held(k)
  BY <1>5, AppendedHolds, OneDomain, ZenonT(60)
<1>7. /\ queue' \in [Nodes -> [Nodes -> Seq(Jobs)]]
      /\ owed' = owed \cup (IF m = NoNode THEN {} ELSE {<<e, m>>})
      /\ missed \subseteq missed'
      /\ \A k, l \in Nodes : /\ Queued(k, l) \subseteq Queued(k, l)'
                            /\ Queued(k, l)' \subseteq Queued(k, l) \cup {job}
      /\ m # NoNode => <<e, m>> \in missed' \/ job \in Queued(n, m)'
  <2>1. job.copy.id = e /\ WellFormed
    BY <1>3, <1>4, <1>5, SMTT(30)
  <2>2. Enqueue(n, m, job) /\ job \in Jobs /\ m \in Nodes \cup {NoNode}
    BY <1>3, <1>4, <1>5, SMTT(30)
  <2> QED
    BY <2>1, <2>2, Enqueued, ZenonT(60)
<1>8. WellFormed'
  <2>1. call' \in [Clients -> Calls]
    BY <1>1, <1>5, NextEntryCalls, Zenon
  <2>2. ASSUME NEW k \in Nodes PROVE Held(k)' \in SUBSET Copies
    <3>1. Held(k)' = Held(k) \/ Held(k)' = Held(k) \cup {copy}
      BY <1>6
    <3>2. Held(k) \in SUBSET Copies
      BY DEF WellFormed
    <3> QED
      BY <3>1, <3>2, Zenon
  <2>3. owed' \in SUBSET (Entries \X Nodes)
    BY <1>7, SMTT(30) DEF WellFormed
  <2> QED
    BY <1>5, <1>6, <1>7, <2>1, <2>2, <2>3, Zenon DEF WellFormed
<1>9. JobsFiled'
  BY <1>3, <1>4, <1>7, ZenonT(60) DEF JobsFiled
<1>10. CopiesInShard'
  BY <1>3, <1>5, <1>6, ZenonT(60) DEF CopiesInShard
<1>11. AckedStored'
  <2>1. \A k \in Nodes : Held(k) \subseteq Held(k)'
    BY <1>6
  <2>2. copy \in Held(n)'
    BY <1>6, Zenon
  <2> QED
    BY <1>3, <1>5, <2>1, <2>2, ZenonT(60) DEF AckedStored
<1>12. NoSilentLoss'
  <2> SUFFICES ASSUME NEW o \in owed' \ missed'
               PROVE  \/ o[1] \in IDs(Held(o[2])')
                      \/ \E k \in Nodes : \E j \in Queued(k, o[2])' : j.copy.id = o[1]
    BY Zenon DEF NoSilentLoss, IDs, Held, Queued
  <2>1. CASE o \in owed
    <3>1. o[2] \in Nodes
      BY <2>1, Zenon DEF WellFormed
    <3>2. o \in owed \ missed
      BY <1>7, <2>1, ZenonT(60)
    <3>3. \/ o[1] \in IDs(Held(o[2]))
          \/ \E k \in Nodes : \E j \in Queued(k, o[2]) : j.copy.id = o[1]
      BY <3>2, Zenon DEF NoSilentLoss
    <3>4. Held(o[2]) \subseteq Held(o[2])'
      BY <1>6, <3>1, Zenon
    <3> QED
      BY <1>7, <3>1, <3>3, <3>4, ZenonT(60) DEF IDs
  <2>2. CASE o \notin owed
    <3>1. m \in Nodes /\ o = <<e, m>> /\ job \in Queued(n, m)'
      BY <1>7, <2>2, ZenonT(60)
    <3> QED
      BY <1>3, <1>4, <3>1, ZenonT(60)
  <2> QED
    BY <2>1, <2>2, ZenonT(60)
<1> QED
  BY <1>8, <1>9, <1>10, <1>11, <1>12

-----------------------------------------------------------------------------
(* The replicator.                                                         *)

\* Channels that only lose jobs keep the others filed under their shards.
LEMMA ShrinkingKeepsFiled ==
  ASSUME JobsFiled, \A n, m \in Nodes : Queued(n, m)' \subseteq Queued(n, m)
  PROVE  JobsFiled'
BY DEF JobsFiled

\* Taking the head job off the channel from n to m.
LEMMA Dequeued ==
  ASSUME WellFormed, NEW n \in Nodes, NEW m \in Nodes, queue[n][m] # <<>>,
         queue' = [queue EXCEPT ![n][m] = Tail(@)]
  PROVE  /\ queue' \in [Nodes -> [Nodes -> Seq(Jobs)]]
         /\ Head(queue[n][m]) \in Jobs /\ Head(queue[n][m]) \in Queued(n, m)
         /\ Queued(n, m) = Queued(n, m)' \cup {Head(queue[n][m])}
         /\ \A k, l \in Nodes : k # n \/ l # m => Queued(k, l)' = Queued(k, l)
         /\ \A k, l \in Nodes : Queued(k, l)' \subseteq Queued(k, l)
<1>1. queue[n][m] \in Seq(Jobs)
  BY DEF WellFormed
<1>2. /\ Tail(queue[n][m]) \in Seq(Jobs)
      /\ Head(queue[n][m]) \in Jobs /\ Head(queue[n][m]) \in Elems(queue[n][m])
      /\ Elems(queue[n][m]) = Elems(Tail(queue[n][m])) \cup {Head(queue[n][m])}
  BY <1>1, ElemsTail, ZenonT(60)
<1>3. queue' \in [Nodes -> [Nodes -> Seq(Jobs)]]
  BY <1>2, Zenon DEF WellFormed
<1>4. \A k, l \in Nodes : queue'[k][l] = IF k = n /\ l = m THEN Tail(queue[n][m]) ELSE queue[k][l]
  BY Zenon DEF WellFormed
<1>5. \A k, l \in Nodes : Queued(k, l) = Elems(queue[k][l]) /\ Queued(k, l)' = Elems(queue'[k][l])
  BY DEF Queued, Elems
<1> QED
  BY <1>2, <1>3, <1>4, <1>5

\* A delivered copy is on the replica's disk, in the shard of its entry or marked
\* as taken unchecked.
LEMMA DeliverStep ==
  ASSUME IInv, NEW n \in Nodes, NEW m \in Nodes, Deliver(n, m)
  PROVE  IInv'
<1> USE DEF IInv
<1>1. queue[n][m] # <<>> /\ queue' = [queue EXCEPT ![n][m] = Tail(@)]
  BY Zenon DEF Deliver, Sending
<1>2. PICK job \in Jobs : job = Head(queue[n][m])
  BY <1>1, Dequeued, Zenon
<1>3. /\ queue' \in [Nodes -> [Nodes -> Seq(Jobs)]]
      /\ job \in Queued(n, m) /\ Queued(n, m) = Queued(n, m)' \cup {job}
      /\ \A k, l \in Nodes : k # n \/ l # m => Queued(k, l)' = Queued(k, l)
  BY <1>1, <1>2, Dequeued, ZenonT(60)
<1>4. PICK c \in Copies :
         /\ c = entryToProto(job.copy)
         /\ c.id = job.copy.id /\ c.id \in Entries
  <2>1. PICK d \in Copies : d = job.copy
    BY DEF Jobs
  <2> DEFINE r == [d EXCEPT !.ns = ""]
  <2>2. r \in Copies /\ r.id = d.id /\ r.id \in Entries
    BY Zenon DEF Copies, Namespaces
  <2>3. r = entryToProto(d)
    BY Zenon DEF entryToProto
  <2> HIDE DEF r
  <2> QED
    BY <2>1, <2>2, <2>3
<1>5. /\ ReplicateEntryAccepts(m, c, job.shard)
      /\ store' = [store EXCEPT ![m] = Appended(@, One(c))]
      /\ unchecked' = IF proc[m] = "local" THEN unchecked \cup {c.id} ELSE unchecked
      /\ UNCHANGED <<st, cache, proc, call, acked, owed, missed>>
  BY <1>2, <1>4, ZenonT(60) DEF Deliver, nodeVars, clientVars
<1>6. /\ DOMAIN store' = Nodes
      /\ Held(m)' = Held(m) \cup {c}
      /\ \A k \in Nodes \ {m} : Held(k)' = Held(k)
  BY <1>5, AppendedHolds, OneDomain, Zenon
<1>7. \A k \in Nodes : Held(k) \subseteq Held(k)'
  BY <1>6
<1>8. WellFormed'
  <2>1. ASSUME NEW k \in Nodes PROVE Held(k)' \in SUBSET Copies
    <3>1. Held(k)' = Held(k) \/ Held(k)' = Held(k) \cup {c}
      BY <1>6
    <3>2. Held(k) \in SUBSET Copies
      BY DEF WellFormed
    <3> QED
      BY <3>1, <3>2
  <2> QED
    BY <1>3, <1>5, <1>6, <2>1, ZenonT(60) DEF WellFormed
<1>9. JobsFiled'
  BY <1>1, Dequeued, ShrinkingKeepsFiled, ZenonT(60)
<1>10. CopiesInShard'
  <2>1. c.id \in unchecked' \/ Shard(c) = ShardID(NsOf[c.id], SvcOf[c.id])
    <3>1. proc[m] = "local" \/ Shard(c) = job.shard
      BY <1>5, ZenonT(60) DEF ReplicateEntryAccepts
    <3>2. job.shard = ShardID(NsOf[job.copy.id], SvcOf[job.copy.id])
      BY <1>3 DEF JobsFiled
    <3> QED
      BY <1>4, <1>5, <3>1, <3>2, ZenonT(60)
  <2>2. unchecked \subseteq unchecked'
    BY <1>5, Zenon
  <2> QED
    BY <1>6, <2>1, <2>2, ZenonT(60) DEF CopiesInShard
<1>11. AckedStored'
  BY <1>5, <1>7, GrowingKeepsAcked, ZenonT(60)
<1>12. NoSilentLoss'
  <2> SUFFICES ASSUME NEW o \in owed \ missed
               PROVE  \/ o[1] \in IDs(Held(o[2])')
                      \/ \E k \in Nodes : \E j \in Queued(k, o[2])' : j.copy.id = o[1]
    BY <1>5 DEF NoSilentLoss, IDs, Held, Queued
  <2>1. o[2] \in Nodes
    BY Zenon DEF WellFormed
  <2>2. CASE o[1] \in IDs(Held(o[2]))
    BY <1>7, <2>1, <2>2, ZenonT(60) DEF IDs
  <2>3. ASSUME NEW k \in Nodes, NEW j \in Queued(k, o[2]), j.copy.id = o[1]
        PROVE  o[1] \in IDs(Held(o[2])') \/ j \in Queued(k, o[2])'
    <3>1. CASE j = job /\ k = n /\ o[2] = m
      BY <1>4, <1>6, <2>3, <3>1, ZenonT(60) DEF IDs
    <3>2. CASE ~(j = job /\ k = n /\ o[2] = m)
      BY <1>3, <2>1, <2>3, <3>2, ZenonT(60)
    <3> QED
      BY <3>1, <3>2, Zenon
  <2> QED
    BY <2>2, <2>3, ZenonT(60) DEF NoSilentLoss
<1> QED
  BY <1>8, <1>9, <1>10, <1>11, <1>12

\* A job that fails is logged: its entry is missed by the replica.
LEMMA SendFailsStep ==
  ASSUME IInv, NEW n \in Nodes, NEW m \in Nodes, SendFails(n, m)
  PROVE  IInv'
<1> USE DEF IInv
<1>1. queue[n][m] # <<>> /\ queue' = [queue EXCEPT ![n][m] = Tail(@)]
  BY Zenon DEF SendFails, Sending
<1>2. PICK job \in Jobs : job = Head(queue[n][m])
  BY <1>1, Dequeued, Zenon
<1>3. /\ queue' \in [Nodes -> [Nodes -> Seq(Jobs)]]
      /\ Queued(n, m) = Queued(n, m)' \cup {job}
      /\ \A k, l \in Nodes : k # n \/ l # m => Queued(k, l)' = Queued(k, l)
  BY <1>1, <1>2, Dequeued, ZenonT(60)
<1>4. /\ missed' = missed \cup {<<job.copy.id, m>>}
      /\ UNCHANGED <<st, cache, proc, store, call, acked, owed, unchecked>>
  BY <1>2 DEF SendFails, nodeVars, clientVars
<1>5. \A k : Held(k)' = Held(k)
  BY <1>4 DEF Held
<1>6. WellFormed'
  BY <1>3, <1>4, <1>5, Zenon DEF WellFormed
<1>7. JobsFiled'
  BY <1>1, Dequeued, ShrinkingKeepsFiled, ZenonT(60)
<1>8. CopiesInShard' /\ AckedStored'
  BY <1>4, <1>5 DEF CopiesInShard, AckedStored
<1>9. NoSilentLoss'
  <2> SUFFICES ASSUME NEW o \in owed \ missed'
               PROVE  \/ o[1] \in IDs(Held(o[2]))
                      \/ \E k \in Nodes : \E j \in Queued(k, o[2])' : j.copy.id = o[1]
    BY <1>4, <1>5, ZenonT(60) DEF NoSilentLoss, IDs, Held, Queued
  <2>1. o[2] \in Nodes /\ o = <<o[1], o[2]>> /\ o \in owed \ missed
    BY <1>4 DEF WellFormed
  <2>2. ASSUME NEW k \in Nodes, NEW j \in Queued(k, o[2]), j.copy.id = o[1]
        PROVE  j \in Queued(k, o[2])'
    <3>1. ~(j = job /\ o[2] = m)
      BY <1>4, <2>1, <2>2
    <3> QED
      BY <1>3, <2>1, <3>1, ZenonT(60)
  <2> QED
    BY <2>1, <2>2, ZenonT(60) DEF NoSilentLoss
<1> QED
  BY <1>6, <1>7, <1>8, <1>9, ZenonT(60)

-----------------------------------------------------------------------------
(* A node's process.                                                       *)

\* The empty cluster state is one, and it is placed.
LEMMA NewFSMPlaced == NewFSM \in ClusterStates /\ Placement(NewFSM)
<1>1. NewFSM \in ClusterStates
  BY DEF NewFSM, ClusterStates, Statuses, Shards
<1>2. Healthy(NewFSM) = {}
  BY Zenon DEF NewFSM, Healthy
<1> QED
  BY <1>1, <1>2, NoNodeNotANode, ZenonT(60) DEF NewFSM, Placement, FirstOther

\* The commands nodes and the liveness checker propose keep the metadata placed.
LEMMA CommandsPlaced ==
  ASSUME WellFormed, NEW n \in Nodes
  PROVE  /\ Registered(n) \in ClusterStates /\ Placement(Registered(n))
         /\ Apply(st, CmdMarkUnhealthy(n)) \in ClusterStates
         /\ Placement(Apply(st, CmdMarkUnhealthy(n)))
<1>1. st \in ClusterStates /\ Placement(st)
  BY DEF WellFormed
<1>2. AddrOf[n] \in Addrs /\ 0 \in Nat
  BY ReplicationAssumption
<1>3. Registered(n) = applyRegisterNode(st, n, AddrOf[n], 0)
  BY DEF Registered, Apply, CmdRegisterNode
<1>4. Apply(st, CmdMarkUnhealthy(n)) = applyMarkUnhealthy(st, n)
  BY DEF Apply, CmdMarkUnhealthy
<1> QED
  BY <1>1, <1>2, <1>3, <1>4, RegisterPreserves, MarkPreserves, ZenonT(60)

\* Starting, serving, refreshing, shutting down and being suspected touch no copy.
LEMMA ProcessSteps ==
  ASSUME IInv, NEW n \in Nodes,
         \/ \E refreshed, skipped \in BOOLEAN : Start(n, refreshed, skipped)
         \/ \E s \in Shards, p \in Nodes : CatchUpSkips(n, s, p)
         \/ StartLocal(n) \/ FinishCatchUp(n) \/ Refresh(n)
         \/ Shutdown(n) \/ Stopped(n) \/ Suspect(n)
  PROVE  IInv'
<1> USE DEF IInv
<1>1. UNCHANGED <<store, queue, call, acked, owed, missed, unchecked>>
  BY ZenonT(60) DEF Start, CatchUpSkips, StartLocal, FinishCatchUp, Refresh, Shutdown, Stopped,
         Suspect, clientVars
<1>2. st' \in ClusterStates /\ Placement(st')
  <2>1. st' \in {st, Registered(n), Apply(st, CmdMarkUnhealthy(n))}
    BY Zenon DEF Start, CatchUpSkips, StartLocal, FinishCatchUp, Refresh, Shutdown, Stopped,
           Suspect
  <2> QED
    BY <2>1, CommandsPlaced DEF WellFormed
<1>3. cache' \in [Nodes -> ClusterStates]
  <2>1. \/ cache' = cache
        \/ \E r \in {st, Registered(n), NewFSM} : cache' = [cache EXCEPT ![n] = r]
    BY Zenon DEF Start, CatchUpSkips, StartLocal, FinishCatchUp, Refresh, Shutdown, Stopped,
           Suspect, nodeVars
  <2> QED
    BY <2>1, CommandsPlaced, NewFSMPlaced, ZenonT(60) DEF WellFormed
<1>4. proc' \in [Nodes -> Procs]
  <2>1. \/ proc' = proc
        \/ \E x \in Procs : proc' = [proc EXCEPT ![n] = x]
    BY Zenon DEF Start, CatchUpSkips, StartLocal, FinishCatchUp, Refresh, Shutdown, Stopped,
           Suspect, nodeVars, Procs
  <2> QED
    BY <2>1, Zenon DEF WellFormed
<1>5. WellFormed'
  BY <1>1, <1>2, <1>3, <1>4, Zenon DEF WellFormed, Held
<1>6. Properties'
  BY <1>1, Frame
<1> QED
  BY <1>5, <1>6, ZenonT(60) DEF Properties

\* Catch-up copies what a primary holds: it brings no copy the cluster lacks.
LEMMA CatchUpShardStep ==
  ASSUME IInv, NEW n \in Nodes, NEW s \in Shards, NEW p \in Nodes, NEW failed \in SUBSET Entries,
         CatchUpShard(n, s, p, failed)
  PROVE  IInv'
<1> USE DEF IInv
<1>1. PICK fresh \in SUBSET Held(p) :
         store' = [store EXCEPT ![n] = Appended(@, [c \in fresh |-> store[p][c]])]
  BY ZenonT(60) DEF CatchUpShard, FetchShardEntries
<1>2. UNCHANGED <<st, cache, proc, queue, call, acked, owed, missed, unchecked>>
  BY ZenonT(60) DEF CatchUpShard, clientVars
<1>3. /\ DOMAIN store' = Nodes
      /\ Held(n)' = Held(n) \cup fresh
      /\ \A m \in Nodes \ {n} : Held(m)' = Held(m)
  BY <1>1, AppendedHolds
<1>4. \A m \in Nodes : Held(m) \subseteq Held(m)' /\ Held(m)' \subseteq Held(m) \cup Held(p)
  BY <1>1, <1>3
<1>5. WellFormed'
  <2>1. ASSUME NEW m \in Nodes PROVE Held(m)' \in SUBSET Copies
    <3>1. Held(m) \in SUBSET Copies /\ Held(p) \in SUBSET Copies
      BY Zenon DEF WellFormed
    <3> QED
      BY <1>4, <3>1, ZenonT(60)
  <2> QED
    BY <1>2, <1>3, <2>1, Zenon DEF WellFormed
<1>6. \A k, l : Queued(k, l)' = Queued(k, l)
  BY <1>2, ZenonT(60) DEF Queued
<1>7. JobsFiled'
  BY <1>6, ZenonT(60) DEF JobsFiled
<1>8. CopiesInShard'
  BY <1>2, <1>4, ZenonT(60) DEF CopiesInShard
<1>9. AckedStored'
  BY <1>2, <1>4, GrowingKeepsAcked, ZenonT(60)
<1>10. NoSilentLoss'
  <2> SUFFICES ASSUME NEW o \in owed \ missed
               PROVE  \/ o[1] \in IDs(Held(o[2])')
                      \/ \E k \in Nodes : \E j \in Queued(k, o[2])' : j.copy.id = o[1]
    BY <1>2, Zenon DEF NoSilentLoss, IDs, Held, Queued
  <2>1. o[2] \in Nodes
    BY DEF WellFormed
  <2>2. Held(o[2]) \subseteq Held(o[2])'
    BY <1>4, <2>1
  <2> QED
    BY <1>6, <2>2, ZenonT(60) DEF NoSilentLoss, IDs
<1> QED
  BY <1>5, <1>7, <1>8, <1>9, <1>10, ZenonT(60)

\* A crash loses the node's channels, whose jobs it records as missed, and the
\* calls that came in through it.
LEMMA CrashStep ==
  ASSUME IInv, NEW n \in Nodes, Crash(n)
  PROVE  IInv'
<1> USE DEF IInv
<1>1. /\ proc' = [proc EXCEPT ![n] = "down"]
      /\ queue' = [queue EXCEPT ![n] = NoQueue]
      /\ missed' = missed \cup UNION {{<<j.copy.id, m>> : j \in Queued(n, m)} : m \in Nodes}
      /\ call' = Abandoned(n)
      /\ UNCHANGED <<st, cache, store, acked, owed, unchecked>>
  BY Zenon DEF Crash
<1>2. \A m : Held(m)' = Held(m)
  BY <1>1, Zenon DEF Held
<1>3. queue' \in [Nodes -> [Nodes -> Seq(Jobs)]]
  <2>1. NoQueue \in [Nodes -> Seq(Jobs)]
    BY DEF NoQueue
  <2> QED
    BY <1>1, <2>1, ZenonT(60) DEF WellFormed
<1>4. \A k, l \in Nodes : Queued(k, l)' \subseteq Queued(k, l)
                          /\ (k # n => Queued(k, l)' = Queued(k, l))
  <2>1. ASSUME NEW k \in Nodes, k # n, NEW l \in Nodes PROVE Queued(k, l)' = Queued(k, l)
    BY <1>1, <2>1, ZenonT(60) DEF Queued, WellFormed
  <2>2. ASSUME NEW l \in Nodes PROVE Queued(n, l)' = {}
    <3>1. queue'[n][l] = <<>>
      BY <1>1 DEF WellFormed, NoQueue
    <3>2. DOMAIN queue'[n][l] = {}
      BY <3>1, SMTT(30)
    <3> QED
      BY <3>2, ZenonT(60) DEF Queued
  <2> QED
    BY <2>1, <2>2, ZenonT(60)
<1>5. call' \in [Clients -> Calls]
  BY <1>1, Zenon DEF Abandoned, WellFormed, Calls
<1>6. WellFormed'
  BY <1>1, <1>2, <1>3, <1>5, ZenonT(60) DEF WellFormed, Procs
<1>7. JobsFiled'
  BY <1>4, ShrinkingKeepsFiled, ZenonT(60)
<1>8. CopiesInShard' /\ AckedStored'
  BY <1>1, <1>2, ZenonT(60) DEF CopiesInShard, AckedStored
<1>9. NoSilentLoss'
  <2> SUFFICES ASSUME NEW o \in owed \ missed'
               PROVE  \/ o[1] \in IDs(Held(o[2]))
                      \/ \E k \in Nodes : \E j \in Queued(k, o[2])' : j.copy.id = o[1]
    BY <1>1, <1>2, Zenon DEF NoSilentLoss, IDs, Held, Queued
  <2>0. o \in Entries \X Nodes /\ o \in owed \ missed
    <3>1. missed \subseteq missed' /\ owed \subseteq Entries \X Nodes
      BY <1>1, Zenon DEF WellFormed
    <3> QED
      BY <3>1, ZenonT(60)
  <2>1. o[2] \in Nodes /\ o = <<o[1], o[2]>> /\ o \in owed \ missed
    BY <2>0
  <2>2. ASSUME NEW k \in Nodes, NEW j \in Queued(k, o[2]), j.copy.id = o[1]
        PROVE  k # n
    BY <1>1, <2>1, <2>2
  <2> QED
    BY <1>4, <2>1, <2>2, ZenonT(60) DEF NoSilentLoss
<1> QED
  BY <1>6, <1>7, <1>8, <1>9, ZenonT(60)

-----------------------------------------------------------------------------
(* The theorems.                                                           *)

\* No copies, no calls.
LEMMA InitIInv == Init => IInv
<1> SUFFICES ASSUME Init PROVE IInv
  OBVIOUS
<1>1. \A n \in Nodes : Held(n) = {}
  BY DEF Init, Held
<1>2. \A n, m \in Nodes : queue[n][m] = <<>>
  BY DEF Init, NoQueue
<1>3. \A n, m \in Nodes : Queued(n, m) = {}
  <2> SUFFICES ASSUME NEW n \in Nodes, NEW m \in Nodes PROVE Queued(n, m) = {}
    OBVIOUS
  <2>1. DOMAIN queue[n][m] = {}
    BY <1>2
  <2> QED
    BY <2>1 DEF Queued
<1>4. queue \in [Nodes -> [Nodes -> Seq(Jobs)]]
  BY DEF Init, NoQueue
<1>5. WellFormed
  BY <1>1, <1>4, NewFSMPlaced, ZenonT(60) DEF Init, WellFormed, Calls, Procs
<1>6. JobsFiled /\ CopiesInShard
  BY <1>1, <1>3, ZenonT(60) DEF JobsFiled, CopiesInShard
<1>7. AckedStored /\ NoSilentLoss
  BY Zenon DEF Init, AckedStored, NoSilentLoss
<1> QED
  BY <1>5, <1>6, <1>7 DEF IInv

\* Every step of clients, nodes and channels.
LEMMA StepPreservesCopies == IInv /\ [Next]_vars => IInv'
<1> SUFFICES ASSUME IInv, [Next]_vars PROVE IInv'
  OBVIOUS
<1>1. ASSUME NEW c \in Clients,
             \/ \E n \in Nodes, batch \in Batches : Send(c, n, batch)
             \/ Unavailable(c) \/ Forward(c) \/ AppendFails(c)
      PROVE  IInv'
  BY <1>1, CallSteps, Zenon
<1>2. ASSUME NEW c \in Clients, NEW at \in ReceiveTimes, NEW lost \in BOOLEAN,
             WriteLocal(c, at, lost)
      PROVE  IInv'
  BY <1>2, WriteLocalStep, ZenonT(60)
<1>3. ASSUME NEW n \in Nodes, NEW m \in Nodes, Deliver(n, m) \/ SendFails(n, m)
      PROVE  IInv'
  BY <1>3, DeliverStep, SendFailsStep, ZenonT(60)
<1>4. ASSUME NEW n \in Nodes, NEW s \in Shards, NEW p \in Nodes, NEW failed \in SUBSET Entries,
         CatchUpShard(n, s, p, failed)
      PROVE  IInv'
  BY <1>4, CatchUpShardStep, ZenonT(60)
<1>5. ASSUME NEW n \in Nodes,
             \/ \E refreshed, skipped \in BOOLEAN : Start(n, refreshed, skipped)
             \/ \E s \in Shards, p \in Nodes : CatchUpSkips(n, s, p)
             \/ StartLocal(n) \/ FinishCatchUp(n) \/ Refresh(n)
             \/ Shutdown(n) \/ Stopped(n) \/ Suspect(n)
      PROVE  IInv'
  BY <1>5, ProcessSteps
<1>6. ASSUME NEW n \in Nodes, Crash(n) PROVE IInv'
  BY <1>6, CrashStep, Zenon
<1>7. CASE UNCHANGED vars
  <2>1. UNCHANGED <<st, cache, proc, store, queue, call, acked, owed, missed, unchecked>>
    BY <1>7, ZenonT(60) DEF vars, nodeVars, clientVars
  <2>2. WellFormed'
    BY <2>1 DEF IInv, WellFormed, Held
  <2> QED
    BY <2>1, <2>2, Frame, ZenonT(60) DEF IInv, Properties
<1> QED
  BY <1>1, <1>2, <1>3, <1>4, <1>5, <1>6, <1>7, ZenonT(60) DEF Next

\* For every cluster, routing and history of outages: a copy lies in the shard
\* of its entry, unless a node in local-only mode took it unchecked.  The
\* replicator drops the namespace; the replica's shard check makes up for it.
THEOREM CopiesInShardTheorem == Spec => []CopiesInShard
<1>1. IInv => CopiesInShard
  BY ZenonT(60) DEF IInv
<1> QED
  BY <1>1, InitIInv, StepPreservesCopies, PTL DEF Spec

\* For every cluster, routing and history of outages: an entry a client was told
\* is stored is on some node's disk, with its namespace.
THEOREM AckedStoredTheorem == Spec => []AckedStored
<1>1. IInv => AckedStored
  BY ZenonT(60) DEF IInv
<1> QED
  BY <1>1, InitIInv, StepPreservesCopies, PTL DEF Spec

\* For every cluster, queue capacity and history of outages: a copy owed to a
\* replica is there, queued, or was recorded as lost.
THEOREM NoSilentLossTheorem == Spec => []NoSilentLoss
<1>1. IInv => NoSilentLoss
  BY DEF IInv
<1> QED
  BY <1>1, InitIInv, StepPreservesCopies, PTL DEF Spec

-----------------------------------------------------------------------------
(***************************************************************************)
(* Catch-up appends no second copy of an entry.  The argument: an entry is *)
(* stamped by one write, all its copies carry that stamp and lie in one    *)
(* shard, so a copy the primary offers at or after the watermark finds the *)
(* node's own copy among the IDs at or after the watermark.                *)
(***************************************************************************)

\* The entries a request has yet to handle.
Waiting(c) == Elems(call[c].todo)

\* The entries and times of all copies, on disks and in channels.
Stamps ==
  {p \in Entries \X ReceiveTimes :
     \/ \E n \in Nodes : \E c \in Held(n) : p = <<c.id, c.at>>
     \/ \E n, m \in Nodes : \E j \in Queued(n, m) : p = <<j.copy.id, j.copy.at>>}

Counted == \A n \in Nodes : \A c \in Held(n) : store[n][c] \in Nat \ {0}

\* Every entry is written once: one that waits has no copy and waits in one
\* place, and the copies of one that was written carry the same time.
WrittenOnce ==
  /\ \A p, q \in Stamps : p[1] = q[1] => p[2] = q[2]
  /\ \A p \in Stamps : p[1] \in sent
  /\ \A c \in Clients :
        /\ \A i, j \in DOMAIN call[c].todo : i # j => call[c].todo[i] # call[c].todo[j]
        /\ Waiting(c) \subseteq sent
        /\ \A p \in Stamps : p[1] \notin Waiting(c)
        /\ \A d \in Clients \ {c} : Waiting(c) \cap Waiting(d) = {}

CInv == IInv /\ Counted /\ WrittenOnce

\* What a request's list of entries can become, short of a new request.
Shorter(r, q) == r = q \/ r = <<>> \/ (q # <<>> /\ r = Tail(q))

-----------------------------------------------------------------------------
\* A shorter list still has no entry twice, and holds nothing new.
LEMMA ShorterList ==
  ASSUME NEW q \in Seq(Entries), NEW r, Shorter(r, q),
         \A i, j \in DOMAIN q : i # j => q[i] # q[j]
  PROVE  /\ \A i, j \in DOMAIN r : i # j => r[i] # r[j]
         /\ Elems(r) \subseteq Elems(q)
         /\ q # <<>> /\ r \in {<<>>, Tail(q)} => Head(q) \notin Elems(r)
<1>1. CASE r = <<>>
  <2>1. DOMAIN r = {}
    BY <1>1
  <2> QED
    BY <2>1 DEF Elems
<1>2. CASE q # <<>> /\ r = Tail(q)
  <2>1. /\ Len(q) \in Nat /\ DOMAIN q = 1 .. Len(q) /\ Head(q) = q[1] /\ 1 \in DOMAIN q
        /\ DOMAIN r = 1 .. Len(q) - 1
        /\ \A i \in DOMAIN r : r[i] = q[i + 1]
    BY <1>2
  <2>2. \A i \in DOMAIN r : i + 1 \in DOMAIN q /\ i + 1 # 1 /\ i \in Int
    BY <2>1
  <2>3. \A i, j \in DOMAIN r : i # j => i + 1 # j + 1
    BY <2>2
  <2>4. \A i, j \in DOMAIN r : i # j => r[i] # r[j]
    BY <2>1, <2>2, <2>3
  <2>5. Elems(r) \subseteq Elems(q)
    BY <2>1, <2>2 DEF Elems
  <2>6. Head(q) \notin Elems(r)
    BY <2>1, <2>2 DEF Elems
  <2> QED
    BY <2>4, <2>5, <2>6
<1>3. CASE r = q /\ ~(r = <<>>) /\ ~(r = Tail(q))
  BY <1>3
<1> QED
  BY <1>1, <1>2, <1>3 DEF Shorter

\* Requests' lists are sequences of entries.
LEMMA TodoSeq ==
  ASSUME WellFormed, NEW c \in Clients
  PROVE  call[c].todo \in Seq(Entries)
<1>1. CASE call[c] = Idle
  <2>1. call[c].todo = <<>>
    BY <1>1 DEF Idle
  <2> QED
    BY <2>1
<1>2. CASE call[c] # Idle
  BY <1>2, Routing
<1> QED
  BY <1>1, <1>2

\* A step that only shortens lists and spreads copies that existed keeps every
\* entry written once.
LEMMA SpreadingKeepsOnce ==
  ASSUME WellFormed, WrittenOnce, Stamps' \subseteq Stamps, sent \subseteq sent',
         \A c \in Clients : Shorter(call'[c].todo, call[c].todo)
  PROVE  WrittenOnce'
<1>1. ASSUME NEW c \in Clients
      PROVE  /\ \A i, j \in DOMAIN call'[c].todo : i # j => call'[c].todo[i] # call'[c].todo[j]
             /\ Waiting(c)' \subseteq Waiting(c)
  BY TodoSeq, ShorterList DEF WrittenOnce, Waiting
<1> QED
  BY <1>1 DEF WrittenOnce

\* Answering an entry takes it off the list.
LEMMA NextEntryShorter ==
  ASSUME WellFormed, NEW c \in Clients, call[c] # Idle, NextEntry(c)
  PROVE  /\ call'[c].todo \in {<<>>, Tail(call[c].todo)} /\ call[c].todo # <<>>
         /\ \A d \in Clients \ {c} : call'[d] = call[d]
<1>1. call[c].todo # <<>>
  BY Routing
<1>2. /\ call'[c] = IF Len(call[c].todo) = 1 THEN Idle
                    ELSE [first |-> call[c].first, at |-> call[c].first,
                          todo |-> Tail(call[c].todo)]
      /\ \A d \in Clients \ {c} : call'[d] = call[d]
  BY DEF NextEntry, WellFormed
<1> QED
  BY <1>1, <1>2 DEF Idle

\* Copies that are where they were have the same stamps and counts.
LEMMA StampsSame ==
  ASSUME UNCHANGED <<store, queue>>, Counted
  PROVE  Stamps' = Stamps /\ Counted'
BY DEF Stamps, Counted, Held, Queued

\* What the stamps after a step are, copy by copy.
LEMMA StampsBelow ==
  ASSUME NEW S,
         \A k \in Nodes : \A d \in Held(k)' : <<d.id, d.at>> \in S,
         \A k, l \in Nodes : \A j \in Queued(k, l)' : <<j.copy.id, j.copy.at>> \in S
  PROVE  Stamps' \subseteq S
BY DEF Stamps

\* Every copy on a disk or in a channel has its stamp.
LEMMA StampOf ==
  ASSUME WellFormed
  PROVE  /\ \A k \in Nodes : \A d \in Held(k) : <<d.id, d.at>> \in Stamps
         /\ \A k, l \in Nodes : \A j \in Queued(k, l) : <<j.copy.id, j.copy.at>> \in Stamps
<1>1. ASSUME NEW k \in Nodes, NEW d \in Held(k)
      PROVE  <<d.id, d.at>> \in Stamps
  <2>1. d \in Copies
    BY DEF WellFormed
  <2>2. <<d.id, d.at>> \in Entries \X ReceiveTimes
    BY <2>1 DEF Copies
  <2> QED
    BY <2>2 DEF Stamps
<1>2. ASSUME NEW k \in Nodes, NEW l \in Nodes, NEW j \in Queued(k, l)
      PROVE  <<j.copy.id, j.copy.at>> \in Stamps
  <2>1. queue[k][l] \in Seq(Jobs)
    BY DEF WellFormed
  <2>2. j \in Jobs
    BY <2>1 DEF Queued
  <2>3. j.copy \in Copies
    BY <2>2 DEF Jobs
  <2>4. <<j.copy.id, j.copy.at>> \in Entries \X ReceiveTimes
    BY <2>3 DEF Copies
  <2> QED
    BY <2>4 DEF Stamps
<1> QED
  BY <1>1, <1>2, ZenonT(60)

\* Appending a bag of counted copies keeps the counts.
LEMMA AppendedCounted ==
  ASSUME WellFormed, Counted, NEW n \in Nodes, NEW more,
         \A c \in DOMAIN more : more[c] \in Nat \ {0},
         store' = [store EXCEPT ![n] = Appended(@, more)]
  PROVE  Counted'
<1>1. \A m \in Nodes \ {n} : store'[m] = store[m]
  BY DEF WellFormed
<1>2. store'[n] = Appended(store[n], more)
  BY DEF WellFormed
<1>3. \A c \in DOMAIN store'[n] : store'[n][c] \in Nat \ {0}
  <2> SUFFICES ASSUME NEW c \in DOMAIN store'[n] PROVE store'[n][c] \in Nat \ {0}
    OBVIOUS
  <2> DEFINE a == IF c \in DOMAIN store[n] THEN store[n][c] ELSE 0
             b == IF c \in DOMAIN more THEN more[c] ELSE 0
  <2>1. store'[n][c] = a + b
    BY <1>2 DEF Appended
  <2>2. a \in Nat /\ b \in Nat /\ (a > 0 \/ b > 0)
    BY <1>2 DEF Counted, Held, Appended
  <2> QED
    BY <2>1, <2>2
<1> QED
  BY <1>1, <1>3 DEF Counted, Held

-----------------------------------------------------------------------------
(* One step per kind of action.                                            *)

\* A request's fresh entries wait nowhere else and have no copy.
LEMMA SendOnce ==
  ASSUME CInv, NEW c \in Clients, NEW n \in Nodes, NEW batch \in Batches, Send(c, n, batch)
  PROVE  Counted' /\ WrittenOnce'
<1> USE DEF CInv, IInv
<1>1. Stamps' = Stamps /\ Counted'
  BY StampsSame DEF Send
<1>2. /\ call'[c].todo = batch
      /\ \A d \in Clients \ {c} : call'[d] = call[d]
  BY DEF Send, WellFormed
<1>3. /\ Waiting(c)' = Elems(batch)
      /\ \A d \in Clients \ {c} : Waiting(d)' = Waiting(d)
  BY <1>2, ZenonT(60) DEF Waiting
<1>4. /\ \A i, j \in DOMAIN batch : i # j => batch[i] # batch[j]
      /\ \A e \in Elems(batch) : e \notin sent
      /\ sent' = sent \cup Elems(batch)
  BY DEF Send, Elems
<1>5. \A p \in Stamps : p[1] \in sent
  BY DEF WrittenOnce
<1>6. \A d \in Clients : Waiting(d) \subseteq sent
  BY DEF WrittenOnce
<1>7. ASSUME NEW d \in Clients
      PROVE  /\ \A i, j \in DOMAIN call'[d].todo : i # j => call'[d].todo[i] # call'[d].todo[j]
             /\ Waiting(d)' \subseteq sent'
             /\ \A p \in Stamps : p[1] \notin Waiting(d)'
             /\ \A f \in Clients \ {d} : Waiting(d)' \cap Waiting(f)' = {}
  <2>1. CASE d = c
    BY <1>2, <1>3, <1>4, <1>5, <1>6, <2>1, SMTT(30)
  <2>2. CASE d # c
    <3>1. /\ \A i, j \in DOMAIN call'[d].todo : i # j => call'[d].todo[i] # call'[d].todo[j]
          /\ \A p \in Stamps : p[1] \notin Waiting(d)'
      BY <1>2, <1>3, <2>2 DEF WrittenOnce
    <3>2. \A f \in Clients \ {d} : Waiting(d)' \cap Waiting(f)' = {}
      BY <1>3, <1>4, <1>6, <2>2, SMTT(30) DEF WrittenOnce
    <3> QED
      BY <1>3, <1>4, <1>6, <2>2, <3>1, <3>2, Zenon
  <2> QED
    BY <2>1, <2>2, ZenonT(60)
<1> QED
  BY <1>1, <1>4, <1>7, ZenonT(60) DEF WrittenOnce

\* An entry that is answered without a write only leaves its list.
LEMMA AnswerOnce ==
  ASSUME CInv, NEW c \in Clients, Unavailable(c) \/ Forward(c) \/ AppendFails(c)
  PROVE  Counted' /\ WrittenOnce'
<1> USE DEF CInv, IInv
<1>1. UNCHANGED <<store, queue, sent>> /\ call[c] # Idle
  BY DEF Unavailable, Forward, AppendFails
<1>2. \A d \in Clients : Shorter(call'[d].todo, call[d].todo)
  <2>1. CASE Unavailable(c)
    BY <1>1, <2>1, NextEntryShorter, ZenonT(60) DEF Unavailable, Shorter
  <2>2. CASE Forward(c)
    <3>1. call[c] \in [first : Nodes, at : Nodes, todo : Seq(Entries) \ {<<>>}]
      BY <1>1 DEF WellFormed, Calls
    <3>2. \A d \in Clients : call'[d].todo = call[d].todo
      BY <2>2, <3>1 DEF Forward, WellFormed
    <3> QED
      BY <3>2 DEF Shorter
  <2>3. CASE AppendFails(c)
    <3>1. call'[c] = Idle /\ \A d \in Clients \ {c} : call'[d] = call[d]
      BY <2>3 DEF AppendFails, WellFormed
    <3> QED
      BY <3>1 DEF Shorter, Idle
  <2> QED
    BY <2>1, <2>2, <2>3, Zenon
<1> QED
  BY <1>1, <1>2, StampsSame, SpreadingKeepsOnce, Zenon

\* A write stamps an entry that had no copy and takes it off its list.
LEMMA WriteOnce ==
  ASSUME CInv, NEW c \in Clients, NEW at \in ReceiveTimes, NEW lost \in BOOLEAN,
         WriteLocal(c, at, lost)
  PROVE  Counted' /\ WrittenOnce'
<1> USE DEF CInv, IInv
<1>1. call[c] # Idle /\ NextEntry(c) /\ sent' = sent
  BY Zenon DEF WriteLocal
<1>2. PICK n \in Nodes, e \in Entries, m \in Nodes \cup {NoNode} :
         n = Handler(c) /\ e = Entry(c) /\ m = CopyTo(c)
  BY <1>1, Routing, Zenon
<1>3. PICK copy, job :
         /\ copy = [id |-> e, ns |-> NsOf[e], svc |-> SvcOf[e], at |-> at]
         /\ copy.id = e /\ copy.at = at
         /\ job = [copy |-> copy, shard |-> Shard(copy)]
         /\ job.copy = copy
  <2> DEFINE r == [id |-> e, ns |-> NsOf[e], svc |-> SvcOf[e], at |-> at]
             t == [copy |-> r, shard |-> Shard(r)]
  <2>1. r = [id |-> e, ns |-> NsOf[e], svc |-> SvcOf[e], at |-> at] /\ r.id = e /\ r.at = at
    OBVIOUS
  <2> HIDE DEF r
  <2>2. t = [copy |-> r, shard |-> Shard(r)] /\ t.copy = r
    BY Zenon
  <2> HIDE DEF t
  <2> QED
    BY <2>1, <2>2, Zenon
<1>4. job \in Jobs
  <2>1. NsOf[e] \in Namespaces /\ SvcOf[e] \in Services
    BY Zenon DEF Namespaces, Services
  <2>2. copy \in Copies /\ Shard(copy) = ShardID(NsOf[e], SvcOf[e])
    BY <1>3, <2>1, Zenon DEF Copies, Shard
  <2> QED
    BY <1>3, <2>1, <2>2, ShardOfEntry, Zenon DEF Jobs
<1>5. /\ store' = [store EXCEPT ![n] = Appended(@, One(copy))]
      /\ Enqueue(n, m, job)
  BY <1>2, <1>3, Zenon DEF WriteLocal
<1>6. \A k \in Nodes : Held(k)' \subseteq Held(k) \cup {copy}
  BY <1>5, AppendedHolds, OneDomain, Zenon
<1>7. \A k, l \in Nodes : Queued(k, l)' \subseteq Queued(k, l) \cup {job}
  BY <1>4, <1>5, Enqueued, Zenon
<1>8. Stamps' \subseteq Stamps \cup {<<e, at>>}
  <2>1. ASSUME NEW k \in Nodes, NEW d \in Held(k)'
        PROVE  <<d.id, d.at>> \in Stamps \cup {<<e, at>>}
    <3>1. CASE d \in Held(k)
      BY <3>1, StampOf
    <3>2. CASE d = copy
      BY <1>3, <3>2
    <3> QED
      BY <1>6, <3>1, <3>2
  <2>2. ASSUME NEW k \in Nodes, NEW l \in Nodes, NEW j \in Queued(k, l)'
        PROVE  <<j.copy.id, j.copy.at>> \in Stamps \cup {<<e, at>>}
    <3>1. CASE j \in Queued(k, l)
      BY <3>1, StampOf, ZenonT(60)
    <3>2. CASE j = job
      BY <1>3, <3>2, ZenonT(60)
    <3> QED
      BY <1>7, <3>1, <3>2, ZenonT(60)
  <2> QED
    BY <2>1, <2>2, StampsBelow, ZenonT(60)
<1>9. Counted'
  <2>1. \A d \in DOMAIN One(copy) : One(copy)[d] \in Nat \ {0}
    BY DEF One
  <2> QED
    BY <1>5, <2>1, AppendedCounted, ZenonT(60)
<1>10. /\ call[c].todo \in Seq(Entries) /\ call[c].todo # <<>> /\ e = Head(call[c].todo)
       /\ call'[c].todo \in {<<>>, Tail(call[c].todo)}
       /\ \A d \in Clients \ {c} : call'[d] = call[d]
  BY <1>1, <1>2, TodoSeq, NextEntryShorter, ZenonT(60) DEF Entry
<1>11. e \in Waiting(c)
  BY <1>10, ElemsTail DEF Waiting
<1>12. \A d \in Clients :
         /\ \A i, j \in DOMAIN call'[d].todo : i # j => call'[d].todo[i] # call'[d].todo[j]
         /\ Waiting(d)' \subseteq Waiting(d) /\ e \notin Waiting(d)'
  <2>1. /\ \A i, j \in DOMAIN call'[c].todo : i # j => call'[c].todo[i] # call'[c].todo[j]
        /\ Waiting(c)' \subseteq Waiting(c) /\ e \notin Waiting(c)'
    <3>1. \A i, j \in DOMAIN call[c].todo : i # j => call[c].todo[i] # call[c].todo[j]
      BY Zenon DEF WrittenOnce
    <3>2. Shorter(call'[c].todo, call[c].todo)
      BY <1>10, ZenonT(60) DEF Shorter
    <3>3. PICK q, r : q = call[c].todo /\ r = call'[c].todo
      OBVIOUS
    <3>4. /\ q \in Seq(Entries) /\ q # <<>> /\ e = Head(q) /\ r \in {<<>>, Tail(q)} /\ Shorter(r, q)
          /\ \A i, j \in DOMAIN q : i # j => q[i] # q[j]
      BY <1>10, <3>1, <3>2, <3>3, Zenon
    <3>5. (\A i, j \in DOMAIN r : i # j => r[i] # r[j]) /\ Elems(r) \subseteq Elems(q) /\ Head(q) \notin Elems(r)
      BY <3>4, ShorterList, Zenon
    <3> QED
      BY <3>3, <3>4, <3>5, Zenon DEF Waiting
  <2>2. ASSUME NEW d \in Clients \ {c}
        PROVE  /\ \A i, j \in DOMAIN call'[d].todo : i # j => call'[d].todo[i] # call'[d].todo[j]
               /\ Waiting(d)' = Waiting(d) /\ e \notin Waiting(d)
    <3>1. Waiting(d)' = Waiting(d)
      BY <1>10, Zenon DEF Waiting
    <3>2. \A i, j \in DOMAIN call[d].todo : i # j => call[d].todo[i] # call[d].todo[j]
      BY DEF WrittenOnce
    <3>3. Waiting(c) \cap Waiting(d) = {}
      BY DEF WrittenOnce
    <3> QED
      BY <1>10, <1>11, <3>1, <3>2, <3>3, Zenon
  <2> QED
    BY <2>1, <2>2, ZenonT(60)
<1>13. \A p \in Stamps' : p \in Stamps \/ (p[1] = e /\ p[2] = at)
  BY <1>8
<1>14. e \in sent /\ \A p \in Stamps : p[1] # e
  BY <1>11, ZenonT(60) DEF WrittenOnce
<1>15. /\ \A p, q \in Stamps' : p[1] = q[1] => p[2] = q[2]
       /\ \A p \in Stamps' : p[1] \in sent
  BY <1>13, <1>14, Zenon DEF WrittenOnce
<1>16. sent' = sent
  BY Zenon DEF WriteLocal
<1>17. WrittenOnce'
  <2>1. ASSUME NEW d \in Clients
        PROVE  /\ Waiting(d)' \subseteq sent' /\ \A p \in Stamps' : p[1] \notin Waiting(d)'
               /\ \A b \in Clients \ {d} : Waiting(d)' \cap Waiting(b)' = {}
    <3>1. /\ Waiting(d) \subseteq sent /\ \A p \in Stamps : p[1] \notin Waiting(d)
          /\ \A b \in Clients \ {d} : Waiting(d) \cap Waiting(b) = {}
      BY Zenon DEF WrittenOnce
    <3>2. \A p \in Stamps' : p[1] \notin Waiting(d)'
      BY <1>12, <1>13, <3>1, Zenon
    <3> QED
      BY <1>12, <1>16, <3>1, <3>2, Zenon
  <2> QED
    BY <1>12, <1>15, <1>16, <2>1, Zenon DEF WrittenOnce
<1> QED
  BY <1>9, <1>17

\* A delivered copy has the stamp of the job's; a failed one leaves only.
LEMMA ReplicateOnce ==
  ASSUME CInv, NEW n \in Nodes, NEW m \in Nodes, Deliver(n, m) \/ SendFails(n, m)
  PROVE  Counted' /\ WrittenOnce'
<1> USE DEF CInv, IInv
<1>1. /\ queue[n][m] # <<>> /\ queue' = [queue EXCEPT ![n][m] = Tail(@)]
      /\ UNCHANGED <<call, sent>>
  BY Zenon DEF Deliver, SendFails, Sending, clientVars
<1>2. PICK job \in Jobs : job = Head(queue[n][m])
  BY <1>1, Dequeued, Zenon
<1>3. job \in Queued(n, m) /\ \A k, l \in Nodes : Queued(k, l)' \subseteq Queued(k, l)
  BY <1>1, <1>2, Dequeued, Zenon
<1>4. PICK c : c = entryToProto(job.copy) /\ c.id = job.copy.id /\ c.at = job.copy.at
  <2>1. PICK d \in Copies : d = job.copy
    BY DEF Jobs
  <2> DEFINE r == [d EXCEPT !.ns = ""]
  <2>2. r.id = d.id /\ r.at = d.at
    BY DEF Copies
  <2>3. r = entryToProto(d)
    BY Zenon DEF entryToProto
  <2> HIDE DEF r
  <2> QED
    BY <2>1, <2>2, <2>3
<1>5. store' = store \/ store' = [store EXCEPT ![m] = Appended(@, One(c))]
  BY <1>2, <1>4, ZenonT(60) DEF Deliver, SendFails
<1>6. Counted'
  <2>1. \A d \in DOMAIN One(c) : One(c)[d] \in Nat \ {0}
    BY DEF One
  <2>2. CASE store' = store
    BY <2>2, Zenon DEF Counted, Held
  <2> QED
    BY <1>5, <2>1, <2>2, AppendedCounted, ZenonT(60)
<1>7. \A k \in Nodes : Held(k)' \subseteq Held(k) \cup {c}
  <2>1. CASE store' = store
    BY <2>1, Zenon DEF Held
  <2>2. CASE store' = [store EXCEPT ![m] = Appended(@, One(c))]
    BY <2>2, AppendedHolds, OneDomain, ZenonT(60)
  <2> QED
    BY <1>5, <2>1, <2>2, ZenonT(60)
<1>8. Stamps' \subseteq Stamps
  <2>1. <<c.id, c.at>> \in Stamps
    BY <1>3, <1>4, StampOf, ZenonT(60)
  <2>2. ASSUME NEW k \in Nodes, NEW d \in Held(k)'
        PROVE  <<d.id, d.at>> \in Stamps
    BY <1>7, <2>1, StampOf, ZenonT(60)
  <2>3. ASSUME NEW k \in Nodes, NEW l \in Nodes, NEW j \in Queued(k, l)'
        PROVE  <<j.copy.id, j.copy.at>> \in Stamps
    BY <1>3, StampOf, ZenonT(60)
  <2> QED
    BY <2>2, <2>3, StampsBelow, ZenonT(60)
<1>9. \A d \in Clients : Shorter(call'[d].todo, call[d].todo)
  BY <1>1, Zenon DEF Shorter
<1> QED
  BY <1>1, <1>6, <1>8, <1>9, SpreadingKeepsOnce, ZenonT(60)

\* Catch-up copies stamps from one disk to another.
LEMMA CatchUpOnce ==
  ASSUME CInv, NEW n \in Nodes, NEW s \in Shards, NEW p \in Nodes, NEW failed \in SUBSET Entries,
         CatchUpShard(n, s, p, failed)
  PROVE  Counted' /\ WrittenOnce'
<1> USE DEF CInv, IInv
<1>1. PICK fresh \in SUBSET Held(p) :
         store' = [store EXCEPT ![n] = Appended(@, [c \in fresh |-> store[p][c]])]
  BY ZenonT(60) DEF CatchUpShard, FetchShardEntries
<1>2. UNCHANGED <<queue, call, sent>>
  BY DEF CatchUpShard, clientVars
<1>3. Counted'
  <2> DEFINE more == [c \in fresh |-> store[p][c]]
  <2>1. \A d \in DOMAIN more : more[d] \in Nat \ {0}
    BY DEF Counted
  <2> HIDE DEF more
  <2>2. store' = [store EXCEPT ![n] = Appended(@, more)]
    BY <1>1, ZenonT(60) DEF more
  <2> QED
    BY <2>1, <2>2, AppendedCounted, ZenonT(60)
<1>4. \A k \in Nodes : Held(k)' \subseteq Held(k) \cup Held(p)
  BY <1>1, AppendedHolds, ZenonT(60)
<1>5. Stamps' \subseteq Stamps
  <2>1. ASSUME NEW k \in Nodes, NEW d \in Held(k)'
        PROVE  <<d.id, d.at>> \in Stamps
    BY <1>4, StampOf, ZenonT(60)
  <2>2. \A k, l : Queued(k, l)' = Queued(k, l)
    BY <1>2, Zenon DEF Queued
  <2> QED
    BY <2>1, <2>2, StampOf, StampsBelow, ZenonT(60)
<1>6. \A d \in Clients : Shorter(call'[d].todo, call[d].todo)
  BY <1>2, ZenonT(60) DEF Shorter
<1> QED
  BY <1>2, <1>3, <1>5, <1>6, SpreadingKeepsOnce, ZenonT(60)

\* A crash empties channels and lists.
LEMMA CrashOnce ==
  ASSUME CInv, NEW n \in Nodes, Crash(n)
  PROVE  Counted' /\ WrittenOnce'
<1> USE DEF CInv, IInv
<1>1. /\ queue' = [queue EXCEPT ![n] = NoQueue] /\ call' = Abandoned(n)
      /\ UNCHANGED <<store, sent>>
  BY DEF Crash
<1>2. \A k : Held(k)' = Held(k)
  BY <1>1, Zenon DEF Held
<1>3. Counted'
  BY <1>1, <1>2, ZenonT(60) DEF Counted
<1>4. \A k, l \in Nodes : Queued(k, l)' \subseteq Queued(k, l)
  <2> SUFFICES ASSUME NEW k \in Nodes, NEW l \in Nodes
               PROVE  Queued(k, l)' \subseteq Queued(k, l)
    BY Zenon
  <2>1. CASE k # n
    BY <1>1, <2>1, ZenonT(60) DEF Queued, WellFormed
  <2>2. CASE k = n
    <3>1. queue'[n][l] = <<>>
      BY <1>1, Zenon DEF WellFormed, NoQueue
    <3>2. DOMAIN queue'[n][l] = {}
      BY <3>1
    <3> QED
      BY <2>2, <3>2, Zenon DEF Queued
  <2> QED
    BY <2>1, <2>2, ZenonT(60)
<1>5. Stamps' \subseteq Stamps
  BY <1>2, <1>4, StampOf, StampsBelow, ZenonT(60)
<1>6. \A d \in Clients : Shorter(call'[d].todo, call[d].todo)
  BY <1>1, Zenon DEF Abandoned, Shorter, Idle
<1> QED
  BY <1>1, <1>3, <1>5, <1>6, SpreadingKeepsOnce, ZenonT(60)

\* The other actions touch neither copies nor requests.
LEMMA OthersOnce ==
  ASSUME CInv, UNCHANGED <<store, queue, call, sent>>
  PROVE  Counted' /\ WrittenOnce'
<1>1. \A d \in Clients : Shorter(call'[d].todo, call[d].todo)
  BY DEF Shorter
<1> QED
  BY <1>1, StampsSame, SpreadingKeepsOnce, ZenonT(60) DEF CInv, IInv

-----------------------------------------------------------------------------
(* The theorem.                                                            *)

\* Nothing is written yet.
LEMMA InitCInv == Init => CInv
<1> SUFFICES ASSUME Init PROVE CInv
  OBVIOUS
<1>1. \A n \in Nodes : Held(n) = {}
  BY DEF Init, Held
<1>2. \A n, m \in Nodes : Queued(n, m) = {}
  <2> SUFFICES ASSUME NEW n \in Nodes, NEW m \in Nodes PROVE Queued(n, m) = {}
    OBVIOUS
  <2>1. queue[n][m] = <<>>
    BY DEF Init, NoQueue
  <2>2. DOMAIN queue[n][m] = {}
    BY <2>1
  <2> QED
    BY <2>2 DEF Queued
<1>3. Stamps = {} /\ Counted
  BY <1>1, <1>2, ZenonT(60) DEF Stamps, Counted
<1>4. ASSUME NEW c \in Clients
      PROVE  DOMAIN call[c].todo = {} /\ Waiting(c) = {}
  <2>1. call[c].todo = <<>>
    BY DEF Init, Idle
  <2>2. DOMAIN call[c].todo = {}
    BY <2>1
  <2> QED
    BY <2>2, ZenonT(60) DEF Waiting, Elems
<1>5. WrittenOnce
  BY <1>3, <1>4, ZenonT(60) DEF WrittenOnce
<1> QED
  BY <1>3, <1>5, InitIInv, ZenonT(60) DEF CInv

\* Every step writes an entry at most once.
LEMMA StepPreservesCInv == CInv /\ [Next]_vars => CInv'
<1> SUFFICES ASSUME CInv, [Next]_vars PROVE Counted' /\ WrittenOnce'
  BY StepPreservesCopies DEF CInv
<1>1. ASSUME NEW c \in Clients, NEW n \in Nodes, NEW batch \in Batches, Send(c, n, batch)
      PROVE  Counted' /\ WrittenOnce'
  BY <1>1, SendOnce, ZenonT(60)
<1>2. ASSUME NEW c \in Clients, Unavailable(c) \/ Forward(c) \/ AppendFails(c)
      PROVE  Counted' /\ WrittenOnce'
  BY <1>2, AnswerOnce, ZenonT(60)
<1>3. ASSUME NEW c \in Clients, NEW at \in ReceiveTimes, NEW lost \in BOOLEAN,
             WriteLocal(c, at, lost)
      PROVE  Counted' /\ WrittenOnce'
  BY <1>3, WriteOnce, ZenonT(60)
<1>4. ASSUME NEW n \in Nodes, NEW m \in Nodes, Deliver(n, m) \/ SendFails(n, m)
      PROVE  Counted' /\ WrittenOnce'
  BY <1>4, ReplicateOnce, ZenonT(60)
<1>5. ASSUME NEW n \in Nodes, NEW s \in Shards, NEW p \in Nodes, NEW failed \in SUBSET Entries,
         CatchUpShard(n, s, p, failed)
      PROVE  Counted' /\ WrittenOnce'
  BY <1>5, CatchUpOnce, ZenonT(60)
<1>6. ASSUME NEW n \in Nodes, Crash(n)
      PROVE  Counted' /\ WrittenOnce'
  BY <1>6, CrashOnce, ZenonT(60)
<1>7. ASSUME NEW n \in Nodes,
             \/ \E refreshed, skipped \in BOOLEAN : Start(n, refreshed, skipped)
             \/ \E s \in Shards, p \in Nodes : CatchUpSkips(n, s, p)
             \/ StartLocal(n) \/ FinishCatchUp(n) \/ Refresh(n)
             \/ Shutdown(n) \/ Stopped(n) \/ Suspect(n)
      PROVE  Counted' /\ WrittenOnce'
  <2>1. UNCHANGED <<store, queue, call, sent>>
    BY ZenonT(60), <1>7 DEF Start, CatchUpSkips, StartLocal, FinishCatchUp, Refresh, Shutdown, Stopped,
                Suspect, clientVars
  <2> QED
    BY <2>1, OthersOnce, ZenonT(60)
<1>8. CASE UNCHANGED vars
  BY <1>8, OthersOnce, ZenonT(60) DEF vars, clientVars
<1> QED
  BY <1>1, <1>2, <1>3, <1>4, <1>5, <1>6, <1>7, <1>8, ZenonT(60) DEF Next

\* One shard's catch-up from a primary that checks shards: a fetched copy of an
\* entry the node holds is recognised by its ID.
LEMMA NoDuplicateStep ==
  ASSUME CInv, NEW n \in Nodes, NEW s \in Shards, NEW p \in Nodes, NEW failed \in SUBSET Entries,
         CatchUpShard(n, s, p, failed), proc[p] # "local",
         NEW c \in DOMAIN store'[n], c.id \in IDs(Held(n)) \ unchecked
  PROVE  c \in Held(n) /\ store'[n][c] = store[n][c]
<1> USE DEF CInv, IInv
<1> DEFINE since == LatestReceivedAtForShard(n, s)
           fresh == {x \in FetchShardEntries(p, s, since) :
                       x.id \notin localIDsAtOrAfterNs(n, s, since) \cup failed}
           more  == [x \in fresh |-> store[p][x]]
<1>1. store' = [store EXCEPT ![n] = Appended(@, more)]
  BY ZenonT(60) DEF CatchUpShard
<1>2. PICK d \in Held(n) : d.id = c.id
  BY Zenon DEF IDs
<1>3. c \notin fresh
  <2> SUFFICES ASSUME c \in fresh PROVE FALSE
    BY Zenon
  <2>1. /\ c \in Held(p) /\ Shard(c) = s /\ c.at >= since
        /\ c.id \notin localIDsAtOrAfterNs(n, s, since)
    BY Zenon DEF FetchShardEntries
  <2>2. <<c.id, c.at>> \in Stamps /\ <<d.id, d.at>> \in Stamps
    BY <1>2, <2>1, StampOf, ZenonT(60)
  <2>3. \A x, y \in Stamps : x[1] = y[1] => x[2] = y[2]
    BY Zenon DEF WrittenOnce
  <2>4. d.at = c.at
    BY <1>2, <2>2, <2>3, ZenonT(60)
  <2>5. /\ Shard(d) = ShardID(NsOf[d.id], SvcOf[d.id])
        /\ Shard(c) = ShardID(NsOf[c.id], SvcOf[c.id])
    BY <1>2, <2>1, ZenonT(60) DEF CopiesInShard
  <2>6. Shard(d) = s
    BY <1>2, <2>1, <2>5, ZenonT(60)
  <2> HIDE DEF since
  <2>7. d.id \in localIDsAtOrAfterNs(n, s, since)
    BY <2>1, <2>4, <2>6, ZenonT(60) DEF localIDsAtOrAfterNs, IDs
  <2> QED
    BY <1>2, <2>1, <2>7, ZenonT(60)
<1> HIDE DEF since, fresh
<1>4. store'[n] = Appended(store[n], more)
  BY <1>1, ZenonT(60) DEF WellFormed
<1>5. c \in DOMAIN store[n]
  BY <1>3, <1>4, ZenonT(60) DEF Appended
<1>6. store'[n][c] = store[n][c] + 0
  BY <1>3, <1>4, <1>5, ZenonT(60) DEF Appended
<1>7. store[n][c] \in Nat
  BY <1>5 DEF Counted, Held
<1> QED
  BY <1>5, <1>6, <1>7 DEF Held

\* For every cluster, batch size, clock and history of outages: catch-up appends
\* no second copy of an entry the node already holds, unless a node in
\* local-only mode is involved.
THEOREM CatchUpAddsNoDuplicateTheorem == Spec => CatchUpAddsNoDuplicate
<1>1. CInv => [\A n \in Nodes, s \in Shards, p \in Nodes, failed \in SUBSET Entries :
                 (CatchUpShard(n, s, p, failed) /\ proc[p] # "local") =>
                   \A c \in DOMAIN store'[n] :
                      c.id \in IDs(Held(n)) \ unchecked
                        => (c \in Held(n) /\ store'[n][c] = store[n][c])]_vars
  BY NoDuplicateStep
<1> QED
  BY <1>1, InitCInv, StepPreservesCInv, PTL DEF Spec, CatchUpAddsNoDuplicate

-----------------------------------------------------------------------------
(***************************************************************************)
(* The shapes of the other variables: channels within their capacity, only *)
(* what was sent is reported, only what was owed is missed.                *)
(***************************************************************************)

\* A queued copy is owed to the node at the channel's end.
Channels ==
  \A n, m \in Nodes :
     /\ Len(queue[n][m]) <= QueueCapacity
     /\ \A j \in Queued(n, m) : <<j.copy.id, m>> \in owed

Reports == sent \in SUBSET Entries /\ acked \subseteq sent /\ unchecked \subseteq sent /\ missed \subseteq owed

Visits ==
  /\ pending \in [Nodes -> SUBSET (Shards \X (Nodes \cup {NoNode}))]
  /\ outages \in 0 .. MaxOutages

TInv == Channels /\ Reports /\ Visits

\* Calls that are opened or answered without a write.
LEMMA CallShapes ==
  ASSUME CInv, TInv, NEW c \in Clients,
         \/ \E n \in Nodes, batch \in Batches : Send(c, n, batch)
         \/ Unavailable(c) \/ Forward(c) \/ AppendFails(c)
  PROVE  TInv'
<1>1. UNCHANGED <<pending, queue, acked, owed, missed, unchecked, outages>>
  BY Zenon DEF Send, Unavailable, Forward, AppendFails, nodeVars
<1>2. sent \subseteq sent' /\ sent' \in SUBSET Entries
  <2>1. ASSUME NEW n \in Nodes, NEW batch \in Batches, Send(c, n, batch)
        PROVE  sent \subseteq sent' /\ sent' \in SUBSET Entries
    <3>1. PICK k \in 1 .. MaxBatch : batch \in [1 .. k -> Entries]
      BY DEF Batches
    <3>2. sent' = sent \cup {batch[i] : i \in DOMAIN batch} /\ \A i \in DOMAIN batch : batch[i] \in Entries
      BY <2>1, <3>1, Zenon DEF Send
    <3> QED
      BY <3>2 DEF TInv, Reports
  <2>2. CASE Unavailable(c) \/ Forward(c) \/ AppendFails(c)
    BY <2>2, Zenon DEF Unavailable, Forward, AppendFails, TInv, Reports
  <2> QED
    BY <2>1, <2>2, Zenon
<1>3. Channels' /\ Visits'
  BY <1>1, Zenon DEF TInv, Channels, Visits, Queued
<1>4. Reports'
  BY <1>1, <1>2, Zenon DEF TInv, Reports
<1> QED
  BY <1>3, <1>4, Zenon DEF TInv

\* A write reports an entry that was sent, and Enqueue drops what does not fit.
LEMMA WriteShapes ==
  ASSUME CInv, TInv, NEW c \in Clients, NEW at \in ReceiveTimes, NEW lost \in BOOLEAN,
         WriteLocal(c, at, lost)
  PROVE  TInv'
<1> USE DEF CInv, IInv
<1>1. call[c] # Idle /\ UNCHANGED <<pending, sent, unchecked, outages>>
  BY Zenon DEF WriteLocal, nodeVars
<1>2. PICK n \in Nodes, e \in Entries, m \in Nodes \cup {NoNode} :
         n = Handler(c) /\ e = Entry(c) /\ m = CopyTo(c)
  BY <1>1, Routing, Zenon
<1>3. PICK copy \in Copies :
         copy.id = e /\ copy = [id |-> e, ns |-> NsOf[e], svc |-> SvcOf[e], at |-> at]
  <2>1. NsOf[e] \in Namespaces /\ SvcOf[e] \in Services
    BY Zenon DEF Namespaces, Services
  <2> QED
    BY <2>1, Zenon DEF Copies
<1>4. PICK job \in Jobs : job.copy = copy /\ job = [copy |-> copy, shard |-> Shard(copy)]
  <2>1. Shard(copy) \in Shards
    <3>1. copy.ns \in Namespaces /\ copy.svc \in Services
      BY DEF Copies
    <3> QED
      BY <3>1, ShardOfEntry, Zenon DEF Shard
  <2> QED
    BY <2>1, Zenon DEF Jobs
<1>5. Enqueue(n, m, job) /\ acked' \subseteq acked \cup {e}
  BY <1>2, <1>3, <1>4, Zenon DEF WriteLocal
<1>6. e \in sent
  <2>1. e \in Waiting(c)
    BY <1>1, <1>2, Routing, ElemsTail, Zenon DEF Waiting, Entry
  <2> QED
    BY <2>1, Zenon DEF WrittenOnce
<1>7. job.copy.id = e
  BY <1>3, <1>4, Zenon
<1>8. owed \subseteq owed' /\ missed' \subseteq owed'
  BY <1>5, Zenon DEF Enqueue, TInv, Reports
<1>9. Channels'
  <2>1. CASE m = NoNode \/ Full(n, m)
    <3>1. queue' = queue
      BY <1>5, <2>1, Zenon DEF Enqueue
    <3> QED
      BY <1>8, <3>1, Zenon DEF TInv, Channels, Queued
  <2>2. CASE m # NoNode /\ ~Full(n, m)
    <3>1. /\ m \in Nodes /\ queue' = [queue EXCEPT ![n][m] = Append(queue[n][m], job)]
          /\ <<e, m>> \in owed'
      BY <1>5, <1>7, <2>2, Zenon DEF Enqueue
    <3>2. PICK q, r : q = queue[n][m] /\ r = Append(q, job)
      BY Zenon
    <3>3. q \in Seq(Jobs)
      BY <3>1, <3>2, Zenon DEF WellFormed
    <3>4. Len(r) <= QueueCapacity
      <4>1. Len(q) < QueueCapacity
        <5>1. ~(Len(q) >= QueueCapacity)
          BY <2>2, <3>2, Zenon DEF Full
        <5>2. Len(q) \in Nat /\ QueueCapacity \in Nat
          BY <3>3, ReplicationAssumption
        <5> QED
          BY <5>1, <5>2
      <4>2. Len(r) = Len(q) + 1 /\ Len(q) \in Nat
        BY <3>2, <3>3
      <4> QED
        BY <4>1, <4>2, ReplicationAssumption
    <3>5. Elems(r) = Elems(q) \cup {job}
      BY <1>4, <3>2, <3>3, ElemsAppend
    <3> SUFFICES ASSUME NEW k \in Nodes, NEW l \in Nodes
                 PROVE  /\ Len(queue'[k][l]) <= QueueCapacity
                        /\ \A j \in Elems(queue'[k][l]) : <<j.copy.id, l>> \in owed'
      BY Zenon DEF Channels, Queued, Elems
    <3>6. queue'[k][l] = IF k = n /\ l = m THEN r ELSE queue[k][l]
      BY <3>1, <3>2, Zenon DEF WellFormed
    <3>7. Len(queue[k][l]) <= QueueCapacity /\ \A j \in Elems(queue[k][l]) : <<j.copy.id, l>> \in owed'
      BY <1>8, Zenon DEF TInv, Channels, Queued, Elems
    <3>8. CASE k = n /\ l = m
      BY <1>7, <3>1, <3>2, <3>4, <3>5, <3>6, <3>7, <3>8, Zenon
    <3>9. CASE ~(k = n /\ l = m)
      BY <3>6, <3>7, <3>9, Zenon
    <3> QED
      BY <3>8, <3>9
  <2> QED
    BY <2>1, <2>2
<1>10. Reports' /\ Visits'
  BY <1>1, <1>5, <1>6, <1>8, Zenon DEF TInv, Reports, Visits
<1> QED
  BY <1>9, <1>10, Zenon DEF TInv

\* A job that leaves its channel was owed, and its entry was sent.
LEMMA ReplicateShapes ==
  ASSUME CInv, TInv, NEW n \in Nodes, NEW m \in Nodes, Deliver(n, m) \/ SendFails(n, m)
  PROVE  TInv'
<1> USE DEF CInv, IInv
<1>1. /\ queue[n][m] # <<>> /\ queue' = [queue EXCEPT ![n][m] = Tail(@)]
      /\ UNCHANGED <<pending, sent, acked, owed, outages>>
  BY Zenon DEF Deliver, SendFails, Sending, clientVars, nodeVars
<1>2. PICK job \in Jobs : job = Head(queue[n][m])
  BY <1>1, Dequeued, Zenon
<1>3. job \in Queued(n, m) /\ \A k, l \in Nodes : Queued(k, l)' \subseteq Queued(k, l)
  BY <1>1, <1>2, Dequeued, Zenon
<1>4. <<job.copy.id, m>> \in owed /\ job.copy.id \in sent
  <2>1. <<job.copy.id, m>> \in owed
    BY <1>3, Zenon DEF TInv, Channels
  <2>2. <<job.copy.id, job.copy.at>> \in Stamps
    BY <1>3, StampOf, Zenon
  <2>3. <<job.copy.id, job.copy.at>>[1] \in sent
    BY <2>2, Zenon DEF WrittenOnce
  <2> QED
    BY <2>1, <2>3
<1>5. entryToProto(job.copy).id = job.copy.id
  BY DEF entryToProto, Jobs, Copies
<1>6. missed' \subseteq owed' /\ unchecked' \subseteq sent'
  BY <1>1, <1>2, <1>4, <1>5, Zenon DEF Deliver, SendFails, TInv, Reports
<1>7. ASSUME NEW k \in Nodes, NEW l \in Nodes PROVE Len(queue'[k][l]) <= QueueCapacity
  <2>1. queue'[k][l] = queue[k][l] \/ (queue[k][l] # <<>> /\ queue'[k][l] = Tail(queue[k][l]))
    BY <1>1, Zenon DEF WellFormed
  <2>2. queue[k][l] \in Seq(Jobs) /\ Len(queue[k][l]) <= QueueCapacity
    BY Zenon DEF WellFormed, TInv, Channels
  <2>3. PICK q, r : q = queue[k][l] /\ r = queue'[k][l]
    OBVIOUS
  <2>4. q \in Seq(Jobs) /\ Len(q) <= QueueCapacity /\ QueueCapacity \in Nat /\ (r = q \/ (q # <<>> /\ r = Tail(q)))
    BY <2>1, <2>2, <2>3, ReplicationAssumption, Zenon
  <2>5. Len(r) <= QueueCapacity
    BY <2>4
  <2> QED
    BY <2>3, <2>5, Zenon
<1>8. Channels'
  BY <1>1, <1>3, <1>7, Zenon DEF TInv, Channels
<1>9. Reports' /\ Visits'
  BY <1>1, <1>6, Zenon DEF TInv, Reports, Visits
<1> QED
  BY <1>8, <1>9, Zenon DEF TInv

\* Catch-up visits one shard less; a crash loses only what was owed.
LEMMA NodeShapes ==
  ASSUME CInv, TInv, NEW n \in Nodes,
         \/ \E s \in Shards, p \in Nodes :
              CatchUpSkips(n, s, p) \/ \E failed \in SUBSET Entries : CatchUpShard(n, s, p, failed)
         \/ StartLocal(n) \/ FinishCatchUp(n) \/ Refresh(n)
         \/ Shutdown(n) \/ Stopped(n) \/ Suspect(n)
  PROVE  TInv'
<1>1. UNCHANGED <<queue, sent, acked, owed, missed, unchecked>>
  BY Zenon DEF CatchUpSkips, CatchUpShard, StartLocal, FinishCatchUp, Refresh, Shutdown, Stopped, Suspect, clientVars
<1>2. pending' = pending \/ \E x : pending' = [pending EXCEPT ![n] = @ \ {x}]
  BY Zenon DEF CatchUpSkips, CatchUpShard, StartLocal, FinishCatchUp, Refresh, Shutdown, Stopped, Suspect, nodeVars
<1>3. outages' = outages \/ (outages < MaxOutages /\ outages' = outages + 1)
  BY Zenon DEF CatchUpSkips, CatchUpShard, StartLocal, FinishCatchUp, Refresh, Shutdown, Stopped, Suspect
<1>4. Visits'
  <2>1. pending' \in [Nodes -> SUBSET (Shards \X (Nodes \cup {NoNode}))]
    BY <1>2, Zenon DEF TInv, Visits
  <2>2. outages' \in 0 .. MaxOutages
    BY <1>3, ReplicationAssumption DEF TInv, Visits
  <2> QED
    BY <2>1, <2>2, Zenon DEF Visits
<1>5. Channels' /\ Reports'
  BY <1>1, Zenon DEF TInv, Channels, Reports, Queued
<1> QED
  BY <1>4, <1>5, Zenon DEF TInv

\* A node that starts visits the shards it is the replica of, at their primaries.
LEMMA StartShapes ==
  ASSUME CInv, TInv, NEW n \in Nodes, NEW refreshed \in BOOLEAN, NEW skipped \in BOOLEAN,
         Start(n, refreshed, skipped)
  PROVE  TInv'
<1>1. UNCHANGED <<queue, sent, acked, owed, missed, unchecked, outages>> /\ st' = Registered(n)
  BY Zenon DEF Start, clientVars
<1>2. PICK V : /\ pending' = [pending EXCEPT ![n] = V]
               /\ V = IF skipped THEN {}
                      ELSE {<<s, st'.primary[s]>> : s \in {s \in Shards : st'.replica[s] = n}}
  BY Zenon DEF Start
<1>3. st' \in ClusterStates
  BY <1>1, CommandsPlaced, Zenon DEF CInv, IInv, WellFormed
<1>4. \A s \in Shards : st'.primary[s] \in Nodes \cup {NoNode}
  BY <1>3 DEF ClusterStates
<1>5. V \in SUBSET (Shards \X (Nodes \cup {NoNode}))
  <2>1. CASE skipped
    BY <1>2, <2>1, Zenon
  <2>2. CASE ~skipped
    <3>1. V = {<<s, st'.primary[s]>> : s \in {s \in Shards : st'.replica[s] = n}}
      BY <1>2, <2>2, Zenon
    <3> QED
      BY <1>4, <3>1
  <2> QED
    BY <2>1, <2>2
<1>6. Visits'
  BY <1>1, <1>2, <1>5, Zenon DEF TInv, Visits
<1>7. Channels' /\ Reports'
  BY <1>1, Zenon DEF TInv, Channels, Reports, Queued
<1> QED
  BY <1>6, <1>7, Zenon DEF TInv

\* A crash empties the node's channels; what they held is recorded as lost.
LEMMA CrashShapes ==
  ASSUME CInv, TInv, NEW n \in Nodes, Crash(n)
  PROVE  TInv'
<1> USE DEF CInv, IInv
<1>1. /\ pending' = [pending EXCEPT ![n] = {}] /\ queue' = [queue EXCEPT ![n] = NoQueue]
      /\ outages < MaxOutages /\ outages' = outages + 1
      /\ UNCHANGED <<sent, acked, owed, unchecked>>
  BY Zenon DEF Crash
<1>2. missed' \subseteq owed
  <2>1. missed' = missed \cup UNION {{<<j.copy.id, m>> : j \in Queued(n, m)} : m \in Nodes}
    BY Zenon DEF Crash
  <2>2. \A m \in Nodes : \A j \in Queued(n, m) : <<j.copy.id, m>> \in owed
    BY Zenon DEF TInv, Channels
  <2>3. ASSUME NEW x \in missed' PROVE x \in owed
    <3>1. CASE x \in missed
      BY <3>1, Zenon DEF TInv, Reports
    <3>2. CASE x \notin missed
      <4>1. \E m \in Nodes : x \in {<<j.copy.id, m>> : j \in Queued(n, m)}
        BY <2>1, <2>3, <3>2, Zenon
      <4>2. PICK m \in Nodes : x \in {<<j.copy.id, m>> : j \in Queued(n, m)}
        BY <4>1
      <4> QED
        BY <2>2, <4>2, Zenon
    <3> QED
      BY <3>1, <3>2
  <2> QED
    BY <2>3, Zenon
<1>3. Channels'
  <2> SUFFICES ASSUME NEW k \in Nodes, NEW l \in Nodes
               PROVE  /\ Len(queue'[k][l]) <= QueueCapacity
                      /\ \A j \in Elems(queue'[k][l]) : <<j.copy.id, l>> \in owed
    BY <1>1, Zenon DEF Channels, Queued, Elems
  <2>1. CASE k = n
    <3>1. queue'[k][l] = <<>>
      BY <1>1, <2>1, Zenon DEF WellFormed, NoQueue
    <3>2. Len(<<>>) <= QueueCapacity /\ Elems(<<>>) = {}
      BY ReplicationAssumption DEF Elems
    <3> QED
      BY <3>1, <3>2, Zenon
  <2>2. CASE k # n
    <3>1. queue'[k][l] = queue[k][l]
      BY <1>1, <2>2, Zenon DEF WellFormed
    <3> QED
      BY <3>1, Zenon DEF TInv, Channels, Queued, Elems
  <2> QED
    BY <2>1, <2>2
<1>4. Reports'
  BY <1>1, <1>2, Zenon DEF TInv, Reports
<1>5. outages' \in 0 .. MaxOutages
  BY <1>1, ReplicationAssumption DEF TInv, Visits
<1>6. Visits'
  BY <1>1, <1>5, Zenon DEF TInv, Visits
<1> QED
  BY <1>3, <1>4, <1>6, Zenon DEF TInv

\* Channels are empty.
LEMMA InitTInv == Init => TInv
<1> SUFFICES ASSUME Init PROVE TInv
  OBVIOUS
<1>1. \A n, m \in Nodes : queue[n][m] = <<>>
  BY Zenon DEF Init, NoQueue
<1>2. Len(<<>>) <= QueueCapacity /\ Elems(<<>>) = {} /\ 0 \in 0 .. MaxOutages
  BY ReplicationAssumption DEF Elems
<1>3. Channels
  BY <1>1, <1>2, Zenon DEF Channels, Queued, Elems
<1>4. Reports /\ Visits
  BY <1>2, Zenon DEF Init, Reports, Visits
<1> QED
  BY <1>3, <1>4, Zenon DEF TInv

\* Every step keeps the shapes.
LEMMA StepPreservesTInv == CInv /\ TInv /\ [Next]_vars => TInv'
<1> SUFFICES ASSUME CInv, TInv, [Next]_vars PROVE TInv'
  BY Zenon
<1>1. ASSUME NEW c \in Clients,
             \/ \E n \in Nodes, batch \in Batches : Send(c, n, batch)
             \/ Unavailable(c) \/ Forward(c) \/ AppendFails(c)
      PROVE  TInv'
  BY <1>1, CallShapes, Zenon
<1>2. ASSUME NEW c \in Clients, NEW at \in ReceiveTimes, NEW lost \in BOOLEAN, WriteLocal(c, at, lost)
      PROVE  TInv'
  BY <1>2, WriteShapes, Zenon
<1>3. ASSUME NEW n \in Nodes, NEW m \in Nodes, Deliver(n, m) \/ SendFails(n, m)
      PROVE  TInv'
  BY <1>3, ReplicateShapes, Zenon
<1>4. ASSUME NEW n \in Nodes,
             \/ \E s \in Shards, p \in Nodes :
                  CatchUpSkips(n, s, p) \/ \E failed \in SUBSET Entries : CatchUpShard(n, s, p, failed)
             \/ StartLocal(n) \/ FinishCatchUp(n) \/ Refresh(n)
             \/ Shutdown(n) \/ Stopped(n) \/ Suspect(n)
      PROVE  TInv'
  BY <1>4, NodeShapes, Zenon
<1>5. ASSUME NEW n \in Nodes, NEW refreshed \in BOOLEAN, NEW skipped \in BOOLEAN, Start(n, refreshed, skipped)
      PROVE  TInv'
  BY <1>5, StartShapes, Zenon
<1>6. ASSUME NEW n \in Nodes, Crash(n) PROVE TInv'
  BY <1>6, CrashShapes, Zenon
<1>7. CASE UNCHANGED vars
  BY <1>7, Zenon DEF vars, nodeVars, clientVars, TInv, Channels, Reports, Visits, Queued
<1> QED
  BY <1>1, <1>2, <1>3, <1>4, <1>5, <1>6, <1>7, ZenonT(60) DEF Next

\* Replicator.Enqueue never exceeds channelCapacity, HandleIngest reports only
\* entries that were sent, and a copy is recorded as lost only if it was owed.
THEOREM TypeCorrect == Spec => []TypeOK
<1>1. CInv /\ TInv => TypeOK
  BY Zenon DEF CInv, IInv, WellFormed, Counted, TInv, Channels, Reports, Visits, TypeOK
<1> QED
  BY <1>1, InitCInv, InitTInv, StepPreservesCInv, StepPreservesTInv, PTL DEF Spec

-----------------------------------------------------------------------------
(***************************************************************************)
(* Catch-up leaves no gap behind the watermark.  The watermark is the      *)
(* largest of the times on a disk, and has a value because a disk holds    *)
(* finitely many copies.                                                   *)
(***************************************************************************)

DisksFinite == \A n \in Nodes : IsFiniteSet(Held(n))

\* A finite set of times has a latest one.
LEMMA Latest ==
  ASSUME NEW H \in SUBSET Nat, IsFiniteSet(H), H # {}
  PROVE  \E t \in H : \A u \in H : u <= t
<1> DEFINE k == Cardinality(H)
<1>1. k \in Nat \ {0}
  BY FS_CardinalityType, FS_EmptySet
<1>2. PICK t \in H : Rank(t, H) = k - 1
  <2>1. k - 1 \in 0 .. k - 1
    BY <1>1
  <2> QED
    BY <2>1, SortedAtMember, Zenon
<1>3. ASSUME NEW u \in H PROVE u <= t
  <2>1. Rank(u, H) \in 0 .. k - 1
    BY RankRange
  <2>2. CASE t < u
    BY <1>1, <1>2, <2>1, <2>2, RankMonotone
  <2> QED
    BY <2>2
<1> QED
  BY <1>3

\* A disk that takes finitely many copies stays finite.
LEMMA AppendedFinite ==
  ASSUME WellFormed, DisksFinite, NEW n \in Nodes, NEW more, IsFiniteSet(DOMAIN more),
         store' = [store EXCEPT ![n] = Appended(@, more)]
  PROVE  DisksFinite'
<1>1. Held(n)' = Held(n) \cup DOMAIN more /\ \A m \in Nodes \ {n} : Held(m)' = Held(m)
  BY AppendedHolds, Zenon
<1>2. IsFiniteSet(Held(n) \cup DOMAIN more)
  BY FS_Union, Zenon DEF DisksFinite
<1> QED
  BY <1>1, <1>2, Zenon DEF DisksFinite

\* Writes and copies add one entry at a time, catch-up a part of another disk.
LEMMA StepDisksFinite == IInv /\ DisksFinite /\ [Next]_vars => DisksFinite'
<1> SUFFICES ASSUME IInv, WellFormed, DisksFinite, [Next]_vars PROVE DisksFinite'
  BY Zenon DEF IInv
<1>1. ASSUME NEW n \in Nodes, NEW c, store' = [store EXCEPT ![n] = Appended(@, One(c))]
      PROVE  DisksFinite'
  <2>1. IsFiniteSet(DOMAIN One(c))
    BY OneDomain, FS_Singleton, Zenon
  <2> QED
    BY <1>1, <2>1, AppendedFinite, Zenon
<1>2. CASE store' = store
  BY <1>2, Zenon DEF DisksFinite, Held
<1>3. ASSUME NEW c \in Clients, NEW at \in ReceiveTimes, NEW lost \in BOOLEAN, WriteLocal(c, at, lost)
      PROVE  DisksFinite'
  <2>1. Handler(c) \in Nodes
    BY <1>3, Routing, Zenon DEF WriteLocal
  <2> QED
    BY <1>1, <1>3, <2>1, Zenon DEF WriteLocal
<1>4. ASSUME NEW n \in Nodes, NEW m \in Nodes, Deliver(n, m) PROVE DisksFinite'
  BY <1>1, <1>4, Zenon DEF Deliver
<1>5. ASSUME NEW n \in Nodes, NEW s \in Shards, NEW p \in Nodes, NEW failed \in SUBSET Entries,
             CatchUpShard(n, s, p, failed)
      PROVE  DisksFinite'
  <2>1. PICK fresh \in SUBSET Held(p) :
          store' = [store EXCEPT ![n] = Appended(@, [c \in fresh |-> store[p][c]])]
    BY <1>5, ZenonT(60) DEF CatchUpShard, FetchShardEntries
  <2>2. PICK more : more = [c \in fresh |-> store[p][c]]
    BY Zenon
  <2>3. IsFiniteSet(fresh) /\ DOMAIN more = fresh
    BY <2>2, FS_Subset, Zenon DEF DisksFinite
  <2> QED
    BY <2>1, <2>2, <2>3, AppendedFinite, Zenon
<1>6. CASE \/ \E c \in Clients, n \in Nodes, batch \in Batches : Send(c, n, batch)
           \/ \E c \in Clients : Unavailable(c) \/ Forward(c) \/ AppendFails(c)
           \/ \E n, m \in Nodes : SendFails(n, m)
           \/ \E n \in Nodes : \E refreshed, skipped \in BOOLEAN : Start(n, refreshed, skipped)
  BY <1>2, <1>6, Zenon DEF Send, Unavailable, Forward, AppendFails, SendFails, Start, nodeVars
<1>7. CASE \/ \E n \in Nodes, s \in Shards, p \in Nodes : CatchUpSkips(n, s, p)
           \/ \E n \in Nodes : \/ StartLocal(n) \/ FinishCatchUp(n) \/ Refresh(n) \/ Crash(n)
                               \/ Shutdown(n) \/ Stopped(n) \/ Suspect(n)
           \/ UNCHANGED vars
  BY <1>2, <1>7, Zenon DEF CatchUpSkips, StartLocal, FinishCatchUp, Refresh, Crash, Shutdown, Stopped,
     Suspect, nodeVars, vars
<1> QED
  BY <1>3, <1>4, <1>5, <1>6, <1>7, ZenonT(60) DEF Next

\* The watermark is 0 or the time of a copy the node holds of the shard.
LEMMA WatermarkHeld ==
  ASSUME WellFormed, DisksFinite, NEW n \in Nodes, NEW s \in Shards
  PROVE  \/ LatestReceivedAtForShard(n, s) = 0
         \/ \E d \in Held(n) : Shard(d) = s /\ LatestReceivedAtForShard(n, s) = d.at
<1> DEFINE held  == {c \in Held(n) : Shard(c) = s}
           times == {c.at : c \in held}
<1>1. held \in SUBSET Held(n) /\ \A c \in held : c.at \in Nat
  BY ReplicationAssumption DEF WellFormed, Copies
<1>2. IsFiniteSet(held)
  BY <1>1, FS_Subset, Zenon DEF DisksFinite
<1>3. IsFiniteSet(times)
  <2> DEFINE f == [c \in held |-> c.at]
  <2>1. f \in Surjection(held, times)
    BY Zenon DEF Surjection
  <2> QED
    BY <1>2, <2>1, FS_Surjection, Zenon
<1>4. IsFiniteSet(times \cup {0}) /\ times \cup {0} \in SUBSET Nat
  <2>1. IsFiniteSet(times \cup {0})
    BY <1>3, FS_Singleton, FS_Union, Zenon
  <2>2. times \cup {0} \in SUBSET Nat
    BY <1>1
  <2> QED
    BY <2>1, <2>2, Zenon
<1>5. \E t \in times \cup {0} : \A u \in times \cup {0} : u <= t
  BY <1>4, Latest, Zenon
<1>6. LatestReceivedAtForShard(n, s) \in times \cup {0}
  BY <1>5, Zenon DEF LatestReceivedAtForShard
<1> QED
  BY <1>6, Zenon

\* One shard's catch-up in which every append succeeds.
LEMMA FillsTailStep ==
  ASSUME WellFormed, DisksFinite, NEW n \in Nodes, NEW s \in Shards, NEW p \in Nodes,
         CatchUpShard(n, s, p, {}), NEW c \in Held(p), Shard(c) = s,
         \A d \in Held(n) : Shard(d) = s => d.at <= c.at
  PROVE  c.id \in IDs(DOMAIN store'[n])
<1> DEFINE since == LatestReceivedAtForShard(n, s)
           fresh == {x \in FetchShardEntries(p, s, since) : x.id \notin localIDsAtOrAfterNs(n, s, since) \cup {}}
           more  == [x \in fresh |-> store[p][x]]
<1>1. store' = [store EXCEPT ![n] = Appended(@, more)]
  BY ZenonT(60) DEF CatchUpShard
<1>2. Held(n)' = Held(n) \cup DOMAIN more
  <2> HIDE DEF more
  <2> QED BY <1>1, AppendedHolds, Zenon
<1>3. c.at >= since
  <2>1. since = 0 \/ \E d \in Held(n) : Shard(d) = s /\ since = d.at
    BY WatermarkHeld, Zenon
  <2>2. since <= c.at
    <3>1. 0 <= c.at
      BY ReplicationAssumption DEF WellFormed, Copies
    <3> QED
      BY <2>1, <3>1, Zenon
  <2>3. c.at \in Int /\ since \in Int
    <3>1. \A m \in Nodes : \A d \in Held(m) : d.at \in Int
      BY ReplicationAssumption DEF WellFormed, Copies
    <3>2. 0 \in Int
      OBVIOUS
    <3> QED
      BY <2>1, <3>1, <3>2, Zenon
  <2> HIDE DEF since
  <2> QED
    BY <2>2, <2>3
<1>4. CASE c.id \in localIDsAtOrAfterNs(n, s, since)
  BY <1>2, <1>4, Zenon DEF localIDsAtOrAfterNs, IDs, Held
<1>5. CASE c.id \notin localIDsAtOrAfterNs(n, s, since)
  <2>1. c \in fresh
    BY <1>3, <1>5, Zenon DEF FetchShardEntries
  <2>2. c \in Held(n)'
    BY <1>2, <2>1, Zenon
  <2> QED
    BY <2>2, Zenon DEF IDs, Held
<1> QED
  BY <1>4, <1>5, Zenon

\* CatchUp, fetchAndReplay and FetchShardEntries: unless an append fails, a node
\* ends up with every entry of the shard that its primary holds and that was
\* received no earlier than the newest the node held, ties included.
THEOREM CatchUpFillsTailTheorem == Spec => CatchUpFillsTail
<1>1. Init => DisksFinite
  <2>1. ASSUME Init, NEW n \in Nodes PROVE Held(n) = {}
    BY <2>1 DEF Init, Held
  <2> QED
    BY <2>1, FS_EmptySet, Zenon DEF DisksFinite
<1>2. CInv => IInv
  BY Zenon DEF CInv
<1>3. IInv /\ DisksFinite =>
        [\A n \in Nodes, s \in Shards, p \in Nodes :
           CatchUpShard(n, s, p, {}) =>
             \A c \in Held(p) :
                (Shard(c) = s /\ \A d \in Held(n) : Shard(d) = s => d.at <= c.at)
                  => c.id \in IDs(DOMAIN store'[n])]_vars
  BY FillsTailStep, Zenon DEF IInv
<1> QED
  BY <1>1, <1>2, <1>3, InitCInv, StepPreservesCInv, StepDisksFinite, PTL DEF Spec, CatchUpFillsTail
=============================================================================
