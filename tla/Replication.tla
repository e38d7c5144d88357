---------------------------- MODULE Replication -----------------------------
(***************************************************************************)
(* Ingestion over several storage nodes: routing and forwarding            *)
(* (internal/ingest/orchestrator.go, server.go), the asynchronous copy to  *)
(* the replica (internal/replication/replicator.go) and the entry-level    *)
(* catch-up a restarted node runs before it serves (catchup.go).           *)
(*                                                                         *)
(* Every node routes by its own cached cluster state.  A node's disk is    *)
(* the bag of the copies appended to it, all in the active segment: the    *)
(* transfer of closed segments is the subject of StorageNode.              *)
(***************************************************************************)
EXTENDS ClusterState, Sequences

CONSTANTS
  Clients,        \* concurrent callers of Ingest and IngestBatch
  Entries,        \* IDs of the log entries clients send
  NsOf, SvcOf,    \* an entry's Namespace ("" if none) and Service
  Hash,           \* the FNV hash of "namespace:service"
  ReceiveTimes,   \* what time.Now can return; clocks of nodes are unrelated
  AddrOf,         \* the address a node advertises
  QueueCapacity,  \* the replicator's channelCapacity plus the job being sent
  MaxBatch,       \* bound: entries in one batch
  MaxOutages      \* bound: how often nodes stop, crash or are suspected

Services   == {SvcOf[e] : e \in Entries}
Namespaces == {NsOf[e] : e \in Entries} \cup {""}

ASSUME ReplicationAssumption ==
  /\ TotalShards > 0
  /\ \A ns \in Namespaces, svc \in Services : Hash[<<ns, svc>>] \in Nat
  /\ ReceiveTimes \subseteq Nat \ {0}
  /\ AddrOf \in [Nodes -> Addrs]
  /\ Addrs = {AddrOf[n] : n \in Nodes} /\ NoAddr \notin Addrs
  /\ \A m, n \in Nodes : AddrOf[m] = AddrOf[n] => m = n
  /\ QueueCapacity \in Nat \ {0} /\ MaxBatch \in Nat /\ MaxOutages \in Nat

Copies == [id : Entries, ns : Namespaces, svc : Services, at : ReceiveTimes]
Jobs   == [copy : Copies, shard : Shards]
Procs  == {"down", "catchup", "serving", "local", "stopping"}

VARIABLES
  st,       \* the committed cluster state
  cache,    \* per node: its StateCache
  proc,     \* per node: where main.go is
  pending,  \* per node: the shards CatchUp has yet to visit, with their primary
  store,    \* per node: the bag of copies on its disk
  queue,    \* queue[n][m]: n's channel for the address of m
  call,     \* per client: the request being handled, and where
  sent,     \* entries that were sent
  acked,    \* entries reported as accepted
  owed,     \* <<entry, node>>: a primary wrote the entry and had this replica
  missed,   \* <<entry, node>>: a lost copy, logged or gone with a process
  unchecked, \* entries a node in local mode took from a replicator
  outages   \* counter for MaxOutages

nodeVars   == <<cache, proc, pending>>
clientVars == <<call, sent, acked>>
vars == <<st, nodeVars, store, queue, clientVars, owed, missed, unchecked, outages>>

-----------------------------------------------------------------------------
(* Helpers                                                                 *)

ShardID(ns, svc) == Hash[<<ns, svc>>] % TotalShards

Shard(c) == ShardID(c.ns, c.svc)

Held(n) == DOMAIN store[n]

IDs(C) == {c.id : c \in C}

\* AppendWithPath and idx.Add, for one copy and for the bag of several.
Appended(bag, more) ==
  [c \in DOMAIN bag \cup DOMAIN more |->
     (IF c \in DOMAIN bag THEN bag[c] ELSE 0) + (IF c \in DOMAIN more THEN more[c] ELSE 0)]

One(c) == [x \in {c} |-> 1]

NoQueue == [m \in Nodes |-> <<>>]

Idle == [first |-> NoNode, at |-> NoNode, todo |-> <<>>]

Answering(n) == proc[n] \in {"serving", "local"}

\* NodeAddress and the node that listens there.
NodeAddress(n, id) == IF id = NoNode THEN NoAddr ELSE cache[n].address[id]
NodeAt(addr) == CHOOSE m \in Nodes : AddrOf[m] = addr

Queued(n, m) == {queue[n][m][i] : i \in DOMAIN queue[n][m]}

Init ==
  /\ st = NewFSM
  /\ cache = [n \in Nodes |-> NewFSM]
  /\ proc = [n \in Nodes |-> "down"]
  /\ pending = [n \in Nodes |-> {}]
  /\ store = [n \in Nodes |-> [c \in {} |-> 0]]
  /\ queue = [n \in Nodes |-> NoQueue]
  /\ call = [c \in Clients |-> Idle]
  /\ sent = {} /\ acked = {} /\ owed = {} /\ missed = {} /\ unchecked = {}
  /\ outages = 0

-----------------------------------------------------------------------------
(* Ingest: a client's batch is handled entry by entry at the node it       *)
(* called; one entry may be forwarded from node to node.  Ingest is a      *)
(* batch of one.                                                           *)

Send(c, n, batch) ==
  /\ call[c] = Idle /\ Answering(n)
  /\ \A i, j \in DOMAIN batch : i # j => batch[i] # batch[j]
  /\ \A i \in DOMAIN batch : batch[i] \notin sent
  /\ call' = [call EXCEPT ![c] = [first |-> n, at |-> n, todo |-> batch]]
  /\ sent' = sent \cup {batch[i] : i \in DOMAIN batch}
  /\ UNCHANGED <<st, nodeVars, store, queue, acked, owed, missed, unchecked, outages>>

Entry(c) == Head(call[c].todo)
Handler(c) == call[c].at
EntryShard(c) == ShardID(NsOf[Entry(c)], SvcOf[Entry(c)])
Primary(c) == cache[Handler(c)].primary[EntryShard(c)]
Replica(c) == cache[Handler(c)].replica[EntryShard(c)]

\* The entry is answered; the batch goes on with the next one.
NextEntry(c) ==
  call' = [call EXCEPT ![c] =
             IF Len(@.todo) = 1 THEN Idle
             ELSE [first |-> @.first, at |-> @.first, todo |-> Tail(@.todo)]]

\* HandleIngest or forward answers Unavailable: no primary, an unknown address,
\* or a connection to a node that does not serve.
Unavailable(c) ==
  /\ call[c] # Idle
  /\ \/ ~Answering(Handler(c))
     \/ /\ proc[Handler(c)] = "serving"
        /\ \/ Primary(c) = NoNode
           \/ Primary(c) # Handler(c) /\ NodeAddress(Handler(c), Primary(c)) = NoAddr
  /\ NextEntry(c)
  /\ UNCHANGED <<st, nodeVars, store, queue, sent, acked, owed, missed, unchecked, outages>>

\* Another node is primary: the call is repeated there, without a hop limit.
Forward(c) ==
  /\ call[c] # Idle
  /\ proc[Handler(c)] = "serving"
  /\ Primary(c) \notin {NoNode, Handler(c)}
  /\ NodeAddress(Handler(c), Primary(c)) # NoAddr
  /\ call' = [call EXCEPT ![c].at = NodeAt(NodeAddress(Handler(c), Primary(c)))]
  /\ UNCHANGED <<st, nodeVars, store, queue, sent, acked, owed, missed, unchecked, outages>>

\* HandleIngest decides to write here: local mode, or this node is the primary.
WritesHere(c) ==
  \/ proc[Handler(c)] = "local"
  \/ proc[Handler(c)] = "serving" /\ Primary(c) = Handler(c)

\* The node a copy is enqueued for: none in local mode.
CopyTo(c) ==
  IF proc[Handler(c)] = "local" \/ NodeAddress(Handler(c), Replica(c)) = NoAddr
    THEN NoNode ELSE NodeAt(NodeAddress(Handler(c), Replica(c)))

\* Mutant: off by one.
Full_OffByOne(n, m) == Len(queue[n][m]) > QueueCapacity

Full(n, m) == Len(queue[n][m]) >= QueueCapacity

\* Enqueue never blocks: a full channel drops the job.
Enqueue(n, m, job) ==
  /\ queue' = IF m = NoNode \/ Full(n, m) THEN queue
              ELSE [queue EXCEPT ![n][m] = Append(@, job)]
  /\ owed' = IF m = NoNode THEN owed ELSE owed \cup {<<job.copy.id, m>>}
  /\ missed' = IF m = NoNode \/ ~Full(n, m) THEN missed
               ELSE missed \cup {<<job.copy.id, m>>}

\* writeLocal stamps the entry, appends it and enqueues it.  The reply of a
\* forwarded call may be lost: the entry is stored and counted as rejected.
WriteLocal(c, at, replyLost) ==
  LET n    == Handler(c)
      copy == [id |-> Entry(c), ns |-> NsOf[Entry(c)], svc |-> SvcOf[Entry(c)], at |-> at]
  IN  /\ call[c] # Idle /\ WritesHere(c)
      /\ replyLost => n # call[c].first
      /\ store' = [store EXCEPT ![n] = Appended(@, One(copy))]
      /\ Enqueue(n, CopyTo(c), [copy |-> copy, shard |-> Shard(copy)])
      /\ acked' = IF replyLost THEN acked ELSE acked \cup {Entry(c)}
      /\ NextEntry(c)
      /\ UNCHANGED <<st, nodeVars, sent, unchecked, outages>>

\* Mutant: the error is ignored and the entry counted as accepted.
AppendFails_Ignored(c) ==
  /\ call[c] # Idle /\ WritesHere(c)
  /\ acked' = acked \cup {Entry(c)}
  /\ NextEntry(c)
  /\ UNCHANGED <<st, nodeVars, store, queue, sent, owed, missed, unchecked, outages>>

\* AppendWithPath fails: Internal ends the whole batch.
AppendFails(c) ==
  /\ call[c] # Idle /\ WritesHere(c)
  /\ call' = [call EXCEPT ![c] = Idle]
  /\ UNCHANGED <<st, nodeVars, store, queue, sent, acked, owed, missed, unchecked, outages>>

-----------------------------------------------------------------------------
(* The replicator: one goroutine per address sends the jobs in order, once.*)

\* The replicator's entryToProto leaves the Namespace out.
entryToProto(c) == [c EXCEPT !.ns = ""]

\* Mutant: the claimed shard is not verified.
ReplicateEntryAccepts_AnyShard(m, c, s) ==
  \/ proc[m] = "local"
  \/ proc[m] = "serving" /\ cache[m].replica[s] \in {m, NoNode}

\* ReplicateEntry's checks at node m; a node in local mode makes none.
ReplicateEntryAccepts(m, c, s) ==
  \/ proc[m] = "local"
  \/ /\ proc[m] = "serving"
     /\ Shard(c) = s
     /\ cache[m].replica[s] \in {m, NoNode}

\* Mutant: nothing is drained at shutdown.
Sending_ServingOnly(n, m) == proc[n] = "serving" /\ queue[n][m] # <<>>

Sending(n, m) == proc[n] \in {"serving", "stopping"} /\ queue[n][m] # <<>>

\* Mutant: a replica that refuses answers without an error.
Deliver_RefusedIsOk(n, m) ==
  LET job == Head(queue[n][m])
      c   == entryToProto(job.copy)
  IN  /\ Sending(n, m)
      /\ queue' = [queue EXCEPT ![n][m] = Tail(@)]
      /\ store' = IF ReplicateEntryAccepts(m, c, job.shard)
                    THEN [store EXCEPT ![m] = Appended(@, One(c))] ELSE store
      /\ UNCHANGED <<st, nodeVars, clientVars, owed, missed, unchecked, outages>>

\* The head job reaches the replica, which appends it, whatever it holds already.
Deliver(n, m) ==
  LET job == Head(queue[n][m])
      c   == entryToProto(job.copy)
  IN  /\ Sending(n, m)
      /\ ReplicateEntryAccepts(m, c, job.shard)
      /\ store' = [store EXCEPT ![m] = Appended(@, One(c))]
      /\ queue' = [queue EXCEPT ![n][m] = Tail(@)]
      /\ unchecked' = IF proc[m] = "local" THEN unchecked \cup {c.id} ELSE unchecked
      /\ UNCHANGED <<st, nodeVars, clientVars, owed, missed, outages>>

\* The RPC fails before the append (when only the reply is lost it is Deliver) or
\* the replica refuses: send logs the error and the job is gone.
SendFails(n, m) ==
  /\ Sending(n, m)
  /\ queue' = [queue EXCEPT ![n][m] = Tail(@)]
  /\ missed' = missed \cup {<<Head(queue[n][m]).copy.id, m>>}
  /\ UNCHANGED <<st, nodeVars, store, clientVars, owed, unchecked, outages>>

-----------------------------------------------------------------------------
(* A node's process                                                        *)

Registered(n) == Apply(st, CmdRegisterNode(n, AddrOf[n], 0))

\* The node registers, fills its cache (or fails to) and takes the cluster state
\* CatchUp works on (or skips it): the shards it is the replica of.
Start(n, refreshed, skipped) ==
  /\ proc[n] = "down"
  /\ st' = Registered(n)
  /\ cache' = [cache EXCEPT ![n] = IF refreshed THEN Registered(n) ELSE NewFSM]
  /\ proc' = [proc EXCEPT ![n] = "catchup"]
  /\ pending' = [pending EXCEPT ![n] =
       IF skipped THEN {}
       ELSE {<<s, st'.primary[s]>> : s \in {s \in Shards : st'.replica[s] = n}}]
  /\ UNCHANGED <<store, queue, clientVars, owed, missed, unchecked, outages>>

\* Registration fails (the command may have committed): local-only mode.
StartLocal(n) ==
  /\ proc[n] = "down"
  /\ st' \in {st, Registered(n)}
  /\ proc' = [proc EXCEPT ![n] = "local"]
  /\ cache' = [cache EXCEPT ![n] = NewFSM]
  /\ UNCHANGED <<pending, store, queue, clientVars, owed, missed, unchecked, outages>>

LatestReceivedAtForShard(n, s) ==
  LET times == {c.at : c \in {c \in Held(n) : Shard(c) = s}} \cup {0}
  IN  CHOOSE t \in times : \A u \in times : u <= t

\* Mutant: the IDs at the watermark itself are left out.
localIDsAtOrAfterNs_After(n, s, since) ==
  IDs({c \in Held(n) : Shard(c) = s /\ c.at > since})

localIDsAtOrAfterNs(n, s, since) ==
  IDs({c \in Held(n) : Shard(c) = s /\ c.at >= since})

\* Mutant: entries received at the watermark are left out.
FetchShardEntries_After(p, s, since) ==
  {c \in Held(p) : (proc[p] = "local" \/ Shard(c) = s) /\ c.at > since}

\* A node in local mode has no shard count and returns every shard's entries.
FetchShardEntries(p, s, since) ==
  {c \in Held(p) : (proc[p] = "local" \/ Shard(c) = s) /\ c.at >= since}

\* One shard of CatchUp's loop: fetch what is new and append the unknown IDs.  An
\* append may fail, and a crash may come before the last one: some are left out.
CatchUpShard(n, s, p, failed) ==
  LET since == LatestReceivedAtForShard(n, s)
      fresh == {c \in FetchShardEntries(p, s, since) :
                  c.id \notin localIDsAtOrAfterNs(n, s, since) \cup failed}
  IN  /\ proc[n] = "catchup" /\ <<s, p>> \in pending[n]
      /\ Answering(p)
      /\ store' = [store EXCEPT ![n] = Appended(@, [c \in fresh |-> store[p][c]])]
      /\ pending' = [pending EXCEPT ![n] = @ \ {<<s, p>>}]
      /\ UNCHANGED <<st, cache, proc, queue, clientVars, owed, missed, unchecked, outages>>

\* The primary is unknown or cannot be reached: the shard is skipped.
CatchUpSkips(n, s, p) ==
  /\ proc[n] = "catchup" /\ <<s, p>> \in pending[n]
  /\ pending' = [pending EXCEPT ![n] = @ \ {<<s, p>>}]
  /\ UNCHANGED <<st, cache, proc, store, queue, clientVars, owed, missed, unchecked, outages>>

FinishCatchUp(n) ==
  /\ proc[n] = "catchup" /\ pending[n] = {}
  /\ proc' = [proc EXCEPT ![n] = "serving"]
  /\ UNCHANGED <<st, cache, pending, store, queue, clientVars, owed, missed, unchecked, outages>>

\* Mutant: the cache is only filled once.
Refresh_Once(n) ==
  /\ proc[n] \in {"catchup", "serving"} /\ cache[n] = NewFSM /\ st # NewFSM
  /\ cache' = [cache EXCEPT ![n] = st]
  /\ UNCHANGED <<st, proc, pending, store, queue, clientVars, owed, missed, unchecked, outages>>

\* StateCache.refresh; a failing one keeps the old state.
Refresh(n) ==
  /\ proc[n] \in {"catchup", "serving"} /\ cache[n] # st
  /\ cache' = [cache EXCEPT ![n] = st]
  /\ UNCHANGED <<st, proc, pending, store, queue, clientVars, owed, missed, unchecked, outages>>

\* Requests that called n directly end with n; their clients see an error.
Abandoned(n) ==
  [c \in Clients |-> IF call[c].first = n THEN Idle ELSE call[c]]

\* A crash: what was queued is lost.
Crash(n) ==
  /\ proc[n] # "down" /\ outages < MaxOutages
  /\ proc' = [proc EXCEPT ![n] = "down"]
  /\ pending' = [pending EXCEPT ![n] = {}]
  /\ queue' = [queue EXCEPT ![n] = NoQueue]
  /\ missed' = missed \cup UNION {{<<j.copy.id, m>> : j \in Queued(n, m)} : m \in Nodes}
  /\ call' = Abandoned(n)
  /\ outages' = outages + 1
  /\ UNCHANGED <<st, cache, store, sent, acked, owed, unchecked>>

\* SIGTERM: GracefulStop has waited for the handlers; the replicator drains.
Shutdown(n) ==
  /\ proc[n] = "serving" /\ outages < MaxOutages
  /\ \A c \in Clients : n \notin {call[c].first, call[c].at}
  /\ proc' = [proc EXCEPT ![n] = "stopping"]
  /\ outages' = outages + 1
  /\ UNCHANGED <<st, cache, pending, store, queue, clientVars, owed, missed, unchecked>>

\* Replicator.Stop returns once every channel is empty.
Stopped(n) ==
  /\ proc[n] = "stopping" /\ queue[n] = NoQueue
  /\ proc' = [proc EXCEPT ![n] = "down"]
  /\ UNCHANGED <<st, cache, pending, store, queue, clientVars, owed, missed, unchecked, outages>>

\* The liveness checker marks a node, which may be up and merely slow.
Suspect(n) ==
  /\ st.status[n] = "healthy" /\ outages < MaxOutages
  /\ st' = Apply(st, CmdMarkUnhealthy(n))
  /\ outages' = outages + 1
  /\ UNCHANGED <<nodeVars, store, queue, clientVars, owed, missed, unchecked>>

-----------------------------------------------------------------------------
Batches == UNION {[1 .. k -> Entries] : k \in 1 .. MaxBatch}

Next ==
  \/ \E c \in Clients, n \in Nodes, batch \in Batches : Send(c, n, batch)
  \/ \E c \in Clients : Unavailable(c) \/ Forward(c) \/ AppendFails(c)
  \/ \E c \in Clients, at \in ReceiveTimes, lost \in BOOLEAN : WriteLocal(c, at, lost)
  \/ \E n, m \in Nodes : Deliver(n, m) \/ SendFails(n, m)
  \/ \E n \in Nodes : \E refreshed, skipped \in BOOLEAN : Start(n, refreshed, skipped)
  \/ \E n \in Nodes, s \in Shards, p \in Nodes :
        CatchUpSkips(n, s, p) \/ \E failed \in SUBSET Entries : CatchUpShard(n, s, p, failed)
  \/ \E n \in Nodes : \/ StartLocal(n) \/ FinishCatchUp(n) \/ Refresh(n) \/ Crash(n)
                      \/ Shutdown(n) \/ Stopped(n) \/ Suspect(n)

Spec == Init /\ [][Next]_vars

\* Handlers and the replicator's goroutines run, the cache's ticker fires and
\* its refresh gets through.  Nothing is assumed of clients, outages or restarts.
Fairness ==
  /\ \A c \in Clients :
        WF_vars(\/ Unavailable(c) \/ Forward(c) \/ AppendFails(c)
                \/ \E at \in ReceiveTimes, lost \in BOOLEAN : WriteLocal(c, at, lost))
  /\ \A n \in Nodes : WF_vars(Refresh(n))
  /\ \A n, m \in Nodes : WF_vars(Deliver(n, m) \/ SendFails(n, m))

FairSpec == Spec /\ Fairness

-----------------------------------------------------------------------------
\* Every variable keeps its shape; no channel exceeds its capacity, and only
\* what was owed is missed.
TypeOK ==
  /\ st \in ClusterStates
  /\ cache \in [Nodes -> ClusterStates]
  /\ proc \in [Nodes -> Procs]
  /\ pending \in [Nodes -> SUBSET (Shards \X (Nodes \cup {NoNode}))]
  /\ \A n \in Nodes : Held(n) \subseteq Copies /\ \A c \in Held(n) : store[n][c] \in Nat \ {0}
  /\ queue \in [Nodes -> [Nodes -> Seq(Jobs)]]
  /\ \A n, m \in Nodes : Len(queue[n][m]) <= QueueCapacity
  /\ acked \subseteq sent /\ sent \subseteq Entries
  /\ owed \subseteq Entries \X Nodes /\ missed \subseteq owed
  /\ unchecked \subseteq sent
  /\ outages \in 0 .. MaxOutages

\* A copy lies in the shard of its entry on whatever node it is: the namespace
\* is lost on the way to the replica, and ReplicateEntry's shard check refuses
\* the copies this would file under another shard.  Only a node in local-only
\* mode, which checks nothing, can bring in others.
CopiesInShard ==
  \A n \in Nodes : \A c \in Held(n) :
     c.id \in unchecked \/ Shard(c) = ShardID(NsOf[c.id], SvcOf[c.id])

\* An entry a client was told is stored is on some node's disk with all it had,
\* however often it was forwarded and whatever became of its batch.
AckedStored ==
  \A e \in acked : \E n \in Nodes : \E c \in Held(n) : c.id = e /\ c.ns = NsOf[e]

\* A copy a primary owes its replica is there, on its way, or was lost with a
\* log line or with the primary's process: nothing vanishes silently between
\* Enqueue, drain, send and ReplicateEntry.
NoSilentLoss ==
  \A o \in owed \ missed :
     \/ o[1] \in IDs(Held(o[2]))
     \/ \E n \in Nodes : \E j \in Queued(n, o[2]) : j.copy.id = o[1]

\* A shard's catch-up in which no append fails brings in every entry the primary
\* has that is not older than the newest the node held, those received in the
\* same instant included.  (A gap before the newest one is never fetched.)
CatchUpFillsTail ==
  [][\A n \in Nodes, s \in Shards, p \in Nodes :
       CatchUpShard(n, s, p, {}) =>
         \A c \in Held(p) :
            (Shard(c) = s /\ \A d \in Held(n) : Shard(d) = s => d.at <= c.at)
              => c.id \in IDs(DOMAIN store'[n])]_vars

\* Catch-up never appends a second copy of an entry the node has, unless local-
\* only mode is involved: a primary that runs in it answers with the entries of
\* other shards too, and a copy taken in it may lie in another shard.
CatchUpAddsNoDuplicate ==
  [][\A n \in Nodes, s \in Shards, p \in Nodes, failed \in SUBSET Entries :
       (CatchUpShard(n, s, p, failed) /\ proc[p] # "local") =>
         \A c \in DOMAIN store'[n] :
            c.id \in IDs(Held(n)) \ unchecked => (c \in Held(n) /\ store'[n][c] = store[n][c])]_vars

\* Once the metadata and the nodes' processes stay as they are, forwarding comes
\* to an end: stale caches may send an entry in a circle, refreshed ones do not.
IngestAnswered ==
  <>[][UNCHANGED <<st, proc>>]_vars => \A c \in Clients : []<>(call[c] = Idle)

\* In the end every owed copy that was not lost is on its replica: channels are
\* drained while a node serves and while it shuts down.
ReplicaConverges ==
  <>[](\A o \in owed \ missed : o[1] \in IDs(Held(o[2])))

\* What the phase 8 design says of the messages between nodes: namespace flows through
\* LogEntry, so every copy of an entry, also the replica's, carries it.
NamespaceFlows ==
  \A n \in Nodes : \A c \in Held(n) : c.id \in unchecked \/ c.ns = NsOf[c.id]
=============================================================================
