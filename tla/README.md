# A formal model of the distributed log query engine

TLA+ specifications of the engine's storage nodes, its ingest and replication
path, its query path and its cluster metadata, TLC configurations that
model-check them on small instances, and TLAPS proofs that hold for every
number of nodes, shards, clients and entries. `PROJECT.json` lists the
components, the runs, the source lines each definition translates, the hazards
the properties are aimed at, the findings and the theorems.

## 1. The system

| part | state | operations | interacts with |
|---|---|---|---|
| segment storage (`internal/storage` manager, segment, record, read) | segment files, `ACTIVE` marker, `paths`, `nextSeq`, active descriptor, bloom map | `AppendWithPath`, rotate, `NewManager`, `ReadSegments`, `LoadSegment`, `DeleteSegment` | index, compactor, executor, catch-up |
| bloom sidecars (`bloom.go`) | one `.bloom` file per closed segment | build, write, read | rotation, compactor, executor |
| compactor (`compaction.go`) | position in a pass | merge a run of small segments; delete expired segments | all of the above |
| inverted index (`internal/index`) | token, service and namespace to segments; time bounds | `Add`, `Resolve`, `RemoveSegment`, `RebuildFromSegments` | ingest, executor, compactor |
| local query (`internal/query`) | none beyond a request | parse, resolve, prune, read, filter, page | index, manager |
| ingest (`internal/ingest`) | cached clients | validate, route, write or forward, replicate, catch up | manager, index, state cache, replicator |
| replication (`internal/replication`) | a bounded queue per replica address | enqueue, drain, send | ingest of another node |
| metadata (`internal/metadata` fsm, state) | nodes, shards | register, heartbeat, mark unhealthy, snapshot, restore | Raft |
| liveness and server (`internal/metadata`) | none | check heartbeats, apply commands, serve the state | FSM, Raft |
| cluster client (`internal/cluster`) | current coordinator, cached state | register, heartbeat, refresh | metadata server |
| coordinator queries (`internal/coordinator`) | LRU and TTL cache | fan out, merge, cut out a page, cache | query service of every node |
| processes (`cmd/node`, `cmd/coordinator`) | | start-up order, shutdown | everything |

What is hard: ingest handlers, query handlers and the compactor of a node share
files, index and bloom map under *different* locks and update them one after the
other; the process may die between any two system calls; file operations of a
merge may fail halfway; a start-up catch-up writes files under names another
machine chose. In the cluster, a liveness decision is made from a snapshot and
committed later; replies are lost and registration is retried; leaders change;
coordinators restore from snapshots; nodes route by copies of the state that are
of different ages, so two may act as primary of one shard and forward to each
other; copies travel through queues that drop; a restarted replica fills its gap
by watermark. On the query side, each node sends only the head of its list and
the coordinator merges whatever arrives in time, next to a cache that other calls
fill and empty.

## 2. Modules

    SortedSets              sorted lists of names, and positions in them (pure operators)
      ClusterState          cluster state and the commands on it (pure operators)
        ClusterState_proofs
        MetadataFSM         the Raft state machine driven by any command sequence
          MetadataFSM_proofs
        Membership          node processes, heartbeats, liveness checker; refines MetadataFSM
          Membership_proofs
        CoordinatorCluster  replicated FSMs, snapshots, crash and restore, state caches
          CoordinatorCluster_proofs
        Replication         routing, forwarding, replication, entry-level catch-up
          Replication_proofs
      StorageNode           one node, step by step: manager, index, bloom, compactor, query
        StorageInvariant_proofs
          StorageNode_proofs
      FanOut                the coordinator's query path
        FanOut_proofs
    QueryAST                parser, matching and required tokens (pure operators)
      QueryParser           the parser against its grammar
      LocalQuery            index, filters and Execute over real contents

`MC*` modules hold only the values of constants.

**ClusterState** translates `fsm.go` and `state.go`. Nodes are numbers, which
stand for node IDs in `sort.Strings` order; a shard list is a set, since the code
keeps it sorted and without duplicates. `rebalancePrimary` and `assignReplicas`
are written as what their loops compute: shard *s* goes to the
(*s* mod *k*)-th healthy node, its replica is the first healthy node that is not
the primary. `applyRegisterNode`, `applyUpdateHeartbeat` and `applyMarkUnhealthy`
contain the rebalancing the code calls at their end, and the errors for unknown
nodes leave the state alone.

**MetadataFSM** has one action per command and is the abstract specification of
the metadata.

**Membership** puts the commands into time. A node process is down, registering,
catching up, serving, or in local-only mode (registration failed). `CheckLiveness`
takes the snapshot of `checkLiveness`; each `MarkUnhealthy` is one later
`raft.Apply`, lost if leadership was. Time is counted in heartbeat intervals; the
present is kept fixed and `Tick` ages `LastSeen` instead, so the state space is
finite without a bound on time. Its metadata refines MetadataFSM
(`ImplementsFSM`; only the timestamps are forgotten).

**CoordinatorCluster** has a committed log (external: `hashicorp/raft`) and, per
coordinator, the FSM, the applied index and the snapshot. `states` is a history
variable: the state after every log prefix. `Refresh` copies the state of *any*
coordinator into a storage node's cache, as `state_cache.go` does.

**Replication** has the committed metadata `st`, a cached state per node, the
calls in progress, one channel per (sender, replica address) and a disk per node:
the bag of copies appended to it. A batch is handled entry by entry; each entry
is answered with `Unavailable`, forwarded (`Forward`, no hop limit, as in the
code), refused by a failing append, or written (`WriteLocal`: stamp, append,
index, enqueue). A copy reaches the replica without its namespace, since the
replicator's `entryToProto` leaves it out, and `ReplicateEntry` recomputes the
shard. Nodes crash, drain and stop on SIGTERM, are marked unhealthy although they
run, restart, register, and catch up one shard at a time; some appends of a
catch-up may fail (`failed`), which also stands for a crash in the middle of it.
Registration, first cache fill and the state that `CatchUp` works on are one
step; a node in local-only mode makes no shard checks and answers
`FetchShardEntries` with all shards, as the code does. `QueueCapacity` is
`channelCapacity` plus the job in flight. `owed`, `missed`, `unchecked` and
`sent` are history. Left out: client retries of an entry (IDs are sent once),
cancelled calls, and a `grpc.NewClient` that fails.

**StorageNode** models one process in steps as small as the code's own
atomicity: a rotation is close and sidecar, create, truncate marker, write
marker; a record is a length prefix, then a payload; a merge is read, one
`RemoveSegment` per path, rename, sidecar, re-index, manager update under its
lock, and one remove per file and per sidecar; a query resolves, looks up each
filter, and reads each file as separate steps. `files`, `sidecar` and `marker`
survive `Crash`; everything else is rebuilt by `Start`. `fd.attached` says
whether the open descriptor still belongs to the file its path names (a rename
onto the path, or its removal, detaches it). Entries are numbers in the order the
manager's lock is granted; a bloom filter is the exact set of entries (a false
positive only costs a read, the filter step removes it again). `must`, `hurt`,
`issued`, `acked`, `cutoff` are bookkeeping for the properties and bounds.

Simplifications in StorageNode: the process crashes but the machine does
not (what a system call wrote stays); a `.tmp` file is invisible because nothing
matches it; graceful shutdown is a special case of a crash; the very first
segment and marker are created in one step; the adds of `MergeReindex` are one
step, so a query sees either none or all of them; retention's read and
`DeleteSegment` are one step (a closed segment does not change in between, as
only the compactor itself changes closed segments); one query at a time. An
append that fails with an I/O error is an action of Replication only.

**QueryAST** is `parser.go`'s recursive descent over opaque words (`parseOr`,
`parseAnd`, `parseAtom`), `matchesNode`, and the collection of tokens required of
a segment. **QueryParser** enumerates all word sequences and compares the parser
with the grammar in its comment, written as a relation of its own.
**LocalQuery** keeps the three index maps, the time bounds and the filters with
their real contents and checks `Execute` as a whole; merges, rotations and
restarts are single steps there, because what a query sees between their steps is
StorageNode's subject.

**FanOut** runs several `Execute` calls at once: cache look-up, the snapshot of
healthy nodes, an answer, failure or timeout per node, merge, page and
`Put`, next to entries being stored and nodes registering and failing. Time is
kept as ages that saturate beyond `Horizon = TTL + NodeTimeout`, so no clock is
needed. `IntMax` is a small stand-in
for the largest int32, and the sum of offset and limit wraps around at it. Copies
of an entry are taken to be equal. A finished call returns before anything else
happens, which loses no behaviour since returning touches nothing shared. `seen` (what the asked nodes had when they
answered) is history.

## 3. Runs

Passing runs (all actions of all modules occur in them):

| run | instance | shows |
|---|---|---|
| `placement` | 4 nodes, 5 shards | after any command sequence the shard map is exactly the round-robin over the healthy nodes; owners healthy, every shard served, per-node lists equal the map, load differs by at most one shard, nothing moves unless membership changes |
| `storage_crash` | 2 writers, 5 own and 2 transferred entries, 2 crashes, 1 failing file operation, merge, retention, bloom | acknowledged entries are on disk and in the index at every instant; the active segment is the last path and is never compacted; `nextSeq` is fresh; files never lose entries; the returned path is the one written |
| `storage_query` | 2 writers, 5 entries, 1 crash, queries for all and for one term | a query misses only entries of a merge that overlapped it, or expired ones; no filter hides an acknowledged entry |
| `membership` | 2 nodes, 1 shard, 2 coordinators, timeout of 1 interval | only registration revives; failover completes; refinement of MetadataFSM |
| `coordinators` | 2 coordinators, 2 nodes, log of 4 commands | a coordinator is in the state of its log prefix; a cache is a past state |
| `replication` | 2 nodes, 2 shards, 2 entries in batches, 2 clock values, queue of 1, 2 outages | copies lie in their shard; acknowledged entries stay stored; an owed copy is there, queued or known to be lost; catch-up fills the tail and adds no duplicate; forwarding ends; queues drain |
| `query_parser` | all sequences of up to 7 words out of 6 | the parser accepts the grammar and nothing else, and computes its meaning; required tokens are necessary |
| `local_query` | 3 entries, up to 3 segments and 4 records, about 30 requests | every request is answered with exactly its page of the matching stored entries, after any history; the index is the one a restart would build |
| `fanout` | 2 nodes, 2 concurrent calls, 2 requests, 2 entries, cache of 1 item, 2 events | pages are exact, totals are lower bounds, an answer is never older than the TTL and one node timeout, the cache keeps its bound |

Why these bounds: records of size 1 and 2 and segments of size 2 give segments
with two entries and with one; with five entries a run of two closed
segments is merged while another is filled and rotated, and the merged segment is
too large to be merged again, so the pass has to step over it; timestamps are out
of order and one is missing; two crashes allow a crash during the recovery from a
crash. Four nodes and five shards make every remainder of the round-robin
occur. Two nodes and one shard already give a primary and a replica that fail in
either order; the liveness checker treats nodes independently. A log of four
commands holds a registration of both nodes, a failure and a rejoin. In
Replication two nodes suffice for forwarding in a circle, for two acting
primaries and for a replica that is itself primary in an older cache; one of the
two entries loses its shard together with its namespace; two clock values give
ties and clocks that run backwards between nodes; a queue of one overflows with
the second entry. In FanOut the requests share a limit, and offset plus limit is
exactly the largest int32 in one and wraps in the other; entries share a
timestamp, so the ID decides the order; a cache of one item evicts. Seven words
are the shortest queries that nest a parenthesis in both operands' precedence
levels (`( A OR A ) AND A` and its malformed neighbours).

Deadlock is checked in FanOut, CoordinatorCluster, Membership and MetadataFSM. It
is not (`CHECK_DEADLOCK FALSE`) in StorageNode, where a node that cannot restart
has really stopped, and in Replication, QueryParser and LocalQuery, where the
bounded workload ends.

Runs that refute a sentence of the repository (the exact quotes are in
`PROJECT.json`, `findings`):

| run | what the code does |
|---|---|
| `restart` | a crash between the two writes of a record leaves a torn record; the index rebuild fails and the node never starts again. The same property is broken by a crash while the `ACTIVE` marker is rewritten: the empty marker names the data directory, which cannot be opened as a segment |
| `rejoin` | a node marked unhealthy from a stale snapshot just after it re-registered heartbeats for ever without becoming healthy |
| `replica_namespace` | the copy of an entry on its replica has lost its namespace |

The passing properties are stated around what section 7 lists: `AckedFindable`
exempts entries a merge is moving, `QueryComplete` entries whose merge overlapped
the query, `AckedIndexed` looks at index and files without filters, `ExecuteExact`
leaves out conditions on custom fields while filters are on, `CopiesInShard` and
`CatchUpAddsNoDuplicate` except local-only mode, `PageExact` speaks of requests
whose offset plus limit is an int32.

## 4. Fairness

Membership and Replication state liveness. Membership's `FairSpec` assumes weak
fairness of `Tick`, `RegisterOk`, `FinishCatchUp`, `SendHeartbeat`,
`CheckLiveness` and `MarkUnhealthy`: tickers fire, a started RPC to a present
leader returns, and goroutines run. `Tick` waits for the heartbeats of serving
nodes that can reach a leader, which is the sender's ticker: one heartbeat per
interval. Nothing is assumed of crashes, restarts, lost replies, registration
errors or elections; `FailoverCompletes` and `RejoinedNodeHealthy` assume a leader
that eventually stays in their own statement. Coordinators are taken to read one
clock.

Replication's `FairSpec` assumes weak fairness of the handlers (a started call is
answered, forwarded or written), of the cache refresh (a ticker, and a
coordinator that answers) and, per channel, of the drain loop, which delivers or
fails. Nothing is assumed of clients, crashes, restarts or suspicions.
`IngestAnswered` assumes in its own statement that metadata and processes
eventually stay as they are.

## 5. Proofs

All constants are arbitrary within the named assumptions: `NodesAssumption` (a
finite set of naturals), `ShardsAssumption`, `TimesAssumption`,
`MembershipAssumption`, `LogAssumption`, `CommandsAssumption` (what is proposed
are the FSM's three commands), `ReplicationAssumption` (a hash with natural
values, distinct addresses, a queue of at least one), `EntriesAssumption` (own and
transferred entries differ and have sizes and timestamps), `RemoteAssumption`,
`BoundsAssumption` and FanOut's `ConstantsOK`. TLC evaluates each of them in the
run of its module. Every safety property the runs check of MetadataFSM,
Membership, CoordinatorCluster, Replication and FanOut is proved, and all but the
shapes (`TypeOK`) of StorageNode.

**MetadataFSM_proofs.** `PlacementInvariant`, `OwnersHealthyTheorem`,
`EveryShardServedTheorem`, `OwnedListsTheorem`, `BalancedTheorem` and the action
property `StableOwnershipTheorem`. None of the invariants is inductive alone:
`applyMarkUnhealthy` releases primaries through the node's own list, so "owners
are healthy" needs "lists match the map"; a registration of a healthy node returns
early and a heartbeat touches one field, so the placement has to have been right
before. The inductive invariant is `TypeOK /\ Placement(state)`: primaries are the
round-robin of the healthy nodes, replicas the first other node, lists the inverse
of the primary map. In `ClusterState_proofs` four lemmas on ranks in a finite set
of numbers (`RankMonotone` to `SortedAtMember`) show that the *i*-th
smallest node exists for every *i* below the cardinality; `Reassigned` shows that
rebalancing followed by replica assignment establishes the placement from *any*
well-typed state; one lemma per command uses it. `StableOwnership` follows because
the placement is a function of the healthy set (`SamePlacement`). `Balanced` is
read off the placement: with *k* healthy nodes the *r*-th one owns the shards that
are *r* modulo *k*, so moving a shard down by the difference of two remainders maps
one node's shards, but for at most one, into the other's (`EvenTurns`).

**Membership_proofs.** `ImplementsFSMTheorem` is the refinement
`Spec => FSM!Spec`: each step of nodes, leader and checker is, with the times
forgotten, one command of the state machine or a stutter. The argument:
`MetadataStep` lists the five things a step can do to the committed state; a
command and its timeless counterpart write the same statuses and addresses
(`RegisterWrites`, `HeartbeatWrites`, `MarkWrites`); both results are placed, and
a placed state is determined by its statuses (`SameTimeless`). So the inductive
invariant again needs the placement (`MInv == TypeOK /\ Placement(st)`).
`OnlyRegistrationRevivesTheorem` and type correctness come from the same lemmas.

**CoordinatorCluster_proofs.** `ReplicasAgreeTheorem`, `CacheIsPastStateTheorem`
and `ReplicasPlaced`, for any number of coordinators, nodes and commands and a log
of any bound. `RInv` says that the history is the run of one FSM over the log,
that every running FSM and every snapshot stands on it at the index it claims, and
that a cache was read off it. `ReplicasPlaced` carries MetadataFSM's invariant over
to replicas that lag, restore or install a snapshot.

**Replication_proofs.** `CopiesInShardTheorem`, `AckedStoredTheorem` and
`NoSilentLossTheorem`, from `IInv == WellFormed /\ JobsFiled /\ CopiesInShard /\
AckedStored /\ NoSilentLoss`: a copy's shard is right because the job it arrived by
was filed under its shard, which the replica recomputes from what it received;
`NoSilentLoss` must follow a copy from `Enqueue` through the channel to the disk or
to the record of its loss. `CatchUpAddsNoDuplicateTheorem` takes
`CInv == IInv /\ Counted /\ WrittenOnce`: the watermark argument needs that all
copies of an entry carry one `ReceivedAt`, and that in turn that an entry is written
by one call; a copy the primary offers at or after the watermark then finds the
node's own copy among the IDs at or after the watermark. `CatchUpFillsTailTheorem`
adds that a disk holds finitely many copies (`DisksFinite`): only then is the
watermark the time of a copy the node holds, and not an arbitrary value. With
`TInv`, which bounds every channel by its capacity and says that only sent entries
are reported and only owed copies recorded as lost, `TypeCorrect` follows.

**StorageInvariant_proofs** and **StorageNode_proofs** are one proof in two
modules: the inductive invariant and its preservation by each step, then the
theorems. `SInv` ties together what `Manager`, the index and the compactor believe
and what is on disk: the list names no file twice and the open one last, and the
descriptor belongs to it and knows its size (`ManagerOK`); the compactor's lists,
taken once and used long after, contain only closed segments (`ListsAt`), the merged
file has what the run's files hold before any of them goes (`MergeAt`), and a file
about to be deleted holds nothing that is not merged and indexed elsewhere or
expired (`DeleteAt`); an acknowledged entry, or one whose handler has yet to index
it, is in a file (`Durable`), and the index names one that holds it unless a merge
is moving it (`Indexed`). None of `AckedDurable`, `AckedIndexed`,
`ActiveIsLast`, `NextSeqFresh` and `ActiveNotCompacted` is inductive by itself; each
deletion of a file needs nearly all of the others. `SegmentsOnlyGrowTheorem` and
`PathMatchesWriteTheorem` are action properties from the same invariant.

These seven theorems assume `[]TransfersClean`: a segment that `transferMissingSegments`
brings in has a name that is free and below `nextSeq`. The code does not ensure it
(section 7), so it is stated as a hypothesis; it holds throughout the instance of
`storage_crash`, and always on a node that replicates no shard, for which
`PrimaryOnlyTheorem` states all seven without it.

`AckedFindableTheorem` and `QueryCompleteTheorem` are about such a node, as long as
no bloom sidecar fails to be written (`SidecarsWritten`; section 7 says what a
failure costs). `FilterInv` adds to `SInv` that the `ACTIVE` marker names the open
segment except inside a rotation, that every closed segment has its sidecar and
filter and these have every entry of the file, also while a merge has renamed the
file and not yet its filter (`MarkerOK`, `FiltersOK`, `MergedFilters`); that each
acknowledged entry is where a restart would find it (`Kept`) and where a query
would (`Shown`); and that what a running query owes is already read, or in a file it
has yet to read and no filter will rule out (`ReaderOK`). `FaultFreeTheorem` drops
the hypothesis on sidecars for a node on which no file operation fails: the setting
of `storage_query`, for any number of handlers, entries, crashes and sizes.

Facts about sorted names (`NamesSort`) are proved last and carried by the invariant
until then, and steps that serve one lemma only are kept inside its proof: both keep
small what the prover has in view at each of the some 7000 obligations.

**FanOut_proofs.** `PageExactTheorem` and `TotalLowerBoundTheorem`. An entry's place
among a set of entries is the number of entries before it; a node's first *k*
entries contain every entry of the union whose place is below *k*
(`UnionHoldsFirst`), so candidates truncated to `nodeLimit` fill the same window as
all entries (`SameWindow`), as long as the window's end does not wrap. The
inductive invariant `PInv` adds what the cache needs: an item is right for *every*
request with its key (`SameKeySamePage`). `NotTooStaleTheorem` follows ages: a
running call has seen what the nodes that answered had settled when it began, a
cached item is at most `NodeTimeout` older than its age says, and a tick makes
everything older by the same amount (`AInv`). It assumes that requests with one
cache key ask for the same entries (`KeysTellApart`), which is a condition on
clients, as the key joins text and namespace by `|`. `TypeOKTheorem` includes that
the LRU list never exceeds its bound, names no key twice and holds no partial
result.

Only model-checked: `TypeOK` of StorageNode, since the size of a merged segment is
a sum over its records, and that a fold is a number needs induction over data;
QueryParser and LocalQuery, whose operators are recursive descent and folds over
sequences, for the same reason; and all liveness (`FailoverCompletes`,
`IngestAnswered`, `ReplicaConverges`), since fairness and `ENABLED` are outside
what the prover does.

## 6. Not modelled

- Observability, configuration, generated API code, the CLI stub, deployment files
  and load tests carry no protocol state.
- Raft itself is a library; it appears as one committed log, a snapshot store and
  a leader.
- The connection pools of `node_client.go` and of the ingest clients only save
  dialling.
- `lex` and `tokenize` scan characters; words are opaque here.
- Segment transfer (StorageNode) and entry-level catch-up (Replication) are not
  composed: the state space of both together is beyond TLC, and they meet only in
  the shard list `CatchUp` walks over.
- `RemapSegment` has no caller. Client retries and cancelled ingest calls are left
  out of Replication (section 2).

## 7. Behaviour met while modelling, without a run of its own

Storage:

- A query that resolved its paths before a merge skips the deleted files and loses
  acknowledged entries, although
  `docs/superpowers/specs/2026-04-29-phase8-stretch-goals-design.md:412` says
  "Compaction preserves query correctness", and `compaction.go:230` that readers
  never meet a missing file. A query that reads the active segment between the two
  writes of a record fails as a whole.
- A failed `WriteBloom` after a merge leaves the old filter in force, which hides the
  merged-in entries.
- Two shards kept in one primary segment are transferred under one local name: the
  second overwrites the first.
- A transferred segment may have the number rotation opens next; a later merge then
  replaces the file under the open descriptor.
- A `.bloom` file orphaned by a crash is loaded for a transferred segment of the
  same name.
- An `idx.Add` delayed past a merge leaves a reference to a deleted file (harmless:
  `AckedFindable` holds). The old filter of the first merged path stays in memory
  until the manager is updated, slightly longer than the comment in `mergeRun` says.

Queries:

- Filters hold the words of message, level, service and namespace only, but
  `bloomDefiniteMiss` asks them for the value of any field: a condition on a custom
  field can skip a closed segment that matches.
- A `)` that closes nothing is parsed as a term where a term may stand.
- `CacheKey` joins text and namespace by `|`, which both may contain.
- `MergeResults` keeps whichever copy of an entry arrives first; the replica's lacks
  the namespace, so which copy is shown depends on timing.
- With no healthy node the answer is empty, not partial, and cached.
- Offset plus limit wraps as an int32; the per-node limit then falls back to its
  floor and the page can be incomplete.

Cluster:

- A catch-up that is interrupted leaves a gap below the watermark raised by the
  entries it did append; no later catch-up looks there.
- `IngestBatch` stops at the first `Internal` error without counting what it stored
  before it, and counts an entry as rejected when only the reply of a forwarded call
  was lost.
- A node whose registration fails stays in local-only mode and never retries,
  although the phase 4 design says it does.
