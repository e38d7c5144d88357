----------------------------- MODULE LocalQuery -----------------------------
(***************************************************************************)
(* A data node's query path over real index contents: the inverted index   *)
(* of internal/index, the per-segment filters of internal/storage, and     *)
(* LocalExecutor.Execute, while entries are appended, segments close, are  *)
(* merged and expire, and the node restarts.                               *)
(*                                                                         *)
(* The steps of one merge, rotation or restart are taken together here;    *)
(* what a query sees between them is the subject of StorageNode.           *)
(***************************************************************************)
EXTENDS QueryAST, Integers, FiniteSets, FiniteSetsExt, SequencesExt

CONSTANTS
  LogEntry,      \* ID |-> the entry's fields, ts included; IDs are numbers
  Requests,      \* requests a client may send: query, ns, svc, from, to, limit, offset
  DefaultLimit,  \* defaultLimit
  BloomEnabled,  \* BLOOM_ENABLED
  MaxSegments,   \* bound: segments created
  MaxRecords     \* bound: records in the segments

ASSUME ConstantsOK ==
  /\ \A id \in DOMAIN LogEntry : LogEntry[id].ts \in Nat \ {0}
  /\ \A r \in Requests : {r.from, r.to, r.limit, r.offset} \subseteq Int
  /\ DefaultLimit \in Nat \ {0} /\ BloomEnabled \in BOOLEAN

VARIABLES
  segments,  \* path |-> the IDs of its records, in file order; paths are numbers
  active,    \* path of the active segment
  created,   \* paths handed out so far
  idx,       \* the Index
  blooms     \* path of a closed segment |-> words its filter answers yes to

vars == <<segments, active, created, idx, blooms>>

Closed == DOMAIN segments \ {active}
Without(f, D) == [x \in DOMAIN f \ D |-> f[x]]
Update(f, x, v) == [y \in DOMAIN f \cup {x} |-> IF y = x THEN v ELSE f[y]]

-----------------------------------------------------------------------------
(* The index: three maps from words to sets of paths, and time bounds.     *)

NewIndex == [tokenSegments |-> <<>>, serviceSegments |-> <<>>,
             namespaceSegments |-> <<>>, segmentMeta |-> <<>>]

\* Post sets map[k][path] for every key in K; Drop removes the paths, and the keys left empty.
Paths(map, k) == IF k \in DOMAIN map THEN map[k] ELSE {}
Post(map, K, path) ==
  [k \in DOMAIN map \cup K |-> Paths(map, k) \cup IF k \in K THEN {path} ELSE {}]

\* Mutant: keys left without a segment stay in the map.
Drop_EmptyStays(map, D) == [k \in DOMAIN map |-> map[k] \ D]
Drop(map, D) == [k \in {k \in DOMAIN map : map[k] \ D # {}} |-> map[k] \ D]

Bounds(i, ts, path) ==
  IF path \notin DOMAIN i.segmentMeta THEN [min |-> ts, max |-> ts]
  ELSE LET m == i.segmentMeta[path]
       IN  [min |-> IF ts < m.min THEN ts ELSE m.min, max |-> IF ts > m.max THEN ts ELSE m.max]

Add(i, id, path) ==
  LET e == LogEntry[id]
  IN  [tokenSegments     |-> Post(i.tokenSegments, e.words, path),
       serviceSegments   |-> Post(i.serviceSegments, {e.svc} \ {""}, path),
       namespaceSegments |-> Post(i.namespaceSegments, {e.ns}, path),
       segmentMeta       |-> Update(i.segmentMeta, path, Bounds(i, e.ts, path))]

AddAll(i, ids, path) == FoldSeq(LAMBDA id, acc : Add(acc, id, path), i, ids)

RemoveSegments(i, D) ==
  [tokenSegments     |-> Drop(i.tokenSegments, D),
   serviceSegments   |-> Drop(i.serviceSegments, D),
   namespaceSegments |-> Drop(i.namespaceSegments, D),
   segmentMeta       |-> Without(i.segmentMeta, D)]

RebuildFromSegments(paths) ==
  FoldSeq(LAMBDA p, acc : AddAll(acc, segments[p], p), NewIndex, paths)

Resolve(i, tokens, r) ==
  {p \in DOMAIN i.segmentMeta :
     /\ \A tok \in tokens : p \in Paths(i.tokenSegments, tok)
     /\ r.ns # "" => p \in Paths(i.namespaceSegments, r.ns)
     /\ r.svc # "" => p \in Paths(i.serviceSegments, r.svc)
     /\ r.from > 0 => i.segmentMeta[p].max >= r.from
     /\ r.to > 0 => i.segmentMeta[p].min <= r.to}

-----------------------------------------------------------------------------
(* The filters.                                                            *)

\* Mutant: the namespace is left out of the filter.
tokenizeEntry_NoNamespace(e) == e.words \cup {ToLower(e.level), ToLower(e.svc)}
tokenizeEntry(e) == e.words \cup {ToLower(e.level), ToLower(e.svc), ToLower(e.ns)}

BuildBloom(ids) == UNION {tokenizeEntry(LogEntry[id]) : id \in ToSet(ids)}
WithBloom(bs, path, ids) ==
  IF BloomEnabled /\ ids # <<>> THEN Update(bs, path, BuildBloom(ids)) ELSE bs

-----------------------------------------------------------------------------
(* LocalExecutor.Execute.                                                  *)

Before(a, b) == \/ LogEntry[a].ts > LogEntry[b].ts
                \/ LogEntry[a].ts = LogEntry[b].ts /\ a < b

Filter(r, node, id) ==
  LET e == LogEntry[id]
  IN  /\ r.ns # "" => e.ns = r.ns
      /\ r.svc # "" => e.svc = r.svc
      /\ matchesNode(e, node)
      /\ r.from > 0 => e.ts >= r.from
      /\ r.to > 0 => e.ts <= r.to

\* Entries from offset on, at most limit of them.
Window(s, offset, limit) ==
  SubSeq(s, offset + 1, IF offset + limit > Len(s) THEN Len(s) ELSE offset + limit)

Deduplicate(ids) ==
  SelectSeq([k \in DOMAIN ids |-> IF \E j \in 1 .. k - 1 : ids[j] = ids[k] THEN -1 ELSE ids[k]],
            LAMBDA id : id # -1)

prunedPaths(r, node) ==
  {p \in Resolve(idx, collectTermTokens(node), r) :
     p \in DOMAIN blooms /\ node.op # "nil" => ~bloomDefiniteMiss(blooms[p], node)}

ReadSegments(P) == FlattenSeq([k \in DOMAIN SetToSortSeq(P, <) |-> segments[SetToSortSeq(P, <)[k]]])

Rejected == [ok |-> FALSE]

Execute(r) ==
  LET parsed   == Parse(r.query)
      raw      == Deduplicate(ReadSegments(prunedPaths(r, parsed.node)))
      filtered == SortSeq(SelectSeq(raw, LAMBDA id : Filter(r, parsed.node, id)), Before)
      limit    == IF r.limit = 0 THEN DefaultLimit ELSE r.limit
  IN  IF r.limit < 0 \/ r.offset < 0 \/ ~parsed.ok THEN Rejected
      ELSE [ok |-> TRUE, total |-> Len(filtered), entries |-> Window(filtered, r.offset, limit)]

-----------------------------------------------------------------------------
(* The node.                                                               *)

Init ==
  /\ segments = (1 :> <<>>) /\ active = 1 /\ created = 1
  /\ idx = NewIndex /\ blooms = <<>>

\* AppendWithPath and Add; the same entry may arrive again, from a retry or a
\* replica.
AppendWithPath(id) ==
  /\ FoldSet(LAMBDA p, n : n + Len(segments[p]), 0, DOMAIN segments) < MaxRecords
  /\ segments' = [segments EXCEPT ![active] = Append(@, id)]
  /\ idx' = Add(idx, id, active)
  /\ UNCHANGED <<active, created, blooms>>

rotate ==
  /\ created < MaxSegments /\ segments[active] # <<>>
  /\ blooms' = WithBloom(blooms, active, segments[active])
  /\ created' = created + 1
  /\ active' = created + 1
  /\ segments' = Update(segments, created + 1, <<>>)
  /\ UNCHANGED idx

Reindexed(run, all) == AddAll(RemoveSegments(idx, ToSet(run)), all, run[1])

\* The run's records, duplicates included, move to its first path.
mergeRun(run) ==
  LET all == ReadSegments(ToSet(run))
  IN  /\ segments' = Without(Update(segments, run[1], all), ToSet(Tail(run)))
      /\ idx' = Reindexed(run, all)
      /\ blooms' = WithBloom(Without(blooms, ToSet(Tail(run))), run[1], all)
      /\ UNCHANGED <<active, created>>

Runs == {run \in {SetToSortSeq(P, <) : P \in {P \in SUBSET Closed : Cardinality(P) > 1}} :
           \A p \in Closed : p > run[1] /\ p < Last(run) => p \in ToSet(run)}

runRetentionPass(cutoff) ==
  LET expired == {p \in Closed : /\ segments[p] # <<>>
                                 /\ \A id \in ToSet(segments[p]) : LogEntry[id].ts < cutoff}
  IN  /\ expired # {}
      /\ segments' = Without(segments, expired)
      /\ idx' = RemoveSegments(idx, expired)
      /\ blooms' = Without(blooms, expired)
      /\ UNCHANGED <<active, created>>

\* The index is built again, the filters are read back from their sidecars.
Restart ==
  /\ idx' = RebuildFromSegments(SetToSortSeq(DOMAIN segments, <))
  /\ UNCHANGED <<segments, active, created, blooms>>

Next ==
  \/ \E id \in DOMAIN LogEntry : AppendWithPath(id)
  \/ rotate
  \/ \E run \in Runs : mergeRun(run)
  \/ \E id \in DOMAIN LogEntry : runRetentionPass(LogEntry[id].ts)
  \/ Restart

Spec == Init /\ [][Next]_vars

-----------------------------------------------------------------------------
\* The node's entries that meet the request, whatever segment they are in.
Stored == UNION {ToSet(segments[p]) : p \in DOMAIN segments}
Wanted(r) == {id \in Stored : Filter(r, Parse(r.query).node, id)}

\* Filters answer for the message, level, service and namespace only: a
\* condition on another field is outside what they can exclude.
RECURSIVE FilterFields(_)
FilterFields(node) ==
  CASE node.op \in {"and", "or"} -> FilterFields(node.left) /\ FilterFields(node.right)
    [] node.op = "field" -> ToLower(node.field) \in {"level", "service", "namespace", "message"}
    [] OTHER             -> TRUE

\* Execute returns the page the request asks for, of exactly the stored entries
\* that match, and counts each of them once: no segment with a match is pruned by
\* the tokens, the namespace, the service, the time bounds or the filters.
ExecuteExact ==
  \A r \in Requests : LET q == Parse(r.query) IN
    /\ Execute(r).ok <=> q.ok /\ r.limit >= 0 /\ r.offset >= 0
    /\ Execute(r).ok /\ (BloomEnabled => FilterFields(q.node)) =>
         /\ Execute(r).total = Cardinality(Wanted(r))
         /\ Execute(r).entries =
              Window(SetToSortSeq(Wanted(r), Before), r.offset,
                     IF r.limit = 0 THEN DefaultLimit ELSE r.limit)

\* The index a restart builds from the files is the one the running node has
\* after any history of appends, merges and expiries: nothing stale is kept and
\* nothing is lost.
RestartKeepsIndex == idx = RebuildFromSegments(SetToSortSeq(DOMAIN segments, <))
=============================================================================
