------------------------------- MODULE FanOut -------------------------------
(***************************************************************************)
(* The coordinator's query path (internal/coordinator): concurrent         *)
(* FanOutExecutor.Execute calls that look in the cache, ask every healthy  *)
(* node for its first entries, merge what arrives before the node timeout, *)
(* cut out the client's page and cache it, while entries are written and   *)
(* copied, nodes join and fail, and time passes.                           *)
(*                                                                         *)
(* Copies of an entry are taken to be equal, so the order in which the     *)
(* nodes' answers arrive does not matter to the merge.                     *)
(***************************************************************************)
EXTENDS SortedSets, Functions

CONSTANTS
  Nodes,         \* storage nodes
  Handlers,      \* concurrent Query calls
  Requests,      \* requests: text and ns as sequences of characters, limit, offset
  Match,         \* <<text, ns>> |-> IDs of the entries that meet the conditions
  TsOf,          \* ID |-> timestamp; IDs are numbers
  Old,           \* IDs stored before the model begins
  FanOutLimit,   \* FANOUT_LIMIT
  DefaultLimit,  \* the limit used for 0
  IntMax,        \* largest value of an int32; a small one stands for 2^31 - 1
  NodeTimeout,   \* nodeTimeoutMs, in ticks
  TTL,           \* cacheTTL, in ticks
  MaxItems,      \* cacheMaxItems
  MaxEvents      \* bound: entries stored and health changes while queries run

IDs == DOMAIN TsOf

\* An answer may be this old: computed when a fan-out began, put into the cache
\* when it ended.
Horizon == TTL + NodeTimeout

ASSUME ConstantsOK ==
  /\ {FanOutLimit, DefaultLimit, NodeTimeout, TTL, MaxItems} \subseteq Nat \ {0}
  /\ DefaultLimit <= IntMax /\ FanOutLimit <= IntMax /\ Old \subseteq IDs
  /\ IntMax \in Nat /\ TsOf \in [IDs -> Int] /\ IDs \subseteq Nat /\ IsFiniteSet(IDs)
  /\ \A r \in Requests : /\ r.limit \in -IntMax .. IntMax /\ r.offset \in -IntMax .. IntMax
                         /\ Match[<<r.text, r.ns>>] \subseteq IDs

VARIABLES
  stored,   \* per node and ID: ticks since it was stored, None if it is not
  healthy,  \* per node: ticks since it became healthy, None while it is not
  items,    \* the cache, most recently used first: [key, result, age]
  call,     \* per handler: its Execute call
  events    \* entries stored and health changes so far

vars == <<stored, healthy, items, call, events>>

None == -1
Ages == None .. Horizon + 1  \* older is not told apart
Older(a) == IF a \in {None, Horizon + 1} THEN a ELSE a + 1

Idle == [pc |-> "idle"]
Busy == {h \in Handlers : call[h].pc = "fanout"}

-----------------------------------------------------------------------------
(* QueryCache.                                                             *)

\* Mutant: the offset is not part of the key.
CacheKey_NoOffset(r) == [text |-> r.text \o <<"|">> \o r.ns, limit |-> r.limit, offset |-> 0]

\* The hashed string.  Its numbers have no "|" and can be read back from its end;
\* the text before them is the same for any two requests that write it.
CacheKey(r) == [text |-> r.text \o <<"|">> \o r.ns, limit |-> r.limit, offset |-> r.offset]

\* e.prev.next = e.next; e.next.prev = e.prev.
RemoveAt(list, k) == SubSeq(list, 1, k - 1) \o SubSeq(list, k + 1, Len(list))

Cached(key) == {item \in Range(items) : item.key = key}
Unlinked(key) ==
  IF Cached(key) = {} THEN items
  ELSE RemoveAt(items, CHOOSE k \in DOMAIN items : items[k].key = key)

\* Mutant: a hit makes the item young again.
Get_Renews(key) ==
  LET live == {item \in Cached(key) : item.age <= TTL}
  IN  IF live = {} THEN Unlinked(key)
      ELSE <<[(CHOOSE item \in live : TRUE) EXCEPT !.age = 0]>> \o Unlinked(key)

\* Get's effect: an expired item is removed, a live one moves to the front.
Get(key) ==
  LET live == {item \in Cached(key) : item.age <= TTL}
  IN  IF live = {} THEN Unlinked(key) ELSE <<CHOOSE item \in live : TRUE>> \o Unlinked(key)

Hit(key) == {item \in Cached(key) : item.age <= TTL}

\* Mutant: the least recently used item is dropped one too late.
evictLRU_Late(list) == IF Len(list) > MaxItems THEN Front(list) ELSE list
evictLRU(list) == IF Len(list) >= MaxItems THEN Front(list) ELSE list

Put(key, result) ==
  <<[key |-> key, result |-> result, age |-> 0]>>
    \o (IF Cached(key) # {} THEN Unlinked(key) ELSE evictLRU(items))

-----------------------------------------------------------------------------
(* The page a client asks for.                                             *)

Before(a, b) == TsOf[a] > TsOf[b] \/ (TsOf[a] = TsOf[b] /\ a < b)

\* The entries from offset on, at most limit of them; a list sorted by Before is
\* written as the set of its entries.
Window(S, offset, limit) ==
  {id \in S : LET rank == Cardinality({x \in S : Before(x, id)})
              IN  offset <= rank /\ rank < offset + limit}

Int32(x) == IF x > IntMax THEN x - 2 * (IntMax + 1) ELSE x

clientLimit(r) == IF r.limit = 0 THEN DefaultLimit ELSE r.limit

Page(S, r) == Window(S, r.offset, clientLimit(r))

\* Mutant: the offset is left to the merge alone.
nodeLimit_NoOffset(r) == IF clientLimit(r) > FanOutLimit THEN clientLimit(r) ELSE FanOutLimit

nodeLimit(r) ==
  LET sum == Int32(r.offset + clientLimit(r)) IN IF sum > FanOutLimit THEN sum ELSE FanOutLimit

Matching(n, r) == {id \in Match[<<r.text, r.ns>>] : stored[n][id] # None}

-----------------------------------------------------------------------------
(* Execute.                                                                *)

\* targets: the nodes of the metadata state that are healthy.
Targets == {n \in Nodes : healthy[n] # None}

\* Query and the first half of Execute.  A request with a negative limit or
\* offset is refused before that.
Query(h, r) ==
  LET key == CacheKey(r)
  IN  /\ call[h].pc = "idle" /\ r.limit >= 0 /\ r.offset >= 0
      /\ items' = Get(key)
      /\ call' = [call EXCEPT ![h] =
           IF Hit(key) # {} THEN [pc |-> "done", req |-> r, result |-> (CHOOSE i \in Hit(key) : TRUE).result]
           ELSE [pc |-> "fanout", req |-> r, waiting |-> Targets, got |-> {}, seen |-> {},
                 partial |-> FALSE, age |-> 0]]
      /\ UNCHANGED <<stored, healthy, events>>

\* A node executes the query and its answer, the first nodeLimit entries, arrives.
\* seen is history: all that the nodes had when they were asked.
NodeAnswers(h, n) ==
  LET all == Matching(n, call[h].req)
  IN  /\ h \in Busy /\ n \in call[h].waiting
      /\ call' = [call EXCEPT ![h].waiting = @ \ {n},
                    ![h].got = @ \cup Window(all, 0, nodeLimit(call[h].req)),
                    ![h].seen = @ \cup all]
      /\ UNCHANGED <<stored, healthy, items, events>>

\* The node cannot be reached, refuses, or does not answer in time.
NodeFails(h, n) ==
  /\ h \in Busy /\ n \in call[h].waiting
  /\ call' = [call EXCEPT ![h].waiting = @ \ {n}, ![h].partial = TRUE]
  /\ UNCHANGED <<stored, healthy, items, events>>

MergeResults(c) ==
  [entries |-> Page(c.got, c.req), total |-> Cardinality(c.got), partial |-> c.partial,
   seen |-> c.seen, req |-> c.req]

\* wg.Wait returns, the answers are merged, and a complete result is cached.
Finish(h) ==
  LET result == MergeResults(call[h])
  IN  /\ h \in Busy /\ call[h].waiting = {}
      /\ items' = IF result.partial THEN items ELSE Put(CacheKey(call[h].req), result)
      /\ call' = [call EXCEPT ![h] = [pc |-> "done", req |-> call[h].req, result |-> result]]
      /\ UNCHANGED <<stored, healthy, events>>

\* The client goes away: every node call fails with its context, and nothing is
\* merged or cached.
Cancel(h) ==
  /\ h \in Busy
  /\ call' = [call EXCEPT ![h] = Idle]
  /\ UNCHANGED <<stored, healthy, items, events>>

\* The client has its answer.
Return(h) ==
  /\ call[h].pc = "done"
  /\ call' = [call EXCEPT ![h] = Idle]
  /\ UNCHANGED <<stored, healthy, items, events>>

-----------------------------------------------------------------------------
(* The cluster around the coordinator.                                     *)

\* An entry is ingested at a node, or copied to it from another.
Store(n, id) ==
  /\ events < MaxEvents /\ events' = events + 1
  /\ stored[n][id] = None
  /\ stored' = [stored EXCEPT ![n][id] = 0]
  /\ UNCHANGED <<healthy, items, call>>

Register(n) ==
  /\ events < MaxEvents /\ events' = events + 1
  /\ healthy[n] = None
  /\ healthy' = [healthy EXCEPT ![n] = 0]
  /\ UNCHANGED <<stored, items, call>>

MarkUnhealthy(n) ==
  /\ events < MaxEvents /\ events' = events + 1
  /\ healthy[n] # None
  /\ healthy' = [healthy EXCEPT ![n] = None]
  /\ UNCHANGED <<stored, items, call>>

\* Time passes; not beyond the timeout of a node call.
Tick ==
  /\ \A h \in Busy : call[h].age < NodeTimeout
  /\ stored' = [n \in Nodes |-> [id \in IDs |-> Older(stored[n][id])]]
  /\ healthy' = [n \in Nodes |-> Older(healthy[n])]
  /\ items' = [k \in DOMAIN items |-> [items[k] EXCEPT !.age = IF @ > TTL THEN @ ELSE @ + 1]]
  /\ call' = [h \in Handlers |-> IF h \in Busy THEN [call[h] EXCEPT !.age = @ + 1] ELSE call[h]]
  /\ UNCHANGED events

-----------------------------------------------------------------------------
Init ==
  /\ \E placed \in [Old -> (SUBSET Nodes) \ {{}}] :
       stored = [n \in Nodes |-> [id \in IDs |->
                   IF id \in Old /\ n \in placed[id] THEN Horizon + 1 ELSE None]]
  /\ healthy \in [Nodes -> {None, Horizon + 1}]
  /\ items = <<>>
  /\ call = [h \in Handlers |-> Idle]
  /\ events = 0

Step ==
  \/ \E h \in Handlers :
       \/ \E r \in Requests : Query(h, r)
       \/ \E n \in Nodes : NodeAnswers(h, n) \/ NodeFails(h, n)
       \/ Finish(h) \/ Cancel(h)
  \/ \E n \in Nodes :
       \/ \E id \in IDs : Store(n, id)
       \/ Register(n) \/ MarkUnhealthy(n)
  \/ Tick

\* An answer is returned at once.  Returning it touches nothing that other steps
\* read or write, so no order of steps is lost.
Next ==
  \/ \E h \in Handlers : Return(h)
  \/ (\A h \in Handlers : call[h].pc # "done") /\ Step

Spec == Init /\ [][Next]_vars

-----------------------------------------------------------------------------
Answers == {call[h] : h \in {h \in Handlers : call[h].pc = "done"}}
Fits(r) == r.offset + clientLimit(r) <= IntMax

Results == [entries : SUBSET IDs, total : Nat, partial : BOOLEAN, seen : SUBSET IDs, req : Requests]

\* Ages and calls keep their shapes, and the cache keeps its bound, one item per
\* key and no partial result.
TypeOK ==
  /\ stored \in [Nodes -> [IDs -> Ages]] /\ healthy \in [Nodes -> Ages]
  /\ Len(items) <= MaxItems
  /\ \A k, l \in DOMAIN items : items[k].key = items[l].key => k = l
  /\ \A item \in Range(items) : item.result \in Results /\ ~item.result.partial

\* The page an answer carries is the page of all the entries the nodes had, not
\* only of the candidates they sent: truncating every node's list to nodeLimit
\* costs nothing, as long as offset plus limit is an int32 (fanout.go:94-96).
PageExact ==
  \A a \in Answers : Fits(a.req) => a.result.entries = Page(a.result.seen, a.req)

\* merge.go:28-32: total is a lower bound on the matches, and it counts at least
\* every entry up to the end of the page.
TotalLowerBound ==
  \A a \in Answers :
    LET n == Cardinality(a.result.seen) IN
    /\ a.result.total <= n
    /\ Fits(a.req) => a.result.total >= n \/ a.result.total >= a.req.offset + clientLimit(a.req)

\* An answer that is not marked partial, cached or not, overwritten in the cache
\* by a slower call or not, has taken in every matching entry that a node, itself
\* healthy for that long, has held for longer than the cache's TTL and one node
\* timeout.
NotTooStale ==
  \A a \in Answers : ~a.result.partial =>
    \A n \in Nodes : healthy[n] > Horizon =>
      {id \in Matching(n, a.req) : stored[n][id] > Horizon} \subseteq a.result.seen
=============================================================================
