---------------------------- MODULE FanOut_proofs ----------------------------
(***************************************************************************)
(* The page a coordinator answers with is exact, for any number of nodes,  *)
(* calls, requests, entries and cache items: cutting every node's list to  *)
(* nodeLimit entries loses nothing that the client's page can show.        *)
(*                                                                         *)
(* The argument is about ranks.  The candidates of a call contain every    *)
(* entry whose rank among all that the nodes had is below nodeLimit, and   *)
(* below that rank the candidates are ranked as the whole set is.          *)
(*                                                                         *)
(* The second half is about time: how old the entries are that a complete  *)
(* answer, cached or not, may have missed, and what the cache may hold.    *)
(***************************************************************************)
EXTENDS FanOut, FiniteSetTheorems, TLAPS

Below(x, S) == {y \in S : Before(y, x)}
Place(x, S) == Cardinality(Below(x, S))

\* G holds the first k entries of S.
HoldsFirst(G, S, k) == G \subseteq S /\ \A x \in S : Place(x, S) < k => x \in G

-----------------------------------------------------------------------------
(* The order of the merged list.                                           *)

\* Newest first, then by ID, is a strict total order.
LEMMA BeforeOrder ==
  ASSUME NEW x \in IDs, NEW y \in IDs, NEW z \in IDs
  PROVE  /\ ~Before(x, x)
         /\ x # y => Before(x, y) \/ Before(y, x)
         /\ Before(x, y) /\ Before(y, z) => Before(x, z)
BY ConstantsOK DEF Before, IDs

\* Sets of IDs are finite, and places are numbers.
LEMMA PlaceType ==
  ASSUME NEW S \in SUBSET IDs, NEW x
  PROVE  /\ IsFiniteSet(S) /\ Cardinality(S) \in Nat
         /\ Below(x, S) \in SUBSET S /\ IsFiniteSet(Below(x, S)) /\ Place(x, S) \in Nat
<1>1. IsFiniteSet(S)
  BY ConstantsOK, FS_Subset
<1>2. Below(x, S) \in SUBSET S
  BY DEF Below
<1>3. IsFiniteSet(Below(x, S))
  BY <1>1, <1>2, FS_Subset, ZenonT(60)
<1> QED
  BY <1>1, <1>2, <1>3, FS_CardinalityType, ZenonT(60) DEF Place

\* A larger set has at least as many entries.
LEMMA FewerEntries ==
  ASSUME NEW S \in SUBSET IDs, NEW G \in SUBSET S
  PROVE  /\ Cardinality(G) \in Nat /\ Cardinality(S) \in Nat /\ Cardinality(G) <= Cardinality(S)
         /\ Cardinality(G) = Cardinality(S) => G = S
<1>1. IsFiniteSet(S)
  BY PlaceType
<1> QED
  BY <1>1, FS_Subset, FS_CardinalityType, ZenonT(60)

\* An earlier entry has a lower place.
LEMMA PlaceMonotone ==
  ASSUME NEW S \in SUBSET IDs, NEW x \in S, NEW y \in S, Before(x, y)
  PROVE  Place(x, S) < Place(y, S)
<1>1. Below(x, S) \in SUBSET Below(y, S)
  BY BeforeOrder DEF Below
<1>2. x \in Below(y, S) /\ x \notin Below(x, S)
  BY BeforeOrder DEF Below
<1>3. Below(y, S) \in SUBSET IDs
  BY DEF Below
<1> QED
  BY <1>1, <1>2, <1>3, FewerEntries DEF Place

\* Places index the sorted list.
LEMMA PlaceRange ==
  ASSUME NEW S \in SUBSET IDs, NEW x \in S
  PROVE  Place(x, S) \in 0 .. Cardinality(S) - 1
<1>1. Below(x, S) \in SUBSET S /\ x \notin Below(x, S)
  BY BeforeOrder DEF Below
<1> QED
  BY <1>1, FewerEntries DEF Place

\* A set of entries that is not empty has a first one.
LEMMA FirstExists ==
  ASSUME NEW S \in SUBSET IDs, S # {}
  PROVE  \E x \in S : \A y \in S : ~Before(y, x)
<1> DEFINE I == 0 .. Cardinality(S) - 1
           f == [x \in S |-> Place(x, S)]
<1>1. IsFiniteSet(S) /\ Cardinality(S) \in Nat \ {0}
  BY PlaceType, FS_EmptySet
<1>2. IsFiniteSet(I) /\ Cardinality(I) = Cardinality(S) /\ 0 \in I
  BY <1>1, FS_Interval, SMTT(30)
<1>3. f \in [S -> I]
  BY PlaceRange
<1>4. \A a, b \in S : f[a] = f[b] => a = b
  <2> SUFFICES ASSUME NEW a \in S, NEW b \in S, a # b
               PROVE  Place(a, S) # Place(b, S)
    OBVIOUS
  <2>1. Place(a, S) \in Nat /\ Place(b, S) \in Nat
    BY PlaceType
  <2>2. Before(a, b) \/ Before(b, a)
    BY BeforeOrder
  <2> QED
    BY <2>1, <2>2, PlaceMonotone
<1>5. f \in Injection(S, I)
  BY <1>3, <1>4, ZenonT(60) DEF Injection, IsInjective
<1>6. f \in Surjection(S, I)
  <2> HIDE DEF f, I
  <2> QED BY <1>1, <1>2, <1>5, FS_Injection, ZenonT(60)
<1>7. PICK x \in S : Place(x, S) = 0
  BY <1>2, <1>6, Zenon DEF Surjection
<1>8. Below(x, S) = {}
  BY <1>7, PlaceType, FS_EmptySet DEF Place
<1> QED
  BY <1>8 DEF Below

-----------------------------------------------------------------------------
(* Candidates that hold the first k entries.                               *)

\* What is missing from the candidates leaves at least k of them before it.
LEMMA MissingIsLate ==
  ASSUME NEW S \in SUBSET IDs, NEW G \in SUBSET S, NEW k \in Int, HoldsFirst(G, S, k),
         NEW T \in SUBSET (S \ G), T # {},
         \A y \in T : \A z \in S \ G : Before(z, y) => z \in T
  PROVE  \E y \in T : Below(y, S) \in SUBSET G /\ Place(y, S) >= k
<1>1. PICK y \in T : \A z \in T : ~Before(z, y)
  BY FirstExists
<1>2. Below(y, S) \in SUBSET G
  BY <1>1 DEF Below
<1>3. Place(y, S) \in Nat /\ ~(Place(y, S) < k)
  BY PlaceType, Zenon DEF HoldsFirst
<1> QED
  BY <1>1, <1>2, <1>3

\* Below k, candidates are ranked as all entries are; the others stay at or
\* beyond k.
LEMMA SamePlaces ==
  ASSUME NEW S \in SUBSET IDs, NEW G \in SUBSET S, NEW k \in Int, HoldsFirst(G, S, k), NEW x \in S
  PROVE  /\ Place(x, S) < k => Place(x, G) = Place(x, S)
         /\ x \in G /\ Place(x, S) >= k => Place(x, G) >= k
<1> DEFINE T == Below(x, S) \ G
<1>0. Place(x, S) \in Nat /\ Place(x, G) \in Nat
  BY PlaceType, ZenonT(60)
<1>1. CASE T = {}
  <2>1. Below(x, G) = Below(x, S)
    BY <1>1 DEF Below
  <2> QED
    BY <2>1 DEF Place
<1>2. CASE T # {}
  <2>1. T \in SUBSET (S \ G) /\ \A y \in T : \A z \in S \ G : Before(z, y) => z \in T
    BY BeforeOrder DEF Below
  <2>2. PICK y \in T : Below(y, S) \in SUBSET G /\ Place(y, S) >= k
    <3> HIDE DEF T
    <3> QED BY <1>2, <2>1, MissingIsLate, Zenon
  <2>3. Before(y, x) /\ y \in S
    BY DEF Below
  <2>4. Place(y, S) < Place(x, S) /\ Place(y, S) \in Nat
    BY <2>3, PlaceMonotone, PlaceType, Zenon
  <2>5. Below(y, S) \in SUBSET Below(x, G)
    BY <2>2, <2>3, BeforeOrder, ZenonT(60) DEF Below
  <2>6. Place(y, S) <= Place(x, G)
    BY <2>5, FewerEntries, PlaceType, ZenonT(60) DEF Place
  <2> QED
    BY <2>2, <2>4, <2>6, <1>0, SMTT(30)
<1> QED
  BY <1>1, <1>2

\* A page that ends at or before k is cut from the candidates as from the set.
LEMMA SameWindow ==
  ASSUME NEW S \in SUBSET IDs, NEW G \in SUBSET S, NEW k \in Int, HoldsFirst(G, S, k),
         NEW offset \in Int, NEW limit \in Int, offset + limit <= k
  PROVE  Window(G, offset, limit) = Window(S, offset, limit)
<1>1. \A T \in SUBSET IDs : Window(T, offset, limit)
          = {x \in T : offset <= Place(x, T) /\ Place(x, T) < offset + limit}
  BY DEF Window, Place, Below
<1>2. \A x \in S : /\ Place(x, S) \in Nat /\ Place(x, G) \in Nat
                   /\ Place(x, S) < k => x \in G /\ Place(x, G) = Place(x, S)
                   /\ x \in G /\ Place(x, S) >= k => Place(x, G) >= k
  BY PlaceType, SamePlaces, ZenonT(60) DEF HoldsFirst
<1>3. \A x \in S : x \in G /\ offset <= Place(x, G) /\ Place(x, G) < offset + limit
                   <=> offset <= Place(x, S) /\ Place(x, S) < offset + limit
  BY <1>2
<1> QED
  BY <1>1, <1>3, ZenonT(60)

\* Candidates that are not everything are at least k.
LEMMA EnoughCandidates ==
  ASSUME NEW S \in SUBSET IDs, NEW G \in SUBSET S, NEW k \in Int, HoldsFirst(G, S, k)
  PROVE  Cardinality(G) >= Cardinality(S) \/ Cardinality(G) >= k
<1>1. CASE G = S
  BY <1>1, PlaceType
<1>2. CASE G # S
  <2> DEFINE T == S \ G
  <2>1. T # {} /\ T \in SUBSET (S \ G) /\ \A y \in T : \A z \in S \ G : Before(z, y) => z \in T
    BY <1>2
  <2>2. PICK y \in T : Below(y, S) \in SUBSET G /\ Place(y, S) >= k
    <3> HIDE DEF T
    <3> QED BY <2>1, MissingIsLate, ZenonT(60)
  <2>3. Place(y, S) <= Cardinality(G) /\ Place(y, S) \in Nat /\ Cardinality(G) \in Nat
    BY <2>2, FewerEntries, PlaceType, ZenonT(60) DEF Place
  <2> QED
    BY <2>2, <2>3
<1> QED
  BY <1>1, <1>2, ZenonT(60)

\* One more answer, itself cut to its first k entries, keeps the candidates
\* complete below k.
LEMMA UnionHoldsFirst ==
  ASSUME NEW S \in SUBSET IDs, NEW G \in SUBSET S, NEW k \in Int, HoldsFirst(G, S, k),
         NEW A \in SUBSET IDs
  PROVE  HoldsFirst(G \cup Window(A, 0, k), S \cup A, k)
<1> DEFINE W == Window(A, 0, k)
           U == S \cup A
<1>1. W = {x \in A : 0 <= Place(x, A) /\ Place(x, A) < 0 + k}
  BY DEF Window, Place, Below
<1>2. G \cup W \subseteq U
  BY <1>1
<1>3. ASSUME NEW x \in U, Place(x, U) < k
      PROVE  x \in G \cup W
  <2>1. Below(x, S) \in SUBSET Below(x, U) /\ Below(x, A) \in SUBSET Below(x, U)
        /\ Below(x, U) \in SUBSET IDs
    BY DEF Below
  <2>2. Place(x, S) <= Place(x, U) /\ Place(x, A) <= Place(x, U)
    BY <2>1, FewerEntries, Zenon DEF Place
  <2>3. Place(x, S) \in Nat /\ Place(x, A) \in Nat /\ Place(x, U) \in Nat
    BY PlaceType, Zenon
  <2> QED
    BY <1>1, <1>3, <2>2, <2>3, SMTT(30) DEF HoldsFirst
<1> QED
  BY <1>2, <1>3, ZenonT(60) DEF HoldsFirst

-----------------------------------------------------------------------------
(* The inductive invariant.                                                *)

\* A result is the right page for q of all that the nodes had.
Correct(result, q) ==
  LET n == Cardinality(result.seen) IN
  /\ Fits(q) => result.entries = Page(result.seen, q)
  /\ result.total <= n
  /\ Fits(q) => result.total >= n \/ result.total >= q.offset + clientLimit(q)

Keys == {CacheKey(r) : r \in Requests}

\* Cached results are right for every request with their key.
CacheItems ==
  {item \in [key : Keys, result : Results, age : Int] :
     \A q \in Requests : CacheKey(q) = item.key => Correct(item.result, q)}

FanOutCalls ==
  {c \in [pc : {"fanout"}, req : Requests, waiting : SUBSET Nodes, got : SUBSET IDs,
          seen : SUBSET IDs, partial : BOOLEAN, age : Int] :
     HoldsFirst(c.got, c.seen, nodeLimit(c.req))}

DoneCalls ==
  {c \in [pc : {"done"}, req : Requests, result : Results] : Correct(c.result, c.req)}

PInv == items \in Seq(CacheItems) /\ call \in [Handlers -> {Idle} \cup FanOutCalls \cup DoneCalls]

\* Limits are integers, and a node is asked for at least the entries up to the
\* end of the page, if their number fits.
LEMMA LimitFacts ==
  ASSUME NEW r \in Requests
  PROVE  /\ r.offset \in Int /\ clientLimit(r) \in Int /\ nodeLimit(r) \in Int
         /\ Fits(r) => r.offset + clientLimit(r) <= nodeLimit(r)
<1>0. DefaultLimit \in Nat /\ FanOutLimit \in Nat /\ IntMax \in Nat
  BY ConstantsOK
<1>1. r.limit \in Int /\ r.offset \in Int
  <2>1. r.limit \in -IntMax .. IntMax /\ r.offset \in -IntMax .. IntMax
    BY ConstantsOK, Zenon
  <2> QED
    BY <1>0, <2>1
<1>2. clientLimit(r) \in Int
  BY <1>0, <1>1 DEF clientLimit
<1> QED
  BY <1>0, <1>1, <1>2 DEF nodeLimit, Int32, Fits

\* Requests with the same key are answered by the same page.
LEMMA SameKeySamePage ==
  ASSUME NEW q, NEW r, CacheKey(q) = CacheKey(r), NEW result, Correct(result, r)
  PROVE  Correct(result, q)
<1>1. q.limit = r.limit /\ q.offset = r.offset
  BY DEF CacheKey
<1> QED
  BY <1>1, ZenonT(60) DEF Correct, Fits, Page, clientLimit

\* MergeResults turns complete candidates into a right result.
LEMMA MergeCorrect ==
  ASSUME NEW c \in FanOutCalls
  PROVE  MergeResults(c) \in Results /\ Correct(MergeResults(c), c.req)
<1> DEFINE m == MergeResults(c)
<1>1. /\ c.req \in Requests /\ c.seen \in SUBSET IDs /\ c.got \in SUBSET c.seen
      /\ c.partial \in BOOLEAN /\ HoldsFirst(c.got, c.seen, nodeLimit(c.req))
  BY DEF FanOutCalls, HoldsFirst
<1>2. /\ m.entries = Page(c.got, c.req) /\ m.total = Cardinality(c.got)
      /\ m.seen = c.seen
  BY DEF MergeResults
<1>3. Page(c.got, c.req) \in SUBSET IDs
  BY <1>1, ZenonT(60) DEF Page, Window
<1>4. m \in Results
  BY <1>1, <1>3, FewerEntries, ZenonT(60) DEF MergeResults, Results
<1>5. ASSUME Fits(c.req)
      PROVE  /\ Page(c.got, c.req) = Page(c.seen, c.req)
             /\ \/ Cardinality(c.got) >= Cardinality(c.seen)
                \/ Cardinality(c.got) >= c.req.offset + clientLimit(c.req)
  <2>1. Page(c.got, c.req) = Page(c.seen, c.req)
    BY <1>1, <1>5, LimitFacts, SameWindow, SMTT(30) DEF Page
  <2>2. Cardinality(c.got) >= Cardinality(c.seen) \/ Cardinality(c.got) >= nodeLimit(c.req)
    BY <1>1, LimitFacts, EnoughCandidates, Zenon
  <2>3. Cardinality(c.got) \in Nat /\ Cardinality(c.seen) \in Nat
    BY <1>1, FewerEntries, ZenonT(60)
  <2> QED
    BY <1>1, <1>5, <2>1, <2>2, <2>3, LimitFacts, SMTT(30)
<1>6. Cardinality(c.got) <= Cardinality(c.seen)
  BY <1>1, FewerEntries, ZenonT(60)
<1> QED
  BY <1>2, <1>4, <1>5, <1>6, ZenonT(60) DEF Correct

-----------------------------------------------------------------------------
(* The cache.                                                              *)

\* Unlinking, evicting and looking up only rearrange what is there.
LEMMA UnlinkedItems ==
  ASSUME items \in Seq(CacheItems), NEW key
  PROVE  Unlinked(key) \in Seq(CacheItems)
<1>1. CASE Cached(key) = {}
  BY <1>1 DEF Unlinked
<1>2. CASE Cached(key) # {}
  <2>1. \E k \in DOMAIN items : items[k].key = key
    BY <1>2 DEF Cached, Range
  <2> DEFINE k == CHOOSE k \in DOMAIN items : items[k].key = key
  <2>2. k \in 1 .. Len(items)
    BY <2>1
  <2>3. Unlinked(key) = SubSeq(items, 1, k - 1) \o SubSeq(items, k + 1, Len(items))
    BY <1>2, Zenon DEF Unlinked, RemoveAt
  <2> HIDE DEF k
  <2>4. SubSeq(items, 1, k - 1) \in Seq(CacheItems) /\ SubSeq(items, k + 1, Len(items)) \in Seq(CacheItems)
    BY <2>2
  <2> QED
    BY <2>3, <2>4
<1> QED
  BY <1>1, <1>2, ZenonT(60)

\* Get keeps a list of right items.
LEMMA GetItems ==
  ASSUME items \in Seq(CacheItems), NEW key
  PROVE  Get(key) \in Seq(CacheItems)
<1> DEFINE live == {item \in Cached(key) : item.age <= TTL}
<1>1. Unlinked(key) \in Seq(CacheItems)
  BY UnlinkedItems
<1>2. live # {} => (CHOOSE item \in live : TRUE) \in CacheItems
  <2>1. live \in SUBSET CacheItems
    BY DEF Cached, Range
  <2> HIDE DEF live
  <2> QED BY <2>1
<1>3. Get(key) = IF live = {} THEN Unlinked(key) ELSE <<CHOOSE item \in live : TRUE>> \o Unlinked(key)
  BY DEF Get
<1> HIDE DEF live
<1> QED
  BY <1>1, <1>2, <1>3, SMTT(30)

\* Put adds one right item to them.
LEMMA PutItems ==
  ASSUME items \in Seq(CacheItems), NEW r \in Requests, NEW result \in Results, Correct(result, r)
  PROVE  Put(CacheKey(r), result) \in Seq(CacheItems)
<1> DEFINE item == [key |-> CacheKey(r), result |-> result, age |-> 0]
           rest == IF Cached(CacheKey(r)) # {} THEN Unlinked(CacheKey(r)) ELSE evictLRU(items)
<1>1. item \in CacheItems
  <2>1. item \in [key : Keys, result : Results, age : Int] /\ item.key = CacheKey(r) /\ item.result = result
    BY DEF Keys
  <2>2. \A q \in Requests : CacheKey(q) = CacheKey(r) => Correct(result, q)
    BY SameKeySamePage, ZenonT(60)
  <2> HIDE DEF item
  <2> QED BY <2>1, <2>2, ZenonT(60) DEF CacheItems
<1>2. evictLRU(items) \in Seq(CacheItems)
  <2>1. MaxItems \in Nat \ {0}
    BY ConstantsOK, ZenonT(60)
  <2> QED
    BY <2>1 DEF evictLRU, Front
<1>3. rest \in Seq(CacheItems)
  BY <1>2, UnlinkedItems, ZenonT(60)
<1>4. Put(CacheKey(r), result) = <<item>> \o rest
  BY DEF Put
<1> HIDE DEF item, rest
<1> QED
  BY <1>1, <1>3, <1>4, SMTT(30)

-----------------------------------------------------------------------------
(* The steps.                                                              *)

\* The three shapes of a call are told apart by pc.
LEMMA CallShapes ==
  ASSUME PInv, NEW h \in Handlers
  PROVE  /\ call[h].pc = "fanout" => call[h] \in FanOutCalls
         /\ call[h].pc = "done" => call[h] \in DoneCalls
<1>1. call[h] = Idle \/ call[h] \in FanOutCalls \/ call[h] \in DoneCalls
  BY DEF PInv
<1>2. Idle.pc = "idle" /\ (\A c \in FanOutCalls : c.pc = "fanout") /\ (\A c \in DoneCalls : c.pc = "done")
  BY DEF Idle, FanOutCalls, DoneCalls
<1> QED
  BY <1>1, <1>2, ZenonT(60)

\* One call changes, to a call of one of the shapes.
LEMMA OneCallChanges ==
  ASSUME PInv, NEW h \in Handlers, NEW c \in {Idle} \cup FanOutCalls \cup DoneCalls,
         call' = [call EXCEPT ![h] = c], items' \in Seq(CacheItems)
  PROVE  PInv'
<1> DEFINE C == {Idle} \cup FanOutCalls \cup DoneCalls
<1>1. call \in [Handlers -> C] /\ c \in C
  BY DEF PInv
<1>2. call' \in [Handlers -> C]
  <2> HIDE DEF C
  <2> QED BY <1>1, ZenonT(60)
<1>3. C' = C
  BY DEF Idle, FanOutCalls, DoneCalls
<1>4. CacheItems' = CacheItems
  BY DEF CacheItems
<1> QED
  BY <1>2, <1>3, <1>4, ZenonT(60) DEF PInv

\* Execute begins, with a cached answer or with the nodes it asks.
LEMMA QueryStep ==
  ASSUME PInv, NEW h \in Handlers, NEW r \in Requests, Query(h, r)
  PROVE  PInv'
<1> DEFINE key == CacheKey(r)
           hit == CHOOSE i \in Hit(key) : TRUE
           done == [pc |-> "done", req |-> r, result |-> hit.result]
           fan == [pc |-> "fanout", req |-> r, waiting |-> Targets, got |-> {}, seen |-> {},
                   partial |-> FALSE, age |-> 0]
<1>1. items' \in Seq(CacheItems)
  BY GetItems, ZenonT(60) DEF PInv, Query
<1>2. CASE Hit(key) # {}
  <2>1. hit \in CacheItems /\ hit.key = key
    <3>1. Hit(key) \in SUBSET CacheItems /\ \A i \in Hit(key) : i.key = key
      BY DEF PInv, Hit, Cached, Range
    <3>2. hit \in Hit(key)
      BY <1>2, ZenonT(60)
    <3> QED
      BY <3>1, <3>2
  <2>2. hit.result \in Results /\ Correct(hit.result, r)
    BY <2>1, ZenonT(60) DEF CacheItems
  <2>3. call' = [call EXCEPT ![h] = done]
    BY <1>2 DEF Query
  <2>4. PICK d : d = done
    BY Zenon
  <2>5. d \in [pc : {"done"}, req : Requests, result : Results] /\ d.result = hit.result /\ d.req = r
    <3> HIDE DEF hit
    <3> QED BY <2>2, <2>4
  <2>6. d \in DoneCalls
    BY <2>2, <2>5 DEF DoneCalls
  <2> QED
    BY <1>1, <2>3, <2>4, <2>6, OneCallChanges, ZenonT(60)
<1>3. CASE Hit(key) = {}
  <2>1. call' = [call EXCEPT ![h] = fan]
    BY <1>3 DEF Query
  <2>2. PICK f : f = fan
    BY ZenonT(60)
  <2>3. f \in [pc : {"fanout"}, req : Requests, waiting : SUBSET Nodes, got : SUBSET IDs,
               seen : SUBSET IDs, partial : BOOLEAN, age : Int]
        /\ f.got = {} /\ f.seen = {}
    BY <2>2 DEF Targets
  <2>4. f \in FanOutCalls
    BY <2>3 DEF FanOutCalls, HoldsFirst
  <2> QED
    BY <1>1, <2>1, <2>2, <2>4, OneCallChanges, ZenonT(60)
<1> QED
  BY <1>2, <1>3, ZenonT(60)

\* One node's page joins the candidates.
LEMMA NodeAnswersStep ==
  ASSUME PInv, NEW h \in Handlers, NEW n \in Nodes, NodeAnswers(h, n)
  PROVE  PInv'
<1> DEFINE c == call[h]
           all == Matching(n, c.req)
           first == Window(all, 0, nodeLimit(c.req))
<1>1. c \in FanOutCalls
  BY CallShapes DEF NodeAnswers, Busy
<1>2. /\ c \in [pc : {"fanout"}, req : Requests, waiting : SUBSET Nodes, got : SUBSET IDs,
                seen : SUBSET IDs, partial : BOOLEAN, age : Int]
      /\ HoldsFirst(c.got, c.seen, nodeLimit(c.req)) /\ c.got \in SUBSET c.seen
  BY <1>1, ZenonT(60) DEF FanOutCalls, HoldsFirst
<1>3. c.req \in Requests /\ c.seen \in SUBSET IDs /\ nodeLimit(c.req) \in Int
  BY <1>2, LimitFacts, ZenonT(60)
<1>4. all \in SUBSET IDs
  BY <1>3, ConstantsOK, ZenonT(60) DEF Matching
<1>5. first \in SUBSET IDs
  BY <1>4, ZenonT(60) DEF Window
<1>6. HoldsFirst(c.got \cup first, c.seen \cup all, nodeLimit(c.req))
  BY <1>2, <1>3, <1>4, UnionHoldsFirst, ZenonT(60)
<1>7. PICK d : d = [c EXCEPT !.waiting = @ \ {n}, !.got = @ \cup first, !.seen = @ \cup all]
  OBVIOUS
<1>8. /\ d \in [pc : {"fanout"}, req : Requests, waiting : SUBSET Nodes, got : SUBSET IDs,
                seen : SUBSET IDs, partial : BOOLEAN, age : Int]
      /\ d.got = c.got \cup first /\ d.seen = c.seen \cup all /\ d.req = c.req
  <2> HIDE DEF c, all, first
  <2> QED BY <1>2, <1>4, <1>5, <1>7, ZenonT(60)
<1>9. d \in FanOutCalls
  BY <1>6, <1>8, ZenonT(60) DEF FanOutCalls
<1>10. call' = [call EXCEPT ![h] = d]
  BY <1>7, Zenon DEF NodeAnswers, PInv
<1>11. items' \in Seq(CacheItems)
  BY DEF NodeAnswers, PInv
<1> QED
  BY <1>9, <1>10, <1>11, OneCallChanges, ZenonT(60)

\* A node that fails or times out adds nothing, and the result is partial.
LEMMA NodeFailsStep ==
  ASSUME PInv, NEW h \in Handlers, NEW n \in Nodes, NodeFails(h, n)
  PROVE  PInv'
<1> DEFINE c == call[h]
<1>1. c \in FanOutCalls
  BY CallShapes DEF NodeFails, Busy
<1>2. PICK d : d = [c EXCEPT !.waiting = @ \ {n}, !.partial = TRUE]
  OBVIOUS
<1>3. d \in FanOutCalls
  BY <1>1, <1>2, Zenon DEF FanOutCalls
<1>4. call' = [call EXCEPT ![h] = d]
  BY <1>2, Zenon DEF NodeFails, PInv
<1>5. items' \in Seq(CacheItems)
  BY DEF NodeFails, PInv
<1> QED
  BY <1>3, <1>4, <1>5, OneCallChanges, ZenonT(60)

\* The merged page is returned and, when complete, cached.
LEMMA FinishStep ==
  ASSUME PInv, NEW h \in Handlers, Finish(h)
  PROVE  PInv'
<1> DEFINE c == call[h]
           m == MergeResults(c)
<1>1. c \in FanOutCalls /\ c.req \in Requests
  BY CallShapes DEF Finish, Busy, FanOutCalls
<1>2. m \in Results /\ Correct(m, c.req)
  BY <1>1, MergeCorrect
<1>3. items' \in Seq(CacheItems)
  <2>1. items' = items \/ items' = Put(CacheKey(c.req), m)
    BY DEF Finish
  <2>2. Put(CacheKey(c.req), m) \in Seq(CacheItems)
    BY <1>1, <1>2, PutItems, ZenonT(60) DEF PInv
  <2> QED
    BY <2>1, <2>2, ZenonT(60) DEF PInv
<1>4. PICK d : d = [pc |-> "done", req |-> c.req, result |-> m]
  BY Zenon
<1>5. d \in [pc : {"done"}, req : Requests, result : Results] /\ d.result = m /\ d.req = c.req
  <2> HIDE DEF c, m
  <2> QED BY <1>1, <1>2, <1>4, ZenonT(60)
<1>6. d \in DoneCalls
  BY <1>2, <1>5 DEF DoneCalls
<1>7. call' = [call EXCEPT ![h] = d]
  BY <1>4 DEF Finish
<1> QED
  BY <1>3, <1>6, <1>7, OneCallChanges, ZenonT(60)

\* Time changes ages only.
LEMMA TickStep ==
  ASSUME PInv, Tick
  PROVE  PInv'
<1> DEFINE C == {Idle} \cup FanOutCalls \cup DoneCalls
<1>1. \A i \in CacheItems : [i EXCEPT !.age = IF @ > TTL THEN @ ELSE @ + 1] \in CacheItems
  BY DEF CacheItems
<1>2. items' \in Seq(CacheItems)
  <2>1. items' = [k \in 1 .. Len(items) |-> [items[k] EXCEPT !.age = IF @ > TTL THEN @ ELSE @ + 1]]
    BY DEF Tick, PInv
  <2>2. \A k \in 1 .. Len(items) : items[k] \in CacheItems
    BY DEF PInv
  <2>3. items' \in [1 .. Len(items) -> CacheItems]
    BY <1>1, <2>1, <2>2, ZenonT(60)
  <2>4. Len(items) \in Nat
    BY DEF PInv
  <2> QED
    BY <2>3, <2>4, SMTT(30)
<1>3. \A c \in FanOutCalls : [c EXCEPT !.age = @ + 1] \in FanOutCalls
  BY DEF FanOutCalls
<1>4. call' \in [Handlers -> C]
  <2> SUFFICES ASSUME NEW h \in Handlers
               PROVE  (IF h \in Busy THEN [call[h] EXCEPT !.age = @ + 1] ELSE call[h]) \in C
    BY DEF Tick
  <2>1. CASE h \in Busy
    <3>1. call[h] \in FanOutCalls
      BY <2>1, CallShapes, ZenonT(60) DEF Busy
    <3> QED
      BY <1>3, <2>1, <3>1, ZenonT(60)
  <2>2. CASE h \notin Busy
    BY <2>2, ZenonT(60) DEF PInv
  <2> QED
    BY <2>1, <2>2, ZenonT(60)
<1>5. C' = C /\ CacheItems' = CacheItems
  BY DEF Idle, FanOutCalls, DoneCalls, CacheItems
<1> QED
  BY <1>2, <1>4, <1>5, ZenonT(60) DEF PInv

\* No call runs and the cache is empty.
LEMMA InitPInv == Init => PInv
BY DEF Init, PInv

\* Every step of calls, nodes and time.
LEMMA StepPreservesPInv == PInv /\ [Next]_vars => PInv'
<1> SUFFICES ASSUME PInv, [Next]_vars PROVE PInv'
  BY Zenon
<1>1. ASSUME UNCHANGED <<items, call>> PROVE PInv'
  BY <1>1 DEF PInv, Idle, FanOutCalls, DoneCalls, CacheItems
<1>2. ASSUME NEW h \in Handlers, NEW r \in Requests, Query(h, r) PROVE PInv'
  BY <1>2, QueryStep, Zenon
<1>3. ASSUME NEW h \in Handlers, NEW n \in Nodes, NodeAnswers(h, n) \/ NodeFails(h, n) PROVE PInv'
  BY <1>3, NodeAnswersStep, NodeFailsStep, Zenon
<1>4. ASSUME NEW h \in Handlers, Finish(h) PROVE PInv'
  BY <1>4, FinishStep, Zenon
<1>5. ASSUME NEW h \in Handlers, Cancel(h) \/ Return(h) PROVE PInv'
  <2>1. call' = [call EXCEPT ![h] = Idle] /\ items' \in Seq(CacheItems)
    BY <1>5 DEF Cancel, Return, PInv
  <2> QED
    BY <2>1, OneCallChanges, ZenonT(60)
<1>6. ASSUME NEW n \in Nodes, (\E id \in IDs : Store(n, id)) \/ Register(n) \/ MarkUnhealthy(n) PROVE PInv'
  BY <1>1, <1>6 DEF Store, Register, MarkUnhealthy
<1>7. CASE Tick
  BY <1>7, TickStep
<1>8. CASE UNCHANGED vars
  BY <1>1, <1>8, ZenonT(60) DEF vars
<1> QED
  BY <1>2, <1>3, <1>4, <1>5, <1>6, <1>7, <1>8, Zenon DEF Next, Step

\* So the invariant holds of every behaviour.
LEMMA PInvHolds == Spec => []PInv
BY InitPInv, StepPreservesPInv, PTL DEF Spec

\* Every finished call carries a right result.
LEMMA AnswersCorrect ==
  ASSUME PInv, NEW a \in Answers
  PROVE  Correct(a.result, a.req)
BY CallShapes DEF Answers, DoneCalls

\* FanOutExecutor.Execute answers with the page of all the entries the asked
\* nodes had, cached or not, whatever number of calls run at once.
THEOREM PageExactTheorem == Spec => []PageExact
<1>1. PInv => PageExact
  BY AnswersCorrect, ZenonT(60) DEF PageExact, Correct
<1> QED
  BY <1>1, PInvHolds, PTL

\* The total of an answer (MergeResults) never exceeds the matches, and counts
\* every one up to the end of the page.
THEOREM TotalLowerBoundTheorem == Spec => []TotalLowerBound
<1>1. PInv => TotalLowerBound
  BY AnswersCorrect DEF TotalLowerBound, Correct
<1> QED
  BY <1>1, PInvHolds, PTL

-----------------------------------------------------------------------------
(* How old an answer may be.                                               *)

\* Requests with one cache key ask for the same entries.  The key joins the query
\* text and the namespace by a bar, so this is a condition on the clients' texts.
KeysTellApart ==
  \A q, r \in Requests : CacheKey(q) = CacheKey(r) => Match[<<q.text, q.ns>>] = Match[<<r.text, r.ns>>]

ClocksOK == stored \in [Nodes -> [IDs -> Ages]] /\ healthy \in [Nodes -> Ages]

\* For more than a ticks the node has been healthy and has had the entry.
Settled(n, id, a) == healthy[n] > a /\ stored[n][id] > a

\* seen has every entry that q asks for and that has been settled for a ticks at
\* one of the nodes N.
Fresh(seen, q, N, a) ==
  \A n \in N : \A id \in Match[<<q.text, q.ns>>] : Settled(n, id, a) => id \in seen

\* A live item was computed by a call that began at most NodeTimeout before it
\* was put into the cache.
ItemOK(i) ==
  /\ i.age \in 0 .. TTL + 1 /\ ~i.result.partial /\ CacheKey(i.result.req) = i.key
  /\ i.age <= TTL => Fresh(i.result.seen, i.result.req, Nodes, i.age + NodeTimeout)

\* A running call that no node has failed has seen what the nodes that answered
\* had when it began.  An answer is the result of a request with its key.
CallOK(c) ==
  /\ c.pc = "fanout" =>
       /\ c.age \in 0 .. NodeTimeout
       /\ ~c.partial => Fresh(c.seen, c.req, Nodes \ c.waiting, c.age)
  /\ c.pc = "done" =>
       /\ CacheKey(c.result.req) = CacheKey(c.req)
       /\ ~c.result.partial => Fresh(c.result.seen, c.result.req, Nodes, Horizon)

AInv == ClocksOK /\ (\A i \in Range(items) : ItemOK(i)) /\ \A h \in Handlers : CallOK(call[h])

\* The constants that measure time.
LEMMA Times == TTL \in Nat \ {0} /\ NodeTimeout \in Nat \ {0} /\ Horizon \in Nat /\ Horizon = TTL + NodeTimeout
<1>1. TTL \in Nat \ {0} /\ NodeTimeout \in Nat \ {0}
  BY ConstantsOK, Zenon
<1> QED
  BY <1>1 DEF Horizon

\* What saturating ages say of earlier ones.
LEMMA OlderAge ==
  ASSUME NEW a \in Ages
  PROVE  Older(a) \in Ages /\ \A b \in Nat : b < Horizon /\ Older(a) > b + 1 => a > b
  BY Times DEF Ages, None, Older

\* Entries stored and nodes registered now are not settled, others not more than before.
LEMMA EventSettled ==
  ASSUME ClocksOK, NEW m \in Nodes, (\E id \in IDs : Store(m, id)) \/ Register(m) \/ MarkUnhealthy(m)
  PROVE  /\ ClocksOK'
         /\ \A n \in Nodes : \A id \in IDs : \A a \in Nat : Settled(n, id, a)' => Settled(n, id, a)
<1>1. 0 \in Ages /\ None \in Ages
  BY Times DEF Ages, None
<1>2. CASE \E id \in IDs : Store(m, id)
  <2>1. PICK x \in IDs : Store(m, x)
    BY <1>2
  <2>2. stored' = [stored EXCEPT ![m][x] = 0] /\ healthy' = healthy
    BY <2>1, Zenon DEF Store
  <2>3. ClocksOK'
    BY <1>1, <2>2, Zenon DEF ClocksOK
  <2>4. ASSUME NEW n \in Nodes, NEW id \in IDs, NEW a \in Nat, Settled(n, id, a)' PROVE Settled(n, id, a)
    <3>1. healthy[n] > a /\ stored'[n][id] > a
      BY <2>2, <2>4, Zenon DEF Settled
    <3>2. stored'[n][id] = stored[n][id] \/ stored'[n][id] = 0
      BY <2>2, Zenon DEF ClocksOK
    <3> QED
      BY <3>1, <3>2 DEF Settled
  <2> QED
    BY <2>3, <2>4
<1>3. CASE Register(m) \/ MarkUnhealthy(m)
  <2>1. stored' = stored /\ (healthy' = [healthy EXCEPT ![m] = 0] \/ healthy' = [healthy EXCEPT ![m] = None])
    BY <1>3, Zenon DEF Register, MarkUnhealthy
  <2>2. ClocksOK'
    BY <1>1, <2>1, Zenon DEF ClocksOK
  <2>3. ASSUME NEW n \in Nodes, NEW id \in IDs, NEW a \in Nat, Settled(n, id, a)' PROVE Settled(n, id, a)
    <3>1. healthy'[n] > a /\ stored[n][id] > a
      BY <2>1, <2>3, Zenon DEF Settled
    <3>2. healthy'[n] = healthy[n] \/ healthy'[n] = 0 \/ healthy'[n] = None
      BY <2>1, Zenon DEF ClocksOK
    <3> QED
      BY <3>1, <3>2 DEF Settled, None
  <2> QED
    BY <2>2, <2>3
<1> QED
  BY <1>2, <1>3

\* A tick later everything has been settled for one tick more.
LEMMA TickSettled ==
  ASSUME ClocksOK, Tick
  PROVE  /\ ClocksOK'
         /\ \A n \in Nodes : \A id \in IDs : \A a \in Nat :
              a < Horizon /\ Settled(n, id, a + 1)' => Settled(n, id, a)
<1>1. /\ stored' = [n \in Nodes |-> [id \in IDs |-> Older(stored[n][id])]]
      /\ healthy' = [n \in Nodes |-> Older(healthy[n])]
  BY Zenon DEF Tick
<1>2. \A n \in Nodes : healthy[n] \in Ages /\ \A id \in IDs : stored[n][id] \in Ages
  BY Zenon DEF ClocksOK
<1>3. ClocksOK'
  BY <1>1, <1>2, OlderAge, Zenon DEF ClocksOK
<1>4. ASSUME NEW n \in Nodes, NEW id \in IDs, NEW a \in Nat, a < Horizon, Settled(n, id, a + 1)'
      PROVE  Settled(n, id, a)
  <2>1. Older(healthy[n]) > a + 1 /\ Older(stored[n][id]) > a + 1
    BY <1>1, <1>4, Zenon DEF Settled
  <2>2. healthy[n] > a /\ stored[n][id] > a
    BY <1>2, <1>4, <2>1, OlderAge, Zenon
  <2> QED
    BY <2>2, Zenon DEF Settled
<1> QED
  BY <1>3, <1>4

-----------------------------------------------------------------------------
(* The cache as a list: at most MaxItems items, one per key.               *)

OneKey(list) == \A k, l \in DOMAIN list : list[k].key = list[l].key => k = l
CacheOK == Len(items) <= MaxItems /\ OneKey(items)

\* RemoveAt takes one item out and keeps the order of the others.
LEMMA Removed ==
  ASSUME NEW S, NEW s \in Seq(S), NEW k \in 1 .. Len(s), NEW r, r = RemoveAt(s, k)
  PROVE  /\ r \in Seq(S) /\ Len(r) = Len(s) - 1
         /\ \A i \in 1 .. Len(r) : r[i] = IF i < k THEN s[i] ELSE s[i + 1]
<1>1. PICK a, b : a = SubSeq(s, 1, k - 1) /\ b = SubSeq(s, k + 1, Len(s))
  BY Zenon
<1>2. r = a \o b
  BY <1>1, Zenon DEF RemoveAt
<1>3. PICK n : n = Len(s) /\ n \in Nat /\ k \in 1 .. n
  OBVIOUS
<1>4. a \in Seq(S) /\ Len(a) = k - 1 /\ \A i \in 1 .. k - 1 : a[i] = s[i]
  BY <1>1, <1>3
<1>5. b \in Seq(S) /\ Len(b) = n - k
  BY <1>1, <1>3
<1>6. \A i \in 1 .. n - k : b[i] = s[i + k]
  BY <1>1, <1>3
<1>7. r \in Seq(S) /\ Len(r) = n - 1
  BY <1>2, <1>3, <1>4, <1>5
<1>8. \A i \in 1 .. n - 1 : r[i] = IF i < k THEN a[i] ELSE b[i - k + 1]
  BY <1>2, <1>3, <1>4, <1>5
<1>9. ASSUME NEW i \in 1 .. n - 1 PROVE r[i] = IF i < k THEN s[i] ELSE s[i + 1]
  <2>1. CASE i < k
    BY <1>3, <1>4, <1>8, <2>1
  <2>2. CASE ~(i < k)
    <3>1. i - k + 1 \in 1 .. n - k /\ i - k + 1 + k = i + 1
      BY <1>3, <2>2
    <3> QED
      BY <1>6, <1>8, <2>2, <3>1
  <2> QED
    BY <2>1, <2>2
<1> QED
  BY <1>3, <1>7, <1>9

\* Unlinking a key leaves the other items, in their order.
LEMMA UnlinkedFacts ==
  ASSUME items \in Seq(CacheItems), OneKey(items), NEW key, NEW u, u = Unlinked(key)
  PROVE  /\ u \in Seq(CacheItems) /\ OneKey(u) /\ Range(u) \subseteq Range(items)
         /\ \A i \in DOMAIN u : u[i].key # key
         /\ Len(u) <= Len(items) /\ (Cached(key) # {} => Len(u) = Len(items) - 1)
<1>1. CASE Cached(key) = {}
  <2>1. u = items
    BY <1>1, Zenon DEF Unlinked
  <2>2. \A i \in DOMAIN u : u[i].key # key
    BY <1>1, <2>1, Zenon DEF Cached, Range
  <2>3. Len(u) <= Len(items)
    BY <2>1
  <2> QED
    BY <1>1, <2>1, <2>2, <2>3, Zenon
<1>2. CASE Cached(key) # {}
  <2>1. PICK x \in DOMAIN items : items[x].key = key
    BY <1>2 DEF Cached, Range
  <2>2. PICK k : k = CHOOSE i \in DOMAIN items : items[i].key = key
    OBVIOUS
  <2>3. k \in DOMAIN items /\ items[k].key = key
    BY <2>1, <2>2, Zenon
  <2>4. k \in 1 .. Len(items) /\ Len(items) \in Nat /\ DOMAIN items = 1 .. Len(items)
    BY <2>3
  <2>5. u = RemoveAt(items, k)
    BY <1>2, <2>2, Zenon DEF Unlinked
  <2>6. /\ u \in Seq(CacheItems) /\ Len(u) = Len(items) - 1
        /\ \A i \in 1 .. Len(u) : u[i] = IF i < k THEN items[i] ELSE items[i + 1]
    <3>1. PICK s : s = items
      OBVIOUS
    <3>2. s \in Seq(CacheItems) /\ k \in 1 .. Len(s) /\ u = RemoveAt(s, k)
      BY <2>4, <2>5, <3>1, Zenon
    <3>3. /\ u \in Seq(CacheItems) /\ Len(u) = Len(s) - 1
          /\ \A i \in 1 .. Len(u) : u[i] = IF i < k THEN s[i] ELSE s[i + 1]
      BY <3>2, Removed
    <3> QED
      BY <3>1, <3>3, Zenon
  <2>7. DOMAIN u = 1 .. Len(u)
    BY <2>6
  <2> DEFINE at == [i \in DOMAIN u |-> IF i < k THEN i ELSE i + 1]
  <2>8. \A i \in DOMAIN u : at[i] \in DOMAIN items /\ u[i] = items[at[i]] /\ at[i] # k
    BY <2>4, <2>6, <2>7
  <2>9. \A i, j \in DOMAIN u : at[i] = at[j] => i = j
    BY <2>4, <2>6, <2>7
  <2> HIDE DEF at
  <2>10. OneKey(u) /\ \A i \in DOMAIN u : u[i].key # key
    <3>1. \A i, j \in DOMAIN items : items[i].key = items[j].key => i = j
      BY Zenon DEF OneKey
    <3>2. ASSUME NEW i \in DOMAIN u, NEW j \in DOMAIN u, u[i].key = u[j].key PROVE i = j
      BY <2>8, <2>9, <3>1, <3>2
    <3>3. ASSUME NEW i \in DOMAIN u PROVE u[i].key # key
      BY <2>3, <2>8, <3>1, <3>3
    <3> QED
      BY <3>2, <3>3, Zenon DEF OneKey
  <2>11. Range(u) \subseteq Range(items)
    BY <2>8 DEF Range
  <2>12. Len(u) <= Len(items)
    BY <2>4, <2>6
  <2> QED
    BY <2>6, <2>10, <2>11, <2>12, Zenon
<1> QED
  BY <1>1, <1>2

\* A new first item with a key of its own.
LEMMA FirstItem ==
  ASSUME NEW u \in Seq(CacheItems), OneKey(u), NEW x \in CacheItems, \A i \in DOMAIN u : u[i].key # x.key,
         NEW v, v = <<x>> \o u
  PROVE  OneKey(v) /\ Len(v) = Len(u) + 1 /\ Range(v) = {x} \cup Range(u)
<1>1. /\ Len(u) \in Nat /\ DOMAIN u = 1 .. Len(u) /\ DOMAIN v = 1 .. Len(u) + 1 /\ Len(v) = Len(u) + 1
      /\ v[1] = x /\ \A i \in 1 .. Len(u) : v[i + 1] = u[i]
  OBVIOUS
<1>2. \A i \in DOMAIN v : i = 1 \/ (i - 1 \in DOMAIN u /\ v[i] = u[i - 1])
  BY <1>1
<1>3. OneKey(v)
  <2> SUFFICES ASSUME NEW k \in DOMAIN v, NEW l \in DOMAIN v, v[k].key = v[l].key PROVE k = l
    BY Zenon DEF OneKey
  <2>1. k \in Int /\ l \in Int
    BY <1>1
  <2>2. CASE k = 1 \/ l = 1
    BY <1>1, <1>2, <2>2, Zenon
  <2>3. CASE k # 1 /\ l # 1
    <3>1. PICK i, j : i = k - 1 /\ j = l - 1
      OBVIOUS
    <3>2. i \in DOMAIN u /\ v[k] = u[i] /\ j \in DOMAIN u /\ v[l] = u[j]
      BY <1>2, <2>3, <3>1, Zenon
    <3>3. i = j
      BY <3>2, Zenon DEF OneKey
    <3> QED
      BY <2>1, <3>1, <3>3
  <2> QED
    BY <2>2, <2>3
<1>4. Range(v) \subseteq {x} \cup Range(u)
  BY <1>1, <1>2 DEF Range
<1>5. {x} \cup Range(u) \subseteq Range(v)
  <2>1. 1 \in DOMAIN v /\ \A i \in DOMAIN u : i + 1 \in DOMAIN v /\ v[i + 1] = u[i]
    BY <1>1
  <2>2. x \in Range(v)
    BY <1>1, <2>1 DEF Range
  <2>3. ASSUME NEW y \in Range(u) PROVE y \in Range(v)
    <3>1. PICK i \in DOMAIN u : y = u[i]
      BY <2>3 DEF Range
    <3>2. i + 1 \in DOMAIN v /\ y = v[i + 1]
      BY <2>1, <3>1, Zenon
    <3> QED
      BY <3>2 DEF Range
  <2> QED
    BY <2>2, <2>3, Zenon
<1> QED
  BY <1>1, <1>3, <1>4, <1>5

\* Get moves an item to the front or drops it.
LEMMA GetFacts ==
  ASSUME items \in Seq(CacheItems), CacheOK, NEW key, items' = Get(key)
  PROVE  CacheOK' /\ Range(items') \subseteq Range(items)
<1>0. MaxItems \in Nat /\ Len(items) \in Nat
  BY ConstantsOK
<1>1. PICK u : u = Unlinked(key)
  OBVIOUS
<1>2. /\ u \in Seq(CacheItems) /\ OneKey(u) /\ Range(u) \subseteq Range(items)
      /\ \A i \in DOMAIN u : u[i].key # key
      /\ Len(u) <= Len(items) /\ (Cached(key) # {} => Len(u) = Len(items) - 1)
  BY <1>1, UnlinkedFacts, Zenon DEF CacheOK
<1>3. Len(u) \in Nat /\ Len(items) <= MaxItems
  BY <1>2 DEF CacheOK
<1>4. CASE items' = u
  BY <1>0, <1>2, <1>3, <1>4 DEF CacheOK
<1>5. CASE items' # u
  <2>1. PICK x \in Cached(key) : items' = <<x>> \o u
    BY <1>1, <1>5, Zenon DEF Get
  <2>2. x \in CacheItems /\ x.key = key /\ x \in Range(items)
    BY <2>1 DEF Cached, Range
  <2>3. OneKey(items') /\ Len(items') = Len(u) + 1 /\ Range(items') = {x} \cup Range(u)
    BY <1>2, <2>1, <2>2, FirstItem, Zenon
  <2>4. Len(u) = Len(items) - 1
    BY <1>2, <2>1, Zenon
  <2>5. Len(items') <= MaxItems
    BY <1>0, <1>3, <2>3, <2>4
  <2> QED
    BY <1>2, <2>2, <2>3, <2>5, Zenon DEF CacheOK
<1> QED
  BY <1>4, <1>5

\* Put adds one item, in the place of the one with its key or of the last.
LEMMA PutFacts ==
  ASSUME items \in Seq(CacheItems), CacheOK, NEW key, NEW result, NEW x \in CacheItems,
         x = [key |-> key, result |-> result, age |-> 0], items' = Put(key, result)
  PROVE  CacheOK' /\ Range(items') \subseteq {x} \cup Range(items)
<1>0. MaxItems \in Nat \ {0} /\ Len(items) \in Nat /\ x.key = key /\ Len(items) <= MaxItems
  BY ConstantsOK DEF CacheOK
<1>1. PICK u : u = IF Cached(key) # {} THEN Unlinked(key) ELSE evictLRU(items)
  BY Zenon
<1>2. items' = <<x>> \o u
  BY <1>1, Zenon DEF Put
<1>3. /\ u \in Seq(CacheItems) /\ OneKey(u) /\ Range(u) \subseteq Range(items)
      /\ \A i \in DOMAIN u : u[i].key # key
      /\ Len(u) + 1 <= MaxItems
  <2>1. CASE Cached(key) # {}
    <3>1. u = Unlinked(key)
      BY <1>1, <2>1, Zenon
    <3>2. /\ u \in Seq(CacheItems) /\ OneKey(u) /\ Range(u) \subseteq Range(items)
          /\ (\A i \in DOMAIN u : u[i].key # key) /\ Len(u) = Len(items) - 1
      BY <2>1, <3>1, UnlinkedFacts, Zenon DEF CacheOK
    <3> QED
      BY <1>0, <3>2
  <2>2. CASE Cached(key) = {}
    <3>1. u = evictLRU(items)
      BY <1>1, <2>2, Zenon
    <3>2. /\ u \in Seq(CacheItems) /\ Len(u) + 1 <= MaxItems /\ DOMAIN u \subseteq DOMAIN items
          /\ \A i \in DOMAIN u : u[i] = items[i]
      BY <1>0, <3>1 DEF evictLRU, Front
    <3>3. \A i \in DOMAIN items : items[i].key # key
      BY <2>2, Zenon DEF Cached, Range
    <3>4. OneKey(u) /\ Range(u) \subseteq Range(items) /\ \A i \in DOMAIN u : u[i].key # key
      BY <3>2, <3>3 DEF OneKey, Range, CacheOK
    <3> QED
      BY <3>2, <3>4, Zenon
  <2> QED
    BY <2>1, <2>2
<1>4. OneKey(items') /\ Len(items') = Len(u) + 1 /\ Range(items') = {x} \cup Range(u)
  BY <1>0, <1>2, <1>3, FirstItem, Zenon
<1> QED
  BY <1>3, <1>4, Zenon DEF CacheOK

-----------------------------------------------------------------------------
(* The steps and the ages.                                                 *)

\* What a request asks for is among the entries.
LEMMA MatchInIDs == ASSUME NEW q \in Requests PROVE Match[<<q.text, q.ns>>] \subseteq IDs
BY ConstantsOK, Zenon

\* While nothing settles, what was fresh stays fresh.
LEMMA FreshKept ==
  ASSUME \A n \in Nodes : \A id \in IDs : \A a \in Nat : Settled(n, id, a)' => Settled(n, id, a),
         NEW seen, NEW q \in Requests, NEW N \in SUBSET Nodes, NEW a \in Nat, Fresh(seen, q, N, a)
  PROVE  Fresh(seen, q, N, a)'
<1> SUFFICES ASSUME NEW n \in N, NEW id \in Match[<<q.text, q.ns>>], Settled(n, id, a)' PROVE id \in seen
  BY Zenon DEF Fresh
<1>1. n \in Nodes /\ id \in IDs
  BY MatchInIDs, Zenon
<1>2. Settled(n, id, a)
  BY <1>1, Zenon
<1> QED
  BY <1>2, Zenon DEF Fresh

\* So items and calls stay as fresh as they were.
LEMMA ItemKept ==
  ASSUME \A n \in Nodes : \A id \in IDs : \A a \in Nat : Settled(n, id, a)' => Settled(n, id, a),
         NEW i \in CacheItems, ItemOK(i)
  PROVE  ItemOK(i)'
<1>1. i.result.req \in Requests
  BY DEF CacheItems, Results
<1>2. i.age \in 0 .. TTL + 1 /\ i.age + NodeTimeout \in Nat
  BY Times DEF ItemOK
<1>3. i.age <= TTL => Fresh(i.result.seen, i.result.req, Nodes, i.age + NodeTimeout)'
  <2>1. PICK seen, q, a : seen = i.result.seen /\ q = i.result.req /\ a = i.age + NodeTimeout
    OBVIOUS
  <2>2. SUFFICES ASSUME i.age <= TTL PROVE Fresh(seen, q, Nodes, a)'
    BY <2>1, Zenon DEF Fresh
  <2>3. Fresh(seen, q, Nodes, a) /\ q \in Requests /\ a \in Nat /\ Nodes \in SUBSET Nodes
    BY <1>1, <1>2, <2>1, <2>2, Zenon DEF ItemOK
  <2> QED
    BY <2>3, FreshKept, Zenon
<1> QED
  BY <1>2, <1>3, Zenon DEF ItemOK

\* A call that does not move stays as fresh as it was.
LEMMA CallKept ==
  ASSUME \A n \in Nodes : \A id \in IDs : \A a \in Nat : Settled(n, id, a)' => Settled(n, id, a),
         NEW c \in {Idle} \cup FanOutCalls \cup DoneCalls, CallOK(c)
  PROVE  CallOK(c)'
<1>1. CASE c.pc = "fanout"
  <2>1. c \in FanOutCalls
    BY <1>1 DEF Idle, DoneCalls
  <2>2. PICK seen, q, N, a : seen = c.seen /\ q = c.req /\ N = Nodes \ c.waiting /\ a = c.age
    BY Zenon
  <2>3. q \in Requests /\ N \in SUBSET Nodes
    BY <2>1, <2>2 DEF FanOutCalls
  <2>4. a \in 0 .. NodeTimeout /\ (~c.partial => Fresh(seen, q, N, a))
    BY <1>1, <2>2, Zenon DEF CallOK
  <2>5. a \in Nat
    BY <2>4, Times
  <2>6. ~c.partial => Fresh(seen, q, N, a)'
    BY <2>3, <2>4, <2>5, FreshKept, Zenon
  <2> QED
    BY <1>1, <2>2, <2>4, <2>6 DEF CallOK, Fresh
<1>2. CASE c.pc = "done"
  <2>1. c \in DoneCalls
    BY <1>2 DEF Idle, FanOutCalls
  <2>2. PICK seen, q : seen = c.result.seen /\ q = c.result.req
    OBVIOUS
  <2>3. q \in Requests /\ Horizon \in Nat /\ Nodes \in SUBSET Nodes
    BY <2>1, <2>2, Times DEF DoneCalls, Results
  <2>4. CacheKey(c.result.req) = CacheKey(c.req) /\ (~c.result.partial => Fresh(seen, q, Nodes, Horizon))
    BY <1>2, <2>2, Zenon DEF CallOK
  <2>5. ~c.result.partial => Fresh(seen, q, Nodes, Horizon)'
    BY <2>3, <2>4, FreshKept, Zenon
  <2> QED
    BY <1>2, <2>2, <2>4, <2>5 DEF CallOK, Fresh
<1> QED
  BY <1>1, <1>2, Zenon DEF CallOK

\* One call changes and the clocks stand still.
LEMMA CallChanges ==
  ASSUME PInv, AInv, NEW h \in Handlers, NEW c \in {Idle} \cup FanOutCalls \cup DoneCalls, CallOK(c),
         call' = [call EXCEPT ![h] = c], UNCHANGED <<stored, healthy>>,
         \A i \in Range(items') : i \in CacheItems /\ ItemOK(i)
  PROVE  AInv'
<1>1. \A n \in Nodes : \A id \in IDs : \A a \in Nat : Settled(n, id, a)' => Settled(n, id, a)
  BY Zenon DEF Settled
<1>2. ClocksOK'
  BY Zenon DEF AInv, ClocksOK
<1>3. ASSUME NEW i \in Range(items') PROVE ItemOK(i)'
  BY <1>1, ItemKept, Zenon
<1>4. ASSUME NEW g \in Handlers PROVE CallOK(call[g])'
  <2>1. PICK d : d = IF g = h THEN c ELSE call[g]
    OBVIOUS
  <2>2. d \in {Idle} \cup FanOutCalls \cup DoneCalls /\ CallOK(d)
    BY <2>1, Zenon DEF AInv, PInv
  <2>3. call'[g] = d
    BY <2>1, Zenon DEF PInv
  <2>4. CallOK(d)'
    BY <1>1, <2>2, CallKept, Zenon
  <2> QED
    BY <2>3, <2>4, Zenon DEF CallOK, Fresh
<1> QED
  BY <1>2, <1>3, <1>4, Zenon DEF AInv

\* What has been settled for longer has been settled for less.
LEMMA FreshLonger ==
  ASSUME ClocksOK, NEW seen, NEW q \in Requests, NEW N \in SUBSET Nodes, NEW a \in Nat, NEW b \in Nat, a <= b,
         Fresh(seen, q, N, a)
  PROVE  Fresh(seen, q, N, b)
<1>1. ASSUME NEW n \in Nodes, NEW id \in IDs, Settled(n, id, b) PROVE Settled(n, id, a)
  <2>1. healthy[n] \in Int /\ stored[n][id] \in Int
    BY Times DEF ClocksOK, Ages, None
  <2> QED
    BY <1>1, <2>1 DEF Settled
<1> QED
  BY <1>1, MatchInIDs, Zenon DEF Fresh

\* A call begins: nothing settled is left out, as every healthy node is asked; or
\* it takes a live item, computed at most TTL + NodeTimeout ago.
LEMMA QueryAges ==
  ASSUME PInv, CacheOK, AInv, NEW h \in Handlers, NEW r \in Requests, Query(h, r)
  PROVE  CacheOK' /\ AInv'
<1>1. items' = Get(CacheKey(r)) /\ UNCHANGED <<stored, healthy>>
  BY Zenon DEF Query
<1>2. CacheOK' /\ Range(items') \subseteq Range(items)
  BY <1>1, GetFacts, Zenon DEF PInv
<1>3. \A i \in Range(items) : i \in CacheItems
  BY DEF PInv, Range
<1>4. \A i \in Range(items') : i \in CacheItems /\ ItemOK(i)
  BY <1>2, <1>3, Zenon DEF AInv
<1>5. CASE Hit(CacheKey(r)) # {}
  <2>1. PICK i : i \in Hit(CacheKey(r)) /\ i = CHOOSE x \in Hit(CacheKey(r)) : TRUE
    BY <1>5, Zenon
  <2>2. PICK d : d = [pc |-> "done", req |-> r, result |-> i.result]
    BY Zenon
  <2>3. call' = [call EXCEPT ![h] = d]
    BY <1>5, <2>1, <2>2, Zenon DEF Query
  <2>4. i \in Range(items) /\ i.key = CacheKey(r) /\ i.age <= TTL
    BY <2>1, Zenon DEF Hit, Cached
  <2>5. i \in CacheItems /\ ItemOK(i)
    BY <1>3, <2>4, Zenon DEF AInv
  <2>6. i.result \in Results /\ Correct(i.result, r)
    BY <2>4, <2>5, Zenon DEF CacheItems
  <2>7. d.pc = "done" /\ d.req = r /\ d.result = i.result /\ d \in [pc : {"done"}, req : Requests, result : Results]
    BY <2>2, <2>6, Zenon
  <2>8. d \in DoneCalls
    BY <2>6, <2>7, Zenon DEF DoneCalls
  <2>9. CallOK(d)
    <3>1. PICK q, seen : q = i.result.req /\ seen = i.result.seen
      OBVIOUS
    <3>2. i.age \in 0 .. TTL + 1 /\ CacheKey(q) = i.key /\ Fresh(seen, q, Nodes, i.age + NodeTimeout)
      BY <2>4, <2>5, <3>1, Zenon DEF ItemOK
    <3>3. q \in Requests
      BY <2>6, <3>1 DEF Results
    <3>4. i.age + NodeTimeout \in Nat /\ i.age + NodeTimeout <= Horizon /\ Nodes \in SUBSET Nodes
      BY <2>4, <3>2, Times
    <3>5. Fresh(seen, q, Nodes, Horizon)
      BY <3>2, <3>3, <3>4, Times, FreshLonger, Zenon DEF AInv
    <3> QED
      BY <2>4, <2>7, <3>1, <3>2, <3>5 DEF CallOK
  <2> QED
    BY <1>1, <1>2, <1>4, <2>3, <2>8, <2>9, CallChanges, Zenon
<1>6. CASE Hit(CacheKey(r)) = {}
  <2>1. PICK d : d = [pc |-> "fanout", req |-> r, waiting |-> Targets, got |-> {}, seen |-> {},
                      partial |-> FALSE, age |-> 0]
    BY Zenon
  <2>2. call' = [call EXCEPT ![h] = d]
    BY <1>6, <2>1, Zenon DEF Query
  <2>3. Targets \in SUBSET Nodes
    BY DEF Targets
  <2>4. /\ d.pc = "fanout" /\ d.req = r /\ d.waiting = Targets /\ d.got = {} /\ d.seen = {} /\ d.age = 0
        /\ d \in [pc : {"fanout"}, req : Requests, waiting : SUBSET Nodes, got : SUBSET IDs,
                  seen : SUBSET IDs, partial : BOOLEAN, age : Int]
    BY <2>1, <2>3
  <2>5. d \in FanOutCalls
    BY <2>4 DEF FanOutCalls, HoldsFirst
  <2>6. ASSUME NEW n \in Nodes \ Targets, NEW id PROVE ~Settled(n, id, 0)
    BY <2>6 DEF Targets, Settled, None
  <2>7. Fresh(d.seen, d.req, Nodes \ d.waiting, d.age)
    BY <2>4, <2>6, Zenon DEF Fresh
  <2>8. 0 \in 0 .. NodeTimeout
    BY Times
  <2>9. CallOK(d)
    BY <2>4, <2>7, <2>8 DEF CallOK
  <2> QED
    BY <1>1, <1>2, <1>4, <2>2, <2>5, <2>9, CallChanges, Zenon
<1> QED
  BY <1>5, <1>6, Zenon

\* An answer takes in all that its node has settled.
LEMMA NodeAnswersAges ==
  ASSUME PInv, CacheOK, AInv, NEW h \in Handlers, NEW n \in Nodes, NodeAnswers(h, n)
  PROVE  CacheOK' /\ AInv'
<1>1. items' = items /\ UNCHANGED <<stored, healthy>>
  BY Zenon DEF NodeAnswers
<1>2. \A i \in Range(items') : i \in CacheItems /\ ItemOK(i)
  BY <1>1 DEF PInv, AInv, Range
<1>3. PICK c : c = call[h]
  OBVIOUS
<1>4. c \in FanOutCalls /\ CallOK(c) /\ c.pc = "fanout"
  BY <1>3, CallShapes, Zenon DEF NodeAnswers, Busy, AInv
<1>5. PICK all, got : all = Matching(n, c.req) /\ got = c.got \cup Window(all, 0, nodeLimit(c.req))
  BY Zenon
<1>6. PICK d : d = [c EXCEPT !.waiting = @ \ {n}, !.got = got, !.seen = @ \cup all]
  OBVIOUS
<1>7. call' = [call EXCEPT ![h] = d]
  BY <1>3, <1>5, <1>6, Zenon DEF NodeAnswers, PInv
<1>8. d \in {Idle} \cup FanOutCalls \cup DoneCalls
  <2>1. PInv'
    BY NodeAnswersStep, Zenon
  <2>2. call'[h] \in ({Idle} \cup FanOutCalls \cup DoneCalls)'
    BY <2>1, Zenon DEF PInv
  <2>3. call'[h] = d
    BY <1>7, Zenon DEF PInv
  <2> QED
    BY <2>2, <2>3 DEF Idle, FanOutCalls, DoneCalls
<1>9. /\ d.pc = "fanout" /\ d.req = c.req /\ d.waiting = c.waiting \ {n} /\ d.seen = c.seen \cup all
      /\ d.partial = c.partial /\ d.age = c.age
  BY <1>4, <1>6 DEF FanOutCalls
<1>10. c.age \in 0 .. NodeTimeout /\ (~c.partial => Fresh(c.seen, c.req, Nodes \ c.waiting, c.age))
  BY <1>4, Zenon DEF CallOK
<1>11. \A id : Settled(n, id, c.age) => stored[n][id] # None
  BY <1>10, Times DEF Settled, None
<1>12. ~c.partial => Fresh(d.seen, c.req, Nodes \ d.waiting, c.age)
  BY <1>5, <1>9, <1>10, <1>11, Zenon DEF Fresh, Matching
<1>13. CallOK(d)
  BY <1>9, <1>10, <1>12 DEF CallOK
<1>14. CacheOK'
  BY <1>1, Zenon DEF CacheOK
<1> QED
  BY <1>1, <1>2, <1>7, <1>8, <1>13, <1>14, CallChanges, Zenon

\* A node that fails makes the answer partial, which promises nothing.
LEMMA NodeFailsAges ==
  ASSUME PInv, CacheOK, AInv, NEW h \in Handlers, NEW n \in Nodes, NodeFails(h, n)
  PROVE  CacheOK' /\ AInv'
<1>1. items' = items /\ UNCHANGED <<stored, healthy>>
  BY Zenon DEF NodeFails
<1>2. \A i \in Range(items') : i \in CacheItems /\ ItemOK(i)
  BY <1>1 DEF PInv, AInv, Range
<1>3. PICK c : c = call[h]
  OBVIOUS
<1>4. c \in FanOutCalls /\ CallOK(c) /\ c.pc = "fanout"
  BY <1>3, CallShapes, Zenon DEF NodeFails, Busy, AInv
<1>5. PICK d : d = [c EXCEPT !.waiting = @ \ {n}, !.partial = TRUE]
  OBVIOUS
<1>6. call' = [call EXCEPT ![h] = d]
  BY <1>3, <1>5, Zenon DEF NodeFails, PInv
<1>7. d \in FanOutCalls
  BY <1>4, <1>5, Zenon DEF FanOutCalls
<1>8. d.pc = "fanout" /\ d.partial = TRUE /\ d.age = c.age
  BY <1>4, <1>5 DEF FanOutCalls
<1>9. c.age \in 0 .. NodeTimeout
  BY <1>4, Zenon DEF CallOK
<1>10. CallOK(d)
  BY <1>8, <1>9 DEF CallOK
<1>11. CacheOK'
  BY <1>1, Zenon DEF CacheOK
<1> QED
  BY <1>1, <1>2, <1>6, <1>7, <1>10, <1>11, CallChanges, Zenon

\* A call ends: what it has seen is as old as the call, and a complete result
\* enters the cache with that age.
LEMMA FinishAges ==
  ASSUME PInv, CacheOK, AInv, NEW h \in Handlers, Finish(h)
  PROVE  CacheOK' /\ AInv'
<1>1. UNCHANGED <<stored, healthy>>
  BY Zenon DEF Finish
<1>2. PICK c : c = call[h]
  OBVIOUS
<1>3. c \in FanOutCalls /\ CallOK(c) /\ c.pc = "fanout" /\ c.waiting = {}
  BY <1>2, CallShapes, Zenon DEF Finish, Busy, AInv
<1>4. c.req \in Requests /\ c.partial \in BOOLEAN
  BY <1>3 DEF FanOutCalls
<1>5. PICK m : m = MergeResults(c)
  OBVIOUS
<1>6. m \in Results /\ Correct(m, c.req)
  BY <1>3, <1>5, MergeCorrect, Zenon
<1>7. m.partial = c.partial /\ m.seen = c.seen /\ m.req = c.req
  BY <1>5 DEF MergeResults
<1>8. c.age \in 0 .. NodeTimeout /\ (~c.partial => Fresh(c.seen, c.req, Nodes \ c.waiting, c.age))
  BY <1>3, Zenon DEF CallOK
<1>9. ~m.partial => Fresh(m.seen, m.req, Nodes, NodeTimeout) /\ Fresh(m.seen, m.req, Nodes, Horizon)
  <2>1. c.age \in Nat /\ c.age <= NodeTimeout /\ c.age <= Horizon /\ NodeTimeout \in Nat /\ Horizon \in Nat
    BY <1>8, Times
  <2>2. Nodes \ c.waiting = Nodes /\ Nodes \in SUBSET Nodes
    BY <1>3, Zenon
  <2>3. PICK seen, q, a : seen = c.seen /\ q = c.req /\ a = c.age
    OBVIOUS
  <2>4. SUFFICES ASSUME ~c.partial PROVE Fresh(seen, q, Nodes, NodeTimeout) /\ Fresh(seen, q, Nodes, Horizon)
    BY <1>7, <2>3, Zenon
  <2>5. q \in Requests /\ a \in Nat /\ a <= NodeTimeout /\ a <= Horizon /\ Fresh(seen, q, Nodes, a)
    BY <1>4, <1>8, <2>1, <2>2, <2>3, <2>4, Zenon
  <2> QED
    BY <2>1, <2>2, <2>5, FreshLonger, Zenon DEF AInv
<1>10. PICK d : d = [pc |-> "done", req |-> c.req, result |-> m]
  BY Zenon
<1>11. call' = [call EXCEPT ![h] = d]
  BY <1>2, <1>5, <1>10, Zenon DEF Finish
<1>12. /\ d.pc = "done" /\ d.req = c.req /\ d.result = m
       /\ d \in [pc : {"done"}, req : Requests, result : Results]
  BY <1>4, <1>6, <1>10, Zenon
<1>13. d \in DoneCalls /\ CallOK(d)
  BY <1>6, <1>7, <1>9, <1>12 DEF DoneCalls, CallOK
<1>14. CacheOK' /\ \A i \in Range(items') : i \in CacheItems /\ ItemOK(i)
  <2>1. \A i \in Range(items) : i \in CacheItems /\ ItemOK(i)
    BY DEF PInv, AInv, Range
  <2>2. CASE m.partial
    <3>1. items' = items
      BY <1>2, <1>5, <2>2, Zenon DEF Finish
    <3> QED
      BY <2>1, <3>1, Zenon DEF CacheOK
  <2>3. CASE ~m.partial
    <3>1. PICK key : key = CacheKey(c.req)
      OBVIOUS
    <3>2. items' = Put(key, m)
      BY <1>2, <1>5, <2>3, <3>1, Zenon DEF Finish
    <3>3. PICK x : x = [key |-> key, result |-> m, age |-> 0]
      BY Zenon
    <3>4. x.key = key /\ x.result = m /\ x.age = 0
      BY <3>3
    <3>5. key \in Keys /\ 0 \in Int
      BY <1>4, <3>1 DEF Keys
    <3>6. x \in [key : Keys, result : Results, age : Int]
      BY <1>6, <3>3, <3>5, Zenon
    <3>7. ASSUME NEW q \in Requests, CacheKey(q) = key PROVE Correct(m, q)
      BY <1>6, <3>1, <3>7, SameKeySamePage, Zenon
    <3>8. x \in CacheItems
      BY <3>4, <3>6, <3>7, Zenon DEF CacheItems
    <3>9. 0 \in 0 .. TTL + 1 /\ 0 + NodeTimeout = NodeTimeout
      BY Times
    <3>10. ItemOK(x)
      BY <1>7, <1>9, <2>3, <3>1, <3>4, <3>9, Zenon DEF ItemOK
    <3>11. CacheOK' /\ Range(items') \subseteq {x} \cup Range(items)
      BY <3>2, <3>3, <3>8, PutFacts, Zenon DEF PInv
    <3> QED
      BY <2>1, <3>8, <3>10, <3>11, Zenon
  <2> QED
    BY <2>2, <2>3
<1> QED
  BY <1>1, <1>11, <1>13, <1>14, CallChanges, Zenon

\* A call that is cancelled or has been answered promises nothing more.
LEMMA IdleAges ==
  ASSUME PInv, CacheOK, AInv, NEW h \in Handlers, Cancel(h) \/ Return(h)
  PROVE  CacheOK' /\ AInv'
<1>1. call' = [call EXCEPT ![h] = Idle] /\ items' = items /\ UNCHANGED <<stored, healthy>>
  BY Zenon DEF Cancel, Return
<1>2. \A i \in Range(items') : i \in CacheItems /\ ItemOK(i)
  BY <1>1 DEF PInv, AInv, Range
<1>3. CallOK(Idle)
  BY DEF CallOK, Idle
<1>4. CacheOK'
  BY <1>1, Zenon DEF CacheOK
<1> QED
  BY <1>1, <1>2, <1>3, <1>4, CallChanges, Zenon

\* Storing entries and health changes make nothing more settled.
LEMMA EventAges ==
  ASSUME PInv, CacheOK, AInv, NEW m \in Nodes, (\E id \in IDs : Store(m, id)) \/ Register(m) \/ MarkUnhealthy(m)
  PROVE  CacheOK' /\ AInv'
<1>1. items' = items /\ call' = call
  BY Zenon DEF Store, Register, MarkUnhealthy
<1>2. ClocksOK' /\ \A n \in Nodes : \A id \in IDs : \A a \in Nat : Settled(n, id, a)' => Settled(n, id, a)
  BY EventSettled, Zenon DEF AInv
<1>3. ASSUME NEW i \in Range(items') PROVE ItemOK(i)'
  <2>1. i \in CacheItems /\ ItemOK(i)
    BY <1>1 DEF PInv, AInv, Range
  <2> QED
    BY <1>2, <2>1, ItemKept, Zenon
<1>4. ASSUME NEW g \in Handlers PROVE CallOK(call[g])'
  <2>1. PICK d : d = call[g]
    OBVIOUS
  <2>2. d \in {Idle} \cup FanOutCalls \cup DoneCalls /\ CallOK(d) /\ call'[g] = d
    BY <1>1, <2>1, Zenon DEF AInv, PInv
  <2>3. CallOK(d)'
    BY <1>2, <2>2, CallKept, Zenon
  <2> QED
    BY <2>2, <2>3, Zenon DEF CallOK, Fresh
<1>5. CacheOK'
  BY <1>1, Zenon DEF CacheOK
<1> QED
  BY <1>2, <1>3, <1>4, <1>5, Zenon DEF AInv

\* After a tick, what was fresh is fresh with one tick more.
LEMMA FreshTick ==
  ASSUME ClocksOK, Tick, NEW seen, NEW q \in Requests, NEW N \in SUBSET Nodes, NEW a \in Nat, a < Horizon,
         Fresh(seen, q, N, a)
  PROVE  Fresh(seen, q, N, a + 1)'
<1> SUFFICES ASSUME NEW n \in N, NEW id \in Match[<<q.text, q.ns>>], Settled(n, id, a + 1)' PROVE id \in seen
  BY Zenon DEF Fresh
<1>1. n \in Nodes /\ id \in IDs
  BY MatchInIDs, Zenon
<1>2. Settled(n, id, a)
  BY <1>1, TickSettled, Zenon
<1> QED
  BY <1>2, Zenon DEF Fresh

\* Items and running calls grow older with what they have seen.
LEMMA TickAges ==
  ASSUME PInv, CacheOK, AInv, Tick, \A h \in Handlers : call[h].pc # "done"
  PROVE  CacheOK' /\ AInv'
<1>1. ClocksOK /\ ClocksOK'
  BY TickSettled, Zenon DEF AInv
<1>2. items' = [k \in DOMAIN items |-> [items[k] EXCEPT !.age = IF @ > TTL THEN @ ELSE @ + 1]]
  BY Zenon DEF Tick
<1>3. ASSUME NEW k \in DOMAIN items
      PROVE  /\ items'[k].key = items[k].key /\ items'[k].result = items[k].result
             /\ items'[k].age = IF items[k].age > TTL THEN items[k].age ELSE items[k].age + 1
             /\ items[k] \in CacheItems /\ ItemOK(items[k])
  <2>1. PICK i : i = items[k]
    OBVIOUS
  <2>2. i \in CacheItems /\ ItemOK(i)
    BY <2>1 DEF PInv, AInv, Range
  <2>3. items'[k] = [i EXCEPT !.age = IF @ > TTL THEN @ ELSE @ + 1]
    BY <1>2, <2>1, Zenon
  <2>4. i \in [key : Keys, result : Results, age : Int]
    BY <2>2, Zenon DEF CacheItems
  <2> QED
    BY <2>1, <2>2, <2>3, <2>4
<1>4. CacheOK'
  <2>1. DOMAIN items' = DOMAIN items
    BY <1>2, Zenon
  <2>2. items \in Seq(CacheItems) /\ items' \in Seq(CacheItems')
    <3>1. PInv'
      BY TickStep, Zenon
    <3> QED
      BY <3>1, Zenon DEF PInv
  <2>3. Len(items') = Len(items)
    BY <2>1, <2>2
  <2> QED
    BY <1>3, <2>1, <2>3, Zenon DEF CacheOK, OneKey
<1>5. ASSUME NEW j \in Range(items') PROVE ItemOK(j)'
  <2>1. PICK k \in DOMAIN items : j = items'[k]
    BY <1>2, <1>5 DEF Range
  <2>2. PICK i : i = items[k]
    OBVIOUS
  <2>3. /\ i \in CacheItems /\ ItemOK(i) /\ j.key = i.key /\ j.result = i.result
        /\ j.age = IF i.age > TTL THEN i.age ELSE i.age + 1
    BY <1>3, <2>1, <2>2, Zenon
  <2>4. i.age \in 0 .. TTL + 1 /\ ~i.result.partial /\ CacheKey(i.result.req) = i.key
    BY <2>3, Zenon DEF ItemOK
  <2>5. j.age \in 0 .. TTL + 1
    BY <2>3, <2>4, Times
  <2>6. ASSUME j.age <= TTL PROVE Fresh(j.result.seen, j.result.req, Nodes, j.age + NodeTimeout)'
    <3>1. PICK seen, q, a : seen = i.result.seen /\ q = i.result.req /\ a = i.age + NodeTimeout
      OBVIOUS
    <3>2. i.age <= TTL /\ a \in Nat /\ a < Horizon /\ a + 1 = j.age + NodeTimeout
      BY <2>3, <2>4, <2>6, <3>1, Times
    <3>3. q \in Requests /\ Nodes \in SUBSET Nodes
      BY <2>3, <3>1 DEF CacheItems, Results
    <3>4. Fresh(seen, q, Nodes, a)
      BY <2>3, <3>1, <3>2, Zenon DEF ItemOK
    <3>5. Fresh(seen, q, Nodes, a + 1)'
      BY <1>1, <3>2, <3>3, <3>4, FreshTick, Zenon
    <3> QED
      BY <2>3, <3>1, <3>2, <3>5, Zenon DEF Fresh
  <2> QED
    BY <2>3, <2>4, <2>5, <2>6, Zenon DEF ItemOK
<1>6. ASSUME NEW h \in Handlers PROVE CallOK(call[h])'
  <2>1. PICK c : c = call[h]
    OBVIOUS
  <2>2. c.pc # "done" /\ CallOK(c) /\ (c.pc = "fanout" => c \in FanOutCalls)
    BY <2>1, CallShapes, Zenon DEF AInv
  <2>3. CASE c.pc = "fanout"
    <3>1. PICK d : d = [c EXCEPT !.age = @ + 1]
      BY Zenon
    <3>2. call'[h] = d /\ c.age < NodeTimeout
      BY <2>1, <2>3, <3>1, Zenon DEF Tick, Busy
    <3>3. /\ d.pc = "fanout" /\ d.req = c.req /\ d.waiting = c.waiting /\ d.seen = c.seen
          /\ d.partial = c.partial /\ d.age = c.age + 1
      BY <2>2, <2>3, <3>1 DEF FanOutCalls
    <3>4. PICK seen, q, N, a : seen = c.seen /\ q = c.req /\ N = Nodes \ c.waiting /\ a = c.age
      BY Zenon
    <3>5. a \in 0 .. NodeTimeout /\ (~c.partial => Fresh(seen, q, N, a))
      BY <2>2, <2>3, <3>4, Zenon DEF CallOK
    <3>6. a \in Nat /\ a < Horizon /\ a + 1 \in 0 .. NodeTimeout
      BY <3>2, <3>4, <3>5, Times
    <3>7. q \in Requests /\ N \in SUBSET Nodes
      BY <2>2, <2>3, <3>4 DEF FanOutCalls
    <3>8. ~c.partial => Fresh(seen, q, N, a + 1)'
      BY <1>1, <3>5, <3>6, <3>7, FreshTick, Zenon
    <3>9. CallOK(d)'
      BY <3>3, <3>4, <3>6, <3>8 DEF CallOK, Fresh
    <3> QED
      BY <3>2, <3>9, Zenon DEF CallOK, Fresh
  <2>4. CASE c.pc # "fanout"
    <3>1. call'[h] = c
      BY <2>1, <2>4, Zenon DEF Tick, Busy
    <3> QED
      BY <2>2, <2>4, <3>1, Zenon DEF CallOK
  <2> QED
    BY <2>3, <2>4
<1> QED
  BY <1>1, <1>4, <1>5, <1>6, Zenon DEF AInv

\* An empty cache and idle calls.
LEMMA InitAges == Init => CacheOK /\ AInv
<1> SUFFICES ASSUME Init PROVE CacheOK /\ AInv
  OBVIOUS
<1>1. None \in Ages /\ Horizon + 1 \in Ages
  BY Times DEF Ages, None
<1>2. items = <<>> /\ call = [h \in Handlers |-> Idle] /\ healthy \in [Nodes -> {None, Horizon + 1}]
  BY Zenon DEF Init
<1>3. PICK placed \in [Old -> (SUBSET Nodes) \ {{}}] :
        stored = [n \in Nodes |-> [id \in IDs |-> IF id \in Old /\ n \in placed[id] THEN Horizon + 1 ELSE None]]
  BY Zenon DEF Init
<1>4. ClocksOK
  BY <1>1, <1>2, <1>3, Zenon DEF ClocksOK
<1>5. CacheOK /\ Range(items) = {}
  BY <1>2, ConstantsOK DEF CacheOK, OneKey, Range
<1>6. CallOK(Idle)
  BY DEF CallOK, Idle
<1> QED
  BY <1>2, <1>4, <1>5, <1>6, Zenon DEF AInv

\* Every step keeps cache and ages right.
LEMMA StepAges == PInv /\ CacheOK /\ AInv /\ [Next]_vars => CacheOK' /\ AInv'
<1> SUFFICES ASSUME PInv, CacheOK, AInv, [Next]_vars PROVE CacheOK' /\ AInv'
  BY Zenon
<1>1. CASE UNCHANGED vars
  BY <1>1, Zenon DEF vars, CacheOK, AInv, ClocksOK, ItemOK, CallOK, Fresh, Settled
<1>2. ASSUME NEW h \in Handlers, Return(h) \/ Cancel(h) PROVE CacheOK' /\ AInv'
  BY <1>2, IdleAges, Zenon
<1>3. ASSUME NEW h \in Handlers, NEW r \in Requests, Query(h, r) PROVE CacheOK' /\ AInv'
  BY <1>3, QueryAges, Zenon
<1>4. ASSUME NEW h \in Handlers, NEW n \in Nodes, NodeAnswers(h, n) \/ NodeFails(h, n) PROVE CacheOK' /\ AInv'
  BY <1>4, NodeAnswersAges, NodeFailsAges, Zenon
<1>5. ASSUME NEW h \in Handlers, Finish(h) PROVE CacheOK' /\ AInv'
  BY <1>5, FinishAges, Zenon
<1>6. ASSUME NEW n \in Nodes, (\E id \in IDs : Store(n, id)) \/ Register(n) \/ MarkUnhealthy(n)
      PROVE  CacheOK' /\ AInv'
  BY <1>6, EventAges, Zenon
<1>7. CASE Tick /\ \A h \in Handlers : call[h].pc # "done"
  BY <1>7, TickAges, Zenon
<1> QED
  BY <1>1, <1>2, <1>3, <1>4, <1>5, <1>6, <1>7, Zenon DEF Next, Step

\* So they are right in every behaviour.
LEMMA AgesHold == Spec => [](PInv /\ CacheOK /\ AInv)
BY InitPInv, InitAges, StepPreservesPInv, StepAges, PTL DEF Spec

\* QueryCache keeps at most cacheMaxItems items, one per key, and Execute never
\* puts a partial result into it, whatever calls run at once.
THEOREM TypeOKTheorem == Spec => []TypeOK
<1>1. PInv /\ CacheOK /\ AInv => TypeOK
  <2> SUFFICES ASSUME PInv, CacheOK, AInv PROVE TypeOK
    OBVIOUS
  <2>1. \A i \in Range(items) : i \in CacheItems /\ ItemOK(i)
    BY DEF PInv, AInv, Range
  <2>2. \A i \in Range(items) : i.result \in Results /\ ~i.result.partial
    BY <2>1, Zenon DEF CacheItems, ItemOK
  <2> QED
    BY <2>2, Zenon DEF TypeOK, CacheOK, OneKey, AInv, ClocksOK
<1> QED
  BY <1>1, AgesHold, PTL

\* As long as requests that share a cache key ask for the same entries, a complete
\* answer of Execute, from the cache or not, has every matching entry that a
\* healthy node has held for longer than the cache's TTL and one node timeout.
THEOREM NotTooStaleTheorem ==
  ASSUME KeysTellApart
  PROVE  Spec => []NotTooStale
<1>1. PInv /\ CacheOK /\ AInv => NotTooStale
  <2> SUFFICES ASSUME PInv, AInv, NEW a \in Answers, ~a.result.partial, NEW n \in Nodes, healthy[n] > Horizon,
                      NEW id \in Matching(n, a.req), stored[n][id] > Horizon
               PROVE  id \in a.result.seen
    BY Zenon DEF NotTooStale
  <2>1. PICK h \in Handlers : a = call[h] /\ a.pc = "done"
    BY DEF Answers
  <2>2. a \in DoneCalls /\ CallOK(a)
    BY <2>1, CallShapes, Zenon DEF AInv
  <2>3. a.req \in Requests /\ a.result.req \in Requests
    BY <2>2 DEF DoneCalls, Results
  <2>4. CacheKey(a.result.req) = CacheKey(a.req) /\ Fresh(a.result.seen, a.result.req, Nodes, Horizon)
    BY <2>1, <2>2, Zenon DEF CallOK
  <2>5. id \in Match[<<a.result.req.text, a.result.req.ns>>]
    BY <2>3, <2>4, Zenon DEF KeysTellApart, Matching
  <2> QED
    BY <2>4, <2>5, Zenon DEF Fresh, Settled
<1> QED
  BY <1>1, AgesHold, PTL
=============================================================================
