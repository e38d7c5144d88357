----------------------- MODULE StorageInvariant_proofs -----------------------
(***************************************************************************)
(* Proofs about a log node's local store, for any number of handlers,      *)
(* entries, sizes and timestamps, any thresholds, any number of crashes    *)
(* and of failing renames and sidecar writes.  First part: the inductive   *)
(* invariant SInv and every step's proof that it is kept, then what holds  *)
(* of the marker, the sidecars and the filters besides.                    *)
(* StorageNode_proofs has the rest and the theorems.                       *)
(*                                                                         *)
(* The segments a node receives by transfer keep the names they have on    *)
(* the primary.  The theorems are about nodes on which those names are     *)
(* free and below nextSeq, which transferMissingSegments does not check;   *)
(* a node that replicates no shard is one of them.                         *)
(***************************************************************************)
EXTENDS StorageNode, TLAPS

-----------------------------------------------------------------------------
(* Finite sets.  (FiniteSetTheorems has these, but in its company every    *)
(* step below takes twice the time.)                                       *)

\* A set whose members a sequence lists is finite.
LEMMA ListedFinite ==
  ASSUME NEW S, NEW s \in Seq(S), \A x \in S : \E i \in 1 .. Len(s) : s[i] = x
  PROVE  IsFiniteSet(S)
BY Zenon DEF IsFiniteSet

\* The empty set is finite.
LEMMA NoneFinite == IsFiniteSet({})
<1>1. <<>> \in Seq({})
  OBVIOUS
<1> QED
  BY <1>1, ListedFinite, Zenon

\* So is a set of one element.
LEMMA OneFinite ==
  ASSUME NEW x
  PROVE  IsFiniteSet({x})
<1>1. <<x>> \in Seq({x}) /\ Len(<<x>>) = 1 /\ <<x>>[1] = x /\ 1 \in 1 .. 1
  OBVIOUS
<1> QED
  BY <1>1, ListedFinite, Zenon

\* The union of two finite sets is finite: their lists are joined.
LEMMA JoinedFinite ==
  ASSUME NEW S, NEW R, IsFiniteSet(S), IsFiniteSet(R)
  PROVE  IsFiniteSet(S \cup R)
<1> USE ZenonT(30)
<1>1. PICK s \in Seq(S) : \A x \in S : \E i \in 1 .. Len(s) : s[i] = x
  BY DEF IsFiniteSet
<1>2. PICK r \in Seq(R) : \A x \in R : \E i \in 1 .. Len(r) : r[i] = x
  BY DEF IsFiniteSet
<1>3. PICK t : t = s \o r
  OBVIOUS
<1>4. /\ t \in Seq(S \cup R) /\ Len(s) \in Nat
      /\ \A i \in 1 .. Len(s) : i \in 1 .. Len(t) /\ t[i] = s[i]
      /\ \A i \in 1 .. Len(r) : Len(s) + i \in 1 .. Len(t) /\ t[Len(s) + i] = r[i]
  BY <1>3, SMT
<1>5. \A x \in S \cup R : \E i \in 1 .. Len(t) : t[i] = x
  BY <1>1, <1>2, <1>4
<1> QED
  BY <1>4, <1>5, ListedFinite

\* One more element leaves a set finite.
LEMMA GrownFinite ==
  ASSUME NEW S, NEW x, IsFiniteSet(S)
  PROVE  IsFiniteSet(S \cup {x})
BY OneFinite, JoinedFinite, Zenon

\* A part of a finite set is finite: elements outside it are replaced in the list.
LEMMA PartFinite ==
  ASSUME NEW S, NEW R \in SUBSET S, IsFiniteSet(S)
  PROVE  IsFiniteSet(R)
<1>1. CASE R = {}
  BY <1>1, NoneFinite, Zenon
<1>2. CASE R # {}
  <2> USE ZenonT(30)
  <2>1. PICK s \in Seq(S) : \A x \in S : \E i \in 1 .. Len(s) : s[i] = x
    BY DEF IsFiniteSet
  <2>2. PICK y : y \in R
    BY <1>2
  <2>3. PICK n \in Nat : n = Len(s)
    BY SMT
  <2>4. PICK t : t = [i \in 1 .. n |-> IF s[i] \in R THEN s[i] ELSE y]
    OBVIOUS
  <2>5. t \in Seq(R) /\ Len(t) = n /\ \A i \in 1 .. n : s[i] \in R => t[i] = s[i]
    BY <2>2, <2>4, SMT
  <2>6. \A x \in R : \E i \in 1 .. Len(t) : t[i] = x
    BY <2>1, <2>3, <2>5
  <2> QED
    BY <2>5, <2>6, ListedFinite
<1> QED
  BY <1>1, <1>2

\* The numbers up to n are finitely many.
LEMMA BelowFinite ==
  ASSUME NEW n \in Int
  PROVE  IsFiniteSet(0 .. n)
<1>1. CASE n < 0
  <2>1. 0 .. n = {}
    BY <1>1
  <2> QED
    BY <2>1, NoneFinite
<1>2. CASE n >= 0
  <2> USE ZenonT(30)
  <2>1. PICK t : t = [i \in 1 .. n + 1 |-> i - 1]
    OBVIOUS
  <2>2. /\ t \in Seq(0 .. n) /\ Len(t) = n + 1
        /\ \A x \in 0 .. n : x + 1 \in 1 .. n + 1 /\ t[x + 1] = x
    BY <1>2, <2>1, SMT
  <2>3. \A x \in 0 .. n : \E i \in 1 .. Len(t) : t[i] = x
    BY <2>2
  <2> QED
    BY <2>2, <2>3, ListedFinite
<1> QED
  BY <1>1, <1>2

-----------------------------------------------------------------------------
(* Sorted lists of names.                                                  *)

\* What the proofs need of sort.Strings and of a set's largest number: a sorted
\* list has the set's names, each once, the largest last.  It is shown at the end,
\* before the theorems of StorageNode_proofs, and a conjunct of SInv until then.
NamesSort ==
    \A H \in SUBSET Nat : IsFiniteSet(H) =>
        /\ Sorted(H) \in Seq(H) /\ Len(Sorted(H)) = Cardinality(H)
        /\ Range(Sorted(H)) = H /\ IsInjective(Sorted(H))
        /\ \A m \in H : (\A n \in H : n <= m) =>
              Cardinality(H) \in Nat \ {0} /\ Sorted(H)[Cardinality(H)] = m
        /\ H # {} => Max(H) \in H /\ \A n \in H : n <= Max(H)

\* NamesSort, for one set.
LEMMA SortedNames ==
  ASSUME NamesSort, NEW H \in SUBSET Nat, IsFiniteSet(H)
  PROVE  /\ Sorted(H) \in Seq(H) /\ Len(Sorted(H)) = Cardinality(H)
         /\ Range(Sorted(H)) = H /\ IsInjective(Sorted(H))
         /\ \A m \in H : (\A n \in H : n <= m) =>
               Cardinality(H) \in Nat \ {0} /\ Sorted(H)[Cardinality(H)] = m
BY Zenon DEF NamesSort

\* The largest of a finite set of names.
LEMMA LargestName ==
  ASSUME NamesSort, NEW H \in SUBSET Nat, IsFiniteSet(H), H # {}
  PROVE  Max(H) \in H /\ \A n \in H : n <= Max(H)
BY Zenon DEF NamesSort

-----------------------------------------------------------------------------
(* Lists of names.                                                         *)

\* The names of a list are those at its places.
LEMMA ListNames ==
  ASSUME NEW S, NEW s \in Seq(S)
  PROVE  /\ Range(s) \subseteq S /\ Len(s) \in Nat /\ DOMAIN s = 1 .. Len(s)
         /\ \A i \in 1 .. Len(s) : s[i] \in Range(s)
         /\ \A x \in Range(s) : \E i \in 1 .. Len(s) : x = s[i]
         /\ s = <<>> <=> Len(s) = 0
         /\ s = <<>> <=> Range(s) = {}
<1>1. Len(s) \in Nat /\ DOMAIN s = 1 .. Len(s) /\ \A i \in 1 .. Len(s) : s[i] \in S
  OBVIOUS
<1>2. s = <<>> <=> Len(s) = 0
  OBVIOUS
<1>3. s # <<>> => 1 \in DOMAIN s
  BY <1>1, <1>2
<1>4. s = <<>> => DOMAIN s = {}
  BY <1>1, <1>2
<1> QED
  BY <1>1, <1>2, <1>3, <1>4, ZenonT(60) DEF Range

\* The empty list.
LEMMA EmptyList ==
  ASSUME NEW S
  PROVE  <<>> \in Seq(S) /\ Range(<<>>) = {} /\ IsInjective(<<>>)
BY DEF Range, IsInjective

\* A list of members of S is one of members of a larger set.
LEMMA WiderList ==
  ASSUME NEW S, NEW T, S \subseteq T, NEW s \in Seq(S)
  PROVE  s \in Seq(T)
<1>1. s \in [1 .. Len(s) -> S] /\ Len(s) \in Nat
  OBVIOUS
<1>2. s \in [1 .. Len(s) -> T]
  BY <1>1
<1> QED
  BY <1>1, <1>2

\* A name added at the end.
LEMMA AppendList ==
  ASSUME NEW S, NEW s \in Seq(S), NEW x \in S
  PROVE  /\ Append(s, x) \in Seq(S) /\ Append(s, x) # <<>>
         /\ Range(Append(s, x)) = Range(s) \cup {x} /\ Last(Append(s, x)) = x
         /\ IsInjective(s) /\ x \notin Range(s) => IsInjective(Append(s, x))
<1> DEFINE t == Append(s, x)
<1>1. /\ t \in Seq(S) /\ Len(s) \in Nat /\ Len(t) = Len(s) + 1 /\ t[Len(s) + 1] = x
      /\ \A i \in 1 .. Len(s) : t[i] = s[i]
  OBVIOUS
<1>2. DOMAIN s = 1 .. Len(s) /\ DOMAIN t = 1 .. Len(s) + 1
  BY <1>1
<1>3. \A i \in 1 .. Len(s) + 1 : i \in 1 .. Len(s) \/ i = Len(s) + 1
  BY <1>1
<1>4. \A i \in 1 .. Len(s) : i \in 1 .. Len(s) + 1
  BY <1>1
<1>5. Len(s) + 1 \in 1 .. Len(s) + 1 /\ Len(s) + 1 \notin 1 .. Len(s)
  BY <1>1
<1> HIDE DEF t
<1>6. Range(t) = Range(s) \cup {x}
  BY <1>1, <1>2, <1>3, <1>4, <1>5, SMTT(30) DEF Range
<1>7. IsInjective(s) /\ x \notin Range(s) => IsInjective(t)
  BY <1>1, <1>2, <1>3, <1>4, <1>5, SMTT(30) DEF IsInjective, Range
<1>8. Last(t) = x /\ t # <<>>
  BY <1>1 DEF Last
<1> QED
  BY <1>1, <1>6, <1>7, <1>8 DEF t

\* t holds names of s, found at the places g: it has none twice if s has none ...
LEMMA PickedInjective ==
  ASSUME NEW s, NEW t, NEW g, IsInjective(s),
         \A k \in DOMAIN t : g[k] \in DOMAIN s /\ t[k] = s[g[k]],
         \A j, k \in DOMAIN t : g[j] = g[k] => j = k
  PROVE  IsInjective(t)
<1> USE ZenonT(30)
<1> SUFFICES ASSUME NEW j \in DOMAIN t, NEW k \in DOMAIN t, t[j] = t[k] PROVE j = k
  BY DEF IsInjective
<1>1. s[g[j]] = s[g[k]]
  OBVIOUS
<1>2. g[j] = g[k]
  BY <1>1 DEF IsInjective
<1> QED
  BY <1>2

\* A part of a list has no name it had not, and none twice; what lies before it
\* and what lies in it have no name in common.
LEMMA PartList ==
  ASSUME NEW S, NEW s \in Seq(S), NEW m \in Nat \ {0}, NEW n \in Nat, n <= Len(s)
  PROVE  /\ SubSeq(s, m, n) \in Seq(S) /\ Range(SubSeq(s, m, n)) \subseteq Range(s)
         /\ Len(SubSeq(s, m, n)) = IF m <= n THEN n - m + 1 ELSE 0
         /\ IsInjective(s) => /\ IsInjective(SubSeq(s, m, n))
                              /\ \A k \in 0 .. m - 1 : k <= Len(s) =>
                                    Range(SubSeq(s, 1, k)) \cap Range(SubSeq(s, m, n)) = {}
<1> DEFINE t == SubSeq(s, m, n)
<1>1. t \in Seq(S) /\ Len(t) = (IF m <= n THEN n - m + 1 ELSE 0) /\ DOMAIN s = 1 .. Len(s)
      /\ Len(s) \in Nat
  OBVIOUS
<1>2. \A i \in 1 .. Len(t) : t[i] = s[i + m - 1] /\ i + m - 1 \in 1 .. Len(s) /\ i + m - 1 >= m
  BY <1>1
<1>3. DOMAIN t = 1 .. Len(t)
  BY <1>1
<1>4. \A i, j \in 1 .. Len(t) : i + m - 1 = j + m - 1 => i = j
  BY <1>1
<1> HIDE DEF t
<1>5. Range(t) \subseteq Range(s)
  BY <1>1, <1>2, <1>3, Zenon DEF Range
<1>6. ASSUME IsInjective(s) PROVE IsInjective(t)
  <2> USE ZenonT(30)
  <2> SUFFICES ASSUME NEW i \in 1 .. Len(t), NEW j \in 1 .. Len(t), t[i] = t[j]
               PROVE  i = j
    BY <1>3 DEF IsInjective
  <2>1. s[i + m - 1] = s[j + m - 1] /\ i + m - 1 \in DOMAIN s /\ j + m - 1 \in DOMAIN s
    BY <1>1, <1>2
  <2>2. i + m - 1 = j + m - 1
    BY <1>6, <2>1 DEF IsInjective
  <2> QED
    BY <1>4, <2>2
<1>7. ASSUME IsInjective(s), NEW k \in 0 .. m - 1, k <= Len(s)
      PROVE  Range(SubSeq(s, 1, k)) \cap Range(t) = {}
  <2>1. /\ DOMAIN SubSeq(s, 1, k) = 1 .. k
        /\ \A i \in 1 .. k : SubSeq(s, 1, k)[i] = s[i] /\ i \in 1 .. Len(s)
    BY <1>1, <1>7
  <2>2. \A i \in 1 .. k : i < m /\ i \in Int
    BY <1>7
  <2>3. ASSUME NEW i \in 1 .. k, NEW j \in 1 .. Len(t), s[i] = t[j]
        PROVE  FALSE
    <3>1. s[i] = s[j + m - 1] /\ i \in DOMAIN s /\ j + m - 1 \in DOMAIN s
      BY <1>1, <1>2, <2>1, <2>3
    <3>2. i = j + m - 1
      BY <1>7, <3>1 DEF IsInjective
    <3> QED
      BY <1>2, <2>2, <3>2
  <2> QED
    BY <1>3, <2>1, <2>3, SMTT(30) DEF Range
<1> QED
  BY <1>1, <1>5, <1>6, <1>7 DEF t

\* A list is what precedes its last name, and that name.
LEMMA FrontList ==
  ASSUME NEW S, NEW s \in Seq(S), s # <<>>
  PROVE  /\ Front(s) \in Seq(S) /\ Last(s) \in S /\ Last(s) \in Range(s)
         /\ Range(s) = Range(Front(s)) \cup {Last(s)}
         /\ IsInjective(s) => IsInjective(Front(s)) /\ Last(s) \notin Range(Front(s))
<1> DEFINE n == Len(s)
           t == SubSeq(s, 1, n - 1)
<1>1. n \in Nat \ {0} /\ DOMAIN s = 1 .. n /\ n \in DOMAIN s /\ s[n] \in S
  OBVIOUS
<1>2. t \in Seq(S) /\ DOMAIN t = 1 .. n - 1 /\ \A i \in 1 .. n - 1 : t[i] = s[i]
  BY <1>1
<1>3. Front(s) = t /\ Last(s) = s[n]
  BY DEF Front, Last
<1> HIDE DEF n, t
<1>4. \A i \in 1 .. n - 1 : i \in DOMAIN s /\ i # n
  BY <1>1
<1>5. \A i \in DOMAIN s : i = n \/ i \in 1 .. n - 1
  BY <1>1
<1>6. Range(s) = Range(t) \cup {s[n]} /\ s[n] \in Range(s)
  BY <1>1, <1>2, <1>4, <1>5, SMTT(30) DEF Range
<1>7. IsInjective(s) => IsInjective(t) /\ s[n] \notin Range(t)
  BY <1>1, <1>2, <1>4, SMTT(30) DEF IsInjective, Range
<1> QED
  BY <1>1, <1>2, <1>3, <1>6, <1>7, Zenon

\* A list is its first name and what follows.
LEMMA TailList ==
  \A S : \A s \in Seq(S) :
    s # <<>> =>
         /\ Tail(s) \in Seq(S) /\ Head(s) \in S /\ Len(Tail(s)) = Len(s) - 1
         /\ Range(s) = {Head(s)} \cup Range(Tail(s))
         /\ IsInjective(s) => IsInjective(Tail(s)) /\ Head(s) \notin Range(Tail(s))
  \* ... and it has all but the name at place i if g leaves out no other place.
<1>PickedNames.
    ASSUME NEW s, NEW t, NEW g, NEW i \in DOMAIN s,
           \A k \in DOMAIN t : g[k] \in DOMAIN s /\ t[k] = s[g[k]],
           \A k \in DOMAIN t : g[k] # i,
           \A j \in DOMAIN s \ {i} : \E k \in DOMAIN t : g[k] = j
    PROVE  /\ Range(t) \subseteq Range(s) /\ s[i] \in Range(s)
           /\ \A x \in Range(s) : x = s[i] \/ x \in Range(t)
           /\ IsInjective(s) => s[i] \notin Range(t)
  <2> USE <1>PickedNames, Zenon
  <2>1. ASSUME NEW x \in Range(t) PROVE x \in Range(s) /\ (IsInjective(s) => x # s[i])
    <3>1. PICK k \in DOMAIN t : x = t[k]
      BY DEF Range
    <3>2. x = s[g[k]] /\ g[k] \in DOMAIN s /\ g[k] # i
      BY <3>1
    <3> QED
      BY <3>2 DEF Range, IsInjective
  <2>2. ASSUME NEW x \in Range(s), x # s[i] PROVE x \in Range(t)
    <3>1. PICK j \in DOMAIN s : x = s[j]
      BY DEF Range
    <3>2. PICK k \in DOMAIN t : g[k] = j
      BY <2>2, <3>1
    <3>3. x = t[k]
      BY <3>1, <3>2
    <3> QED
      BY <3>3 DEF Range
  <2>3. s[i] \in Range(s)
    BY DEF Range
  <2> QED
    BY <2>1, <2>2, <2>3
<1> SUFFICES ASSUME NEW S, NEW s \in Seq(S), s # <<>>
             PROVE  /\ Tail(s) \in Seq(S) /\ Head(s) \in S /\ Len(Tail(s)) = Len(s) - 1
                    /\ Range(s) = {Head(s)} \cup Range(Tail(s))
                    /\ IsInjective(s) => IsInjective(Tail(s)) /\ Head(s) \notin Range(Tail(s))
  BY Zenon
<1> DEFINE n == Len(s)
           t == Tail(s)
           g == [i \in 1 .. n - 1 |-> i + 1]
<1>1. n \in Nat \ {0} /\ DOMAIN s = 1 .. n /\ 1 \in DOMAIN s /\ s[1] \in S /\ Head(s) = s[1]
  OBVIOUS
<1>2. t \in Seq(S) /\ Len(t) = n - 1 /\ DOMAIN t = 1 .. n - 1 /\ \A i \in 1 .. n - 1 : t[i] = s[i + 1]
  BY <1>1
<1>3. /\ \A i \in 1 .. n - 1 : i + 1 \in DOMAIN s /\ i + 1 # 1
      /\ \A i, j \in 1 .. n - 1 : i + 1 = j + 1 => i = j
      /\ \A i \in DOMAIN s \ {1} : i - 1 \in 1 .. n - 1 /\ i - 1 + 1 = i
  BY <1>1
<1> HIDE DEF n, t
<1>5. /\ \A k \in DOMAIN t : g[k] \in DOMAIN s /\ t[k] = s[g[k]]
      /\ \A j, k \in DOMAIN t : g[j] = g[k] => j = k
      /\ \A k \in DOMAIN t : g[k] # 1
      /\ \A j \in DOMAIN s \ {1} : \E k \in DOMAIN t : g[k] = j
  BY <1>2, <1>3, ZenonT(60)
<1> HIDE DEF g
<1>7. /\ Range(t) \subseteq Range(s) /\ s[1] \in Range(s)
      /\ \A x \in Range(s) : x = s[1] \/ x \in Range(t)
      /\ IsInjective(s) => s[1] \notin Range(t)
  BY <1>1, <1>5, <1>PickedNames, ZenonT(60)
<1>9. IsInjective(s) => IsInjective(t)
  BY <1>5, PickedInjective, ZenonT(60)
<1> QED
  BY <1>1, <1>2, <1>7, <1>9, ZenonT(60) DEF n, t

-----------------------------------------------------------------------------
(* Catch-up.                                                               *)

\* No segment that catch-up may write takes the name of a file on this node or
\* one that a later rotation will use.
TransfersClean ==
    phase = "catchup" =>
        \A s \in shards : \A p \in MissingSegments(s) : p \notin DOMAIN files /\ p < nextSeq

-----------------------------------------------------------------------------
(* The inductive invariant.                                                *)

\* A segment file, whatever its size.
IsSegment(f) == f \in [recs : SUBSET AllEntries, size : {f.size}, torn : BOOLEAN]

\* Files are finitely many, and named by positive numbers.
FilesOK ==
    /\ IsFiniteSet(DOMAIN files) /\ DOMAIN files \subseteq Nat \ {0}
    /\ \A p \in DOMAIN files : IsSegment(files[p])

Handlers == [pc : {"idle", "rotate", "create", "truncate", "mark", "header", "data", "index"},
             entry : Entries \cup {0}, path : Nat]

\* Handlers and the compactor run only while the node serves, and a handler that
\* runs has an entry.
HandlersOK ==
    /\ phase \in {"down", "catchup", "serving"}
    /\ writer \in [Writers -> Handlers]
    /\ \A w \in Writers : writer[w].pc # "idle" => phase = "serving" /\ writer[w].entry \in Entries
    /\ comp.pc # "idle" => phase = "serving"
    /\ acked \subseteq AllEntries /\ nextSeq \in Nat /\ cutoff \in Nat

\* The list of segments: no name twice, all on disk, the active one last, and
\* every name below nextSeq.
ManagerOK ==
    phase # "down" =>
        /\ paths \in Seq(Nat) /\ paths # <<>> /\ IsInjective(paths) /\ Range(paths) \subseteq DOMAIN files
        /\ \A p \in DOMAIN files : p < nextSeq
        /\ fd = [path |-> Last(paths), attached |-> TRUE, size |-> files[Last(paths)].size]

\* The compactor's invariants are about the compactor c, the files fs, the names
\* ps in the manager's list, the active one among them, nextSeq and the index ix.
Labels == {"idle", "scan", "unindex", "rename", "bloom", "reindex", "manager",
           "delete", "delbloom", "retain", "expire"}
Read(fs, ps) == UNION {fs[p].recs : p \in ps \cap DOMAIN fs}
Whole(fs, ps) == \A p \in ps \cap DOMAIN fs : ~fs[p].torn

\* What the compactor has yet to look at is closed; what it has in hand is not
\* the active segment and not to be looked at again.
ListsAt(c, ps, active, next) ==
    /\ c \in [pc : Labels, todo : Seq(Nat), run : Seq(Nat), left : Seq(Nat), tmp : {c.tmp}, cutoff : Nat]
    /\ IsSegment(c.tmp)
    /\ IsInjective(c.todo) /\ IsInjective(c.run) /\ IsInjective(c.left)
    /\ Range(c.todo) \subseteq ps \ {active}
    /\ active \notin Range(c.run) /\ Range(c.run) \cap Range(c.todo) = {}
    /\ \A p \in Range(c.run) : p < next
    /\ Range(c.left) \subseteq Range(c.run)
    /\ c.pc \in {"idle", "scan", "retain"} => c.run = <<>>
    /\ c.pc = "idle" => c.todo = <<>>

\* A merge: until the rename the .tmp file holds the run's entries; after it the
\* run's first file does, and all of the run's entries.
MergeAt(c, fs, ps, ix) ==
    /\ c.pc \in {"unindex", "rename", "bloom", "reindex", "manager"} =>
         Len(c.run) >= 2 /\ Range(c.run) \subseteq ps
    /\ c.pc = "unindex" => c.left # <<>>
    /\ c.pc = "rename" => c.left = <<>>
    /\ c.pc \in {"unindex", "rename"} =>
         Whole(fs, Range(c.run)) /\ c.tmp.recs = Read(fs, Range(c.run))
    /\ c.pc \in {"bloom", "reindex", "manager"} =>
         c.tmp.recs = fs[Head(c.run)].recs /\ Read(fs, Range(c.run)) \subseteq c.tmp.recs
    /\ c.pc = "manager" => {Head(c.run)} \X c.tmp.recs \subseteq ix

\* Deletion: the files to go are off the list, and what they hold is in the
\* merged file and indexed there, or expired.
DeleteAt(c, fs, ps, ix) ==
    /\ c.pc \in {"delete", "delbloom"} =>
         /\ c.run # <<>> /\ c.left # <<>> /\ Range(c.left) \cap ps = {}
         /\ Len(c.run) > 1 =>
              /\ Head(c.run) \in ps
              /\ c.tmp.recs = fs[Head(c.run)].recs
              /\ Read(fs, Range(c.left)) \subseteq c.tmp.recs
              /\ {Head(c.run)} \X c.tmp.recs \subseteq ix
         /\ ~(Len(c.run) > 1) =>
              \A e \in Read(fs, Range(c.left)) : TsOf[e] < c.cutoff
    /\ c.pc = "expire" =>
         /\ Len(c.run) = 1 /\ Range(c.run) \cap ps = {}
         /\ \A e \in Read(fs, Range(c.run)) : TsOf[e] < c.cutoff

CompactorAt(c, fs, ps, active, next, ix) ==
    ListsAt(c, ps, active, next) /\ MergeAt(c, fs, ps, ix) /\ DeleteAt(c, fs, ps, ix)

CompactorOK ==
    /\ CompactorAt(comp, files, Range(paths), fd.path, nextSeq, idx)
    /\ comp.cutoff <= cutoff

Holds(p, e) == p \in DOMAIN files /\ e \in files[p].recs
Safe(e) == Expired(e) \/ \E p : Holds(p, e)
Found(e) == e \in Merging \/ Expired(e) \/ \E p : <<p, e>> \in idx /\ Holds(p, e)

\* Entries of handlers between the write and the acknowledgement count as acked.
Durable ==
    /\ \A e \in acked : Safe(e)
    /\ \A w \in Writers : writer[w].pc = "index" => Safe(writer[w].entry)

\* Such an entry may still wait for its idx.Add, in the file it was written to.
Indexed ==
    phase # "down" =>
        /\ \A e \in acked : Found(e)
        /\ \A w \in Writers : writer[w].pc = "index" =>
             Found(writer[w].entry) \/ Holds(writer[w].path, writer[w].entry)

SInv == NamesSort /\ FilesOK /\ HandlersOK /\ ManagerOK /\ CompactorOK /\ Durable /\ Indexed

-----------------------------------------------------------------------------
(* The compactor's invariant when others move.                             *)

\* A sequence that is not empty has its first name among its names.
LEMMA HeadIn ==
  ASSUME NEW s \in Seq(Nat), s # <<>>
  PROVE  Head(s) \in Range(s)
BY TailList

\* An idle compactor satisfies its invariant whatever the manager does.
LEMMA CompactorIdle ==
  ASSUME NEW fs, NEW ps, NEW a, NEW n, NEW ix
  PROVE  CompactorAt(IdleComp, fs, ps, a, n, ix) /\ IdleComp.cutoff = 0
<1>1. IsSegment(EmptySegment)
  BY DEF IsSegment, EmptySegment
<1>2. <<>> \in Seq(Nat) /\ Range(<<>>) = {} /\ IsInjective(<<>>)
  BY EmptyList
<1>3. IdleComp \in [pc : Labels, todo : Seq(Nat), run : Seq(Nat), left : Seq(Nat),
                    tmp : {IdleComp.tmp}, cutoff : Nat]
  BY <1>2 DEF IdleComp, Labels
<1>4. /\ IdleComp.pc = "idle" /\ IdleComp.todo = <<>> /\ IdleComp.run = <<>> /\ IdleComp.left = <<>>
      /\ IdleComp.tmp = EmptySegment /\ IdleComp.cutoff = 0
  BY DEF IdleComp
<1>5. ListsAt(IdleComp, ps, a, n)
  BY <1>1, <1>2, <1>3, <1>4, Zenon DEF ListsAt
<1>6. MergeAt(IdleComp, fs, ps, ix)
  BY <1>4 DEF MergeAt
<1>7. DeleteAt(IdleComp, fs, ps, ix)
  BY <1>4 DEF DeleteAt
<1> QED
  BY <1>4, <1>5, <1>6, <1>7, Zenon DEF CompactorAt

-----------------------------------------------------------------------------
(* Durable and Indexed when no handler changes sides.                      *)

\* No handler comes to the idx.Add of a new entry in this step.
NoneIndexes ==
    \A w \in Writers : writer'[w].pc = "index" =>
        writer[w].pc = "index" /\ writer'[w].entry = writer[w].entry /\ writer'[w].path = writer[w].path

\* A step that loses no entry and finishes no append keeps entries durable.
LEMMA DurableStep ==
  ASSUME HandlersOK, Durable, acked' = acked, NoneIndexes,
         \A e \in AllEntries : Safe(e) => Safe(e)'
  PROVE  Durable'
<1>1. \A e \in acked' : Safe(e)'
  BY Zenon DEF Durable, HandlersOK
<1>2. ASSUME NEW w \in Writers, writer'[w].pc = "index"
      PROVE  Safe(writer[w].entry)' 
  <2>1. PICK e : e = writer[w].entry
    OBVIOUS
  <2>2. writer'[w].entry = e /\ Safe(e) /\ writer[w].pc = "index"
    BY <1>2, <2>1, Zenon DEF Durable, NoneIndexes
  <2>4. e \in AllEntries
    BY <2>1, <2>2 DEF HandlersOK, AllEntries
  <2>3. Safe(e)'
    BY <2>2, <2>4, Zenon
  <2> QED
    BY <2>2, <2>3 DEF Safe
<1> QED
  BY <1>1, <1>2, Zenon DEF Durable

\* The same for the index.
LEMMA IndexedStep ==
  ASSUME HandlersOK, phase # "down", Indexed, acked' = acked, NoneIndexes,
         \A e \in AllEntries : Found(e) => Found(e)',
         \A e \in AllEntries : \A p : Holds(p, e) => Holds(p, e)' \/ Found(e)'
  PROVE  Indexed'
<1> USE ZenonT(30)
<1>1. \A e \in acked' : Found(e)'
  BY DEF Indexed, HandlersOK
<1>2. ASSUME NEW w \in Writers, writer'[w].pc = "index"
      PROVE  Found(writer[w].entry)' \/ Holds(writer[w].path, writer[w].entry)'
  <2>1. PICK e, p : e = writer[w].entry /\ p = writer[w].path
    OBVIOUS
  <2>2. writer'[w].entry = e /\ writer'[w].path = p /\ (Found(e) \/ Holds(p, e))
    BY <1>2, <2>1 DEF Indexed, NoneIndexes
  <2>4. writer[w].pc = "index"
    BY <1>2 DEF NoneIndexes
  <2>5. e \in AllEntries
    BY <2>1, <2>4 DEF HandlersOK, AllEntries
  <2>3. Found(e)' \/ Holds(p, e)'
    BY <2>2, <2>5
  <2> QED
    BY <2>2, <2>3 DEF Found, Holds
<1> QED
  BY <1>1, <1>2 DEF Indexed

\* No file goes and no file loses entries.
FilesGrow ==
    \A p \in DOMAIN files : p \in DOMAIN files' /\ files[p].recs \subseteq files'[p].recs

\* Growing files, a growing index and a later cutoff lose nothing.
LEMMA NothingLost ==
  ASSUME NEW e \in AllEntries, comp' = comp, cutoff \in Nat, cutoff' \in Nat, cutoff <= cutoff',
         idx \subseteq idx', FilesGrow
  PROVE  /\ Safe(e) => Safe(e)'
         /\ Found(e) => Found(e)'
         /\ \A p : Holds(p, e) => Holds(p, e)'
<1>1. Expired(e) => Expired(e)'
  <2>1. TsOf[e] \in Nat
    BY EntriesAssumption
  <2> QED
    BY <2>1 DEF Expired
<1>2. \A p : Holds(p, e) => Holds(p, e)'
  BY Zenon DEF Holds, FilesGrow
<1>3. e \in Merging => e \in Merging'
  BY Zenon DEF Merging
<1> QED
  BY <1>1, <1>2, <1>3, Zenon DEF Safe, Found

\* The compactor stands still, and its files are left alone.
HandsOff ==
    /\ cutoff <= cutoff' /\ nextSeq <= nextSeq' /\ idx \subseteq idx' /\ comp' = comp /\ FilesGrow
    /\ Range(paths) \ {fd.path} \subseteq Range(paths') \ {fd'.path}
    /\ fd'.path \notin Range(comp.run) /\ Range(paths') \cap Range(comp.run) \subseteq Range(paths)
    /\ \A p \in Range(comp.run) : /\ p \in DOMAIN files <=> p \in DOMAIN files'
                                  /\ p \in DOMAIN files => files'[p] = files[p]

\* A step of a handler, of a query or of the environment.
LEMMA OthersStep ==
    SInv /\ phase # "down" /\ FilesOK' /\ HandlersOK' /\ ManagerOK' /\ HandsOff =>
         /\ CompactorOK'
         /\ acked' = acked /\ NoneIndexes => SInv'
         /\ \A e \in AllEntries : /\ Safe(e) => Safe(e)'
                                  /\ Found(e) => Found(e)'
                                  /\ \A p : Holds(p, e) => Holds(p, e)'
  \* What files hold depends on those files alone.
<1> USE ZenonT(30)
<1>ReadSame.
    ASSUME NEW fs, NEW gs, NEW ps,
           \A p \in ps : /\ p \in DOMAIN fs <=> p \in DOMAIN gs
                         /\ p \in DOMAIN fs => gs[p] = fs[p]
    PROVE  Read(gs, ps) = Read(fs, ps) /\ (Whole(fs, ps) => Whole(gs, ps))
  <2> USE <1>ReadSame
  <2>1. ASSUME NEW e PROVE e \in Read(gs, ps) <=> e \in Read(fs, ps)
    BY DEF Read
  <2> QED
    BY <2>1 DEF Whole
  \* Steps that leave the files in the compactor's hands alone, take no closed
  \* segment off the list and nothing out of the index, keep its invariant.
<1>CompactorFrame.
    ASSUME NEW c, NEW fs, NEW gs, NEW ps, NEW qs, NEW a, NEW b, NEW m \in Nat, NEW n \in Nat, NEW ix, NEW jx,
           CompactorAt(c, fs, ps, a, m, ix), ps \subseteq DOMAIN fs,
           ps \ {a} \subseteq qs \ {b}, b \notin Range(c.run), qs \cap Range(c.run) \subseteq ps,
           m <= n, ix \subseteq jx,
           \A p \in Range(c.run) : /\ p \in DOMAIN fs <=> p \in DOMAIN gs
                                   /\ p \in DOMAIN fs => gs[p] = fs[p]
    PROVE  CompactorAt(c, gs, qs, b, n, jx)
  <2> USE <1>CompactorFrame
  <2> DEFINE R == Range(c.run)
             L == Range(c.left)
  <2>1. ListsAt(c, ps, a, m) /\ MergeAt(c, fs, ps, ix) /\ DeleteAt(c, fs, ps, ix)
    BY DEF CompactorAt
  <2>2. c.run \in Seq(Nat) /\ R \subseteq Nat /\ L \subseteq R /\ a \notin R
    <3>1. c.run \in Seq(Nat)
      BY <2>1 DEF ListsAt
    <3>2. R \subseteq Nat
      BY <3>1, ListNames
    <3> QED
      BY <2>1, <3>1, <3>2 DEF ListsAt
  <2>3. \A p \in R : p < n
    BY <2>1, <2>2, SMT DEF ListsAt
  <2>4. ListsAt(c, qs, b, n)
    BY <2>1, <2>3 DEF ListsAt
  <2>5. Read(gs, R) = Read(fs, R) /\ Read(gs, L) = Read(fs, L) /\ (Whole(fs, R) => Whole(gs, R))
    <3>1. \A p \in L : (p \in DOMAIN fs <=> p \in DOMAIN gs) /\ (p \in DOMAIN fs => gs[p] = fs[p])
      BY <2>2
    <3> QED
      BY <3>1, <1>ReadSame
  <2>6. c.run # <<>> => Head(c.run) \in R
    BY <2>2, HeadIn
  <2>7. MergeAt(c, gs, qs, jx)
    <3>1. ps \cap R \subseteq qs
      BY <2>2
    <3>2. Len(c.run) >= 2 => c.run # <<>>
      BY <2>2, SMT
    <3>3. Head(c.run) \in R \cap ps => gs[Head(c.run)] = fs[Head(c.run)]
      OBVIOUS
    <3>4. R \subseteq ps /\ c.run # <<>> => Head(c.run) \in R \cap ps
      BY <2>6
    <3> HIDE DEF R
    <3> QED
      BY <2>1, <2>5, <3>1, <3>2, <3>3, <3>4 DEF MergeAt, R
  <2>8. DeleteAt(c, gs, qs, jx)
    <3>1. L \cap qs \subseteq L \cap ps /\ R \cap qs \subseteq R \cap ps /\ ps \cap R \subseteq qs
      BY <2>2
    <3>2. Head(c.run) \in R \cap ps => gs[Head(c.run)] = fs[Head(c.run)]
      OBVIOUS
    <3>3. ASSUME c.pc \in {"delete", "delbloom"}
          PROVE  c.run # <<>> /\ c.left # <<>> /\ L \cap qs = {}
      BY <2>1, <3>1, <3>3 DEF DeleteAt
    <3>4. ASSUME c.pc \in {"delete", "delbloom"}, Len(c.run) > 1
          PROVE  /\ Head(c.run) \in qs
                 /\ c.tmp.recs = gs[Head(c.run)].recs
                 /\ Read(gs, L) \subseteq c.tmp.recs
                 /\ {Head(c.run)} \X c.tmp.recs \subseteq jx
      BY <2>1, <2>5, <2>6, <3>1, <3>2, <3>3, <3>4 DEF DeleteAt
    <3>5. ASSUME c.pc \in {"delete", "delbloom"}, ~(Len(c.run) > 1)
          PROVE  \A e \in Read(gs, L) : TsOf[e] < c.cutoff
      BY <2>1, <2>5, <3>5 DEF DeleteAt
    <3>6. ASSUME c.pc = "expire"
          PROVE  Len(c.run) = 1 /\ R \cap qs = {} /\ \A e \in Read(gs, R) : TsOf[e] < c.cutoff
      BY <2>1, <2>5, <3>1, <3>6 DEF DeleteAt
    <3> QED
      BY <3>3, <3>4, <3>5, <3>6 DEF DeleteAt
  <2> QED
    BY <2>4, <2>7, <2>8 DEF CompactorAt
<1> SUFFICES ASSUME SInv, phase # "down", FilesOK', HandlersOK', ManagerOK', HandsOff
             PROVE  /\ CompactorOK'
                    /\ acked' = acked /\ NoneIndexes => SInv'
                    /\ \A e \in AllEntries : /\ Safe(e) => Safe(e)'
                                             /\ Found(e) => Found(e)'
                                             /\ \A p : Holds(p, e) => Holds(p, e)'
  OBVIOUS
<1> USE DEF HandsOff
<1>1. FilesOK /\ HandlersOK /\ ManagerOK /\ CompactorOK /\ Durable /\ Indexed
  BY DEF SInv
<1>2. cutoff \in Nat /\ cutoff' \in Nat /\ nextSeq \in Nat /\ nextSeq' \in Nat
  BY <1>1 DEF HandlersOK
<1>3. Range(paths) \subseteq DOMAIN files
  BY <1>1 DEF ManagerOK
<1>4. CompactorAt(comp, files', Range(paths'), fd'.path, nextSeq', idx')
  <2>1. CompactorAt(comp, files, Range(paths), fd.path, nextSeq, idx)
    BY <1>1 DEF CompactorOK
  <2> QED
    BY <1>2, <1>3, <2>1, <1>CompactorFrame, SMTT(30)
<1>5. comp.cutoff \in Nat /\ comp.cutoff <= cutoff
  BY <1>1 DEF CompactorOK, CompactorAt, ListsAt
<1>6. comp.cutoff <= cutoff'
  BY <1>2, <1>5, SMT
<1>7. CompactorOK'
  BY <1>4, <1>6 DEF CompactorOK
<1>8. ASSUME NEW e \in AllEntries
      PROVE  /\ Safe(e) => Safe(e)'
             /\ Found(e) => Found(e)'
             /\ \A p : Holds(p, e) => Holds(p, e)'
  BY <1>2, NothingLost
<1>9. ASSUME acked' = acked, NoneIndexes PROVE SInv'
  <2>1. Durable'
    BY <1>1, <1>8, <1>9, DurableStep
  <2>2. Indexed'
    BY <1>1, <1>8, <1>9, IndexedStep
  <2> QED
    BY <1>7, <2>1, <2>2 DEF SInv
<1> QED
  BY <1>7, <1>8, <1>9

-----------------------------------------------------------------------------
(* The steps of the handlers, of queries and of the environment.           *)

\* An empty directory and a node that is down.
LEMMA InitSInv ==
  ASSUME NamesSort, Init
  PROVE  SInv
<1>1. FilesOK
  <2>1. DOMAIN files = {}
    BY DEF Init
  <2> QED
    BY <2>1, NoneFinite DEF FilesOK
<1>2. HandlersOK
  <2>1. IdleWriter \in Handlers
    BY DEF IdleWriter, Handlers
  <2>2. writer \in [Writers -> Handlers]
    BY <2>1 DEF Init
  <2>3. \A w \in Writers : writer[w].pc = "idle"
    BY DEF Init, IdleWriter
  <2>4. comp.pc = "idle"
    BY DEF Init, IdleComp
  <2> QED
    BY <2>2, <2>3, <2>4 DEF Init, HandlersOK
<1>3. ManagerOK
  BY DEF Init, ManagerOK
<1>4. CompactorOK
  <2>1. comp = IdleComp /\ cutoff = 0
    BY Zenon DEF Init
  <2>2. CompactorAt(comp, files, Range(paths), fd.path, nextSeq, idx) /\ comp.cutoff = 0
    BY <2>1, CompactorIdle, Zenon
  <2> QED
    BY <2>1, <2>2 DEF CompactorOK
<1>5. Durable /\ Indexed
  BY DEF Init, Durable, Indexed, IdleWriter
<1> QED
  BY <1>1, <1>2, <1>3, <1>4, <1>5, Zenon DEF SInv

\* A step that touches neither the files, the manager's list, the index, the
\* compactor nor what was acknowledged.
LEMMA QuietStep ==
  ASSUME SInv, UNCHANGED <<files, phase, paths, nextSeq, fd, idx, comp, acked, cutoff>>,
         HandlersOK', NoneIndexes
  PROVE  SInv'
<1> USE ZenonT(30)
<1>1. FilesOK /\ HandlersOK /\ ManagerOK /\ CompactorOK /\ Durable /\ Indexed
  BY DEF SInv
<1>2. FilesOK' /\ ManagerOK' /\ CompactorOK'
  BY <1>1 DEF FilesOK, ManagerOK, CompactorOK
<1>3. ASSUME NEW e PROVE /\ Safe(e) => Safe(e)'
                         /\ Found(e) => Found(e)'
                         /\ \A p : Holds(p, e) => Holds(p, e)'
  BY DEF Safe, Found, Holds, Merging, Expired
<1>4. Durable'
  BY <1>1, <1>3, DurableStep
<1>5. Indexed'
  <2>1. CASE phase = "down"
    BY <2>1 DEF Indexed
  <2>2. CASE phase # "down"
    BY <1>1, <1>3, <2>2, IndexedStep
  <2> QED
    BY <2>1, <2>2
<1> QED
  BY <1>2, <1>4, <1>5 DEF SInv

\* A handler that runs goes on to another step of its append.
LEMMA HandlerMoves ==
  ASSUME HandlersOK, NEW w \in Writers, NEW l \in {"create", "truncate", "mark", "header", "data"},
         writer[w].pc # "idle", SetWriter(w, l), UNCHANGED <<phase, comp, acked, cutoff>>, nextSeq' \in Nat
  PROVE  HandlersOK' /\ NoneIndexes /\ phase = "serving"
<1> USE ZenonT(30)
<1>1. writer \in [Writers -> Handlers] /\ writer[w] \in Handlers
  BY DEF HandlersOK
<1>2. /\ writer'[w] = [writer[w] EXCEPT !.pc = l]
      /\ \A v \in Writers : v # w => writer'[v] = writer[v]
      /\ DOMAIN writer' = Writers
  BY <1>1 DEF SetWriter
<1>3. writer'[w] \in Handlers /\ writer'[w].entry = writer[w].entry /\ writer'[w].pc = l
  BY <1>1, <1>2 DEF Handlers
<1>4. writer' \in [Writers -> Handlers]
  BY <1>1, <1>3 DEF SetWriter
<1>5. phase = "serving" /\ writer[w].entry \in Entries
  BY DEF HandlersOK
<1>6. \A v \in Writers : writer'[v].pc # "idle" => phase = "serving" /\ writer'[v].entry \in Entries
  BY <1>2, <1>3, <1>5 DEF HandlersOK
<1>7. HandlersOK'
  BY <1>4, <1>6 DEF HandlersOK
<1>8. NoneIndexes
  BY <1>2, <1>3 DEF NoneIndexes
<1> QED
  BY <1>5, <1>7, <1>8

\* What the invariant says of a node that is up.
LEMMA NodeUp ==
  ASSUME SInv, phase # "down"
  PROVE  /\ paths \in Seq(Nat) /\ paths # <<>> /\ IsInjective(paths) /\ Range(paths) \subseteq DOMAIN files
         /\ fd.path = Last(paths) /\ fd.attached /\ fd.size = files[fd.path].size
         /\ fd.path \in Range(paths) /\ fd.path \in DOMAIN files
         /\ nextSeq \in Nat \ {0} /\ nextSeq \notin DOMAIN files /\ DOMAIN files \subseteq Nat
         /\ \A p \in DOMAIN files : p < nextSeq
<1> USE ZenonT(30)
<1>1. FilesOK /\ HandlersOK /\ ManagerOK
  BY DEF SInv
<1>2. /\ paths \in Seq(Nat) /\ paths # <<>> /\ IsInjective(paths) /\ Range(paths) \subseteq DOMAIN files
      /\ \A p \in DOMAIN files : p < nextSeq
      /\ fd = [path |-> Last(paths), attached |-> TRUE, size |-> files[Last(paths)].size]
  BY <1>1 DEF ManagerOK
<1>3. fd.path = Last(paths) /\ fd.attached /\ fd.size = files[fd.path].size
  BY <1>2
<1>4. Last(paths) \in Range(paths)
  BY <1>2, FrontList
<1>5. nextSeq \in Nat /\ DOMAIN files \subseteq Nat \ {0}
  BY <1>1 DEF FilesOK, HandlersOK
<1>6. fd.path \in DOMAIN files
  BY <1>2, <1>3, <1>4
<1>7. nextSeq # 0 /\ nextSeq \notin DOMAIN files
  BY <1>2, <1>5, <1>6, SMT
<1> QED
  BY <1>2, <1>3, <1>4, <1>5, <1>6, <1>7

\* The names in the compactor's hands are below nextSeq and not the active one.
LEMMA InHand ==
  ASSUME SInv
  PROVE  /\ comp.run \in Seq(Nat) /\ fd.path \notin Range(comp.run)
         /\ \A p \in Range(comp.run) : p < nextSeq
         /\ nextSeq \notin Range(comp.run)
<1>1. ListsAt(comp, Range(paths), fd.path, nextSeq) /\ nextSeq \in Nat
  BY Zenon DEF SInv, CompactorOK, CompactorAt, HandlersOK
<1>2. comp.run \in Seq(Nat)
  BY <1>1 DEF ListsAt
<1>3. fd.path \notin Range(comp.run) /\ \A p \in Range(comp.run) : p < nextSeq
  BY <1>1, Zenon DEF ListsAt
<1>4. nextSeq \notin Range(comp.run)
  BY <1>1, <1>3
<1> QED
  BY <1>2, <1>3, <1>4

\* openNewSegment creates the file numbered nextSeq and makes it the active one.
LEMMA OpenNewSegmentStep ==
  ASSUME SInv, NEW w \in Writers, OpenNewSegment(w)
  PROVE  SInv' /\ FilesGrow
<1> USE ZenonT(30)
<1>1. FilesOK /\ HandlersOK /\ ManagerOK /\ CompactorOK
  BY DEF SInv
<1>2. /\ writer[w].pc = "create" /\ SetWriter(w, "truncate")
      /\ UNCHANGED <<phase, comp, acked, cutoff, idx>>
      /\ nextSeq' = nextSeq + 1 /\ paths' = Append(paths, nextSeq)
      /\ fd' = [path |-> nextSeq, attached |-> TRUE, size |-> files'[nextSeq].size]
  BY DEF OpenNewSegment, history
<1>3. phase = "serving" /\ nextSeq \in Nat
  BY <1>1, <1>2 DEF HandlersOK
<1>4. nextSeq' \in Nat /\ nextSeq <= nextSeq'
  BY <1>2, <1>3, SMT
<1>5. HandlersOK' /\ NoneIndexes
  BY <1>1, <1>2, <1>4, HandlerMoves
<1>6. phase # "down"
  BY <1>3
<1>7. /\ paths \in Seq(Nat) /\ paths # <<>> /\ IsInjective(paths) /\ Range(paths) \subseteq DOMAIN files
      /\ nextSeq \in Nat \ {0} /\ nextSeq \notin DOMAIN files /\ DOMAIN files \subseteq Nat
      /\ \A p \in DOMAIN files : p < nextSeq
  BY <1>6, NodeUp
<1>8. files' = Put(files, nextSeq, EmptySegment)
  BY <1>7 DEF OpenNewSegment
<1>9. /\ DOMAIN files' = DOMAIN files \cup {nextSeq} /\ files'[nextSeq] = EmptySegment
      /\ \A q \in DOMAIN files : files'[q] = files[q]
  BY <1>7, <1>8 DEF Put
<1>10. FilesOK'
  <2>1. IsFiniteSet(DOMAIN files \cup {nextSeq})
    BY <1>1, GrownFinite DEF FilesOK
  <2>2. IsSegment(EmptySegment)
    BY DEF IsSegment, EmptySegment
  <2> QED
    BY <1>1, <1>7, <1>9, <2>1, <2>2 DEF FilesOK
<1>11. /\ paths' \in Seq(Nat) /\ paths' # <<>> /\ Range(paths') = Range(paths) \cup {nextSeq}
       /\ Last(paths') = nextSeq /\ IsInjective(paths')
  <2>1. nextSeq \notin Range(paths)
    BY <1>7
  <2> QED
    BY <1>2, <1>7, <2>1, AppendList, SMT
<1>12. ManagerOK'
  <2>1. \A p \in DOMAIN files' : p < nextSeq'
    BY <1>2, <1>7, <1>9, SMT
  <2>2. Range(paths') \subseteq DOMAIN files'
    BY <1>7, <1>9, <1>11
  <2>3. fd' = [path |-> Last(paths'), attached |-> TRUE, size |-> files'[Last(paths')].size]
    BY <1>2, <1>11
  <2> QED
    BY <1>11, <2>1, <2>2, <2>3 DEF ManagerOK
<1>13. fd'.path = nextSeq /\ nextSeq \notin Range(comp.run) /\ fd.path \notin Range(comp.run)
  BY <1>2, InHand
<1>14. Range(paths) \ {fd.path} \subseteq Range(paths') \ {fd'.path}
  BY <1>7, <1>11, <1>13
<1>15. Range(paths') \cap Range(comp.run) \subseteq Range(paths)
  BY <1>11, <1>13
<1>16. FilesGrow
  BY <1>9 DEF FilesGrow
<1>17. \A p \in Range(comp.run) : /\ p \in DOMAIN files <=> p \in DOMAIN files'
                                  /\ p \in DOMAIN files => files'[p] = files[p]
  BY <1>9, <1>13
<1>18. idx \subseteq idx' /\ cutoff <= cutoff' /\ comp' = comp /\ acked' = acked
  BY <1>1, <1>2, SMT DEF HandlersOK
<1>19. fd'.path \notin Range(comp.run)
  BY <1>13
<1>20. SInv'
  <2>1. HandsOff
    BY <1>4, <1>14, <1>15, <1>16, <1>17, <1>18, <1>19 DEF HandsOff
  <2> QED
    BY <1>5, <1>6, <1>10, <1>12, <1>18, <2>1, OthersStep
<1> QED
  BY <1>16, <1>20

\* A write to the active segment.
LEMMA ActiveWritten ==
  ASSUME SInv, phase # "down", NEW g, IsSegment(g), files[fd.path].recs \subseteq g.recs,
         files' = [files EXCEPT ![fd.path] = g],
         fd' = [path |-> fd.path, attached |-> TRUE, size |-> g.size],
         UNCHANGED <<paths, nextSeq, idx, comp, cutoff>>, HandlersOK'
  PROVE  /\ FilesOK' /\ ManagerOK' /\ CompactorOK' /\ FilesGrow
         /\ acked' = acked /\ NoneIndexes => SInv'
         /\ \A e \in AllEntries : /\ Safe(e) => Safe(e)'
                                  /\ Found(e) => Found(e)'
                                  /\ \A p : Holds(p, e) => Holds(p, e)'
<1> USE ZenonT(30)
<1>1. FilesOK /\ HandlersOK /\ ManagerOK
  BY DEF SInv
<1>2. /\ paths \in Seq(Nat) /\ paths # <<>> /\ IsInjective(paths) /\ Range(paths) \subseteq DOMAIN files
      /\ fd.path = Last(paths) /\ fd.path \in DOMAIN files
      /\ \A p \in DOMAIN files : p < nextSeq
  BY NodeUp
<1>3. /\ DOMAIN files' = DOMAIN files /\ files'[fd.path] = g
      /\ \A q \in DOMAIN files : q # fd.path => files'[q] = files[q]
  BY <1>2
<1>4. FilesOK'
  BY <1>1, <1>3 DEF FilesOK
<1>5. fd'.path = fd.path /\ fd' = [path |-> Last(paths), attached |-> TRUE, size |-> files'[Last(paths)].size]
  BY <1>2, <1>3
<1>6. ManagerOK'
  BY <1>2, <1>3, <1>5 DEF ManagerOK
<1>7. FilesGrow
  BY <1>3 DEF FilesGrow
<1>8. fd.path \notin Range(comp.run)
  BY InHand
<1>9. fd'.path \notin Range(comp.run)
  BY <1>5, <1>8
<1>10. \A p \in Range(comp.run) : /\ p \in DOMAIN files <=> p \in DOMAIN files'
                                  /\ p \in DOMAIN files => files'[p] = files[p]
  BY <1>3, <1>8
<1>11. cutoff <= cutoff' /\ nextSeq <= nextSeq' /\ idx \subseteq idx' /\ comp' = comp
  BY <1>1, SMT DEF HandlersOK
<1>12. /\ Range(paths) \ {fd.path} \subseteq Range(paths') \ {fd'.path}
       /\ Range(paths') \cap Range(comp.run) \subseteq Range(paths)
  BY <1>5
<1>13. /\ CompactorOK' /\ (acked' = acked /\ NoneIndexes => SInv')
       /\ \A e \in AllEntries : /\ Safe(e) => Safe(e)'
                                /\ Found(e) => Found(e)'
                                /\ \A p : Holds(p, e) => Holds(p, e)'
  <2>1. HandsOff
    BY <1>7, <1>9, <1>10, <1>11, <1>12 DEF HandsOff
  <2> QED
    BY <1>4, <1>6, <2>1, OthersStep
<1> QED
  BY <1>4, <1>6, <1>7, <1>13

\* The length prefix of a record: until the payload follows, the file ends in a torn record.
LEMMA WriteHeaderStep ==
  ASSUME SInv, NEW w \in Writers, WriteHeader(w)
  PROVE  SInv' /\ FilesGrow
<1> DEFINE f == files[fd.path]
           g == [f EXCEPT !.torn = TRUE]
<1>1. HandlersOK /\ FilesOK
  BY Zenon DEF SInv
<1>2. /\ writer[w].pc = "header" /\ SetWriter(w, "data")
      /\ UNCHANGED <<phase, comp, acked, cutoff, idx, paths, nextSeq, fd>>
  BY DEF WriteHeader, manager, history
<1>3. HandlersOK' /\ NoneIndexes /\ phase = "serving"
  <2>1. nextSeq' \in Nat
    BY <1>1, <1>2 DEF HandlersOK
  <2> QED
    BY <1>1, <1>2, <2>1, HandlerMoves
<1>4. phase # "down"
  BY <1>3
<1>5. fd.attached /\ fd.path \in DOMAIN files
  BY <1>4, NodeUp, Zenon
<1>6. files' = [files EXCEPT ![fd.path] = g]
  BY <1>5 DEF WriteHeader
<1>7. IsSegment(f)
  BY <1>1, <1>5, Zenon DEF FilesOK
<1>8. IsSegment(g) /\ f.recs = g.recs /\ f.size = g.size
  BY <1>7, Zenon DEF IsSegment
<1>9. fd = [path |-> fd.path, attached |-> TRUE, size |-> f.size]
  <2>1. fd = [path |-> Last(paths), attached |-> TRUE, size |-> files[Last(paths)].size]
    BY <1>4, Zenon DEF SInv, ManagerOK
  <2>2. fd.path = Last(paths)
    BY <1>4, NodeUp, Zenon
  <2> QED
    BY <2>1, <2>2
<1> HIDE DEF g
<1>10. fd' = [path |-> fd.path, attached |-> TRUE, size |-> g.size]
  BY <1>2, <1>8, <1>9
<1>11. files[fd.path].recs \subseteq g.recs
  BY <1>8
<1>12. UNCHANGED <<paths, nextSeq, idx, comp, cutoff>> /\ acked' = acked
  BY <1>2
<1> QED
  BY <1>3, <1>4, <1>6, <1>8, <1>10, <1>11, <1>12, ActiveWritten, Zenon

\* The handler ends its write with its entry in the file whose path it has.
LEMMA WriteDataEffect ==
  ASSUME SInv, NEW w \in Writers, WriteData(w)
  PROVE  /\ SInv' /\ FilesGrow /\ writer'[w].path \in DOMAIN files'
         /\ writer[w].entry \in files'[writer'[w].path].recs
         /\ \A v \in Writers : v # w => writer'[v] = writer[v]
<1> USE ZenonT(30)
<1> DEFINE f == files[fd.path]
           e == writer[w].entry
           g == [recs |-> f.recs \cup {e}, size |-> f.size + SizeOf[e], torn |-> FALSE]
<1>1. HandlersOK /\ FilesOK /\ Durable /\ Indexed
  BY DEF SInv
<1>2. /\ writer[w].pc = "data" /\ writer' = [writer EXCEPT ![w].pc = "index", ![w].path = Last(paths)]
      /\ UNCHANGED <<phase, comp, acked, cutoff, idx, paths, nextSeq>>
  BY DEF WriteData, ReturnedPath, history
<1>3. phase = "serving" /\ phase # "down" /\ e \in Entries /\ e \in AllEntries
  BY <1>1, <1>2 DEF HandlersOK, AllEntries
<1>4. fd.attached /\ fd.path \in DOMAIN files /\ fd.path = Last(paths) /\ fd.path \in Nat
  BY <1>3, NodeUp
<1>5. files' = [files EXCEPT ![fd.path] = g]
  BY <1>4 DEF WriteData
<1>6. fd = [path |-> fd.path, attached |-> TRUE, size |-> f.size]
  <2>1. fd = [path |-> Last(paths), attached |-> TRUE, size |-> files[Last(paths)].size]
    BY <1>3 DEF SInv, ManagerOK
  <2> QED
    BY <2>1, <1>4
<1>7. fd' = [path |-> fd.path, attached |-> TRUE, size |-> f.size + SizeOf[e]]
  <2>1. fd' = [fd EXCEPT !.size = @ + SizeOf[e]]
    BY DEF WriteData
  <2>2. PICK a, s : a = fd.path /\ s = f.size /\ fd = [path |-> a, attached |-> TRUE, size |-> s]
    BY <1>6
  <2>3. fd' = [path |-> a, attached |-> TRUE, size |-> s + SizeOf[e]]
    <3>1. fd = [path |-> a, attached |-> TRUE, size |-> s]
      BY <2>2
    <3> HIDE DEF e, f
    <3>2. PICK t : t = SizeOf[e]
      OBVIOUS
    <3>3. fd' = [fd EXCEPT !.size = @ + t]
      BY <2>1, <3>2
    <3>4. fd' = [path |-> a, attached |-> TRUE, size |-> s + t]
      BY <3>1, <3>3
    <3> QED
      BY <3>2, <3>4
  <2> QED
    BY <2>2, <2>3
<1>8. IsSegment(f)
  BY <1>1, <1>4 DEF FilesOK
<1>9. f.recs \subseteq AllEntries
  BY <1>8 DEF IsSegment
<1>10. IsSegment(g) /\ g.recs = f.recs \cup {e} /\ g.size = f.size + SizeOf[e]
  BY <1>3, <1>9 DEF IsSegment
<1> HIDE DEF g
<1>11. writer \in [Writers -> Handlers] /\ writer[w] \in Handlers
  BY <1>1 DEF HandlersOK
<1> DEFINE h == [writer[w] EXCEPT !.pc = "index", !.path = Last(paths)]
<1>12. h \in Handlers /\ h.entry = e /\ h.path = fd.path /\ h.pc = "index"
  BY <1>4, <1>11 DEF Handlers
<1>13. writer' = [writer EXCEPT ![w] = h]
  BY <1>2, <1>11 DEF Handlers
<1> HIDE DEF h
<1>14. /\ writer' \in [Writers -> Handlers] /\ writer'[w] = h
       /\ \A v \in Writers : v # w => writer'[v] = writer[v]
  BY <1>11, <1>12, <1>13
<1>15. HandlersOK'
  BY <1>1, <1>2, <1>3, <1>12, <1>14 DEF HandlersOK
<1>16. /\ FilesOK' /\ ManagerOK' /\ CompactorOK' /\ FilesGrow
       /\ \A d \in AllEntries : /\ Safe(d) => Safe(d)'
                                /\ Found(d) => Found(d)'
                                /\ \A p : Holds(p, d) => Holds(p, d)'
  <2>1. files[fd.path].recs \subseteq g.recs /\ fd' = [path |-> fd.path, attached |-> TRUE, size |-> g.size]
    BY <1>7, <1>10
  <2>2. UNCHANGED <<paths, nextSeq, idx, comp, cutoff>>
    BY <1>2
  <2> QED
    BY <1>3, <1>5, <1>10, <1>15, <2>1, <2>2, ActiveWritten
<1>17. h.path \in DOMAIN files' /\ e \in files'[h.path].recs
  BY <1>4, <1>5, <1>10, <1>12
<1>18. Durable'
  <2>1. \A d \in acked' : Safe(d)'
    BY <1>1, <1>2, <1>16 DEF Durable, HandlersOK
  <2>2. ASSUME NEW v \in Writers, writer'[v].pc = "index" PROVE Safe(writer[v].entry)'
    <3>1. CASE v = w
      BY <1>12, <1>14, <1>17, <3>1 DEF Safe, Holds
    <3>2. CASE v # w
      <4>1. PICK d : d = writer[v].entry
        OBVIOUS
      <4>2. writer'[v] = writer[v] /\ d \in AllEntries /\ Safe(d)
        BY <1>1, <1>14, <2>2, <3>2, <4>1 DEF Durable, HandlersOK, AllEntries
      <4>3. Safe(d)'
        BY <1>16, <4>2
      <4> QED
        BY <4>1, <4>2, <4>3 DEF Safe
    <3> QED
      BY <3>1, <3>2
  <2> QED
    BY <2>1, <2>2 DEF Durable
<1>19. Indexed'
  <2>1. \A d \in acked' : Found(d)'
    BY <1>1, <1>2, <1>3, <1>16 DEF Indexed, HandlersOK
  <2>2. ASSUME NEW v \in Writers, writer'[v].pc = "index"
        PROVE  Found(writer[v].entry)' \/ Holds(writer[v].path, writer[v].entry)'
    <3>1. CASE v = w
      BY <1>12, <1>14, <1>17, <3>1 DEF Holds
    <3>2. CASE v # w
      <4>1. PICK d, q : d = writer[v].entry /\ q = writer[v].path
        OBVIOUS
      <4>2. writer'[v] = writer[v] /\ d \in AllEntries /\ (Found(d) \/ Holds(q, d))
        BY <1>1, <1>3, <1>14, <2>2, <3>2, <4>1 DEF Indexed, HandlersOK, AllEntries
      <4>3. Found(d)' \/ Holds(q, d)'
        BY <1>16, <4>2
      <4> QED
        BY <4>1, <4>2, <4>3 DEF Found, Holds
    <3> QED
      BY <3>1, <3>2
  <2> QED
    BY <2>1, <2>2 DEF Indexed
<1> QED
  BY <1>14, <1>15, <1>16, <1>17, <1>18, <1>19 DEF SInv

\* NewManager lists the files, reopens the one the marker names, and the index is rebuilt.
LEMMA StartStep ==
    SInv /\ Start =>
         SInv' /\ FilesGrow
  \* What NewManager leaves behind: every file listed once, the active one last
  \* and open, and nextSeq above them all.
<1> USE ZenonT(30)
<1>NewManagerEffect.
    ASSUME NamesSort, FilesOK, NewManager
    PROVE  /\ FilesOK' /\ FilesGrow /\ nextSeq' \in Nat
           /\ paths' \in Seq(Nat) /\ paths' # <<>> /\ IsInjective(paths') /\ Range(paths') \subseteq DOMAIN files'
           /\ \A p \in DOMAIN files' : p < nextSeq'
           /\ fd' = [path |-> Last(paths'), attached |-> TRUE, size |-> files'[Last(paths')].size]
  <2> USE <1>NewManagerEffect
  <2> DEFINE D == DOMAIN files
             m == Max(D \cup {0})
  <2>1. IsFiniteSet(D) /\ D \subseteq Nat \ {0} /\ \A p \in D : IsSegment(files[p])
    BY DEF FilesOK
  <2>2. m \in Nat /\ \A p \in D : p <= m
    <3>1. D \cup {0} \in SUBSET Nat /\ D \cup {0} # {}
      BY <2>1, SMT
    <3>2. IsFiniteSet(D \cup {0})
      BY <2>1, GrownFinite
    <3>3. Max(D \cup {0}) \in D \cup {0} /\ \A n \in D \cup {0} : n <= Max(D \cup {0})
      BY <3>1, <3>2, LargestName
    <3> QED
      BY <3>1, <3>3
  <2>3. nextSeqFromMatches(D) = m + 1
    BY DEF nextSeqFromMatches
  <2> HIDE DEF m
  <2>4. CASE D = {}
    <3>1. PICK k : k = nextSeqFromMatches({})
      OBVIOUS
    <3>2. k \in Nat \ {0}
      BY <2>2, <2>3, <2>4, <3>1, SMT
    <3>3. /\ files' = Put(files, k, EmptySegment) /\ paths' = <<k>> /\ nextSeq' = k + 1
          /\ fd' = [path |-> k, attached |-> TRUE, size |-> 0]
      BY <2>4, <3>1 DEF NewManager
    <3>4. DOMAIN files' = {k} /\ files'[k] = EmptySegment
      BY <2>4, <3>3 DEF Put
    <3>5. IsSegment(EmptySegment) /\ EmptySegment.size = 0
      BY DEF IsSegment, EmptySegment
    <3>6. FilesOK'
      <4>1. IsFiniteSet({k})
        BY OneFinite
      <4> QED
        BY <3>2, <3>4, <3>5, <4>1 DEF FilesOK
    <3>7. FilesGrow
      BY <2>4 DEF FilesGrow
    <3>8. paths' \in Seq(Nat) /\ paths' # <<>> /\ Last(paths') = k
      BY <3>2, <3>3, SMT DEF Last
    <3>9. Range(paths') = {k} /\ IsInjective(paths')
      BY <3>2, <3>3, SMT DEF Range, IsInjective
    <3>10. nextSeq' \in Nat /\ k < nextSeq'
      BY <3>2, <3>3, SMT
    <3>11. fd' = [path |-> Last(paths'), attached |-> TRUE, size |-> files'[Last(paths')].size]
      BY <3>3, <3>4, <3>5, <3>8
    <3> QED
      BY <3>4, <3>6, <3>7, <3>8, <3>9, <3>10, <3>11
  <2>5. CASE D # {}
    <3>1. PICK a : a = ActiveAtStart
      OBVIOUS
    <3>2. a \in D /\ a \in Nat
      <4>1. D \in SUBSET Nat
        BY <2>1
      <4>2. Max(D) \in D
        BY <2>1, <2>5, <4>1, LargestName
      <4> QED
        BY <2>1, <3>1, <4>2 DEF ActiveAtStart
    <3>3. /\ files' = files /\ paths' = Append(Sorted(D \ {a}), a) /\ nextSeq' = m + 1
          /\ fd' = [path |-> a, attached |-> TRUE, size |-> files[a].size]
      BY <2>3, <2>5, <3>1 DEF NewManager, PathsAtStart, Size
    <3>4. /\ Sorted(D \ {a}) \in Seq(D \ {a}) /\ Range(Sorted(D \ {a})) = D \ {a}
          /\ IsInjective(Sorted(D \ {a}))
      <4>1. D \ {a} \in SUBSET Nat
        BY <2>1
      <4>2. IsFiniteSet(D \ {a})
        BY <2>1, PartFinite
      <4> QED
        BY <4>1, <4>2, SortedNames
    <3>5. PICK s : s = Sorted(D \ {a})
      OBVIOUS
    <3>6. s \in Seq(Nat) /\ Range(s) = D \ {a} /\ IsInjective(s)
      <4>1. PICK T : T = D \ {a}
        OBVIOUS
      <4>2. T \subseteq Nat /\ s \in Seq(T)
        BY <2>1, <3>4, <3>5, <4>1
      <4>3. s \in Seq(Nat)
        BY <4>2, WiderList
      <4> QED
        BY <3>4, <3>5, <4>3
    <3>7. /\ paths' \in Seq(Nat) /\ paths' # <<>> /\ IsInjective(paths')
          /\ Range(paths') = (D \ {a}) \cup {a} /\ Last(paths') = a
      <4>1. a \notin Range(s) /\ paths' = Append(s, a)
        BY <3>3, <3>5, <3>6
      <4>2. /\ Append(s, a) \in Seq(Nat) /\ Append(s, a) # <<>>
            /\ Range(Append(s, a)) = Range(s) \cup {a} /\ Last(Append(s, a)) = a
            /\ IsInjective(Append(s, a))
        BY <3>2, <3>6, <4>1, AppendList, SMT
      <4> QED
        BY <3>6, <4>1, <4>2
    <3>8. \A p \in DOMAIN files' : p < nextSeq'
      BY <2>1, <2>2, <3>3, SMT
    <3>9. nextSeq' \in Nat
      BY <2>2, <3>3, SMT
    <3>10. FilesOK' /\ FilesGrow
      BY <3>3 DEF FilesOK, FilesGrow
    <3>11. fd' = [path |-> Last(paths'), attached |-> TRUE, size |-> files'[Last(paths')].size]
      BY <3>3, <3>7
    <3> QED
      BY <3>2, <3>3, <3>7, <3>8, <3>9, <3>10, <3>11
  <2> QED
    BY <2>4, <2>5
<1> SUFFICES ASSUME SInv, Start
             PROVE  SInv' /\ FilesGrow
  OBVIOUS
<1>1. FilesOK /\ HandlersOK /\ CompactorOK /\ Durable
  BY DEF SInv
<1>2. /\ phase = "down" /\ phase' = "catchup" /\ NewManager /\ idx' = RebuildFromSegments
      /\ UNCHANGED <<writer, comp, acked, cutoff>>
  BY DEF Start, history
<1>3. /\ FilesOK' /\ FilesGrow /\ nextSeq' \in Nat
      /\ paths' \in Seq(Nat) /\ paths' # <<>> /\ IsInjective(paths') /\ Range(paths') \subseteq DOMAIN files'
      /\ \A p \in DOMAIN files' : p < nextSeq'
      /\ fd' = [path |-> Last(paths'), attached |-> TRUE, size |-> files'[Last(paths')].size]
  BY <1>1, <1>2, <1>NewManagerEffect DEF SInv
<1>4. ManagerOK'
  BY <1>3 DEF ManagerOK
<1>5. \A w \in Writers : writer[w].pc = "idle"
  BY <1>1, <1>2 DEF HandlersOK
<1>6. comp.pc = "idle"
  BY <1>1, <1>2 DEF HandlersOK
<1>7. HandlersOK' /\ NoneIndexes
  BY <1>1, <1>2, <1>3, <1>5, <1>6 DEF HandlersOK, NoneIndexes
<1>8. CompactorOK'
  <2>1. ListsAt(comp, Range(paths), fd.path, nextSeq) /\ comp.cutoff <= cutoff
    BY <1>1 DEF CompactorOK, CompactorAt
  <2>2. comp.run = <<>> /\ comp.todo = <<>>
    BY <1>6, <2>1 DEF ListsAt
  <2>3. Range(<<>>) = {}
    BY EmptyList
  <2>4. ListsAt(comp, Range(paths'), fd'.path, nextSeq')
    BY <1>6, <2>1, <2>2, <2>3 DEF ListsAt
  <2>5. MergeAt(comp, files', Range(paths'), idx')
    BY <1>6 DEF MergeAt
  <2>6. DeleteAt(comp, files', Range(paths'), idx')
    BY <1>6 DEF DeleteAt
  <2> QED
    BY <1>2, <2>1, <2>4, <2>5, <2>6 DEF CompactorOK, CompactorAt
<1>9. ASSUME NEW e, Safe(e) PROVE Safe(e)' /\ Found(e)'
  <2>1. CASE Expired(e)
    BY <1>2, <2>1 DEF Safe, Found, Expired
  <2>2. CASE \E p : Holds(p, e)
    <3>1. PICK p : Holds(p, e)
      BY <2>2
    <3>2. <<p, e>> \in idx'
      BY <1>2, <3>1, SMT DEF RebuildFromSegments, Holds, Contents
    <3>3. Holds(p, e)'
      BY <1>3, <3>1 DEF Holds, FilesGrow
    <3> QED
      BY <3>2, <3>3 DEF Safe, Found
  <2> QED
    BY <1>9, <2>1, <2>2 DEF Safe
<1>10. Durable'
  BY <1>1, <1>2, <1>7, <1>9, DurableStep
<1>11. Indexed'
  <2>1. \A e \in acked' : Found(e)'
    BY <1>1, <1>2, <1>9 DEF Durable
  <2>2. \A w \in Writers : writer'[w].pc # "index"
    BY <1>2, <1>5
  <2> QED
    BY <2>1, <2>2 DEF Indexed
<1>12. SInv'
  BY <1>3, <1>4, <1>7, <1>8, <1>10, <1>11 DEF SInv
<1> QED
  BY <1>3, <1>12

\* transferMissingSegments writes segments under free names and indexes them.
LEMMA CatchUpShardStep ==
  \A s \in shards : \A ok \in SUBSET MissingSegments(s) :
    SInv /\ TransfersClean /\ CatchUpShard(s, ok) =>
         SInv' /\ FilesGrow
  \* Two lists, one after the other.
<1> USE ZenonT(30)
<1>ConcatList.
    ASSUME NEW S, NEW s \in Seq(S), NEW t \in Seq(S)
    PROVE  /\ s \o t \in Seq(S) /\ Range(s \o t) = Range(s) \cup Range(t)
           /\ IsInjective(s) /\ IsInjective(t) /\ Range(s) \cap Range(t) = {} => IsInjective(s \o t)
  <2> USE <1>ConcatList
  <2> DEFINE u == s \o t
             m == Len(s)
             n == Len(t)
  <2>1. /\ u \in Seq(S) /\ m \in Nat /\ n \in Nat /\ DOMAIN u = 1 .. m + n
        /\ DOMAIN s = 1 .. m /\ DOMAIN t = 1 .. n
    BY SMT
  <2>2. \A i \in 1 .. m : u[i] = s[i] /\ i \in 1 .. m + n
    BY SMT
  <2>3. \A i \in 1 .. n : u[m + i] = t[i] /\ m + i \in 1 .. m + n
    BY SMT
  <2>4. \A i \in 1 .. m + n : i \in 1 .. m \/ \E j \in 1 .. n : i = m + j
    <3> SUFFICES ASSUME NEW i \in 1 .. m + n, i \notin 1 .. m
                 PROVE  i - m \in 1 .. n /\ i = m + (i - m)
      OBVIOUS
    <3> QED
      BY <2>1, SMT
  <2> HIDE DEF u, m, n
  <2>5. Range(u) = Range(s) \cup Range(t)
    <3>1. ASSUME NEW x \in Range(u) PROVE x \in Range(s) \cup Range(t)
      <4>1. PICK i \in 1 .. m + n : x = u[i]
        BY <2>1 DEF Range
      <4>2. CASE i \in 1 .. m
        BY <2>1, <2>2, <4>1, <4>2 DEF Range
      <4>3. CASE \E j \in 1 .. n : i = m + j
        BY <2>1, <2>3, <4>1, <4>3 DEF Range
      <4> QED
        BY <2>4, <4>2, <4>3
    <3>2. Range(s) \subseteq Range(u)
      BY <2>1, <2>2, ZenonT(60) DEF Range
    <3>3. Range(t) \subseteq Range(u)
      BY <2>1, <2>3, ZenonT(60) DEF Range
    <3> QED
      BY <3>1, <3>2, <3>3
  <2>6. ASSUME IsInjective(s), IsInjective(t), Range(s) \cap Range(t) = {}
        PROVE  IsInjective(u)
    <3>1. \A i \in 1 .. m, j \in 1 .. n : s[i] # t[j]
      BY <2>1, <2>6, ZenonT(60) DEF Range
    <3>2. \A i, j \in 1 .. m : u[i] = u[j] => i = j
      BY <2>1, <2>2, <2>6 DEF IsInjective
    <3>3. \A i, j \in 1 .. n : u[m + i] = u[m + j] => i = j
      BY <2>1, <2>3, <2>6 DEF IsInjective
    <3>4. \A i \in 1 .. m, j \in 1 .. n : u[i] # u[m + j]
      BY <2>2, <2>3, <3>1
    <3> SUFFICES ASSUME NEW i \in 1 .. m + n, NEW j \in 1 .. m + n, u[i] = u[j] PROVE i = j
      BY <2>1 DEF IsInjective
    <3> QED
      BY <2>4, <3>2, <3>3, <3>4, ZenonT(60)
  <2> QED
    BY <2>1, <2>5, <2>6 DEF u
<1> SUFFICES ASSUME SInv, TransfersClean, NEW s \in shards, NEW ok \in SUBSET MissingSegments(s), CatchUpShard(s, ok)
             PROVE  SInv' /\ FilesGrow
  OBVIOUS
<1> DEFINE new(p) == FileOf(ShardView(p, s))
<1>1. FilesOK /\ HandlersOK /\ ManagerOK /\ CompactorOK /\ Durable /\ Indexed
  BY DEF SInv
<1>2. /\ phase = "catchup" /\ phase # "down"
      /\ files' = [p \in DOMAIN files \cup ok |-> IF p \in ok THEN new(p) ELSE files[p]]
      /\ paths' = Append(Front(paths) \o Sorted(ok), Last(paths))
      /\ idx' = idx \cup UNION {{p} \X ShardView(p, s) : p \in ok}
      /\ acked' = acked \cup UNION {ShardView(p, s) : p \in ok}
      /\ UNCHANGED <<phase, nextSeq, fd, writer, comp, cutoff>>
  BY DEF CatchUpShard
<1>3. \A p \in ok : p \notin DOMAIN files /\ p < nextSeq
  BY <1>2 DEF TransfersClean
<1>4. /\ paths \in Seq(Nat) /\ paths # <<>> /\ IsInjective(paths) /\ Range(paths) \subseteq DOMAIN files
      /\ fd.path = Last(paths) /\ fd.path \in DOMAIN files /\ nextSeq \in Nat
      /\ \A p \in DOMAIN files : p < nextSeq
  BY <1>2, NodeUp
<1>5. ok \subseteq DOMAIN Remote /\ ok \subseteq Nat \ {0} /\ ok \in SUBSET Nat
  <2>1. ok \subseteq DOMAIN Remote
    BY DEF MissingSegments, ListSegments
  <2> QED
    BY <2>1, RemoteAssumption
<1>6. IsFiniteSet(ok)
  <2>1. ok \subseteq 0 .. nextSeq - 1
    BY <1>3, <1>4, <1>5, SMT
  <2>2. IsFiniteSet(0 .. nextSeq - 1)
    BY <1>4, BelowFinite, SMT
  <2> QED
    BY <2>1, <2>2, PartFinite
<1>7. ASSUME NEW p \in ok
      PROVE  ShardView(p, s) \subseteq AllEntries /\ IsSegment(new(p)) /\ new(p).recs = ShardView(p, s)
  <2>1. ShardView(p, s) \subseteq AllEntries
    BY <1>5, RemoteAssumption DEF ShardView
  <2> QED
    BY <2>1 DEF IsSegment, FileOf
<1> HIDE DEF new
<1>8. /\ DOMAIN files' = DOMAIN files \cup ok
      /\ \A p \in ok : files'[p] = new(p)
      /\ \A p \in DOMAIN files : files'[p] = files[p]
  BY <1>2, <1>3
<1>9. FilesOK'
  <2>1. IsFiniteSet(DOMAIN files \cup ok)
    BY <1>1, <1>6, JoinedFinite DEF FilesOK
  <2> QED
    BY <1>1, <1>5, <1>7, <1>8, <2>1 DEF FilesOK
<1>10. FilesGrow
  BY <1>8 DEF FilesGrow
<1>11. /\ paths' \in Seq(Nat) /\ paths' # <<>> /\ IsInjective(paths')
       /\ Range(paths') = Range(paths) \cup ok /\ Last(paths') = Last(paths)
  <2>1. /\ Front(paths) \in Seq(Nat) /\ Last(paths) \in Nat
        /\ Range(paths) = Range(Front(paths)) \cup {Last(paths)}
        /\ IsInjective(Front(paths)) /\ Last(paths) \notin Range(Front(paths))
    BY <1>4, FrontList
  <2>2. Sorted(ok) \in Seq(ok) /\ Range(Sorted(ok)) = ok /\ IsInjective(Sorted(ok))
    BY <1>5, <1>6, SortedNames DEF SInv
  <2>3. PICK a, b, z : a = Front(paths) /\ b = Sorted(ok) /\ z = Last(paths)
    OBVIOUS
  <2>4. b \in Seq(Nat)
    BY <1>5, <2>2, <2>3, WiderList
  <2>5. Range(a) \cap Range(b) = {}
    BY <1>3, <1>4, <2>1, <2>2, <2>3
  <2>6. a \o b \in Seq(Nat) /\ Range(a \o b) = Range(a) \cup Range(b) /\ IsInjective(a \o b)
    BY <2>1, <2>2, <2>3, <2>4, <2>5, <1>ConcatList, SMT
  <2>7. z \notin Range(a \o b)
    BY <1>3, <1>4, <2>1, <2>2, <2>3, <2>6
  <2>8. PICK c : c = a \o b
    OBVIOUS
  <2>9. /\ Append(c, z) \in Seq(Nat) /\ Append(c, z) # <<>> /\ Range(Append(c, z)) = Range(c) \cup {z}
        /\ Last(Append(c, z)) = z /\ IsInjective(Append(c, z))
    <3>1. c \in Seq(Nat) /\ z \in Nat /\ IsInjective(c) /\ z \notin Range(c)
      BY <2>1, <2>3, <2>6, <2>7, <2>8
    <3> QED
      BY <3>1, AppendList, SMT
  <2>10. paths' = Append(c, z) /\ Range(c) = Range(a) \cup ok
    BY <1>2, <2>2, <2>3, <2>6, <2>8
  <2>11. Range(paths') = Range(paths) \cup ok
    BY <2>1, <2>3, <2>9, <2>10
  <2> QED
    BY <2>3, <2>9, <2>10, <2>11
<1>12. ManagerOK'
  <2>1. fd' = [path |-> Last(paths'), attached |-> TRUE, size |-> files'[Last(paths')].size]
    <3>1. fd = [path |-> Last(paths), attached |-> TRUE, size |-> files[Last(paths)].size]
      BY <1>1, <1>2 DEF ManagerOK
    <3>2. files'[Last(paths)] = files[Last(paths)]
      BY <1>4, <1>8
    <3> QED
      BY <1>2, <1>11, <3>1, <3>2
  <2>2. \A p \in DOMAIN files' : p < nextSeq'
    BY <1>2, <1>3, <1>4, <1>8
  <2>3. Range(paths') \subseteq DOMAIN files'
    BY <1>4, <1>8, <1>11
  <2> QED
    BY <1>11, <2>1, <2>2, <2>3 DEF ManagerOK
<1>13. acked' \subseteq AllEntries
  BY <1>1, <1>2, <1>7 DEF HandlersOK
<1>14. HandlersOK' /\ \A w \in Writers : writer'[w].pc # "index"
  BY <1>1, <1>2, <1>13 DEF HandlersOK
<1>15. comp.pc = "idle"
  BY <1>1, <1>2 DEF HandlersOK
<1>16. Range(comp.run) = {}
  <2>1. ListsAt(comp, Range(paths), fd.path, nextSeq)
    BY <1>1 DEF CompactorOK, CompactorAt
  <2>2. comp.run = <<>>
    BY <1>15, <2>1 DEF ListsAt
  <2> QED
    BY <2>2, EmptyList
<1>17. /\ CompactorOK'
       /\ \A e \in AllEntries : /\ Safe(e) => Safe(e)'
                                /\ Found(e) => Found(e)'
                                /\ \A p : Holds(p, e) => Holds(p, e)'
  <2>1. cutoff <= cutoff' /\ nextSeq <= nextSeq' /\ idx \subseteq idx' /\ comp' = comp
    <3>1. cutoff \in Nat /\ nextSeq \in Nat
      BY <1>1 DEF HandlersOK
    <3>2. cutoff' = cutoff /\ nextSeq' = nextSeq /\ idx \subseteq idx' /\ comp' = comp
      BY <1>2
    <3> QED
      BY <3>1, <3>2, SMT
  <2>2. fd'.path \notin Range(comp.run) /\ Range(paths') \cap Range(comp.run) \subseteq Range(paths)
    BY <1>16
  <2>3. Range(paths) \ {fd.path} \subseteq Range(paths') \ {fd'.path}
    BY <1>2, <1>11
  <2>4. \A p \in Range(comp.run) : /\ p \in DOMAIN files <=> p \in DOMAIN files'
                                   /\ p \in DOMAIN files => files'[p] = files[p]
    BY <1>16
  <2> QED
    <3>1. phase # "down" /\ HandlersOK'
      BY <1>2, <1>14
    <3>2. HandsOff
      BY <1>10, <2>1, <2>2, <2>3, <2>4 DEF HandsOff
    <3> QED
      BY <1>9, <1>12, <3>1, <3>2, OthersStep
<1>18. ASSUME NEW e \in acked' PROVE Safe(e)' /\ Found(e)'
  <2>1. CASE e \in acked
    BY <1>1, <1>2, <1>13, <1>17, <2>1 DEF Durable, Indexed
  <2>2. CASE e \notin acked
    <3>1. PICK p \in ok : e \in ShardView(p, s)
      BY <1>2, <1>18, <2>2
    <3>2. Holds(p, e)'
      BY <1>7, <1>8, <3>1 DEF Holds
    <3>3. <<p, e>> \in idx'
      BY <1>2, <3>1, SMT
    <3> QED
      BY <3>2, <3>3 DEF Safe, Found
  <2> QED
    BY <2>1, <2>2
<1>19. Durable' /\ Indexed'
  BY <1>14, <1>18 DEF Durable, Indexed
<1>20. SInv'
  BY <1>9, <1>12, <1>14, <1>17, <1>19 DEF SInv
<1> QED
  BY <1>10, <1>20

-----------------------------------------------------------------------------
(* The steps of the compactor.                                             *)

\* The compactor's lists.
LEMMA CompactorUp ==
  ASSUME SInv, comp.pc # "idle"
  PROVE  /\ phase = "serving" /\ ListsAt(comp, Range(paths), fd.path, nextSeq)
         /\ comp \in [pc : Labels, todo : Seq(Nat), run : Seq(Nat), left : Seq(Nat), tmp : {comp.tmp}, cutoff : Nat]
         /\ comp.todo \in Seq(Nat) /\ comp.run \in Seq(Nat) /\ comp.left \in Seq(Nat)
         /\ comp.cutoff \in Nat /\ comp.cutoff <= cutoff
<1> USE ZenonT(30)
<1>1. ListsAt(comp, Range(paths), fd.path, nextSeq) /\ comp.cutoff <= cutoff
  BY DEF SInv, CompactorOK, CompactorAt
<1>2. comp \in [pc : Labels, todo : Seq(Nat), run : Seq(Nat), left : Seq(Nat), tmp : {comp.tmp}, cutoff : Nat]
  BY <1>1 DEF ListsAt
<1>3. phase = "serving"
  BY DEF SInv, HandlersOK
<1> QED
  BY <1>1, <1>2, <1>3

\* A step of the compactor that leaves handlers alone.
LEMMA HandlersStay ==
  ASSUME SInv, phase = "serving", UNCHANGED <<phase, writer, nextSeq, acked, cutoff>>
  PROVE  HandlersOK' /\ NoneIndexes /\ phase # "down"
BY Zenon DEF SInv, HandlersOK, NoneIndexes

NewPass(d, ps, a, k) ==
    \E l \in {"scan", "retain"}, t \in Seq(Nat), c \in Nat :
        /\ d = [pc |-> l, todo |-> t, run |-> <<>>, left |-> <<>>, tmp |-> EmptySegment, cutoff |-> c]
        /\ IsInjective(t) /\ Range(t) \subseteq ps \ {a} /\ c <= k

\* The run of small segments that mergeRun takes is no longer than the list.
LEMMA RunLengthRange ==
  ASSUME NamesSort, NEW s \in Seq(Nat)
  PROVE  RunLength(s) \in 0 .. Len(s)
<1> DEFINE H == {k \in 0 .. Len(s) : \A i \in 1 .. k : Small(s[i])}
<1>1. H \in SUBSET Nat /\ H \subseteq 0 .. Len(s) /\ 0 \in H /\ Len(s) \in Nat
  OBVIOUS
<1>2. IsFiniteSet(H)
  <2>1. IsFiniteSet(0 .. Len(s))
    BY <1>1, BelowFinite
  <2> QED
    BY <1>1, <2>1, PartFinite, Zenon
<1> HIDE DEF H
<1>3. Max(H) \in H
  BY <1>1, <1>2, LargestName, Zenon
<1> QED
  BY <1>1, <1>3 DEF RunLength, H

\* The next step of a merge or deletion: another label, another rest of the run.
LEMMA Relabelled ==
  ASSUME NEW c, NEW ps, NEW a, NEW n, ListsAt(c, ps, a, n), NEW d,
         d \in [pc : Labels, todo : Seq(Nat), run : Seq(Nat), left : Seq(Nat), tmp : {d.tmp}, cutoff : Nat],
         d.pc \notin {"idle", "scan", "retain"}, d.todo = c.todo, d.run = c.run, d.tmp = c.tmp,
         IsInjective(d.left), Range(d.left) \subseteq Range(c.run)
  PROVE  ListsAt(d, ps, a, n)
<1>1. d.pc # "idle"
  OBVIOUS
<1> QED
  BY <1>1, Zenon DEF ListsAt

\* A merge in progress: its run is of closed segments on disk.
LEMMA MergeUp ==
  ASSUME SInv, comp.pc \in {"unindex", "rename", "bloom", "reindex", "manager"}
  PROVE  /\ phase = "serving" /\ phase # "down" /\ ListsAt(comp, Range(paths), fd.path, nextSeq)
         /\ MergeAt(comp, files, Range(paths), idx) /\ comp.cutoff <= cutoff
         /\ comp \in [pc : Labels, todo : Seq(Nat), run : Seq(Nat), left : Seq(Nat), tmp : {comp.tmp}, cutoff : Nat]
         /\ comp.run \in Seq(Nat) /\ comp.left \in Seq(Nat) /\ comp.run # <<>> /\ Len(comp.run) > 1
         /\ IsInjective(comp.run) /\ IsInjective(comp.left) /\ Range(comp.left) \subseteq Range(comp.run)
         /\ Range(comp.run) \subseteq Range(paths) /\ Range(comp.run) \subseteq DOMAIN files
         /\ Head(comp.run) \in Range(comp.run) /\ Merging = comp.tmp.recs
<1> USE ZenonT(30)
<1>1. comp.pc # "idle"
  OBVIOUS
<1>2. /\ phase = "serving" /\ phase # "down" /\ ListsAt(comp, Range(paths), fd.path, nextSeq)
      /\ comp \in [pc : Labels, todo : Seq(Nat), run : Seq(Nat), left : Seq(Nat), tmp : {comp.tmp}, cutoff : Nat]
      /\ comp.run \in Seq(Nat) /\ comp.left \in Seq(Nat) /\ comp.cutoff <= cutoff
  BY <1>1, CompactorUp
<1>3. MergeAt(comp, files, Range(paths), idx)
  BY DEF SInv, CompactorOK, CompactorAt
<1>4. Len(comp.run) >= 2 /\ Range(comp.run) \subseteq Range(paths)
  BY <1>3 DEF MergeAt
<1>5. comp.run # <<>> /\ Len(comp.run) > 1
  BY <1>2, <1>4, SMT
<1>6. Range(comp.run) \subseteq DOMAIN files
  BY <1>2, <1>4, NodeUp
<1>7. Head(comp.run) \in Range(comp.run)
  BY <1>2, <1>5, HeadIn
<1>8. IsInjective(comp.run) /\ IsInjective(comp.left) /\ Range(comp.left) \subseteq Range(comp.run)
  BY <1>2 DEF ListsAt
<1>9. Merging = comp.tmp.recs
  BY <1>5 DEF Merging
<1> QED
  BY <1>2, <1>3, <1>4, <1>5, <1>6, <1>7, <1>8, <1>9

\* A step of the compactor that loses no entry.
LEMMA CompactorStep ==
  ASSUME SInv, phase = "serving", UNCHANGED <<phase, nextSeq, writer, acked, cutoff>>,
         FilesOK', ManagerOK', CompactorOK',
         \A e \in AllEntries : Safe(e) => Safe(e)',
         \A e \in AllEntries : Found(e) => Found(e)',
         \A e \in AllEntries : \A p : Holds(p, e) => Holds(p, e)' \/ Found(e)'
  PROVE  SInv'
<1> USE ZenonT(30)
<1>1. HandlersOK /\ Durable /\ Indexed /\ acked' = acked
  BY DEF SInv
<1>2. HandlersOK' /\ NoneIndexes /\ phase # "down"
  BY HandlersStay
<1>3. Durable'
  BY <1>1, <1>2, DurableStep
<1>4. Indexed'
  BY <1>1, <1>2, IndexedStep
<1> QED
  BY <1>2, <1>3, <1>4 DEF SInv

\* The rename puts the run's entries into its first file at once.
LEMMA MergeRenameStep ==
  ASSUME SInv, MergeRename
  PROVE  SInv' /\ FilesGrow
<1> USE ZenonT(30)
<1>1. /\ UNCHANGED <<phase, paths, nextSeq, idx, writer, acked, cutoff>>
      /\ comp.pc = "rename" /\ comp.pc \in {"unindex", "rename", "bloom", "reindex", "manager"}
      /\ files' = Put(files, Head(comp.run), comp.tmp) /\ fd' = Unlinked(Head(comp.run))
  BY DEF MergeRename, Merged, disk, manager, history
<1>2. /\ phase = "serving" /\ phase # "down" /\ ListsAt(comp, Range(paths), fd.path, nextSeq)
      /\ MergeAt(comp, files, Range(paths), idx) /\ comp.cutoff <= cutoff
      /\ comp \in [pc : Labels, todo : Seq(Nat), run : Seq(Nat), left : Seq(Nat), tmp : {comp.tmp}, cutoff : Nat]
      /\ comp.left \in Seq(Nat) /\ IsInjective(comp.left) /\ Range(comp.left) \subseteq Range(comp.run)
      /\ Len(comp.run) > 1 /\ Range(comp.run) \subseteq DOMAIN files /\ Merging = comp.tmp.recs
      /\ Head(comp.run) \in Range(comp.run)
  BY <1>1, MergeUp
<1>3. PICK h, g : h = Head(comp.run) /\ g = comp.tmp
  OBVIOUS
<1>4. h \in Range(comp.run) /\ h \in DOMAIN files /\ fd.path # h /\ IsSegment(g)
  BY <1>2, <1>3 DEF ListsAt
<1>5. g.recs = Read(files, Range(comp.run))
  BY <1>1, <1>2, <1>3 DEF MergeAt
<1>6. files[h].recs \subseteq g.recs
  BY <1>4, <1>5 DEF Read
<1>7. /\ DOMAIN files' = DOMAIN files /\ files'[h] = g
      /\ \A q \in DOMAIN files : q # h => files'[q] = files[q]
  BY <1>1, <1>3, <1>4 DEF Put
<1>8. /\ fd = [path |-> Last(paths), attached |-> TRUE, size |-> files[Last(paths)].size]
      /\ fd.path = Last(paths) /\ fd.path \in DOMAIN files
  BY <1>2, NodeUp DEF SInv, ManagerOK
<1>9. fd' = fd
  <2>1. PICK a, z : fd = [path |-> a, attached |-> TRUE, size |-> z] /\ a # h
    BY <1>4, <1>8
  <2> QED
    BY <1>1, <1>3, <2>1 DEF Unlinked
<1>10. FilesOK'
  BY <1>4, <1>7 DEF SInv, FilesOK
<1>11. ManagerOK'
  <2>1. files'[Last(paths)] = files[Last(paths)]
    BY <1>4, <1>7, <1>8
  <2> QED
    BY <1>1, <1>7, <1>8, <1>9, <2>1 DEF SInv, ManagerOK
<1>12. FilesGrow
  BY <1>6, <1>7 DEF FilesGrow
<1>13. PICK l \in {"bloom", "reindex"} : comp' = [comp EXCEPT !.pc = l]
  BY DEF MergeRename
<1>14. PICK d : d = comp'
  OBVIOUS
<1>15. /\ d \in [pc : Labels, todo : Seq(Nat), run : Seq(Nat), left : Seq(Nat), tmp : {d.tmp}, cutoff : Nat]
       /\ d.pc = l /\ d.pc \notin {"idle", "scan", "retain"}
       /\ d.todo = comp.todo /\ d.run = comp.run /\ d.left = comp.left /\ d.tmp = comp.tmp
       /\ d.cutoff = comp.cutoff
  BY <1>2, <1>13, <1>14 DEF Labels
<1>16. ListsAt(d, Range(paths), fd.path, nextSeq)
  BY <1>2, <1>15, Relabelled
<1>17. MergeAt(d, files', Range(paths), idx)
  <2>1. Read(files', Range(comp.run)) \subseteq g.recs
    <3>1. ASSUME NEW e \in Read(files', Range(comp.run)) PROVE e \in g.recs
      <4>1. PICK p \in Range(comp.run) \cap DOMAIN files' : e \in files'[p].recs
        BY <3>1 DEF Read
      <4>2. p # h => e \in Read(files, Range(comp.run))
        BY <1>7, <4>1 DEF Read
      <4> QED
        BY <1>5, <1>7, <4>1, <4>2
    <3> QED
      BY <3>1
  <2>2. d.tmp.recs = files'[Head(d.run)].recs /\ Read(files', Range(d.run)) \subseteq d.tmp.recs
    BY <1>3, <1>7, <1>15, <2>1
  <2>3. Len(d.run) >= 2 /\ Range(d.run) \subseteq Range(paths)
    BY <1>1, <1>2, <1>15 DEF MergeAt
  <2> QED
    BY <1>13, <1>15, <2>2, <2>3 DEF MergeAt
<1>18. DeleteAt(d, files', Range(paths), idx)
  BY <1>13, <1>15 DEF DeleteAt
<1>19. CompactorOK'
  BY <1>1, <1>2, <1>9, <1>14, <1>15, <1>16, <1>17, <1>18 DEF CompactorOK, CompactorAt
<1>20. ASSUME NEW e PROVE /\ Safe(e) => Safe(e)'
                          /\ Found(e) => Found(e)'
                          /\ \A p : Holds(p, e) => Holds(p, e)'
  <2>1. Merging' = Merging
    BY <1>14, <1>15 DEF Merging
  <2>2. \A p : Holds(p, e) => Holds(p, e)'
    BY <1>12 DEF Holds, FilesGrow
  <2> QED
    BY <1>1, <2>1, <2>2 DEF Safe, Found, Expired
<1>21. SInv'
  BY <1>1, <1>2, <1>10, <1>11, <1>19, <1>20, CompactorStep
<1> QED
  BY <1>12, <1>21

\* Closed segments come off the manager's list.
LEMMA ListWithout ==
  \A gone :
    SInv /\ phase # "down" /\ fd.path \notin gone /\ paths' = Without(paths, gone) /\
    UNCHANGED <<files, phase, nextSeq, fd>> =>
         ManagerOK' /\ Range(paths') = Range(paths) \ gone
  \* Dropping names from a list: the others stay, in their order.
<1> USE ZenonT(30)
<1>WithoutList.
    ASSUME NamesSort, NEW S, NEW s \in Seq(S), NEW gone, IsInjective(s)
    PROVE  /\ Without(s, gone) \in Seq(S) /\ Range(Without(s, gone)) = Range(s) \ gone
           /\ IsInjective(Without(s, gone))
           /\ s # <<>> /\ Last(s) \notin gone =>
                 Without(s, gone) # <<>> /\ Last(Without(s, gone)) = Last(s)
  <2> USE <1>WithoutList
  <2> DEFINE H == {i \in DOMAIN s : s[i] \notin gone}
             kept == Sorted(H)
             t == [k \in DOMAIN kept |-> s[kept[k]]]
  <2>1. Len(s) \in Nat /\ DOMAIN s = 1 .. Len(s) /\ \A i \in DOMAIN s : s[i] \in S
    BY SMT
  <2>2. H \in SUBSET Nat /\ H \in SUBSET (1 .. Len(s))
    BY <2>1, SMT
  <2>3. IsFiniteSet(H)
    <3>1. IsFiniteSet(0 .. Len(s))
      BY <2>1, BelowFinite, SMT
    <3>2. H \in SUBSET (0 .. Len(s))
      BY <2>2, SMT
    <3> HIDE DEF H
    <3> QED
      BY <3>1, <3>2, PartFinite
  <2>4. /\ kept \in Seq(H) /\ Len(kept) = Cardinality(H) /\ Range(kept) = H /\ IsInjective(kept)
        /\ \A m \in H : (\A n \in H : n <= m) =>
              Cardinality(H) \in Nat \ {0} /\ kept[Cardinality(H)] = m
    <3> HIDE DEF H
    <3> QED BY <2>2, <2>3, SortedNames
  <2>5. Without(s, gone) = t
    BY DEF Without
  <2>6. \A k \in DOMAIN kept : kept[k] \in H
    BY <2>4 DEF Range
  <2>7. Len(kept) \in Nat /\ DOMAIN kept = 1 .. Len(kept)
    BY <2>4, ListNames
  <2>8. \A k \in DOMAIN kept : kept[k] \in DOMAIN s /\ s[kept[k]] \notin gone /\ s[kept[k]] \in S
    BY <2>1, <2>6
  <2>9. \A i \in H : \E k \in DOMAIN kept : kept[k] = i
    BY <2>4 DEF Range
  <2>10. t \in Seq(S) /\ Len(t) = Len(kept) /\ DOMAIN t = DOMAIN kept
         /\ \A k \in DOMAIN kept : t[k] = s[kept[k]]
    <3> HIDE DEF kept
    <3> QED BY <2>7, <2>8, SMT
  <2>11. Range(t) = Range(s) \ gone
    <3>1. Range(t) \subseteq Range(s) \ gone
      <4> HIDE DEF t, kept, H
      <4> QED BY <2>8, <2>10 DEF Range
    <3>2. ASSUME NEW x \in Range(s) \ gone PROVE x \in Range(t)
      <4>1. PICK i \in DOMAIN s : x = s[i]
        BY DEF Range
      <4>2. PICK k \in DOMAIN kept : kept[k] = i
        BY <2>9, <4>1
      <4> HIDE DEF t, kept, H
      <4> QED
        BY <2>10, <4>1, <4>2 DEF Range
    <3> QED
      BY <3>1, <3>2
  <2>12. IsInjective(t)
    <3> HIDE DEF t, kept, H
    <3>1. \A j, k \in DOMAIN t : kept[j] = kept[k] => j = k
      BY <2>4, <2>10 DEF IsInjective
    <3> QED
      BY <2>8, <2>10, <3>1, PickedInjective, ZenonT(60), SMT
  <2>13. ASSUME s # <<>>, Last(s) \notin gone
         PROVE  t # <<>> /\ Last(t) = Last(s)
    <3>1. Len(s) \in H /\ \A n \in H : n <= Len(s)
      BY <2>1, <2>2, <2>13, SMT DEF Last
    <3>2. Len(t) \in Nat \ {0} /\ kept[Len(t)] = Len(s)
      <4> HIDE DEF H, kept, t
      <4> QED BY <2>4, <2>10, <3>1
    <3>3. Len(t) \in DOMAIN kept
      BY <2>7, <2>10, <3>2, SMT
    <3>4. t[Len(t)] = s[Len(s)]
      <4> HIDE DEF H, kept, t
      <4> QED BY <2>10, <3>2, <3>3
    <3>5. t # <<>>
      <4> HIDE DEF H, kept, t
      <4> QED BY <2>10, <3>2, SMT
    <3> QED
      <4> HIDE DEF H, kept, t
      <4> QED BY <3>4, <3>5 DEF Last
  <2> HIDE DEF t, kept, H
  <2> QED
    BY <2>5, <2>10, <2>11, <2>12, <2>13
<1> SUFFICES ASSUME SInv, phase # "down", NEW gone, fd.path \notin gone,
                    paths' = Without(paths, gone), UNCHANGED <<files, phase, nextSeq, fd>>
             PROVE  ManagerOK' /\ Range(paths') = Range(paths) \ gone
  OBVIOUS
<1>1. /\ paths \in Seq(Nat) /\ paths # <<>> /\ IsInjective(paths) /\ Range(paths) \subseteq DOMAIN files
      /\ fd.path = Last(paths) /\ \A p \in DOMAIN files : p < nextSeq
  BY NodeUp
<1>2. fd = [path |-> Last(paths), attached |-> TRUE, size |-> files[Last(paths)].size]
  BY DEF SInv, ManagerOK
<1>3. PICK s, t : s = paths /\ t = Without(s, gone)
  OBVIOUS
<1>4. s \in Seq(Nat) /\ s # <<>> /\ IsInjective(s) /\ Last(s) \notin gone
  BY <1>1, <1>3
<1>5. t \in Seq(Nat) /\ Range(t) = Range(s) \ gone /\ IsInjective(t) /\ t # <<>> /\ Last(t) = Last(s)
  BY <1>3, <1>4, <1>WithoutList DEF SInv
<1>6. paths' = t
  BY <1>3
<1>7. Range(t) \subseteq DOMAIN files
  BY <1>1, <1>3, <1>5
<1>8. fd = [path |-> Last(t), attached |-> TRUE, size |-> files[Last(t)].size]
  BY <1>2, <1>3, <1>5
<1>9. ManagerOK'
  BY <1>1, <1>5, <1>6, <1>7, <1>8 DEF ManagerOK
<1> QED
  BY <1>3, <1>5, <1>6, <1>9

\* Files being deleted: they are off the list.
LEMMA DeleteUp ==
  ASSUME SInv, comp.pc \in {"delete", "delbloom"}
  PROVE  /\ phase = "serving" /\ phase # "down" /\ ListsAt(comp, Range(paths), fd.path, nextSeq)
         /\ DeleteAt(comp, files, Range(paths), idx) /\ comp.cutoff \in Nat /\ comp.cutoff <= cutoff
         /\ comp \in [pc : Labels, todo : Seq(Nat), run : Seq(Nat), left : Seq(Nat), tmp : {comp.tmp}, cutoff : Nat]
         /\ comp.left \in Seq(Nat) /\ comp.left # <<>> /\ Range(comp.left) \cap Range(paths) = {}
         /\ IsInjective(comp.left) /\ Range(comp.left) \subseteq Range(comp.run)
<1> USE ZenonT(30)
<1>1. comp.pc # "idle"
  OBVIOUS
<1>2. /\ phase = "serving" /\ phase # "down" /\ ListsAt(comp, Range(paths), fd.path, nextSeq)
      /\ comp \in [pc : Labels, todo : Seq(Nat), run : Seq(Nat), left : Seq(Nat), tmp : {comp.tmp}, cutoff : Nat]
      /\ comp.left \in Seq(Nat) /\ comp.cutoff \in Nat /\ comp.cutoff <= cutoff
  BY <1>1, CompactorUp
<1>3. DeleteAt(comp, files, Range(paths), idx)
  BY DEF SInv, CompactorOK, CompactorAt
<1>4. comp.left # <<>> /\ Range(comp.left) \cap Range(paths) = {}
  BY <1>3 DEF DeleteAt
<1>5. IsInjective(comp.left) /\ Range(comp.left) \subseteq Range(comp.run)
  BY <1>2 DEF ListsAt
<1> QED
  BY <1>2, <1>3, <1>4, <1>5

\* An entry with a timestamp behind the compactor's cutoff is behind the cutoff now.
LEMMA OldIsExpired ==
  ASSUME NEW e \in AllEntries, comp.cutoff \in Nat, cutoff \in Nat, comp.cutoff <= cutoff,
         TsOf[e] < comp.cutoff
  PROVE  Expired(e)
<1>1. TsOf[e] \in Nat
  BY EntriesAssumption
<1> QED
  BY <1>1 DEF Expired

-----------------------------------------------------------------------------
(* Every step keeps the invariant.                                         *)

\* Every step of a handler keeps the invariant.
LEMMA AppendStep ==
  \A w \in Writers :
    SInv /\ Append1(w) =>
         SInv'
<1> USE ZenonT(30)
<1>AppendBeginStep.
    ASSUME SInv, NEW w \in Writers, AppendBegin(w)
    PROVE  SInv'
  <2> USE <1>AppendBeginStep
  <2> DEFINE h == [pc |-> IF fd.size + SizeOf[issued + 1] > MaxSegmentBytes THEN "rotate" ELSE "header",
                   entry |-> issued + 1, path |-> 0]
  <2>1. HandlersOK
    BY DEF SInv
  <2>2. writer \in [Writers -> Handlers] /\ writer' = [writer EXCEPT ![w] = h]
    BY <2>1 DEF HandlersOK, AppendBegin
  <2>3. issued + 1 \in Entries /\ phase = "serving"
    BY DEF AppendBegin
  <2>4. h \in Handlers /\ h.entry \in Entries /\ h.pc # "index"
    BY <2>3 DEF Handlers
  <2> HIDE DEF h
  <2>5. /\ writer' \in [Writers -> Handlers] /\ writer'[w] = h
        /\ \A v \in Writers : v # w => writer'[v] = writer[v]
    BY <2>2, <2>4
  <2>6. UNCHANGED <<files, phase, paths, nextSeq, fd, idx, comp, acked, cutoff>>
    BY DEF AppendBegin, disk, manager
  <2>7. HandlersOK'
    BY <2>1, <2>3, <2>4, <2>5, <2>6 DEF HandlersOK
  <2>8. NoneIndexes
    BY <2>4, <2>5 DEF NoneIndexes
  <2> QED
    BY <2>6, <2>7, <2>8, QuietStep
  \* Closing the active segment and writing the marker leave the list alone.
<1>RotateStep.
    ASSUME SInv, NEW w \in Writers,
           RotateClose(w) \/ RotateCloseFails(w) \/ TruncateMarker(w) \/ WriteMarker(w)
    PROVE  SInv'
  <2> USE <1>RotateStep
  <2>1. UNCHANGED <<files, phase, paths, nextSeq, fd, idx, comp, acked, cutoff>>
    BY DEF RotateClose, RotateCloseFails, TruncateMarker, WriteMarker, disk, manager, history
  <2>2. /\ writer[w].pc # "idle"
        /\ \E l \in {"create", "truncate", "mark", "header", "data"} : SetWriter(w, l)
    BY DEF RotateClose, RotateCloseFails, TruncateMarker, WriteMarker
  <2>3. HandlersOK /\ nextSeq' \in Nat
    BY <2>1 DEF SInv, HandlersOK
  <2>4. HandlersOK' /\ NoneIndexes
    BY <2>1, <2>2, <2>3, HandlerMoves
  <2> QED
    BY <2>1, <2>4, QuietStep
<1>IndexAndAckStep.
    ASSUME SInv, NEW w \in Writers, IndexAndAck(w)
    PROVE  SInv'
  <2> USE <1>IndexAndAckStep
  <2>1. FilesOK /\ HandlersOK /\ ManagerOK /\ CompactorOK /\ Durable /\ Indexed
    BY DEF SInv
  <2>2. PICK e, q : e = writer[w].entry /\ q = writer[w].path
    OBVIOUS
  <2>3. /\ writer[w].pc = "index" /\ writer' = [writer EXCEPT ![w] = IdleWriter]
        /\ idx' = idx \cup {<<q, e>>} /\ acked' = acked \cup {e}
        /\ UNCHANGED <<files, phase, paths, nextSeq, fd, comp, cutoff>>
    BY <2>2 DEF IndexAndAck, disk, manager
  <2>4. phase = "serving" /\ phase # "down" /\ e \in AllEntries
    BY <2>1, <2>2, <2>3 DEF HandlersOK, AllEntries
  <2>5. IdleWriter \in Handlers /\ IdleWriter.pc = "idle"
    BY DEF IdleWriter, Handlers
  <2>6. /\ writer' \in [Writers -> Handlers] /\ writer'[w].pc = "idle"
        /\ \A v \in Writers : v # w => writer'[v] = writer[v]
    BY <2>1, <2>3, <2>5 DEF HandlersOK
  <2>7. HandlersOK'
    BY <2>1, <2>3, <2>4, <2>6 DEF HandlersOK
  <2>8. FilesOK' /\ ManagerOK'
    BY <2>1, <2>3 DEF FilesOK, ManagerOK
  <2>9. /\ CompactorOK'
        /\ \A d \in AllEntries : /\ Safe(d) => Safe(d)'
                                 /\ Found(d) => Found(d)'
                                 /\ \A p : Holds(p, d) => Holds(p, d)'
    <3>1. cutoff <= cutoff' /\ nextSeq <= nextSeq' /\ idx \subseteq idx' /\ comp' = comp
      BY <2>1, <2>3, SMT DEF HandlersOK
    <3>2. FilesGrow
      BY <2>3 DEF FilesGrow
    <3>3. fd'.path \notin Range(comp.run) /\ Range(paths') \cap Range(comp.run) \subseteq Range(paths)
      BY <2>3, InHand
    <3>4. Range(paths) \ {fd.path} \subseteq Range(paths') \ {fd'.path}
      BY <2>3
    <3>5. \A p \in Range(comp.run) : /\ p \in DOMAIN files <=> p \in DOMAIN files'
                                     /\ p \in DOMAIN files => files'[p] = files[p]
      BY <2>3
    <3> QED
      <4>1. HandsOff
        BY <3>1, <3>2, <3>3, <3>4, <3>5 DEF HandsOff
      <4> QED
        BY <2>4, <2>7, <2>8, <4>1, OthersStep
  <2>10. Safe(e)' /\ Found(e)'
    <3>1. Safe(e) /\ (Found(e) \/ Holds(q, e))
      BY <2>1, <2>2, <2>3, <2>4 DEF Durable, Indexed
    <3>2. <<q, e>> \in idx'
      BY <2>3
    <3>3. CASE Found(e)
      BY <2>4, <2>9, <3>1, <3>3
    <3>4. CASE Holds(q, e)
      BY <2>4, <2>9, <3>1, <3>2, <3>4 DEF Found
    <3> QED
      BY <3>1, <3>3, <3>4
  <2>11. ASSUME NEW v \in Writers, writer'[v].pc = "index"
         PROVE  Safe(writer[v].entry)' /\ (Found(writer[v].entry)' \/ Holds(writer[v].path, writer[v].entry)')
    <3>1. PICK d, p : d = writer[v].entry /\ p = writer[v].path
      OBVIOUS
    <3>2. writer'[v] = writer[v]
      BY <2>6, <2>11
    <3>3. d \in AllEntries /\ Safe(d) /\ (Found(d) \/ Holds(p, d))
      BY <2>1, <2>4, <2>11, <3>1, <3>2 DEF Durable, Indexed, HandlersOK, AllEntries
    <3>4. Safe(d)' /\ (Found(d)' \/ Holds(p, d)')
      BY <2>9, <3>3
    <3> QED
      BY <3>1, <3>2, <3>4 DEF Safe, Found, Holds
  <2>12. \A d \in acked' : Safe(d)' /\ Found(d)'
    BY <2>1, <2>3, <2>4, <2>9, <2>10 DEF Durable, Indexed, HandlersOK
  <2>13. Durable'
    BY <2>11, <2>12 DEF Durable
  <2>14. Indexed'
    BY <2>11, <2>12 DEF Indexed
  <2> QED
    BY <2>7, <2>8, <2>9, <2>13, <2>14 DEF SInv
<1> SUFFICES ASSUME SInv, NEW w \in Writers, Append1(w)
             PROVE  SInv'
  OBVIOUS
<1>1. CASE AppendBegin(w)
  BY <1>1, <1>AppendBeginStep
<1>2. CASE RotateClose(w) \/ RotateCloseFails(w) \/ TruncateMarker(w) \/ WriteMarker(w)
  BY <1>2, <1>RotateStep
<1>3. CASE OpenNewSegment(w)
  BY <1>3, OpenNewSegmentStep
<1>4. CASE WriteHeader(w)
  BY <1>4, WriteHeaderStep
<1>5. CASE WriteData(w)
  BY <1>5, WriteDataEffect
<1>6. CASE IndexAndAck(w)
  BY <1>6, <1>IndexAndAckStep
<1> QED
  BY <1>1, <1>2, <1>3, <1>4, <1>5, <1>6 DEF Append1

\* So does every step of the node.
LEMMA StepSInv ==
    SInv /\ TransfersClean /\ [Next]_vars =>
         SInv'
<1> USE ZenonT(30)
<1>QueryStep.
    ASSUME SInv, Query \/ UNCHANGED vars
    PROVE  SInv'
  <2> USE <1>QueryStep
  <2>1. UNCHANGED <<files, phase, paths, nextSeq, fd, idx, comp, acked, cutoff>> /\ writer' = writer
    BY DEF Query, QueryResolve, QueryPrune, QueryRead, QueryReadFails, QueryReturn, vars, disk, manager, history
  <2>2. HandlersOK' /\ NoneIndexes
    BY <2>1 DEF SInv, HandlersOK, NoneIndexes
  <2> QED
    BY <2>1, <2>2, QuietStep
<1>ServeStep.
    ASSUME SInv, Serve
    PROVE  SInv'
  <2> USE <1>ServeStep
  <2>1. FilesOK /\ HandlersOK /\ ManagerOK /\ CompactorOK /\ Durable /\ Indexed
    BY DEF SInv
  <2>2. /\ phase = "catchup" /\ phase' = "serving" /\ phase # "down"
        /\ UNCHANGED <<files, paths, nextSeq, fd, idx, writer, comp, acked, cutoff>>
    BY DEF Serve, disk, manager, history
  <2>3. FilesOK' /\ ManagerOK' /\ CompactorOK' /\ HandlersOK' /\ NoneIndexes
    BY <2>1, <2>2 DEF FilesOK, ManagerOK, CompactorOK, HandlersOK, NoneIndexes
  <2>4. ASSUME NEW e PROVE /\ Safe(e) => Safe(e)'
                           /\ Found(e) => Found(e)'
                           /\ \A p : Holds(p, e) => Holds(p, e)'
    BY <2>2 DEF Safe, Found, Holds, Merging, Expired
  <2>5. Durable'
    BY <2>1, <2>2, <2>3, <2>4, DurableStep
  <2>6. Indexed'
    BY <2>1, <2>2, <2>3, <2>4, IndexedStep
  <2> QED
    BY <2>3, <2>5, <2>6 DEF SInv
<1>AdvanceCutoffStep.
    ASSUME SInv, AdvanceCutoff
    PROVE  SInv'
  <2> USE <1>AdvanceCutoffStep
  <2>1. FilesOK /\ HandlersOK /\ ManagerOK /\ CompactorOK /\ Durable /\ Indexed
    BY DEF SInv
  <2>2. cutoff' = cutoff + 1 /\ UNCHANGED <<files, phase, paths, nextSeq, fd, idx, writer, comp, acked>>
    BY DEF AdvanceCutoff, disk, manager
  <2>3. cutoff \in Nat /\ cutoff' \in Nat /\ cutoff <= cutoff'
    BY <2>1, <2>2, SMT DEF HandlersOK
  <2>4. FilesOK' /\ ManagerOK' /\ HandlersOK' /\ NoneIndexes
    BY <2>1, <2>2, <2>3 DEF FilesOK, ManagerOK, HandlersOK, NoneIndexes
  <2>5. CompactorOK'
    <3>1. comp.cutoff \in Nat /\ comp.cutoff <= cutoff
      BY <2>1 DEF CompactorOK, CompactorAt, ListsAt
    <3>2. comp.cutoff <= cutoff'
      BY <2>3, <3>1, SMT
    <3> QED
      BY <2>1, <2>2, <3>2 DEF CompactorOK
  <2>6. ASSUME NEW e \in AllEntries
        PROVE  /\ Safe(e) => Safe(e)'
               /\ Found(e) => Found(e)'
               /\ \A p : Holds(p, e) => Holds(p, e)'
    <3>1. FilesGrow /\ idx \subseteq idx' /\ comp' = comp
      BY <2>2 DEF FilesGrow
    <3> QED
      BY <2>3, <3>1, NothingLost
  <2>7. acked' = acked
    BY <2>2
  <2>8. Durable'
    BY <2>1, <2>4, <2>6, <2>7, DurableStep
  <2>9. Indexed'
    <3>1. CASE phase = "down"
      BY <2>2, <3>1 DEF Indexed
    <3>2. CASE phase # "down"
      BY <2>1, <2>4, <2>6, <2>7, <3>2, IndexedStep
    <3> QED
      BY <3>1, <3>2
  <2> QED
    BY <2>4, <2>5, <2>8, <2>9 DEF SInv
<1>CrashStep.
    ASSUME SInv, Crash
    PROVE  SInv'
  <2> USE <1>CrashStep
  <2>1. FilesOK /\ HandlersOK /\ Durable
    BY DEF SInv
  <2>2. /\ phase' = "down" /\ nextSeq' = 0 /\ writer' = [w \in Writers |-> IdleWriter] /\ comp' = IdleComp
        /\ UNCHANGED <<files, acked, cutoff>>
    BY DEF Crash, disk
  <2>3. FilesOK' /\ ManagerOK' /\ Indexed'
    BY <2>1, <2>2 DEF FilesOK, ManagerOK, Indexed
  <2>4. IdleWriter \in Handlers /\ IdleWriter.pc = "idle" /\ IdleComp.pc = "idle"
    BY DEF IdleWriter, Handlers, IdleComp
  <2>5. writer' \in [Writers -> Handlers] /\ \A w \in Writers : writer'[w].pc = "idle"
    BY <2>2, <2>4
  <2>6. HandlersOK'
    BY <2>1, <2>2, <2>4, <2>5 DEF HandlersOK
  <2>7. CompactorOK'
    <3>1. /\ CompactorAt(comp', files', Range(paths'), fd'.path, nextSeq', idx')
          /\ comp'.cutoff = 0
      BY <2>2, CompactorIdle
    <3> QED
      BY <2>1, <2>2, <3>1, SMT DEF CompactorOK, HandlersOK
  <2>8. Durable'
    <3>1. \A e : Safe(e) => Safe(e)'
      BY <2>2 DEF Safe, Holds, Expired
    <3>2. NoneIndexes
      BY <2>5 DEF NoneIndexes
    <3> QED
      BY <2>1, <2>2, <3>1, <3>2, DurableStep
  <2> QED
    BY <2>3, <2>6, <2>7, <2>8 DEF SInv
<1>CompactStep.
      SInv /\ Compact =>
           SInv'
    \* Fewer files hold less.
  <2>ReadLess.
      ASSUME NEW fs, NEW ps, NEW qs, ps \subseteq qs
      PROVE  Read(fs, ps) \subseteq Read(fs, qs)
    BY <2>ReadLess DEF Read
    \* A step within the compactor's own state, in which no merge ends.
  <2>CompactorAlone.
      ASSUME SInv, phase = "serving", UNCHANGED <<files, phase, paths, nextSeq, fd, idx, writer, acked, cutoff>>,
             CompactorOK', Merging \subseteq Merging'
      PROVE  SInv'
    <3> USE <2>CompactorAlone
    <3>1. FilesOK /\ HandlersOK /\ ManagerOK /\ Durable /\ Indexed
      BY DEF SInv
    <3>2. HandlersOK' /\ NoneIndexes /\ phase # "down"
      BY HandlersStay
    <3>3. FilesOK' /\ ManagerOK'
      BY <3>1 DEF FilesOK, ManagerOK
    <3>4. ASSUME NEW e PROVE /\ Safe(e) => Safe(e)'
                             /\ Found(e) => Found(e)'
                             /\ \A p : Holds(p, e) => Holds(p, e)'
      BY DEF Safe, Found, Holds, Expired
    <3>5. Durable'
      BY <3>1, <3>2, <3>4, DurableStep
    <3>6. Indexed'
      BY <3>1, <3>2, <3>4, IndexedStep
    <3> QED
      BY <3>2, <3>3, <3>5, <3>6 DEF SInv
    \* Between runs and segments the compactor has nothing in hand.
  <2>Between.
      ASSUME NEW c, NEW fs, NEW ps, NEW a, NEW n, NEW ix,
             c.pc \in {"idle", "scan", "retain"}, ListsAt(c, ps, a, n)
      PROVE  CompactorAt(c, fs, ps, a, n, ix) /\ c.run = <<>> /\ ~(Len(c.run) > 1)
    <3> USE <2>Between
    <3>1. MergeAt(c, fs, ps, ix)
      BY DEF MergeAt
    <3>2. DeleteAt(c, fs, ps, ix)
      BY DEF DeleteAt
    <3>3. c.run = <<>>
      BY DEF ListsAt
    <3>4. ~(Len(c.run) > 1)
      BY <3>3, SMT
    <3> QED
      BY <3>1, <3>2, <3>3, <3>4 DEF CompactorAt
    \* The list of segments to look at is replaced by a part of it.
  <2>TodoShrinks.
      ASSUME NEW c, NEW ps, NEW a, NEW n, ListsAt(c, ps, a, n),
             NEW t \in Seq(Nat), IsInjective(t), Range(t) \subseteq Range(c.todo), c.pc # "idle",
             NEW d, d = [c EXCEPT !.todo = t]
      PROVE  ListsAt(d, ps, a, n) /\ d.pc = c.pc /\ d.run = c.run /\ d.cutoff = c.cutoff
    <3> USE <2>TodoShrinks
    <3>1. c \in [pc : Labels, todo : Seq(Nat), run : Seq(Nat), left : Seq(Nat), tmp : {c.tmp}, cutoff : Nat]
      BY DEF ListsAt
    <3>2. /\ d \in [pc : Labels, todo : Seq(Nat), run : Seq(Nat), left : Seq(Nat), tmp : {d.tmp}, cutoff : Nat]
          /\ d.pc = c.pc /\ d.todo = t /\ d.run = c.run /\ d.left = c.left /\ d.tmp = c.tmp
          /\ d.cutoff = c.cutoff
      BY <3>1
    <3>3. ListsAt(d, ps, a, n)
      BY <3>2 DEF ListsAt
    <3> QED
      BY <3>2, <3>3
    \* A pass begins with a list of closed segments.
  <2>PassBegins.
      ASSUME NEW d, NEW ps, NEW a, NEW n, NEW k, NewPass(d, ps, a, k)
      PROVE  ListsAt(d, ps, a, n) /\ d.pc \in {"idle", "scan", "retain"} /\ d.cutoff <= k
    <3> USE <2>PassBegins
    <3>0. PICK l \in {"scan", "retain"}, t \in Seq(Nat), c \in Nat :
             /\ d = [pc |-> l, todo |-> t, run |-> <<>>, left |-> <<>>, tmp |-> EmptySegment, cutoff |-> c]
             /\ IsInjective(t) /\ Range(t) \subseteq ps \ {a} /\ c <= k
      BY DEF NewPass
    <3>1. <<>> \in Seq(Nat) /\ Range(<<>>) = {} /\ IsInjective(<<>>)
      BY EmptyList
    <3>2. /\ d \in [pc : Labels, todo : Seq(Nat), run : Seq(Nat), left : Seq(Nat), tmp : {d.tmp}, cutoff : Nat]
          /\ d.pc = l /\ d.todo = t /\ d.run = <<>> /\ d.left = <<>> /\ d.tmp = EmptySegment /\ d.cutoff = c
      BY <3>0, <3>1 DEF IdleComp, Labels
    <3>3. IsSegment(EmptySegment) /\ l # "idle"
      BY <3>0 DEF IsSegment, EmptySegment
    <3>4. ListsAt(d, ps, a, n)
      BY <3>0, <3>1, <3>2, <3>3 DEF ListsAt
    <3> QED
      BY <3>0, <3>2, <3>4
    \* The closed segments of a node that is up: a list without the active one.
  <2>ClosedList.
      ASSUME SInv, phase # "down"
      PROVE  /\ Front(paths) \in Seq(Nat) /\ IsInjective(Front(paths))
             /\ Range(Front(paths)) = Range(paths) \ {fd.path}
    <3> USE <2>ClosedList
    <3>1. paths \in Seq(Nat) /\ paths # <<>> /\ IsInjective(paths) /\ fd.path = Last(paths)
      BY NodeUp
    <3>2. /\ Front(paths) \in Seq(Nat) /\ Range(paths) = Range(Front(paths)) \cup {Last(paths)}
          /\ IsInjective(Front(paths)) /\ Last(paths) \notin Range(Front(paths))
      BY <3>1, FrontList
    <3> QED
      BY <3>1, <3>2
  <2>PassStep.
      ASSUME SInv, PassBegin \/ RetentionBegin \/ RetentionEnd
      PROVE  SInv'
    <3> USE <2>PassStep
    <3>1. /\ UNCHANGED <<files, phase, paths, nextSeq, fd, idx, writer, acked, cutoff>>
          /\ comp.pc \in {"idle", "scan", "retain"}
      BY DEF PassBegin, RetentionBegin, RetentionEnd, disk, manager, history
    <3>2. phase = "serving" /\ phase # "down"
      BY CompactorUp DEF PassBegin, RetentionBegin, RetentionEnd
    <3>3. /\ Front(paths) \in Seq(Nat) /\ IsInjective(Front(paths))
          /\ Range(Front(paths)) \subseteq Range(paths) \ {fd.path}
      BY <3>2, <2>ClosedList
    <3>4. <<>> \in Seq(Nat) /\ IsInjective(<<>>) /\ Range(<<>>) \subseteq Range(paths) \ {fd.path}
      BY EmptyList
    <3>5. cutoff \in Nat /\ 0 \in Nat /\ 0 <= cutoff /\ cutoff <= cutoff
      BY SMT DEF SInv, HandlersOK
    <3>6. CompactorAt(comp', files, Range(paths), fd.path, nextSeq, idx) /\ comp'.cutoff <= cutoff
          /\ comp'.pc \in {"idle", "scan", "retain"}
      <4>1. CASE comp' = IdleComp
        <5>1. CompactorAt(comp', files, Range(paths), fd.path, nextSeq, idx) /\ comp'.cutoff = 0
          BY <4>1, CompactorIdle
        <5>2. comp'.pc = "idle"
          BY <4>1 DEF IdleComp
        <5> QED
          BY <3>5, <5>1, <5>2
      <4>2. CASE comp' # IdleComp
        <5>1. PICK d : d = comp'
          OBVIOUS
        <5>2. NewPass(d, Range(paths), fd.path, cutoff)
          <6>1. CASE PassBegin
            <7>1. PICK t \in {Front(paths), <<>>} : comp' = [IdleComp EXCEPT !.pc = "scan", !.todo = t]
              BY <6>1 DEF PassBegin
            <7>2. comp' = [pc |-> "scan", todo |-> t, run |-> <<>>, left |-> <<>>, tmp |-> EmptySegment, cutoff |-> 0]
              BY <7>1 DEF IdleComp
            <7>3. t \in Seq(Nat) /\ IsInjective(t) /\ Range(t) \subseteq Range(paths) \ {fd.path}
              BY <3>3, <3>4, <7>1
            <7> QED
              BY <3>5, <5>1, <7>2, <7>3 DEF NewPass
          <6>2. CASE RetentionBegin
            <7>1. comp' = [IdleComp EXCEPT !.pc = "retain", !.todo = Front(paths), !.cutoff = cutoff]
              BY <4>2, <6>2 DEF RetentionBegin
            <7>2. comp' = [pc |-> "retain", todo |-> Front(paths), run |-> <<>>, left |-> <<>>, tmp |-> EmptySegment,
                           cutoff |-> cutoff]
              BY <7>1 DEF IdleComp
            <7> QED
              BY <3>3, <3>5, <5>1, <7>2 DEF NewPass
          <6> QED
            BY <4>2, <6>1, <6>2 DEF RetentionEnd
        <5>3. ListsAt(d, Range(paths), fd.path, nextSeq) /\ d.pc \in {"idle", "scan", "retain"} /\ d.cutoff <= cutoff
          BY <5>2, <2>PassBegins
        <5>4. CompactorAt(d, files, Range(paths), fd.path, nextSeq, idx)
          BY <5>3, <2>Between, SMT
        <5> QED
          BY <5>1, <5>3, <5>4
      <4> QED
        BY <4>1, <4>2
    <3>7. CompactorOK'
      BY <3>1, <3>6 DEF CompactorOK
    <3>8. Merging = {}
      <4>1. ListsAt(comp, Range(paths), fd.path, nextSeq)
        BY DEF SInv, CompactorOK, CompactorAt
      <4>2. ~(Len(comp.run) > 1)
        BY <3>1, <4>1, <2>Between
      <4> QED
        BY <4>2 DEF Merging
    <3>9. Merging \subseteq Merging'
      BY <3>8
    <3> QED
      BY <3>1, <3>2, <3>7, <3>9, <2>CompactorAlone
    \* The rest of the list after a part of it was looked at.
  <2>TodoStep.
      ASSUME SInv, comp.pc \in {"scan", "retain"}, NEW t \in Seq(Nat), IsInjective(t),
             Range(t) \subseteq Range(comp.todo), comp' = [comp EXCEPT !.todo = t],
             UNCHANGED <<files, phase, paths, nextSeq, fd, idx, writer, acked, cutoff>>
      PROVE  SInv'
    <3> USE <2>TodoStep
    <3>1. comp.pc # "idle" /\ comp.pc \in {"idle", "scan", "retain"}
      OBVIOUS
    <3>2. phase = "serving" /\ ListsAt(comp, Range(paths), fd.path, nextSeq) /\ comp.cutoff <= cutoff
      BY <3>1, CompactorUp
    <3>3. PICK d : d = comp'
      OBVIOUS
    <3>4. /\ ListsAt(d, Range(paths), fd.path, nextSeq) /\ d.pc = comp.pc /\ d.run = comp.run
          /\ d.cutoff = comp.cutoff
      BY <3>1, <3>2, <3>3, <2>TodoShrinks, SMT
    <3>5. CompactorAt(d, files, Range(paths), fd.path, nextSeq, idx)
      BY <3>1, <3>4, <2>Between, SMT
    <3>6. CompactorOK'
      BY <3>2, <3>3, <3>4, <3>5 DEF CompactorOK
    <3>7. Merging \subseteq Merging'
      <4>1. ~(Len(comp.run) > 1)
        BY <3>1, <3>2, <2>Between
      <4> QED
        BY <4>1 DEF Merging
    <3> QED
      BY <3>2, <3>6, <3>7, <2>CompactorAlone
  <2>SkipStep.
      ASSUME SInv, MergeSkip \/ RetentionKeep
      PROVE  SInv'
    <3> USE <2>SkipStep
    <3>1. /\ UNCHANGED <<files, phase, paths, nextSeq, fd, idx, writer, acked, cutoff>>
          /\ comp.pc \in {"scan", "retain"} /\ comp.pc # "idle" /\ comp.todo # <<>>
      BY DEF MergeSkip, RetentionKeep, disk, manager, history
    <3>2. comp.todo \in Seq(Nat) /\ IsInjective(comp.todo)
      BY <3>1, CompactorUp DEF ListsAt
    <3>3. PICK s : s = comp.todo
      OBVIOUS
    <3>4. s \in Seq(Nat) /\ IsInjective(s) /\ s # <<>> /\ Len(s) \in Nat
      BY <3>1, <3>2, <3>3, SMT
    <3>5. CASE MergeSkip
      <4>1. PICK n : n = RunLength(s)
        OBVIOUS
      <4>2. n \in Nat
        BY <3>4, <4>1, RunLengthRange, SMT DEF SInv
      <4>3. PICK m : m = Max({n, 1})
        OBVIOUS
      <4>4. m \in Nat
        <5>1. {n, 1} \in SUBSET Nat /\ {n, 1} # {}
          BY <4>2, SMT
        <5>2. IsFiniteSet({n, 1})
          <6>1. IsFiniteSet({n})
            BY OneFinite
          <6>2. IsFiniteSet({n} \cup {1})
            BY <6>1, GrownFinite
          <6>3. {n} \cup {1} = {n, 1}
            OBVIOUS
          <6> QED
            BY <6>2, <6>3
        <5>3. Max({n, 1}) \in {n, 1}
          BY <5>1, <5>2, LargestName DEF SInv
        <5> QED
          BY <4>3, <5>1, <5>3
      <4>5. m + 1 \in Nat \ {0} /\ Len(s) <= Len(s)
        BY <3>4, <4>4, SMT
      <4>6. PICK t : t = SubSeq(s, m + 1, Len(s))
        OBVIOUS
      <4>7. t \in Seq(Nat) /\ Range(t) \subseteq Range(s) /\ IsInjective(t)
        BY <3>4, <4>5, <4>6, PartList
      <4>8. comp' = [comp EXCEPT !.todo = t]
        <5>1. comp' = [comp EXCEPT !.todo = SubSeq(comp.todo, Max({RunLength(comp.todo), 1}) + 1, Len(comp.todo))]
          BY <3>5 DEF MergeSkip
        <5> QED
          BY <3>3, <4>1, <4>3, <4>6, <5>1
      <4>9. Range(t) \subseteq Range(comp.todo)
        BY <3>3, <4>7
      <4> QED
        BY <3>1, <4>7, <4>8, <4>9, <2>TodoStep
    <3>6. CASE RetentionKeep
      <4>1. PICK t : t = Tail(s)
        OBVIOUS
      <4>2. t \in Seq(Nat) /\ Range(t) \subseteq Range(s) /\ IsInjective(t)
        BY <3>4, <4>1, TailList
      <4>3. comp' = [comp EXCEPT !.todo = t]
        BY <3>3, <3>6, <4>1 DEF RetentionKeep
      <4>4. Range(t) \subseteq Range(comp.todo)
        BY <3>3, <4>2
      <4> QED
        BY <3>1, <4>2, <4>3, <4>4, <2>TodoStep
    <3> QED
      BY <3>5, <3>6
  <2>MergeReadStep.
      ASSUME SInv, MergeRead
      PROVE  SInv'
    <3> USE <2>MergeReadStep
    <3>1. /\ UNCHANGED <<files, phase, paths, nextSeq, fd, idx, writer, acked, cutoff>>
          /\ comp.pc = "scan" /\ comp.pc # "idle"
      BY DEF MergeRead, disk, manager, history
    <3>2. /\ phase = "serving" /\ phase # "down" /\ ListsAt(comp, Range(paths), fd.path, nextSeq)
          /\ comp.todo \in Seq(Nat) /\ comp.cutoff \in Nat /\ comp.cutoff <= cutoff
          /\ comp \in [pc : Labels, todo : Seq(Nat), run : Seq(Nat), left : Seq(Nat), tmp : {comp.tmp}, cutoff : Nat]
      BY <3>1, CompactorUp
    <3>3. IsInjective(comp.todo) /\ Range(comp.todo) \subseteq Range(paths) \ {fd.path}
      BY <3>2 DEF ListsAt
    <3>4. PICK s, n : s = comp.todo /\ n = RunLength(s)
      OBVIOUS
    <3>5. s \in Seq(Nat) /\ IsInjective(s) /\ n \in 0 .. Len(s) /\ Len(s) \in Nat
      BY <3>2, <3>3, <3>4, RunLengthRange, SMT DEF SInv
    <3>6. PICK r, t, g : r = SubSeq(s, 1, n) /\ t = SubSeq(s, n + 1, Len(s)) /\ g = Concatenated(Range(r))
      OBVIOUS
    <3>7. n >= 2 /\ n \in Nat /\ n <= Len(s)
      BY <3>4, <3>5, SMT DEF MergeRead
    <3>8. /\ Readable(Range(r))
          /\ comp' = [comp EXCEPT !.pc = "unindex", !.run = r, !.left = r, !.tmp = g, !.todo = t]
      BY <3>4, <3>6 DEF MergeRead
    <3>9. r \in Seq(Nat) /\ Range(r) \subseteq Range(s) /\ Len(r) = n /\ IsInjective(r)
      BY <3>5, <3>6, <3>7, PartList, SMT
    <3>10. t \in Seq(Nat) /\ Range(t) \subseteq Range(s) /\ IsInjective(t) /\ Range(r) \cap Range(t) = {}
      <4>1. n + 1 \in Nat \ {0} /\ Len(s) <= Len(s) /\ n \in 0 .. (n + 1) - 1
        BY <3>5, <3>7, SMT
      <4> QED
        BY <3>5, <3>6, <3>7, <4>1, PartList, SMT
    <3>11. /\ comp' \in [pc : Labels, todo : Seq(Nat), run : Seq(Nat), left : Seq(Nat), tmp : {comp'.tmp}, cutoff : Nat]
           /\ comp'.pc = "unindex" /\ comp'.todo = t /\ comp'.run = r /\ comp'.left = r /\ comp'.tmp = g
           /\ comp'.cutoff = comp.cutoff
      BY <3>2, <3>8, <3>9, <3>10 DEF Labels
    <3>12. g.recs = Read(files, Range(r)) /\ Whole(files, Range(r))
      <4>1. g.recs = ReadSegments(Range(r))
        BY <3>6 DEF Concatenated
      <4> QED
        BY <3>8, <4>1 DEF ReadSegments, Read, Readable, Whole, Contents
    <3>13. IsSegment(g)
      <4>1. g.recs \subseteq AllEntries
        <5>1. \A p \in DOMAIN files : files[p].recs \subseteq AllEntries
          BY DEF SInv, FilesOK, IsSegment
        <5> QED
          BY <3>12, <5>1 DEF Read
      <4>2. PICK x, y : x = g.recs /\ g = [recs |-> x, size |-> y, torn |-> FALSE]
        BY <3>6 DEF Concatenated
      <4>3. g = [recs |-> x, size |-> y, torn |-> FALSE] /\ x \subseteq AllEntries
        BY <4>1, <4>2
      <4> QED
        BY <4>3 DEF IsSegment
    <3>14. ListsAt(comp', Range(paths), fd.path, nextSeq)
      <4>1. Range(r) \subseteq Range(paths) \ {fd.path} /\ Range(t) \subseteq Range(paths) \ {fd.path}
        BY <3>3, <3>4, <3>9, <3>10
      <4>2. \A p \in Range(r) : p < nextSeq
        BY <3>2, <4>1, NodeUp
      <4>3. fd.path \notin Range(r)
        BY <4>1
      <4>4. comp'.pc \notin {"idle", "scan", "retain"}
        BY <3>11
      <4> QED
        BY <3>9, <3>10, <3>11, <3>13, <4>1, <4>2, <4>3, <4>4 DEF ListsAt
    <3>15. MergeAt(comp', files, Range(paths), idx)
      <4>1. Range(r) \subseteq Range(paths) /\ r # <<>>
        BY <3>3, <3>4, <3>7, <3>9, SMT
      <4> QED
        BY <3>7, <3>9, <3>11, <3>12, <4>1 DEF MergeAt
    <3>16. DeleteAt(comp', files, Range(paths), idx)
      BY <3>11 DEF DeleteAt
    <3>17. CompactorOK'
      BY <3>1, <3>2, <3>11, <3>14, <3>15, <3>16 DEF CompactorOK, CompactorAt
    <3>18. Merging \subseteq Merging'
      <4>1. comp.pc \in {"idle", "scan", "retain"}
        BY <3>1
      <4>2. ~(Len(comp.run) > 1)
        BY <3>2, <4>1, <2>Between
      <4> QED
        BY <4>2 DEF Merging
    <3> QED
      BY <3>1, <3>2, <3>17, <3>18, <2>CompactorAlone
  <2>MergeBloomStep.
      ASSUME SInv, MergeWriteBloom \/ MergeWriteBloomFails
      PROVE  SInv'
    <3> USE <2>MergeBloomStep
    <3>1. /\ UNCHANGED <<files, phase, paths, nextSeq, fd, idx, writer, acked, cutoff>>
          /\ comp.pc = "bloom" /\ comp.pc \in {"unindex", "rename", "bloom", "reindex", "manager"}
          /\ comp' = [comp EXCEPT !.pc = "reindex"]
      BY DEF MergeWriteBloom, MergeWriteBloomFails, disk, manager, history
    <3>2. /\ phase = "serving" /\ phase # "down" /\ ListsAt(comp, Range(paths), fd.path, nextSeq)
          /\ MergeAt(comp, files, Range(paths), idx) /\ comp.cutoff <= cutoff
          /\ comp \in [pc : Labels, todo : Seq(Nat), run : Seq(Nat), left : Seq(Nat), tmp : {comp.tmp}, cutoff : Nat]
          /\ comp.left \in Seq(Nat) /\ IsInjective(comp.left) /\ Range(comp.left) \subseteq Range(comp.run)
          /\ Len(comp.run) > 1
      BY <3>1, MergeUp
    <3>3. PICK d : d = comp'
      OBVIOUS
    <3>4. d = [pc |-> "reindex", todo |-> comp.todo, run |-> comp.run, left |-> comp.left, tmp |-> comp.tmp,
               cutoff |-> comp.cutoff]
      BY <3>1, <3>2, <3>3
    <3>5. /\ ListsAt(d, Range(paths), fd.path, nextSeq) /\ d.pc = "reindex" /\ d.run = comp.run
          /\ d.tmp = comp.tmp /\ d.cutoff = comp.cutoff
      <4>1. /\ d \in [pc : Labels, todo : Seq(Nat), run : Seq(Nat), left : Seq(Nat), tmp : {d.tmp}, cutoff : Nat]
            /\ d.pc = "reindex" /\ d.pc \notin {"idle", "scan", "retain"}
            /\ d.todo = comp.todo /\ d.run = comp.run /\ d.left = comp.left /\ d.tmp = comp.tmp
            /\ d.cutoff = comp.cutoff
        BY <3>2, <3>4 DEF Labels
      <4> QED
        BY <3>2, <4>1, Relabelled
    <3>6. MergeAt(d, files, Range(paths), idx)
      BY <3>1, <3>2, <3>5 DEF MergeAt
    <3>7. DeleteAt(d, files, Range(paths), idx)
      BY <3>5 DEF DeleteAt
    <3>8. CompactorOK'
      BY <3>1, <3>2, <3>3, <3>5, <3>6, <3>7 DEF CompactorOK, CompactorAt
    <3>9. Merging \subseteq Merging'
      BY <3>3, <3>5 DEF Merging
    <3> QED
      BY <3>1, <3>2, <3>8, <3>9, <2>CompactorAlone
    \* The same when no file changes.
  <2>IndexStep.
      ASSUME SInv, phase = "serving", UNCHANGED <<files, phase, nextSeq, writer, acked, cutoff>>,
             ManagerOK', CompactorOK', \A e \in AllEntries : Found(e) => Found(e)'
      PROVE  SInv'
    <3> USE <2>IndexStep
    <3>1. FilesOK'
      BY DEF SInv, FilesOK
    <3>2. ASSUME NEW e PROVE (Safe(e) => Safe(e)') /\ \A p : Holds(p, e) => Holds(p, e)'
      BY DEF Safe, Holds, Expired
    <3> QED
      BY <3>1, <3>2, CompactorStep
    \* What an unindexed segment of the run holds is in the .tmp file.
  <2>MergeUnindexStep.
      ASSUME SInv, MergeUnindex
      PROVE  SInv'
    <3> USE <2>MergeUnindexStep
    <3>1. /\ UNCHANGED <<files, phase, paths, nextSeq, fd, writer, acked, cutoff>>
          /\ comp.pc = "unindex" /\ comp.pc \in {"unindex", "rename", "bloom", "reindex", "manager"}
          /\ idx' = RemoveSegment(Head(comp.left))
      BY DEF MergeUnindex, disk, manager, history
    <3>2. /\ phase = "serving" /\ phase # "down" /\ ListsAt(comp, Range(paths), fd.path, nextSeq)
          /\ MergeAt(comp, files, Range(paths), idx) /\ comp.cutoff <= cutoff
          /\ comp \in [pc : Labels, todo : Seq(Nat), run : Seq(Nat), left : Seq(Nat), tmp : {comp.tmp}, cutoff : Nat]
          /\ comp.left \in Seq(Nat) /\ IsInjective(comp.left) /\ Range(comp.left) \subseteq Range(comp.run)
          /\ Len(comp.run) > 1 /\ Range(comp.run) \subseteq DOMAIN files /\ Merging = comp.tmp.recs
      BY <3>1, MergeUp
    <3>3. comp.left # <<>> /\ comp.tmp.recs = Read(files, Range(comp.run))
      BY <3>1, <3>2 DEF MergeAt
    <3>4. PICK s, h : s = comp.left /\ h = Head(s)
      OBVIOUS
    <3>5. s \in Seq(Nat) /\ s # <<>> /\ IsInjective(s) /\ Range(s) \subseteq Range(comp.run) /\ Len(s) \in Nat
      BY <3>2, <3>3, <3>4, SMT
    <3>6. PICK t : t = Tail(s)
      OBVIOUS
    <3>7. t \in Seq(Nat) /\ IsInjective(t) /\ Range(s) = {h} \cup Range(t) /\ Len(t) = Len(s) - 1
      BY <3>4, <3>5, <3>6, TailList
    <3>8. PICK l \in {"rename", "unindex"} : l = IF Len(s) = 1 THEN "rename" ELSE "unindex"
      OBVIOUS
    <3>9. PICK d : d = comp'
      OBVIOUS
    <3>10. d = [pc |-> l, todo |-> comp.todo, run |-> comp.run, left |-> t, tmp |-> comp.tmp,
                cutoff |-> comp.cutoff]
      <4>1. comp' = [comp EXCEPT !.left = Tail(comp.left), !.pc = IF Len(comp.left) = 1 THEN "rename" ELSE "unindex"]
        BY DEF MergeUnindex
      <4>2. comp' = [comp EXCEPT !.left = t, !.pc = l]
        BY <3>4, <3>6, <3>8, <4>1
      <4> QED
        BY <3>2, <3>9, <4>2
    <3>11. /\ ListsAt(d, Range(paths), fd.path, nextSeq) /\ d.pc = l /\ d.run = comp.run /\ d.left = t
           /\ d.tmp = comp.tmp /\ d.cutoff = comp.cutoff
      <4>1. /\ d \in [pc : Labels, todo : Seq(Nat), run : Seq(Nat), left : Seq(Nat), tmp : {d.tmp}, cutoff : Nat]
            /\ d.pc = l /\ d.pc \notin {"idle", "scan", "retain"}
            /\ d.todo = comp.todo /\ d.run = comp.run /\ d.left = t /\ d.tmp = comp.tmp
            /\ d.cutoff = comp.cutoff
        BY <3>2, <3>7, <3>8, <3>10 DEF Labels
      <4>2. IsInjective(d.left) /\ Range(d.left) \subseteq Range(comp.run)
        BY <3>5, <3>7, <4>1
      <4> QED
        BY <3>2, <4>1, <4>2, Relabelled
    <3>12. MergeAt(d, files, Range(paths), idx')
      <4>1. (l = "unindex" => t # <<>>) /\ (l = "rename" => t = <<>>)
        <5>1. t = <<>> <=> Len(t) = 0
          BY <3>7, ListNames
        <5>2. s = <<>> <=> Len(s) = 0
          BY <3>5, ListNames
        <5> QED
          BY <3>5, <3>7, <3>8, <5>1, <5>2, SMT
      <4> QED
        BY <3>1, <3>2, <3>8, <3>11, <4>1 DEF MergeAt
    <3>13. DeleteAt(d, files, Range(paths), idx')
      BY <3>8, <3>11 DEF DeleteAt
    <3>14. CompactorOK'
      BY <3>1, <3>2, <3>9, <3>11, <3>12, <3>13 DEF CompactorOK, CompactorAt
    <3>15. ASSUME NEW e \in AllEntries, Found(e) PROVE Found(e)'
      <4>1. Merging' = Merging
        BY <3>2, <3>9, <3>11 DEF Merging
      <4>2. CASE \E p : <<p, e>> \in idx /\ Holds(p, e)
        <5>1. PICK p : <<p, e>> \in idx /\ Holds(p, e)
          BY <4>2
        <5>2. CASE p = h
          <6>1. h \in Range(comp.run) \cap DOMAIN files
            BY <3>2, <3>5, <3>7
          <6>2. e \in Merging
            BY <3>2, <3>3, <5>1, <5>2, <6>1 DEF Read, Holds
          <6> QED
            BY <4>1, <6>2 DEF Found
        <5>3. CASE p # h
          <6>1. <<p, e>> \in idx'
            BY <3>1, <3>4, <5>1, <5>3 DEF RemoveSegment
          <6>2. Holds(p, e)'
            BY <3>1, <5>1 DEF Holds
          <6> QED
            BY <6>1, <6>2 DEF Found
        <5> QED
          BY <5>2, <5>3
      <4>3. CASE e \in Merging \/ Expired(e)
        BY <3>1, <4>1, <4>3 DEF Found, Expired
      <4> QED
        BY <3>15, <4>2, <4>3 DEF Found
    <3>16. ManagerOK'
      BY <3>1 DEF SInv, ManagerOK
    <3> QED
      BY <3>1, <3>2, <3>14, <3>15, <3>16, <2>IndexStep
    \* A failed rename gives the entries back to the files they are still in.
  <2>MergeRenameFailsStep.
      ASSUME SInv, MergeRenameFails
      PROVE  SInv'
    <3> USE <2>MergeRenameFailsStep
    <3>1. /\ UNCHANGED <<files, phase, paths, nextSeq, fd, writer, acked, cutoff>>
          /\ comp.pc = "rename" /\ comp.pc \in {"unindex", "rename", "bloom", "reindex", "manager"}
          /\ comp' = [comp EXCEPT !.pc = "scan", !.run = <<>>, !.tmp = EmptySegment]
          /\ idx' = idx \cup UNION {{p} \X Contents(p) :
                       p \in {q \in Range(comp.run) \cap DOMAIN files : ~files[q].torn}}
      BY DEF MergeRenameFails, disk, manager
    <3>2. /\ phase = "serving" /\ phase # "down" /\ ListsAt(comp, Range(paths), fd.path, nextSeq)
          /\ MergeAt(comp, files, Range(paths), idx) /\ comp.cutoff <= cutoff
          /\ comp \in [pc : Labels, todo : Seq(Nat), run : Seq(Nat), left : Seq(Nat), tmp : {comp.tmp}, cutoff : Nat]
          /\ Merging = comp.tmp.recs
      BY <3>1, MergeUp
    <3>3. /\ Whole(files, Range(comp.run)) /\ comp.tmp.recs = Read(files, Range(comp.run))
          /\ comp.left = <<>>
      BY <3>1, <3>2 DEF MergeAt
    <3>4. PICK d : d = comp'
      OBVIOUS
    <3>5. <<>> \in Seq(Nat) /\ Range(<<>>) = {} /\ IsInjective(<<>>)
      BY EmptyList
    <3>6. /\ d \in [pc : Labels, todo : Seq(Nat), run : Seq(Nat), left : Seq(Nat), tmp : {d.tmp}, cutoff : Nat]
          /\ d.pc = "scan" /\ d.todo = comp.todo /\ d.run = <<>> /\ d.left = <<>> /\ d.tmp = EmptySegment
          /\ d.cutoff = comp.cutoff
      BY <3>1, <3>2, <3>3, <3>4, <3>5 DEF Labels
    <3>7. ListsAt(d, Range(paths), fd.path, nextSeq)
      <4>1. IsSegment(EmptySegment) /\ d.pc # "idle"
        BY <3>6 DEF IsSegment, EmptySegment
      <4> QED
        BY <3>2, <3>5, <3>6, <4>1 DEF ListsAt
    <3>8. d.pc \in {"idle", "scan", "retain"}
      BY <3>6
    <3>9. CompactorAt(d, files, Range(paths), fd.path, nextSeq, idx')
      BY <3>7, <3>8, <2>Between, SMT
    <3>10. CompactorOK'
      BY <3>1, <3>2, <3>4, <3>6, <3>9 DEF CompactorOK
    <3>11. ASSUME NEW e \in AllEntries, Found(e) PROVE Found(e)'
      <4>1. CASE Expired(e)
        BY <3>1, <4>1 DEF Found, Expired
      <4>2. CASE \E p : <<p, e>> \in idx /\ Holds(p, e)
        BY <3>1, <4>2 DEF Found, Holds
      <4>3. CASE e \in Merging
        <5>1. PICK p \in Range(comp.run) \cap DOMAIN files : e \in files[p].recs
          BY <3>2, <3>3, <4>3 DEF Read
        <5>2. ~files[p].torn
          BY <3>3, <5>1 DEF Whole
        <5>3. <<p, e>> \in idx'
          BY <3>1, <5>1, <5>2, SMT DEF Contents
        <5>4. Holds(p, e)'
          BY <3>1, <5>1 DEF Holds
        <5> QED
          BY <5>3, <5>4 DEF Found
      <4> QED
        BY <3>11, <4>1, <4>2, <4>3 DEF Found
    <3>12. ManagerOK'
      BY <3>1 DEF SInv, ManagerOK
    <3> QED
      BY <3>1, <3>2, <3>10, <3>11, <3>12, <2>IndexStep
  <2>MergeReindexStep.
      ASSUME SInv, MergeReindex
      PROVE  SInv'
    <3> USE <2>MergeReindexStep
    <3>1. /\ UNCHANGED <<files, phase, paths, nextSeq, fd, writer, acked, cutoff>>
          /\ comp.pc = "reindex" /\ comp.pc \in {"unindex", "rename", "bloom", "reindex", "manager"}
          /\ comp' = [comp EXCEPT !.pc = "manager"] /\ idx' = idx \cup ({Head(comp.run)} \X comp.tmp.recs)
      BY DEF MergeReindex, disk, manager, history
    <3>2. /\ phase = "serving" /\ phase # "down" /\ ListsAt(comp, Range(paths), fd.path, nextSeq)
          /\ MergeAt(comp, files, Range(paths), idx) /\ comp.cutoff <= cutoff
          /\ comp \in [pc : Labels, todo : Seq(Nat), run : Seq(Nat), left : Seq(Nat), tmp : {comp.tmp}, cutoff : Nat]
          /\ IsInjective(comp.left) /\ Range(comp.left) \subseteq Range(comp.run)
      BY <3>1, MergeUp
    <3>3. PICK d : d = comp'
      OBVIOUS
    <3>4. /\ d \in [pc : Labels, todo : Seq(Nat), run : Seq(Nat), left : Seq(Nat), tmp : {d.tmp}, cutoff : Nat]
          /\ d.pc = "manager" /\ d.pc \notin {"idle", "scan", "retain"}
          /\ d.todo = comp.todo /\ d.run = comp.run /\ d.left = comp.left /\ d.tmp = comp.tmp
          /\ d.cutoff = comp.cutoff
      BY <3>1, <3>2, <3>3 DEF Labels
    <3>5. ListsAt(d, Range(paths), fd.path, nextSeq)
      BY <3>2, <3>4, Relabelled
    <3>6. MergeAt(d, files, Range(paths), idx')
      BY <3>1, <3>2, <3>4 DEF MergeAt
    <3>7. DeleteAt(d, files, Range(paths), idx')
      BY <3>4 DEF DeleteAt
    <3>8. CompactorOK'
      BY <3>1, <3>2, <3>3, <3>4, <3>5, <3>6, <3>7 DEF CompactorOK, CompactorAt
    <3>9. ASSUME NEW e \in AllEntries, Found(e) PROVE Found(e)'
      <4>1. Merging' = Merging /\ idx \subseteq idx'
        BY <3>1, <3>3, <3>4 DEF Merging
      <4> QED
        BY <3>1, <3>9, <4>1 DEF Found, Holds, Expired
    <3>10. ManagerOK'
      BY <3>1 DEF SInv, ManagerOK
    <3> QED
      BY <3>1, <3>2, <3>8, <3>9, <3>10, <2>IndexStep
    \* The manager forgets the run but for its first file, which holds all of it.
  <2>MergeManagerStep.
      ASSUME SInv, MergeManager
      PROVE  SInv'
    <3> USE <2>MergeManagerStep
    <3>1. /\ UNCHANGED <<files, phase, nextSeq, fd, idx, writer, acked, cutoff>>
          /\ comp.pc = "manager" /\ comp.pc \in {"unindex", "rename", "bloom", "reindex", "manager"}
          /\ comp' = [comp EXCEPT !.pc = "delete", !.left = Tail(comp.run)]
          /\ paths' = Without(paths, Range(Tail(comp.run)))
      BY DEF MergeManager, disk, history
    <3>2. /\ phase = "serving" /\ phase # "down" /\ ListsAt(comp, Range(paths), fd.path, nextSeq)
          /\ MergeAt(comp, files, Range(paths), idx) /\ comp.cutoff <= cutoff
          /\ comp \in [pc : Labels, todo : Seq(Nat), run : Seq(Nat), left : Seq(Nat), tmp : {comp.tmp}, cutoff : Nat]
          /\ comp.run \in Seq(Nat) /\ comp.run # <<>> /\ IsInjective(comp.run)
          /\ Len(comp.run) > 1 /\ Range(comp.run) \subseteq Range(paths)
      BY <3>1, MergeUp
    <3>3. PICK r, h, t : r = comp.run /\ h = Head(r) /\ t = Tail(r)
      OBVIOUS
    <3>4. r \in Seq(Nat) /\ r # <<>> /\ IsInjective(r) /\ Len(r) > 1
      BY <3>2, <3>3
    <3>5. /\ t \in Seq(Nat) /\ Len(t) = Len(r) - 1 /\ Range(r) = {h} \cup Range(t)
          /\ IsInjective(t) /\ h \notin Range(t)
      BY <3>3, <3>4, TailList
    <3>6. t # <<>>
      BY <3>4, <3>5, SMT
    <3>7. fd.path \notin Range(r) /\ Range(r) \cap Range(comp.todo) = {}
      BY <3>2, <3>3 DEF ListsAt
    <3>8. ManagerOK' /\ Range(paths') = Range(paths) \ Range(t)
      <4>1. paths' = Without(paths, Range(t)) /\ fd.path \notin Range(t)
        BY <3>1, <3>3, <3>5, <3>7
      <4>2. UNCHANGED <<files, phase, nextSeq, fd>>
        BY <3>1
      <4> QED
        BY <3>2, <4>1, <4>2, ListWithout
    <3>9. PICK d : d = comp'
      OBVIOUS
    <3>10. /\ d \in [pc : Labels, todo : Seq(Nat), run : Seq(Nat), left : Seq(Nat), tmp : {d.tmp}, cutoff : Nat]
           /\ d.pc = "delete" /\ d.pc \notin {"idle", "scan", "retain"}
           /\ d.todo = comp.todo /\ d.run = comp.run /\ d.left = t /\ d.tmp = comp.tmp
           /\ d.cutoff = comp.cutoff
      BY <3>1, <3>2, <3>3, <3>5, <3>9 DEF Labels
    <3>11. ListsAt(d, Range(paths'), fd.path, nextSeq)
      <4>1. IsInjective(d.left) /\ Range(d.left) \subseteq Range(comp.run)
        BY <3>3, <3>5, <3>10
      <4>2. ListsAt(d, Range(paths), fd.path, nextSeq)
        BY <3>2, <3>10, <4>1, Relabelled
      <4>3. Range(d.todo) \subseteq Range(paths') \ {fd.path}
        BY <3>2, <3>5, <3>7, <3>8, <3>10 DEF ListsAt
      <4> QED
        BY <4>2, <4>3 DEF ListsAt
    <3>12. MergeAt(d, files, Range(paths'), idx)
      BY <3>10 DEF MergeAt
    <3>13. DeleteAt(d, files, Range(paths'), idx)
      <4>1. /\ comp.tmp.recs = files[h].recs /\ Read(files, Range(r)) \subseteq comp.tmp.recs
            /\ {h} \X comp.tmp.recs \subseteq idx
        BY <3>1, <3>2, <3>3 DEF MergeAt
      <4>2. Read(files, Range(t)) \subseteq comp.tmp.recs
        <5>1. Range(t) \subseteq Range(r)
          BY <3>5
        <5>2. Read(files, Range(t)) \subseteq Read(files, Range(r))
          BY <5>1, <2>ReadLess
        <5> QED
          BY <4>1, <5>2
      <4>3. h \in Range(paths') /\ Range(t) \cap Range(paths') = {}
        BY <3>2, <3>3, <3>5, <3>8
      <4> QED
        BY <3>3, <3>4, <3>6, <3>10, <4>1, <4>2, <4>3 DEF DeleteAt
    <3>14. CompactorOK'
      BY <3>1, <3>2, <3>9, <3>10, <3>11, <3>12, <3>13 DEF CompactorOK, CompactorAt
    <3>15. ASSUME NEW e \in AllEntries, Found(e) PROVE Found(e)'
      <4>1. Merging' = Merging
        BY <3>9, <3>10 DEF Merging
      <4> QED
        BY <3>1, <3>15, <4>1 DEF Found, Holds, Expired
    <3> QED
      BY <3>1, <3>2, <3>8, <3>14, <3>15, <2>IndexStep
    \* The deleted file's entries are in the merged file, or expired.
  <2>DeleteFileStep.
      ASSUME SInv, DeleteFile
      PROVE  SInv'
    <3> USE <2>DeleteFileStep
    <3>1. /\ UNCHANGED <<phase, paths, nextSeq, idx, writer, acked, cutoff>>
          /\ comp.pc = "delete" /\ comp.pc \in {"delete", "delbloom"}
          /\ files' = Drop(files, Head(comp.left)) /\ fd' = Unlinked(Head(comp.left))
      BY DEF DeleteFile, history
    <3>2. /\ phase = "serving" /\ phase # "down" /\ ListsAt(comp, Range(paths), fd.path, nextSeq)
          /\ DeleteAt(comp, files, Range(paths), idx) /\ comp.cutoff \in Nat /\ comp.cutoff <= cutoff
          /\ comp \in [pc : Labels, todo : Seq(Nat), run : Seq(Nat), left : Seq(Nat), tmp : {comp.tmp}, cutoff : Nat]
          /\ comp.left \in Seq(Nat) /\ comp.left # <<>> /\ Range(comp.left) \cap Range(paths) = {}
          /\ IsInjective(comp.left) /\ Range(comp.left) \subseteq Range(comp.run)
      BY <3>1, DeleteUp
    <3>3. PICK h, k : h = Head(comp.left) /\ k = Head(comp.run)
      OBVIOUS
    <3>4. h \in Range(comp.left) /\ h \notin Range(paths)
      BY <3>2, <3>3, HeadIn
    <3>5. /\ paths \in Seq(Nat) /\ paths # <<>> /\ IsInjective(paths) /\ Range(paths) \subseteq DOMAIN files
          /\ fd.path = Last(paths) /\ fd.path \in Range(paths)
          /\ \A p \in DOMAIN files : p < nextSeq
      BY <3>2, NodeUp
    <3>6. fd = [path |-> Last(paths), attached |-> TRUE, size |-> files[Last(paths)].size]
      BY <3>2 DEF SInv, ManagerOK
    <3>7. fd' = fd
      <4>1. PICK a, z : fd = [path |-> a, attached |-> TRUE, size |-> z] /\ a # h
        BY <3>4, <3>5, <3>6
      <4> QED
        BY <3>1, <3>3, <4>1 DEF Unlinked
    <3>8. /\ DOMAIN files' = DOMAIN files \ {h}
          /\ \A q \in DOMAIN files : q # h => files'[q] = files[q]
      BY <3>1, <3>3 DEF Drop, Restrict
    <3>9. FilesOK'
      <4>1. FilesOK
        BY DEF SInv
      <4>2. IsFiniteSet(DOMAIN files \ {h})
        BY <4>1, PartFinite DEF FilesOK
      <4> QED
        BY <3>8, <4>1, <4>2 DEF FilesOK
    <3>10. ManagerOK'
      <4>1. Range(paths) \subseteq DOMAIN files' /\ files'[Last(paths)] = files[Last(paths)]
        BY <3>4, <3>5, <3>8
      <4> QED
        BY <3>1, <3>5, <3>6, <3>7, <3>8, <4>1 DEF ManagerOK
    <3>11. PICK d : d = comp' /\ d = [comp EXCEPT !.pc = "delbloom"]
      BY DEF DeleteFile
    <3>12. /\ d \in [pc : Labels, todo : Seq(Nat), run : Seq(Nat), left : Seq(Nat), tmp : {d.tmp}, cutoff : Nat]
           /\ d.pc = "delbloom" /\ d.pc \notin {"idle", "scan", "retain"}
           /\ d.todo = comp.todo /\ d.run = comp.run /\ d.left = comp.left /\ d.tmp = comp.tmp
           /\ d.cutoff = comp.cutoff
      BY <3>2, <3>11 DEF Labels
    <3>13. ListsAt(d, Range(paths), fd.path, nextSeq)
      BY <3>2, <3>12, Relabelled
    <3>14. MergeAt(d, files', Range(paths), idx)
      BY <3>12 DEF MergeAt
    <3>15. Read(files', Range(comp.left)) \subseteq Read(files, Range(comp.left))
      BY <3>8 DEF Read
    <3>16. ASSUME Len(comp.run) > 1
           PROVE  /\ Head(comp.run) \in Range(paths) /\ Head(comp.run) \in DOMAIN files'
                  /\ files'[Head(comp.run)] = files[Head(comp.run)]
                  /\ comp.tmp.recs = files[Head(comp.run)].recs
                  /\ Read(files, Range(comp.left)) \subseteq comp.tmp.recs
                  /\ {Head(comp.run)} \X comp.tmp.recs \subseteq idx
      BY <3>1, <3>2, <3>4, <3>5, <3>8, <3>16 DEF DeleteAt
    <3>17. ASSUME ~(Len(comp.run) > 1)
           PROVE  \A e \in Read(files, Range(comp.left)) : TsOf[e] < comp.cutoff
      BY <3>1, <3>2, <3>17 DEF DeleteAt
    <3>18. DeleteAt(d, files', Range(paths), idx)
      <4>1. comp.run # <<>>
        BY <3>1, <3>2 DEF DeleteAt
      <4>2. d.pc # "expire"
        BY <3>12
      <4>3. ASSUME Len(d.run) > 1
            PROVE  /\ Head(d.run) \in Range(paths)
                   /\ d.tmp.recs = files'[Head(d.run)].recs
                   /\ Read(files', Range(d.left)) \subseteq d.tmp.recs
                   /\ {Head(d.run)} \X d.tmp.recs \subseteq idx
        BY <3>12, <3>15, <3>16, <4>3
      <4>4. ASSUME ~(Len(d.run) > 1) PROVE \A e \in Read(files', Range(d.left)) : TsOf[e] < d.cutoff
        BY <3>12, <3>15, <3>17, <4>4
      <4> QED
        BY <3>2, <3>12, <4>1, <4>2, <4>3, <4>4 DEF DeleteAt
    <3>19. CompactorOK'
      BY <3>1, <3>2, <3>7, <3>11, <3>12, <3>13, <3>14, <3>18 DEF CompactorOK, CompactorAt
    <3>20. Merging' = Merging /\ cutoff \in Nat
      BY <3>11, <3>12 DEF Merging, SInv, HandlersOK
    <3>21. ASSUME NEW e \in AllEntries, NEW p, Holds(p, e)
           PROVE  \/ p # h /\ Holds(p, e)'
                  \/ Expired(e)'
                  \/ e \in Merging' /\ Holds(k, e)'
      <4>1. CASE p # h
        BY <3>8, <3>21, <4>1 DEF Holds
      <4>2. CASE p = h
        <5>1. e \in Read(files, Range(comp.left))
          BY <3>4, <3>21, <4>2 DEF Read, Holds
        <5>2. CASE Len(comp.run) > 1
          <6>1. k \in DOMAIN files' /\ files'[k].recs = comp.tmp.recs /\ e \in comp.tmp.recs
            BY <3>3, <3>16, <5>1, <5>2
          <6>2. e \in Merging'
            BY <3>20, <5>2, <6>1 DEF Merging
          <6> QED
            BY <6>1, <6>2 DEF Holds
        <5>3. CASE ~(Len(comp.run) > 1)
          <6>1. TsOf[e] < comp.cutoff
            BY <3>17, <5>1, <5>3
          <6>2. Expired(e)
            BY <3>2, <3>20, <6>1, OldIsExpired
          <6> QED
            BY <3>1, <6>2 DEF Expired
        <5> QED
          BY <5>2, <5>3
      <4> QED
        BY <4>1, <4>2
    <3>22. ASSUME NEW e \in AllEntries PROVE Safe(e) => Safe(e)'
      BY <3>1, <3>21 DEF Safe, Expired
    <3>23. ASSUME NEW e \in AllEntries PROVE Found(e) => Found(e)'
      BY <3>1, <3>20, <3>21 DEF Found, Expired
    <3>24. ASSUME NEW e \in AllEntries, NEW p, Holds(p, e) PROVE Holds(p, e)' \/ Found(e)'
      BY <3>21, <3>24 DEF Found
    <3> QED
      BY <3>1, <3>2, <3>9, <3>10, <3>19, <3>22, <3>23, <3>24, CompactorStep
    \* The compactor lets go of what it had in hand.
  <2>HandsEmpty.
      ASSUME NEW c, NEW fs, NEW ps, NEW a, NEW n, NEW ix, ListsAt(c, ps, a, n), NEW d,
             d \in [pc : Labels, todo : Seq(Nat), run : Seq(Nat), left : Seq(Nat), tmp : {d.tmp}, cutoff : Nat],
             d.pc \in {"scan", "retain"}, d.todo = c.todo, d.run = <<>>, d.left = <<>>, d.tmp = EmptySegment
      PROVE  CompactorAt(d, fs, ps, a, n, ix)
    <3> USE <2>HandsEmpty
    <3>1. IsSegment(EmptySegment) /\ d.pc # "idle" /\ d.pc \in {"idle", "scan", "retain"}
      BY DEF IsSegment, EmptySegment
    <3>2. Range(<<>>) = {} /\ IsInjective(<<>>)
      BY EmptyList
    <3>3. ListsAt(d, ps, a, n)
      BY <3>1, <3>2 DEF ListsAt
    <3> QED
      BY <3>1, <3>3, <2>Between, SMT
  <2>DeleteBloomStep.
      ASSUME SInv, DeleteBloom
      PROVE  SInv'
    <3> USE <2>DeleteBloomStep
    <3>1. /\ UNCHANGED <<files, phase, paths, nextSeq, fd, idx, writer, acked, cutoff>>
          /\ comp.pc = "delbloom" /\ comp.pc \in {"delete", "delbloom"}
      BY DEF DeleteBloom, manager, history
    <3>2. /\ phase = "serving" /\ phase # "down" /\ ListsAt(comp, Range(paths), fd.path, nextSeq)
          /\ DeleteAt(comp, files, Range(paths), idx) /\ comp.cutoff \in Nat /\ comp.cutoff <= cutoff
          /\ comp \in [pc : Labels, todo : Seq(Nat), run : Seq(Nat), left : Seq(Nat), tmp : {comp.tmp}, cutoff : Nat]
          /\ comp.left \in Seq(Nat) /\ comp.left # <<>> /\ Range(comp.left) \cap Range(paths) = {}
          /\ IsInjective(comp.left) /\ Range(comp.left) \subseteq Range(comp.run)
      BY <3>1, DeleteUp
    <3>3. ManagerOK'
      BY <3>1 DEF SInv, ManagerOK
    <3>4. PICK d : d = comp'
      OBVIOUS
    <3>5. CASE Len(comp.left) > 1
      <4>1. PICK s, t : s = comp.left /\ t = Tail(s)
        OBVIOUS
      <4>2. s \in Seq(Nat) /\ s # <<>> /\ IsInjective(s) /\ Len(s) > 1
        BY <3>2, <3>5, <4>1
      <4>3. t \in Seq(Nat) /\ Range(t) \subseteq Range(s) /\ IsInjective(t) /\ Len(t) = Len(s) - 1
        BY <4>1, <4>2, TailList, SMT
      <4>4. t # <<>>
        BY <4>2, <4>3, SMT
      <4>5. comp' = [comp EXCEPT !.pc = "delete", !.left = t]
        BY <3>5, <4>1 DEF DeleteBloom
      <4>6. /\ d \in [pc : Labels, todo : Seq(Nat), run : Seq(Nat), left : Seq(Nat), tmp : {d.tmp}, cutoff : Nat]
            /\ d.pc = "delete" /\ d.pc \notin {"idle", "scan", "retain"}
            /\ d.todo = comp.todo /\ d.run = comp.run /\ d.left = t /\ d.tmp = comp.tmp
            /\ d.cutoff = comp.cutoff
        BY <3>2, <3>4, <4>3, <4>5 DEF Labels
      <4>7. ListsAt(d, Range(paths), fd.path, nextSeq)
        <5>1. IsInjective(d.left) /\ Range(d.left) \subseteq Range(comp.run)
          BY <3>2, <4>1, <4>3, <4>6
        <5> QED
          BY <3>2, <4>6, <5>1, Relabelled
      <4>8. MergeAt(d, files, Range(paths), idx)
        BY <4>6 DEF MergeAt
      <4>9. DeleteAt(d, files, Range(paths), idx)
        <5>1. Read(files, Range(t)) \subseteq Read(files, Range(s))
          BY <4>3, <2>ReadLess
        <5>2. d.pc # "expire" /\ comp.run # <<>> /\ Range(t) \cap Range(paths) = {}
          BY <3>1, <3>2, <4>1, <4>3, <4>6 DEF DeleteAt
        <5>3. ASSUME Len(d.run) > 1
              PROVE  /\ Head(d.run) \in Range(paths)
                     /\ d.tmp.recs = files[Head(d.run)].recs
                     /\ Read(files, Range(d.left)) \subseteq d.tmp.recs
                     /\ {Head(d.run)} \X d.tmp.recs \subseteq idx
          BY <3>1, <3>2, <4>1, <4>6, <5>1, <5>3 DEF DeleteAt
        <5>4. ASSUME ~(Len(d.run) > 1) PROVE \A e \in Read(files, Range(d.left)) : TsOf[e] < d.cutoff
          BY <3>1, <3>2, <4>1, <4>6, <5>1, <5>4 DEF DeleteAt
        <5> QED
          BY <4>4, <4>6, <5>2, <5>3, <5>4 DEF DeleteAt
      <4>10. CompactorOK'
        BY <3>1, <3>2, <3>4, <4>6, <4>7, <4>8, <4>9 DEF CompactorOK, CompactorAt
      <4>11. ASSUME NEW e \in AllEntries, Found(e) PROVE Found(e)'
        <5>1. Merging' = Merging
          BY <3>4, <4>6 DEF Merging
        <5> QED
          BY <3>1, <4>11, <5>1 DEF Found, Holds, Expired
      <4> QED
        BY <3>1, <3>2, <3>3, <4>10, <4>11, <2>IndexStep
    <3>6. CASE ~(Len(comp.left) > 1)
      <4>1. PICK l \in {"scan", "retain"} :
               comp' = [comp EXCEPT !.pc = l, !.run = <<>>, !.left = <<>>, !.tmp = EmptySegment]
        BY <3>6 DEF DeleteBloom
      <4>2. /\ d \in [pc : Labels, todo : Seq(Nat), run : Seq(Nat), left : Seq(Nat), tmp : {d.tmp}, cutoff : Nat]
            /\ d.pc \in {"scan", "retain"} /\ d.todo = comp.todo /\ d.run = <<>> /\ d.left = <<>>
            /\ d.tmp = EmptySegment /\ d.cutoff = comp.cutoff
        BY <3>2, <3>4, <4>1, EmptyList DEF Labels
      <4>3. CompactorAt(d, files, Range(paths), fd.path, nextSeq, idx)
        BY <3>2, <4>2, <2>HandsEmpty
      <4>4. CompactorOK'
        BY <3>1, <3>2, <3>4, <4>2, <4>3 DEF CompactorOK
      <4>5. ASSUME NEW e \in AllEntries, Found(e) PROVE Found(e)'
        <5>1. CASE e \in Merging
          <6>1. Len(comp.run) > 1 /\ e \in comp.tmp.recs
            BY <5>1 DEF Merging
          <6>2. PICK h : h = Head(comp.run)
            OBVIOUS
          <6>3. h \in Range(paths) /\ e \in files[h].recs /\ <<h, e>> \in idx
            BY <3>1, <3>2, <6>1, <6>2 DEF DeleteAt
          <6>4. h \in DOMAIN files
            BY <3>2, <6>3, NodeUp
          <6> QED
            BY <3>1, <6>3, <6>4 DEF Found, Holds
        <5>2. CASE e \notin Merging
          BY <3>1, <4>5, <5>2 DEF Found, Holds, Expired
        <5> QED
          BY <5>1, <5>2
      <4> QED
        BY <3>1, <3>2, <3>3, <4>4, <4>5, <2>IndexStep
    <3> QED
      BY <3>5, <3>6
    \* A list of one name.
  <2>SingleList.
      ASSUME NEW p \in Nat, NEW r, r = <<p>>
      PROVE  /\ r \in Seq(Nat) /\ Len(r) = 1 /\ r # <<>> /\ Head(r) = p /\ Range(r) = {p}
             /\ IsInjective(r) /\ ~(Len(r) > 1)
    BY <2>SingleList, SMT DEF Range, IsInjective
    \* Only closed segments expire, and a segment that does has only old entries.
  <2>RetentionDeleteStep.
      ASSUME SInv, RetentionDelete
      PROVE  SInv'
    <3> USE <2>RetentionDeleteStep
    <3>1. /\ UNCHANGED <<files, phase, nextSeq, fd, idx, writer, acked, cutoff>>
          /\ comp.pc = "retain" /\ comp.pc # "idle" /\ comp.todo # <<>>
          /\ comp.pc \in {"idle", "scan", "retain"}
          /\ paths' = Without(paths, {Head(comp.todo)})
          /\ \A e \in ReadSegments({Head(comp.todo)}) : TsOf[e] < comp.cutoff
      BY DEF RetentionDelete, TooOld, disk, history
    <3>2. /\ phase = "serving" /\ phase # "down" /\ ListsAt(comp, Range(paths), fd.path, nextSeq)
          /\ comp \in [pc : Labels, todo : Seq(Nat), run : Seq(Nat), left : Seq(Nat), tmp : {comp.tmp}, cutoff : Nat]
          /\ comp.cutoff <= cutoff
      <4>1. /\ phase = "serving" /\ ListsAt(comp, Range(paths), fd.path, nextSeq)
            /\ comp \in [pc : Labels, todo : Seq(Nat), run : Seq(Nat), left : Seq(Nat), tmp : {comp.tmp}, cutoff : Nat]
            /\ comp.cutoff <= cutoff
        BY <3>1, CompactorUp
      <4> QED
        BY <4>1
    <3>3. PICK s, t, p, r : s = comp.todo /\ t = Tail(s) /\ p = Head(s) /\ r = <<p>>
      OBVIOUS
    <3>4. s \in Seq(Nat) /\ s # <<>> /\ IsInjective(s) /\ Range(s) \subseteq Range(paths) \ {fd.path}
      <4>1. comp.todo \in Seq(Nat)
        BY <3>2
      <4> QED
        BY <3>1, <3>2, <3>3, <4>1 DEF ListsAt
    <3>5. /\ t \in Seq(Nat) /\ Range(s) = {p} \cup Range(t) /\ IsInjective(t) /\ p \notin Range(t)
      BY <3>3, <3>4, TailList
    <3>6. p \in Range(paths) /\ p # fd.path /\ p \in Nat /\ p < nextSeq
      <4>1. p \in Range(paths) /\ p # fd.path
        BY <3>4, <3>5
      <4>2. p \in DOMAIN files /\ p < nextSeq
        BY <3>2, <4>1, NodeUp
      <4>3. p \in Nat
        BY <4>2 DEF SInv, FilesOK
      <4> QED
        BY <4>1, <4>2, <4>3
    <3>7. /\ r \in Seq(Nat) /\ Len(r) = 1 /\ r # <<>> /\ Head(r) = p /\ Range(r) = {p}
          /\ IsInjective(r) /\ ~(Len(r) > 1)
      BY <3>3, <3>6, <2>SingleList
    <3>8. ManagerOK' /\ Range(paths') = Range(paths) \ {p}
      <4>1. paths' = Without(paths, {p}) /\ fd.path \notin {p}
        BY <3>1, <3>3, <3>6
      <4>2. UNCHANGED <<files, phase, nextSeq, fd>>
        BY <3>1
      <4> QED
        BY <3>2, <4>1, <4>2, ListWithout
    <3>9. comp.run = <<>> /\ ~(Len(comp.run) > 1) /\ comp.left = <<>>
      <4>1. comp.run = <<>> /\ ~(Len(comp.run) > 1)
        BY <3>1, <3>2, <2>Between
      <4>2. PICK l : l = comp.left
        OBVIOUS
      <4>3. Range(<<>>) = {}
        BY EmptyList
      <4>4. l \in Seq(Nat) /\ Range(l) = {}
        BY <3>2, <4>1, <4>2, <4>3 DEF ListsAt
      <4>5. l = <<>>
        BY <4>4, HeadIn
      <4> QED
        BY <4>1, <4>2, <4>5
    <3>10. PICK d : d = comp' /\ d = [comp EXCEPT !.pc = "expire", !.todo = t, !.run = r]
      BY <3>3 DEF RetentionDelete
    <3>11. /\ d \in [pc : Labels, todo : Seq(Nat), run : Seq(Nat), left : Seq(Nat), tmp : {d.tmp}, cutoff : Nat]
           /\ d.pc = "expire" /\ d.todo = t /\ d.run = r /\ d.left = comp.left /\ d.tmp = comp.tmp
           /\ d.cutoff = comp.cutoff
      BY <3>2, <3>5, <3>7, <3>10 DEF Labels
    <3>12. ListsAt(d, Range(paths'), fd.path, nextSeq)
      <4>1. d.pc \notin {"idle", "scan", "retain"} /\ d.pc # "idle"
        BY <3>11
      <4>2. Range(d.todo) \subseteq Range(paths') \ {fd.path} /\ IsInjective(d.todo)
        BY <3>4, <3>5, <3>8, <3>11
      <4>3. /\ fd.path \notin Range(d.run) /\ Range(d.run) \cap Range(d.todo) = {} /\ IsInjective(d.run)
            /\ \A q \in Range(d.run) : q < nextSeq
        BY <3>5, <3>6, <3>7, <3>11
      <4>4. IsInjective(d.left) /\ Range(d.left) \subseteq Range(d.run) /\ IsSegment(d.tmp)
        <5>1. Range(d.left) = {} /\ IsInjective(d.left)
          BY <3>9, <3>11, EmptyList
        <5>2. IsSegment(d.tmp)
          BY <3>2, <3>11 DEF ListsAt
        <5> QED
          BY <5>1, <5>2
      <4> QED
        BY <3>11, <4>1, <4>2, <4>3, <4>4 DEF ListsAt
    <3>13. MergeAt(d, files, Range(paths'), idx)
      BY <3>11 DEF MergeAt
    <3>14. DeleteAt(d, files, Range(paths'), idx)
      <4>1. Len(d.run) = 1 /\ Range(d.run) \cap Range(paths') = {}
        BY <3>7, <3>8, <3>11
      <4>2. \A e \in Read(files, Range(d.run)) : TsOf[e] < d.cutoff
        BY <3>1, <3>3, <3>7, <3>11 DEF Read, ReadSegments, Contents
      <4>3. d.pc \notin {"delete", "delbloom"}
        BY <3>11
      <4> QED
        BY <4>1, <4>2, <4>3 DEF DeleteAt
    <3>15. CompactorOK'
      BY <3>1, <3>2, <3>10, <3>11, <3>12, <3>13, <3>14 DEF CompactorOK, CompactorAt
    <3>16. ASSUME NEW e \in AllEntries, Found(e) PROVE Found(e)'
      <4>1. e \notin Merging
        BY <3>9 DEF Merging
      <4> QED
        BY <3>1, <3>16, <4>1 DEF Found, Holds, Expired
    <3> QED
      BY <3>1, <3>2, <3>8, <3>15, <3>16, <2>IndexStep
    \* The index forgets a segment whose entries have all expired.
  <2>RetentionUnindexStep.
      ASSUME SInv, RetentionUnindex
      PROVE  SInv'
    <3> USE <2>RetentionUnindexStep
    <3>1. /\ UNCHANGED <<files, phase, paths, nextSeq, fd, writer, acked, cutoff>>
          /\ comp.pc = "expire" /\ comp.pc # "idle"
          /\ idx' = RemoveSegment(Head(comp.run))
      BY DEF RetentionUnindex, disk, manager, history
    <3>2. /\ phase = "serving" /\ ListsAt(comp, Range(paths), fd.path, nextSeq)
          /\ comp \in [pc : Labels, todo : Seq(Nat), run : Seq(Nat), left : Seq(Nat), tmp : {comp.tmp}, cutoff : Nat]
          /\ comp.cutoff \in Nat /\ comp.cutoff <= cutoff
      BY <3>1, CompactorUp
    <3>3. /\ Len(comp.run) = 1 /\ Range(comp.run) \cap Range(paths) = {}
          /\ \A e \in Read(files, Range(comp.run)) : TsOf[e] < comp.cutoff
      BY <3>1 DEF SInv, CompactorOK, CompactorAt, DeleteAt
    <3>4. PICK r, p : r = comp.run /\ p = Head(r)
      OBVIOUS
    <3>5. r \in Seq(Nat) /\ Len(r) = 1
      BY <3>2, <3>3, <3>4
    <3>6. r # <<>> /\ ~(Len(r) > 1)
      BY <3>5, SMT
    <3>7. p \in Range(r)
      BY <3>4, <3>5, <3>6, HeadIn
    <3>8. PICK d : d = comp' /\ d = [comp EXCEPT !.pc = "delete", !.left = r]
      BY <3>4 DEF RetentionUnindex
    <3>9. /\ d \in [pc : Labels, todo : Seq(Nat), run : Seq(Nat), left : Seq(Nat), tmp : {d.tmp}, cutoff : Nat]
          /\ d.pc = "delete" /\ d.pc \notin {"idle", "scan", "retain"}
          /\ d.todo = comp.todo /\ d.run = comp.run /\ d.left = r /\ d.tmp = comp.tmp
          /\ d.cutoff = comp.cutoff
      BY <3>2, <3>5, <3>8 DEF Labels
    <3>10. ListsAt(d, Range(paths), fd.path, nextSeq)
      <4>1. IsInjective(d.left) /\ Range(d.left) \subseteq Range(comp.run)
        BY <3>2, <3>4, <3>9 DEF ListsAt
      <4> QED
        BY <3>2, <3>9, <4>1, Relabelled
    <3>11. MergeAt(d, files, Range(paths), idx')
      BY <3>9 DEF MergeAt
    <3>12. DeleteAt(d, files, Range(paths), idx')
      <4>1. d.pc # "expire"
        BY <3>9
      <4>2. d.run # <<>> /\ d.left # <<>> /\ Range(d.left) \cap Range(paths) = {} /\ ~(Len(d.run) > 1)
        BY <3>3, <3>4, <3>6, <3>9
      <4>3. \A e \in Read(files, Range(d.left)) : TsOf[e] < d.cutoff
        BY <3>3, <3>4, <3>9
      <4> QED
        BY <4>1, <4>2, <4>3 DEF DeleteAt
    <3>13. CompactorOK'
      BY <3>1, <3>2, <3>8, <3>9, <3>10, <3>11, <3>12 DEF CompactorOK, CompactorAt
    <3>14. ASSUME NEW e \in AllEntries, Found(e) PROVE Found(e)'
      <4>1. e \notin Merging /\ cutoff \in Nat
        BY <3>4, <3>6 DEF Merging, SInv, HandlersOK
      <4>2. CASE Expired(e)
        BY <3>1, <4>2 DEF Found, Expired
      <4>3. ASSUME NEW q, <<q, e>> \in idx, Holds(q, e) PROVE Found(e)'
        <5>1. CASE q = p
          <6>1. e \in Read(files, Range(r))
            BY <3>7, <4>3, <5>1 DEF Holds, Read
          <6>2. TsOf[e] < comp.cutoff
            BY <3>3, <3>4, <6>1
          <6>3. Expired(e)
            BY <3>2, <4>1, <6>2, OldIsExpired
          <6> QED
            BY <3>1, <6>3 DEF Found, Expired
        <5>2. CASE q # p
          <6>1. <<q, e>> \in idx'
            BY <3>1, <3>4, <4>3, <5>2 DEF RemoveSegment
          <6>2. Holds(q, e)'
            BY <3>1, <4>3 DEF Holds
          <6> QED
            BY <6>1, <6>2 DEF Found
        <5> QED
          BY <5>1, <5>2
      <4> QED
        BY <3>14, <4>1, <4>2, <4>3 DEF Found
    <3>15. ManagerOK'
      BY <3>1 DEF SInv, ManagerOK
    <3> QED
      BY <3>1, <3>2, <3>13, <3>14, <3>15, <2>IndexStep
  <2> SUFFICES ASSUME SInv, Compact
               PROVE  SInv'
    OBVIOUS
  <2>1. CASE PassBegin \/ RetentionBegin \/ RetentionEnd
    BY <2>1, <2>PassStep
  <2>2. CASE MergeSkip \/ RetentionKeep
    BY <2>2, <2>SkipStep
  <2>3. CASE MergeRead
    BY <2>3, <2>MergeReadStep
  <2>4. CASE MergeUnindex
    BY <2>4, <2>MergeUnindexStep
  <2>5. CASE MergeRename
    BY <2>5, MergeRenameStep
  <2>6. CASE MergeRenameFails
    BY <2>6, <2>MergeRenameFailsStep
  <2>7. CASE MergeWriteBloom \/ MergeWriteBloomFails
    BY <2>7, <2>MergeBloomStep
  <2>8. CASE MergeReindex
    BY <2>8, <2>MergeReindexStep
  <2>9. CASE MergeManager
    BY <2>9, <2>MergeManagerStep
  <2>10. CASE DeleteFile
    BY <2>10, <2>DeleteFileStep
  <2>11. CASE DeleteBloom
    BY <2>11, <2>DeleteBloomStep
  <2>12. CASE RetentionDelete
    BY <2>12, <2>RetentionDeleteStep
  <2>13. CASE RetentionUnindex
    BY <2>13, <2>RetentionUnindexStep
  <2> QED
    BY <2>1, <2>2, <2>3, <2>4, <2>5, <2>6, <2>7, <2>8, <2>9, <2>10, <2>11, <2>12, <2>13 DEF Compact
<1> SUFFICES ASSUME SInv, TransfersClean, [Next]_vars
             PROVE  SInv'
  OBVIOUS
<1>1. CASE Start
  BY <1>1, StartStep
<1>2. CASE Serve
  BY <1>2, <1>ServeStep
<1>3. CASE Crash
  BY <1>3, <1>CrashStep
<1>4. CASE AdvanceCutoff
  BY <1>4, <1>AdvanceCutoffStep
<1>5. ASSUME NEW s \in shards, NEW ok \in SUBSET MissingSegments(s), CatchUpShard(s, ok)
      PROVE  SInv'
  BY <1>5, CatchUpShardStep
<1>6. ASSUME NEW w \in Writers, Append1(w) PROVE SInv'
  BY <1>6, AppendStep
<1>7. CASE Compact
  BY <1>7, <1>CompactStep
<1>8. CASE Query \/ UNCHANGED vars
  BY <1>8, <1>QueryStep
<1> QED
  BY <1>1, <1>2, <1>3, <1>4, <1>5, <1>6, <1>7, <1>8 DEF Next

\* A file is dropped by the compactor, replaced by a merged one that holds more,
\* or only written to at its end.
LEMMA StepGrows ==
  ASSUME SInv, TransfersClean, [Next]_vars
  PROVE  \A p \in DOMAIN files \cap DOMAIN files' : files[p].recs \subseteq files'[p].recs
<1> USE ZenonT(30)
<1>1. CASE files' = files
  BY <1>1
<1>2. CASE FilesGrow
  BY <1>2 DEF FilesGrow
<1>3. CASE DeleteFile
  <2>1. PICK h : files' = Drop(files, h)
    BY <1>3 DEF DeleteFile
  <2> QED
    BY <2>1 DEF Drop, Restrict
<1>4. ASSUME NEW w \in Writers, Append1(w) PROVE files' = files \/ FilesGrow
  <2>1. CASE OpenNewSegment(w)
    BY <2>1, OpenNewSegmentStep
  <2>2. CASE WriteHeader(w)
    BY <2>2, WriteHeaderStep
  <2>3. CASE WriteData(w)
    BY <2>3, WriteDataEffect
  <2>4. CASE AppendBegin(w) \/ RotateClose(w) \/ RotateCloseFails(w) \/ TruncateMarker(w)
             \/ WriteMarker(w) \/ IndexAndAck(w)
    BY <2>4 DEF AppendBegin, RotateClose, RotateCloseFails, TruncateMarker, WriteMarker,
       IndexAndAck, disk
  <2> QED
    BY <1>4, <2>1, <2>2, <2>3, <2>4 DEF Append1
<1>5. CASE Compact
  <2>1. CASE MergeRename
    BY <1>2, <2>1, MergeRenameStep
  <2>2. CASE PassBegin \/ MergeSkip \/ MergeRead \/ MergeUnindex \/ MergeRenameFails
             \/ MergeWriteBloom \/ MergeWriteBloomFails \/ MergeReindex
    BY <1>1, <2>2 DEF PassBegin, MergeSkip, MergeRead, MergeUnindex, MergeRenameFails,
       MergeWriteBloom, MergeWriteBloomFails, MergeReindex, disk
  <2>3. CASE MergeManager \/ DeleteBloom \/ RetentionBegin \/ RetentionKeep \/ RetentionDelete
             \/ RetentionUnindex \/ RetentionEnd
    BY <1>1, <2>3 DEF MergeManager, DeleteBloom, RetentionBegin, RetentionKeep,
       RetentionDelete, RetentionUnindex, RetentionEnd, disk
  <2> QED
    BY <1>3, <1>5, <2>1, <2>2, <2>3 DEF Compact
<1>6. CASE Start
  BY <1>2, <1>6, StartStep
<1>7. CASE Serve \/ Crash \/ AdvanceCutoff \/ UNCHANGED vars
  BY <1>1, <1>7 DEF Serve, Crash, AdvanceCutoff, vars, disk
<1>8. ASSUME NEW s \in shards, NEW ok \in SUBSET MissingSegments(s), CatchUpShard(s, ok)
      PROVE  FilesGrow
  BY <1>8, CatchUpShardStep
<1>9. CASE Query
  BY <1>1, <1>9 DEF Query, QueryResolve, QueryPrune, QueryRead, QueryReadFails, QueryReturn, disk
<1> QED
  BY <1>1, <1>2, <1>4, <1>5, <1>6, <1>7, <1>8, <1>9 DEF Next

\* WriteData returns the path of a file that holds the entry; no other step returns one.
LEMMA StepPath ==
  \A v \in Writers :
    SInv /\ [Next]_vars /\ writer[v].pc = "data" /\ writer'[v].pc = "index" =>
         writer'[v].path \in DOMAIN files' /\ writer[v].entry \in files'[writer'[v].path].recs
  \* A step of one handler moves no other, and only WriteData leaves the write.
<1> USE ZenonT(30)
<1>OtherWritersStay.
    ASSUME SInv, NEW w \in Writers, Append1(w), ~WriteData(w)
    PROVE  \A v \in Writers : writer[v].pc = "data" => writer'[v] = writer[v]
  <2> USE <1>OtherWritersStay
  <2>1. writer \in [Writers -> Handlers]
    BY DEF SInv, HandlersOK
  <2>2. writer[w].pc \in {"idle", "rotate", "create", "truncate", "mark", "header", "index"}
    BY DEF Append1, AppendBegin, RotateClose, RotateCloseFails, OpenNewSegment, TruncateMarker,
       WriteMarker, WriteHeader, IndexAndAck
  <2>3. PICK h : writer' = [writer EXCEPT ![w] = h]
    <3>1. CASE AppendBegin(w) \/ IndexAndAck(w)
      BY <3>1 DEF AppendBegin, IndexAndAck
    <3>2. ASSUME NEW l, SetWriter(w, l) PROVE \E h : writer' = [writer EXCEPT ![w] = h]
      BY <3>2 DEF SetWriter
    <3> QED
      BY <3>1, <3>2 DEF Append1, RotateClose, RotateCloseFails, OpenNewSegment, TruncateMarker,
         WriteMarker, WriteHeader
  <2>4. writer[w].pc # "data"
    BY <2>2
  <2> QED
    BY <2>1, <2>3, <2>4
<1> SUFFICES ASSUME SInv, [Next]_vars, NEW v \in Writers, writer[v].pc = "data", writer'[v].pc = "index"
             PROVE  writer'[v].path \in DOMAIN files' /\ writer[v].entry \in files'[writer'[v].path].recs
  OBVIOUS
<1>1. writer'[v] # writer[v]
  OBVIOUS
<1>2. ASSUME NEW w \in Writers, Append1(w)
      PROVE  writer'[v].path \in DOMAIN files' /\ writer[v].entry \in files'[writer'[v].path].recs
  <2>1. WriteData(w)
    BY <1>1, <1>2, <1>OtherWritersStay
  <2>2. v = w
    BY <1>1, <2>1, WriteDataEffect
  <2> QED
    BY <2>1, <2>2, WriteDataEffect
<1>3. ~Crash
  <2>1. writer'[v].pc # "idle"
    OBVIOUS
  <2>2. IdleWriter.pc = "idle"
    BY DEF IdleWriter
  <2> QED
    BY <2>1, <2>2 DEF Crash
<1>4. ~Compact
  BY <1>1 DEF Compact, PassBegin, MergeSkip, MergeRead, MergeUnindex, MergeRename, MergeRenameFails,
     MergeWriteBloom, MergeWriteBloomFails, MergeReindex, MergeManager, DeleteFile, DeleteBloom,
     RetentionBegin, RetentionKeep, RetentionDelete, RetentionUnindex, RetentionEnd
<1>5. ~Query
  BY <1>1 DEF Query, QueryResolve, QueryPrune, QueryRead, QueryReadFails, QueryReturn
<1>6. ~Start /\ ~Serve /\ ~AdvanceCutoff /\ writer' # writer
  BY <1>1 DEF Start, Serve, AdvanceCutoff
<1>7. ~UNCHANGED vars
  BY <1>6 DEF vars
<1>8. \A s \in shards : \A ok \in SUBSET MissingSegments(s) : ~CatchUpShard(s, ok)
  BY <1>6 DEF CatchUpShard
<1> QED
  BY <1>2, <1>3, <1>4, <1>5, <1>6, <1>7, <1>8 DEF Next

-----------------------------------------------------------------------------
(* What the invariant says of the node.                                    *)

\* The five state properties follow from the invariant.
LEMMA SInvGives ==
  ASSUME SInv
  PROVE  AckedDurable /\ AckedIndexed /\ ActiveIsLast /\ NextSeqFresh /\ ActiveNotCompacted
<1> USE ZenonT(30)
<1>1. AckedDurable
  BY DEF SInv, Durable, Safe, Holds, AckedDurable, Contents
<1>2. AckedIndexed
  <2>1. ASSUME phase = "serving", NEW e \in acked
        PROVE  e \in Merging \/ Expired(e) \/ \E p \in DOMAIN files : <<p, e>> \in idx /\ e \in Contents(p)
    <3>1. phase # "down"
      BY <2>1
    <3> QED
      BY <2>1, <3>1 DEF SInv, Indexed, Found, Holds, Contents
  <2> QED
    BY <2>1 DEF AckedIndexed
<1>3. ActiveIsLast
  <2>1. ASSUME phase # "down"
        PROVE  IsInjective(paths) /\ Last(paths) = fd.path /\ fd.attached /\ fd.size = Size(fd.path)
    <3>1. IsInjective(paths) /\ fd.path = Last(paths) /\ fd.attached
      BY <2>1, NodeUp
    <3>2. PICK a, z : /\ fd = [path |-> a, attached |-> TRUE, size |-> z]
                      /\ a = Last(paths) /\ z = files[Last(paths)].size
      BY <2>1 DEF SInv, ManagerOK
    <3>3. fd.size = z
      BY <3>2
    <3> QED
      BY <3>1, <3>2, <3>3 DEF Size
  <2> QED
    BY <2>1 DEF ActiveIsLast
<1>4. NextSeqFresh
  BY DEF SInv, ManagerOK, NextSeqFresh
<1>5. ActiveNotCompacted
  BY DEF SInv, CompactorOK, CompactorAt, ListsAt, ActiveNotCompacted
<1> QED
  BY <1>1, <1>2, <1>3, <1>4, <1>5

-----------------------------------------------------------------------------
(* Marker and filters, while every sidecar the code writes gets written.   *)

\* What a filter says: an entry missing from p's filter is not looked for in p.
Covers(filters, p, e) == p \in DOMAIN filters => e \in filters[p]

At(l) == \E w \in Writers : writer[w].pc = l

\* At most one handler is inside appendLocked.
Lock ==
    \A v, w \in Writers :
        writer[v].pc \notin {"idle", "index"} /\ writer[w].pc \notin {"idle", "index"} => v = w

\* The marker names the active segment, but for the time a rotation takes to
\* replace it; the segment it still names then is not in the compactor's hands.
MarkerOK ==
    phase # "down" =>
        /\ ~At("truncate") /\ ~At("mark") => marker = fd.path
        /\ At("truncate") => /\ marker \in DOMAIN files
                             /\ marker \notin Range(comp.run) /\ marker \notin Range(comp.todo)
        /\ At("mark") => marker = EmptyMarker
MarkerOnDisk == DOMAIN files = {} \/ marker = EmptyMarker \/ marker \in DOMAIN files

\* Filters exist for listed segments only.  The active one has none, but for the
\* moment between its closing and the opening of the next, when both its filter
\* and its sidecar are complete; and it is torn only while a record is written.
FiltersOK ==
    /\ DOMAIN blooms \subseteq Range(paths)
    /\ ~BloomEnabled => DOMAIN sidecar = {} /\ DOMAIN blooms = {}
    /\ phase # "down" =>
         /\ ~At("create") => fd.path \notin DOMAIN blooms
         /\ At("create") => \A e \in files[fd.path].recs :
                              Covers(blooms, fd.path, e) /\ Covers(sidecar, fd.path, e)
         /\ files[fd.path].torn => At("data")

\* After a merge has written its sidecar, sidecar and filter are those of the
\* merged file.
MergedFilters ==
    /\ comp.pc = "bloom" => BloomEnabled
    /\ comp.pc \in {"reindex", "manager"} =>
         \A e \in comp.tmp.recs : Covers(sidecar, Head(comp.run), e)
    /\ comp.pc \in {"delete", "delbloom"} /\ Len(comp.run) > 1 =>
         \A e \in comp.tmp.recs : Covers(sidecar, Head(comp.run), e) /\ Covers(blooms, Head(comp.run), e)

\* Sidecars are written whenever the code writes them.
SidecarsWritten == ~MergeWriteBloomFails /\ \A w \in Writers : ~RotateCloseFails(w)

-----------------------------------------------------------------------------
(* The lock.                                                               *)

Locked == {"rotate", "create", "truncate", "mark", "header", "data"}

\* The labels an append goes through.
LEMMA AppendPcs ==
  \A w \in Writers :
    SInv /\ Lock /\
    (AppendBegin(w) \/ RotateClose(w) \/ OpenNewSegment(w) \/ TruncateMarker(w) \/ WriteMarker(w) \/ WriteHeader(w) \/ WriteData(w)) =>
         /\ Lock' /\ \A v \in Writers : v # w => writer'[v] = writer[v] /\ writer[v].pc \in {"idle", "index"}
         /\ \A l \in Locked : (At(l) <=> writer[w].pc = l) /\ (At(l)' <=> writer'[w].pc = l)
         /\ AppendBegin(w) => writer[w].pc = "idle" /\ writer'[w].pc \in {"rotate", "header"}
         /\ RotateClose(w) => writer[w].pc = "rotate" /\ writer'[w].pc = "create"
         /\ OpenNewSegment(w) => writer[w].pc = "create" /\ writer'[w].pc = "truncate"
         /\ TruncateMarker(w) => writer[w].pc = "truncate" /\ writer'[w].pc = "mark"
         /\ WriteMarker(w) => writer[w].pc = "mark" /\ writer'[w].pc = "header"
         /\ WriteHeader(w) => writer[w].pc = "header" /\ writer'[w].pc = "data"
         /\ WriteData(w) => writer[w].pc = "data" /\ writer'[w].pc = "index"
  \* A handler that has the lock, or takes it, is the only one to have it.
<1> USE ZenonT(30)
<1>LockMoves.
    ASSUME HandlersOK, Lock, NEW w \in Writers, NEW h \in Handlers, writer' = [writer EXCEPT ![w] = h],
           writer[w].pc \in Locked \/ LockFree
    PROVE  /\ Lock' /\ writer'[w] = h /\ \A v \in Writers : v # w => writer'[v] = writer[v]
           /\ \A v \in Writers : v # w => writer[v].pc \in {"idle", "index"}
           /\ \A l \in Locked : (At(l) <=> writer[w].pc = l) /\ (At(l)' <=> h.pc = l)
  <2> USE <1>LockMoves
  <2>1. writer \in [Writers -> Handlers]
    BY DEF HandlersOK
  <2>2. writer'[w] = h /\ \A v \in Writers : v # w => writer'[v] = writer[v]
    BY <2>1
  <2>3. \A v \in Writers : v # w => writer[v].pc \in {"idle", "index"}
    <3>1. CASE LockFree
      BY <3>1 DEF LockFree
    <3>2. CASE writer[w].pc \in Locked
      <4>1. writer[w].pc \notin {"idle", "index"}
        BY <3>2 DEF Locked
      <4> QED
        BY <4>1 DEF Lock
    <3> QED
      BY <3>1, <3>2
  <2>4. Lock'
    BY <2>2, <2>3 DEF Lock
  <2>5. ASSUME NEW l \in Locked
        PROVE  (At(l) <=> writer[w].pc = l) /\ (At(l)' <=> h.pc = l)
    <3>1. l \notin {"idle", "index"}
      BY DEF Locked
    <3> QED
      BY <2>2, <2>3, <3>1 DEF At
  <2> QED
    BY <2>2, <2>3, <2>4, <2>5
<1> SUFFICES ASSUME SInv, Lock, NEW w \in Writers,
                    AppendBegin(w) \/ RotateClose(w) \/ OpenNewSegment(w) \/ TruncateMarker(w)
                    \/ WriteMarker(w) \/ WriteHeader(w) \/ WriteData(w)
             PROVE  /\ Lock' /\ \A v \in Writers : v # w => writer'[v] = writer[v] /\ writer[v].pc \in {"idle", "index"}
                    /\ \A l \in Locked : (At(l) <=> writer[w].pc = l) /\ (At(l)' <=> writer'[w].pc = l)
                    /\ AppendBegin(w) => writer[w].pc = "idle" /\ writer'[w].pc \in {"rotate", "header"}
                    /\ RotateClose(w) => writer[w].pc = "rotate" /\ writer'[w].pc = "create"
                    /\ OpenNewSegment(w) => writer[w].pc = "create" /\ writer'[w].pc = "truncate"
                    /\ TruncateMarker(w) => writer[w].pc = "truncate" /\ writer'[w].pc = "mark"
                    /\ WriteMarker(w) => writer[w].pc = "mark" /\ writer'[w].pc = "header"
                    /\ WriteHeader(w) => writer[w].pc = "header" /\ writer'[w].pc = "data"
                    /\ WriteData(w) => writer[w].pc = "data" /\ writer'[w].pc = "index"
  OBVIOUS
<1>1. HandlersOK /\ writer \in [Writers -> Handlers] /\ writer[w] \in Handlers
  BY DEF SInv, HandlersOK
<1>2. HandlersOK'
  BY AppendStep DEF SInv, Append1
<1>3. PICK h : writer' = [writer EXCEPT ![w] = h]
  <2>1. CASE AppendBegin(w) \/ WriteData(w)
    BY <2>1 DEF AppendBegin, WriteData
  <2>2. ASSUME NEW l, SetWriter(w, l) PROVE \E h : writer' = [writer EXCEPT ![w] = h]
    BY <2>2 DEF SetWriter
  <2> QED
    BY <2>1, <2>2 DEF RotateClose, OpenNewSegment, TruncateMarker, WriteMarker, WriteHeader
<1>4. writer'[w] = h /\ h \in Handlers
  BY <1>1, <1>2, <1>3 DEF HandlersOK
<1>5. writer[w].pc \in Locked \/ LockFree
  BY DEF Locked, AppendBegin, RotateClose, OpenNewSegment, TruncateMarker, WriteMarker, WriteHeader, WriteData
<1>6. /\ Lock' /\ \A v \in Writers : v # w => writer'[v] = writer[v]
      /\ \A v \in Writers : v # w => writer[v].pc \in {"idle", "index"}
      /\ \A l \in Locked : (At(l) <=> writer[w].pc = l) /\ (At(l)' <=> h.pc = l)
  BY <1>1, <1>3, <1>4, <1>5, <1>LockMoves
<1>7. ASSUME NEW l, SetWriter(w, l) PROVE writer'[w].pc = l
  BY <1>1, <1>7 DEF SetWriter, Handlers
<1>8. AppendBegin(w) => writer[w].pc = "idle" /\ writer'[w].pc \in {"rotate", "header"}
  BY <1>1, SMT DEF AppendBegin
<1>9. WriteData(w) => writer[w].pc = "data" /\ writer'[w].pc = "index"
  BY <1>1, SMT DEF WriteData, Handlers
<1> QED
  BY <1>4, <1>6, <1>7, <1>8, <1>9 DEF RotateClose, OpenNewSegment, TruncateMarker, WriteMarker, WriteHeader

\* The labels stay when a handler acknowledges, and when no handler moves.
LEMMA LabelsStay ==
  ASSUME SInv, Lock,
         writer' = writer \/ \E w \in Writers : IndexAndAck(w)
  PROVE  Lock' /\ \A l \in Locked : At(l)' <=> At(l)
<1>1. CASE writer' = writer
  BY <1>1, Zenon DEF Lock, At
<1>2. ASSUME NEW w \in Writers, IndexAndAck(w)
      PROVE  Lock' /\ \A l \in Locked : At(l)' <=> At(l)
  <2>1. writer \in [Writers -> Handlers]
    BY Zenon DEF SInv, HandlersOK
  <2>2. writer'[w] = IdleWriter /\ writer[w].pc = "index" /\ \A v \in Writers : v # w => writer'[v] = writer[v]
    BY <1>2, <2>1, Zenon DEF IndexAndAck
  <2>3. IdleWriter.pc = "idle"
    BY DEF IdleWriter
  <2>4. "idle" \notin Locked /\ "index" \notin Locked
    BY DEF Locked
  <2> QED
    BY <2>2, <2>3, <2>4, Zenon DEF Lock, At
<1> QED
  BY <1>1, <1>2

\* The first file of a run is not the active one.
LEMMA HeadClosed ==
  ASSUME SInv, comp.run # <<>>
  PROVE  Head(comp.run) \in Range(comp.run) /\ Head(comp.run) # fd.path
<1> USE ZenonT(30)
<1>1. comp.run \in Seq(Nat) /\ fd.path \notin Range(comp.run)
  BY InHand
<1> QED
  BY <1>1, HeadIn

\* rotate closes the active segment and writes a filter that has all of its entries.
LEMMA CloseFilters ==
  \A w \in Writers :
    SInv /\ Lock /\ MarkerOK /\ FiltersOK /\ MergedFilters /\ RotateClose(w) =>
         /\ MarkerOK' /\ FiltersOK' /\ MergedFilters'
         /\ \A e \in files[fd.path].recs : Covers(blooms', fd.path, e) /\ Covers(sidecar', fd.path, e)
         /\ \A p, e : p # fd.path => (Covers(sidecar, p, e) <=> Covers(sidecar', p, e))
                                     /\ (Covers(blooms, p, e) <=> Covers(blooms', p, e))
  \* A merge that has renamed its file has a run.
<1> USE ZenonT(30)
<1>MergedRun.
    ASSUME SInv, \/ comp.pc \in {"reindex", "manager"}
                 \/ comp.pc \in {"delete", "delbloom"} /\ Len(comp.run) > 1
    PROVE  comp.run # <<>>
  <2> USE <1>MergedRun
  <2>1. CASE comp.pc \in {"reindex", "manager"}
    <3>1. comp.pc \in {"unindex", "rename", "bloom", "reindex", "manager"}
      BY <2>1
    <3> QED
      BY <3>1, MergeUp
  <2>2. CASE comp.pc \in {"delete", "delbloom"}
    BY <2>2 DEF SInv, CompactorOK, CompactorAt, DeleteAt
  <2> QED
    BY <2>1, <2>2
  \* The filters of a merged file outlast what others do to other segments.
<1>MergedStay.
    ASSUME SInv, MergedFilters, comp' = comp,
           \A p, e : p # fd.path /\ Covers(sidecar, p, e) => Covers(sidecar', p, e),
           \A p, e : p # fd.path /\ Covers(blooms, p, e) => Covers(blooms', p, e)
    PROVE  MergedFilters'
  <2> USE <1>MergedStay
  <2>1. \/ comp.pc \in {"reindex", "manager"}
        \/ comp.pc \in {"delete", "delbloom"} /\ Len(comp.run) > 1
        => Head(comp.run) # fd.path
    BY <1>MergedRun, HeadClosed
  <2> QED
    BY <2>1 DEF MergedFilters
<1> SUFFICES ASSUME SInv, Lock, MarkerOK, FiltersOK, MergedFilters, NEW w \in Writers, RotateClose(w)
             PROVE  /\ MarkerOK' /\ FiltersOK' /\ MergedFilters'
                    /\ \A e \in files[fd.path].recs : Covers(blooms', fd.path, e) /\ Covers(sidecar', fd.path, e)
                    /\ \A p, e : p # fd.path => (Covers(sidecar, p, e) <=> Covers(sidecar', p, e))
                                                /\ (Covers(blooms, p, e) <=> Covers(blooms', p, e))
  OBVIOUS
<1>1. UNCHANGED <<files, marker, phase, paths, nextSeq, fd, idx, comp>>
  BY DEF RotateClose, history
<1>2. /\ \A l \in Locked : (At(l) <=> writer[w].pc = l) /\ (At(l)' <=> writer'[w].pc = l)
      /\ writer[w].pc = "rotate" /\ writer'[w].pc = "create"
  BY AppendPcs
<1>3. ~At("truncate") /\ ~At("mark") /\ ~At("create") /\ ~At("data")
  BY <1>2 DEF Locked
<1>4. ~At("truncate")' /\ ~At("mark")' /\ At("create")'
  BY <1>2 DEF Locked
<1>5. phase # "down"
  BY <1>2 DEF SInv, HandlersOK
<1>6. fd.path = Last(paths) /\ fd.path \in DOMAIN files /\ fd.path \in Range(paths) /\ ~files[fd.path].torn
  BY <1>3, <1>5, NodeUp DEF FiltersOK
<1>7. PICK a, R : a = fd.path /\ R = files[a].recs
  OBVIOUS
<1>8. /\ BloomEnabled => sidecar' = Put(sidecar, a, R) /\ blooms' = Put(blooms, a, R)
      /\ ~BloomEnabled => sidecar' = sidecar /\ blooms' = blooms
  BY <1>6, <1>7 DEF RotateClose, Contents
<1>9. /\ \A e \in R : Covers(blooms', a, e) /\ Covers(sidecar', a, e)
      /\ \A p, e : p # a => (Covers(sidecar, p, e) <=> Covers(sidecar', p, e))
                            /\ (Covers(blooms, p, e) <=> Covers(blooms', p, e))
      /\ DOMAIN blooms' \subseteq DOMAIN blooms \cup {a}
      /\ ~BloomEnabled => DOMAIN sidecar' = {} /\ DOMAIN blooms' = {}
  <2>1. CASE BloomEnabled
    BY <1>8, <2>1 DEF Covers, Put
  <2>2. CASE ~BloomEnabled
    <3>1. sidecar' = sidecar /\ blooms' = blooms /\ DOMAIN sidecar = {} /\ DOMAIN blooms = {}
      BY <1>8, <2>2 DEF FiltersOK
    <3> QED
      BY <2>2, <3>1 DEF Covers
  <2> QED
    BY <2>1, <2>2
<1>10. MarkerOK'
  BY <1>1, <1>3, <1>4 DEF MarkerOK
<1>11. FiltersOK'
  <2>1. DOMAIN blooms' \subseteq Range(paths')
    BY <1>1, <1>6, <1>7, <1>9 DEF FiltersOK
  <2>2. \A e \in files'[fd'.path].recs : Covers(blooms', fd'.path, e) /\ Covers(sidecar', fd'.path, e)
    BY <1>1, <1>7, <1>9
  <2>3. ~files'[fd'.path].torn
    BY <1>1, <1>6
  <2> QED
    BY <1>4, <1>9, <2>1, <2>2, <2>3 DEF FiltersOK
<1>12. MergedFilters'
  BY <1>1, <1>7, <1>9, <1>MergedStay
<1> QED
  BY <1>7, <1>9, <1>10, <1>11, <1>12

\* The new segment has no filter, and a rotation that creates it has the old one in the marker.
LEMMA OpenFilters ==
  ASSUME SInv, Lock, MarkerOK, FiltersOK, MergedFilters, NEW w \in Writers, OpenNewSegment(w)
  PROVE  MarkerOK' /\ FiltersOK' /\ MergedFilters' /\ marker = fd.path /\ At("create")
<1>1. UNCHANGED <<sidecar, marker, phase, blooms, idx, comp>>
  BY Zenon DEF OpenNewSegment, history
<1>2. /\ \A l \in Locked : (At(l) <=> writer[w].pc = l) /\ (At(l)' <=> writer'[w].pc = l)
      /\ writer[w].pc = "create" /\ writer'[w].pc = "truncate"
  BY AppendPcs, Zenon
<1>3. ~At("truncate") /\ ~At("mark") /\ At("create")
  BY <1>2 DEF Locked
<1>4. At("truncate")' /\ ~At("mark")' /\ ~At("create")' /\ ~At("data")'
  BY <1>2 DEF Locked
<1>5. phase # "down"
  BY <1>2 DEF SInv, HandlersOK
<1>6. marker = fd.path
  BY <1>3, <1>5, Zenon DEF MarkerOK
<1>7. /\ fd.path \in DOMAIN files /\ nextSeq \notin DOMAIN files /\ Range(paths) \subseteq DOMAIN files
      /\ paths \in Seq(Nat) /\ nextSeq \in Nat
  BY <1>5, NodeUp, Zenon
<1>8. /\ fd'.path = nextSeq /\ files' = Put(files, nextSeq, EmptySegment) /\ paths' = Append(paths, nextSeq)
  BY <1>7, Zenon DEF OpenNewSegment
<1>9. DOMAIN files' = DOMAIN files \cup {nextSeq} /\ files'[nextSeq] = EmptySegment
  BY <1>8 DEF Put
<1>10. Range(paths') = Range(paths) \cup {nextSeq}
  BY <1>7, <1>8, AppendList
<1>11. fd.path \notin Range(comp.run) /\ fd.path \notin Range(comp.todo)
  BY Zenon DEF SInv, CompactorOK, CompactorAt, ListsAt
<1>12. MarkerOK'
  BY <1>1, <1>4, <1>6, <1>7, <1>9, <1>11, Zenon DEF MarkerOK
<1>13. FiltersOK'
  <2>1. ~EmptySegment.torn
    BY DEF EmptySegment
  <2>2. nextSeq \notin DOMAIN blooms /\ DOMAIN blooms \subseteq Range(paths')
    BY <1>7, <1>10, Zenon DEF FiltersOK
  <2> QED
    BY <1>1, <1>4, <1>8, <1>9, <2>1, <2>2, Zenon DEF FiltersOK
<1>14. MergedFilters'
  BY <1>1, Zenon DEF MergedFilters
<1> QED
  BY <1>3, <1>6, <1>12, <1>13, <1>14, Zenon

\* A record goes to the file the marker names, which has no filter.
LEMMA WriteFilters ==
  ASSUME SInv, Lock, MarkerOK, FiltersOK, MergedFilters, NEW w \in Writers, WriteHeader(w) \/ WriteData(w)
  PROVE  /\ MarkerOK' /\ FiltersOK' /\ MergedFilters' /\ marker = fd.path /\ fd.path \notin DOMAIN blooms
         /\ fd'.path = fd.path /\ ~At("truncate") /\ ~At("truncate")'
         /\ UNCHANGED <<sidecar, marker, phase, paths, blooms, idx, comp, cutoff>>
<1> USE ZenonT(30)
<1>1. UNCHANGED <<sidecar, marker, phase, paths, blooms, idx, comp, cutoff>>
  BY DEF WriteHeader, WriteData, manager, history
<1>2. /\ \A l \in Locked : (At(l) <=> writer[w].pc = l) /\ (At(l)' <=> writer'[w].pc = l)
      /\ WriteHeader(w) => writer[w].pc = "header" /\ writer'[w].pc = "data"
      /\ WriteData(w) => writer[w].pc = "data" /\ writer'[w].pc = "index"
  BY AppendPcs
<1>3. ~At("truncate") /\ ~At("mark") /\ ~At("create")
  BY <1>2 DEF Locked
<1>4. ~At("truncate")' /\ ~At("mark")' /\ ~At("create")'
  BY <1>2 DEF Locked
<1>5. phase # "down"
  BY <1>2 DEF SInv, HandlersOK
<1>6. marker = fd.path /\ fd.path \notin DOMAIN blooms
  BY <1>3, <1>5 DEF MarkerOK, FiltersOK
<1>7. fd.attached /\ fd.path \in DOMAIN files /\ fd.path = Last(paths)
  BY <1>5, NodeUp
<1>8. SInv'
  BY AppendStep DEF Append1
<1>9. fd'.path = fd.path
  <2>1. fd' = [path |-> Last(paths), attached |-> TRUE, size |-> files'[Last(paths)].size]
    BY <1>1, <1>5, <1>8 DEF SInv, ManagerOK
  <2> QED
    BY <1>7, <2>1
<1>10. files'[fd.path].torn => At("data")'
  <2>1. CASE WriteHeader(w)
    BY <1>2, <2>1 DEF Locked
  <2>2. CASE WriteData(w)
    <3>1. PICK g : g.torn = FALSE /\ files' = [files EXCEPT ![fd.path] = g]
      BY <1>7, <2>2 DEF WriteData
    <3> QED
      BY <1>7, <3>1
  <2> QED
    BY <2>1, <2>2
<1>11. MarkerOK'
  BY <1>1, <1>4, <1>6, <1>9 DEF MarkerOK
<1>12. FiltersOK'
  BY <1>1, <1>4, <1>6, <1>9, <1>10 DEF FiltersOK
<1>13. MergedFilters'
  BY <1>1 DEF MergedFilters
<1> QED
  BY <1>1, <1>3, <1>4, <1>6, <1>9, <1>11, <1>12, <1>13

-----------------------------------------------------------------------------
(* Filters while the compactor moves.                                      *)

Compactors == [pc : Labels, todo : Seq(Nat), run : Seq(Nat), left : Seq(Nat), tmp : {comp.tmp}, cutoff : Nat]

\* What a step writes to the compactor's record.
LEMMA CompFields ==
  ASSUME comp \in Compactors
  PROVE  /\ \A l : comp' = [comp EXCEPT !.pc = l] =>
                     comp'.pc = l /\ UNCHANGED <<comp.todo, comp.run, comp.left, comp.tmp>>
         /\ \A l, x : comp' = [comp EXCEPT !.pc = l, !.left = x] =>
                     comp'.pc = l /\ UNCHANGED <<comp.todo, comp.run, comp.tmp>>
         /\ \A l, x : comp' = [comp EXCEPT !.left = x, !.pc = l] =>
                     comp'.pc = l /\ UNCHANGED <<comp.todo, comp.run, comp.tmp>>
         /\ \A x : comp' = [comp EXCEPT !.todo = x] =>
                     comp'.todo = x /\ UNCHANGED <<comp.pc, comp.run, comp.tmp>>
<1>1. ASSUME NEW l, comp' = [comp EXCEPT !.pc = l]
      PROVE  comp'.pc = l /\ UNCHANGED <<comp.todo, comp.run, comp.left, comp.tmp>>
  BY <1>1 DEF Compactors
<1>2. ASSUME NEW l, NEW x, comp' = [comp EXCEPT !.pc = l, !.left = x]
      PROVE  comp'.pc = l /\ UNCHANGED <<comp.todo, comp.run, comp.tmp>>
  BY <1>2 DEF Compactors
<1>3. ASSUME NEW l, NEW x, comp' = [comp EXCEPT !.left = x, !.pc = l]
      PROVE  comp'.pc = l /\ UNCHANGED <<comp.todo, comp.run, comp.tmp>>
  BY <1>3 DEF Compactors
<1>4. ASSUME NEW x, comp' = [comp EXCEPT !.todo = x]
      PROVE  comp'.todo = x /\ UNCHANGED <<comp.pc, comp.run, comp.tmp>>
  BY <1>4 DEF Compactors
<1> QED
  BY <1>1, <1>2, <1>3, <1>4, Zenon

\* Steps of a merge and of deletion that keep what is in hand.
LEMMA InHandStays ==
  ASSUME SInv, MergeUnindex \/ MergeRename \/ MergeWriteBloom \/ MergeReindex \/ MergeManager
               \/ DeleteFile \/ RetentionUnindex
  PROVE  /\ UNCHANGED <<comp.todo, comp.run, comp.tmp>>
         /\ MergeUnindex => comp.pc = "unindex" /\ comp'.pc \in {"unindex", "rename"}
         /\ MergeRename => /\ comp.pc = "rename"
                           /\ comp'.pc = IF BloomEnabled /\ comp.tmp.recs # {} THEN "bloom" ELSE "reindex"
         /\ MergeWriteBloom => comp.pc = "bloom" /\ comp'.pc = "reindex"
         /\ MergeReindex => comp.pc = "reindex" /\ comp'.pc = "manager"
         /\ MergeManager => comp.pc = "manager" /\ comp'.pc = "delete"
         /\ DeleteFile => comp.pc = "delete" /\ comp'.pc = "delbloom"
         /\ RetentionUnindex => comp.pc = "expire" /\ comp'.pc = "delete"
<1> USE ZenonT(30)
<1>1. comp.pc # "idle"
  BY DEF MergeUnindex, MergeRename, MergeWriteBloom, MergeReindex, MergeManager, DeleteFile, RetentionUnindex
<1>2. comp \in Compactors
  BY <1>1, CompactorUp DEF Compactors
<1>3. MergeUnindex => /\ comp.pc = "unindex" /\ comp'.pc \in {"unindex", "rename"}
                      /\ UNCHANGED <<comp.todo, comp.run, comp.tmp>>
  <2>1. ASSUME MergeUnindex
        PROVE  \E l \in {"unindex", "rename"} : \E x : comp' = [comp EXCEPT !.left = x, !.pc = l]
    BY <2>1 DEF MergeUnindex
  <2> QED
    BY <1>2, <2>1, CompFields DEF MergeUnindex
<1>4. MergeRename => /\ comp.pc = "rename" /\ UNCHANGED <<comp.todo, comp.run, comp.tmp>>
                     /\ comp'.pc = IF BloomEnabled /\ comp.tmp.recs # {} THEN "bloom" ELSE "reindex"
  <2>1. ASSUME MergeRename
        PROVE  comp' = [comp EXCEPT !.pc = IF BloomEnabled /\ comp.tmp.recs # {} THEN "bloom" ELSE "reindex"]
    BY <2>1 DEF MergeRename
  <2>2. PICK l : l = IF BloomEnabled /\ comp.tmp.recs # {} THEN "bloom" ELSE "reindex"
    OBVIOUS
  <2>3. ASSUME MergeRename PROVE comp'.pc = l /\ UNCHANGED <<comp.todo, comp.run, comp.tmp>>
    BY <1>2, <2>1, <2>2, <2>3, CompFields
  <2> QED
    BY <2>2, <2>3 DEF MergeRename
<1>5. MergeWriteBloom => comp.pc = "bloom" /\ comp'.pc = "reindex" /\ UNCHANGED <<comp.todo, comp.run, comp.tmp>>
  BY <1>2, CompFields DEF MergeWriteBloom
<1>6. MergeReindex => comp.pc = "reindex" /\ comp'.pc = "manager" /\ UNCHANGED <<comp.todo, comp.run, comp.tmp>>
  BY <1>2, CompFields DEF MergeReindex
<1>7. MergeManager => comp.pc = "manager" /\ comp'.pc = "delete" /\ UNCHANGED <<comp.todo, comp.run, comp.tmp>>
  BY <1>2, CompFields DEF MergeManager
<1>8. DeleteFile => comp.pc = "delete" /\ comp'.pc = "delbloom" /\ UNCHANGED <<comp.todo, comp.run, comp.tmp>>
  BY <1>2, CompFields DEF DeleteFile
<1>9. RetentionUnindex => comp.pc = "expire" /\ comp'.pc = "delete" /\ UNCHANGED <<comp.todo, comp.run, comp.tmp>>
  BY <1>2, CompFields DEF RetentionUnindex
<1> QED
  BY <1>3, <1>4, <1>5, <1>6, <1>7, <1>8, <1>9

\* The end of a deletion.
LEMMA DeleteEnds ==
  ASSUME SInv, DeleteBloom
  PROVE  /\ comp.pc = "delbloom" /\ comp'.todo = comp.todo
         /\ \/ comp'.pc = "delete" /\ comp'.run = comp.run /\ comp'.tmp = comp.tmp
            \/ comp'.pc \in {"scan", "retain"} /\ comp'.run = <<>>
<1> USE ZenonT(30)
<1>1. comp.pc = "delbloom" /\ comp.pc # "idle"
  BY DEF DeleteBloom
<1>2. comp \in Compactors
  BY <1>1, CompactorUp DEF Compactors
<1>3. \/ \E x : comp' = [comp EXCEPT !.pc = "delete", !.left = x]
      \/ \E l \in {"scan", "retain"} :
            comp' = [comp EXCEPT !.pc = l, !.run = <<>>, !.left = <<>>, !.tmp = EmptySegment]
  BY DEF DeleteBloom
<1>4. ASSUME NEW l \in {"scan", "retain"},
             comp' = [comp EXCEPT !.pc = l, !.run = <<>>, !.left = <<>>, !.tmp = EmptySegment]
      PROVE  comp'.pc = l /\ comp'.run = <<>> /\ comp'.todo = comp.todo
  BY <1>2, <1>4 DEF Compactors
<1>5. ASSUME NEW x, comp' = [comp EXCEPT !.pc = "delete", !.left = x]
      PROVE  comp'.pc = "delete" /\ UNCHANGED <<comp.todo, comp.run, comp.tmp>>
  BY <1>2, <1>5, CompFields
<1> QED
  BY <1>1, <1>3, <1>4, <1>5

\* A merge that could not rename is given up.
LEMMA MergeGivenUp ==
  ASSUME SInv, MergeRenameFails
  PROVE  comp.pc = "rename" /\ comp'.pc = "scan" /\ comp'.todo = comp.todo /\ comp'.run = <<>>
<1>1. comp.pc = "rename" /\ comp.pc # "idle"
  BY DEF MergeRenameFails
<1>2. comp \in Compactors
  BY <1>1, CompactorUp, Zenon DEF Compactors
<1>3. comp' = [comp EXCEPT !.pc = "scan", !.run = <<>>, !.tmp = EmptySegment]
  BY Zenon DEF MergeRenameFails
<1> QED
  BY <1>1, <1>2, <1>3 DEF Compactors

\* A list moves on.
LEMMA TodoMoves ==
  ASSUME SInv, MergeSkip \/ RetentionKeep
  PROVE  /\ Range(comp'.todo) \subseteq Range(comp.todo) /\ UNCHANGED <<comp.pc, comp.run, comp.tmp>>
         /\ comp.pc \in {"scan", "retain"}
<1>1. comp.pc \in {"scan", "retain"} /\ comp.pc # "idle" /\ comp.todo # <<>>
  BY DEF MergeSkip, RetentionKeep
<1>2. comp \in Compactors /\ comp.todo \in Seq(Nat)
  BY <1>1, CompactorUp, Zenon DEF Compactors
<1>3. PICK x : comp' = [comp EXCEPT !.todo = x] /\ Range(x) \subseteq Range(comp.todo)
  <2>1. CASE RetentionKeep
    <3>1. comp' = [comp EXCEPT !.todo = Tail(comp.todo)]
      BY <1>2, <2>1 DEF RetentionKeep, Compactors
    <3>2. Range(Tail(comp.todo)) \subseteq Range(comp.todo)
      BY <1>1, <1>2, TailList, Zenon
    <3> QED
      BY <3>1, <3>2, Zenon
  <2>2. CASE MergeSkip
    <3>1. PICK s, n, m : s = comp.todo /\ n = RunLength(s) /\ m = Max({n, 1})
      BY Zenon
    <3>2. comp' = [comp EXCEPT !.todo = SubSeq(s, m + 1, Len(s))]
      BY <1>2, <2>2, <3>1 DEF MergeSkip, Compactors
    <3>3. s \in Seq(Nat) /\ n \in Nat /\ Len(s) \in Nat
      BY <1>2, <3>1, RunLengthRange DEF SInv
    <3>4. m \in {n, 1}
      <4>1. {n, 1} = {n} \cup {1} /\ {n, 1} \in SUBSET Nat /\ {n, 1} # {}
        BY <3>3
      <4>2. IsFiniteSet({n} \cup {1})
        BY OneFinite, GrownFinite, Zenon
      <4> QED
        BY <3>1, <4>1, <4>2, LargestName, Zenon DEF SInv
    <3>5. m + 1 \in Nat \ {0} /\ Len(s) <= Len(s)
      BY <3>3, <3>4
    <3>6. Range(SubSeq(s, m + 1, Len(s))) \subseteq Range(s)
      BY <3>3, <3>5, PartList
    <3> QED
      BY <3>1, <3>2, <3>6, Zenon
  <2> QED
    BY <2>1, <2>2
<1>4. comp'.todo = x /\ UNCHANGED <<comp.pc, comp.run, comp.tmp>>
  BY <1>2, <1>3, CompFields, Zenon
<1> QED
  BY <1>1, <1>3, <1>4, Zenon

\* What filters say after one is put or dropped.
LEMMA PutCovers ==
  ASSUME NEW f, NEW p, NEW R
  PROVE  /\ DOMAIN Put(f, p, R) = DOMAIN f \cup {p}
         /\ \A e : Covers(Put(f, p, R), p, e) <=> e \in R
         /\ \A q, e : q # p => (Covers(Put(f, p, R), q, e) <=> Covers(f, q, e))
BY DEF Put, Covers

\* A filter that is dropped rules nothing out any more.
LEMMA RestrictCovers ==
  ASSUME NEW f, NEW S, S \subseteq DOMAIN f
  PROVE  /\ DOMAIN Restrict(f, S) = S
         /\ \A q, e : Covers(f, q, e) => Covers(Restrict(f, S), q, e)
         /\ \A q, e : q \in S => (Covers(f, q, e) <=> Covers(Restrict(f, S), q, e))
BY DEF Restrict, Covers

\* What a step of the compactor leaves alone.
LEMMA CompactorQuiet ==
  ASSUME SInv, Compact, ~MergeWriteBloomFails
  PROVE  /\ UNCHANGED <<writer, marker, phase, nextSeq, acked, cutoff>> /\ phase = "serving" /\ fd'.path = fd.path
         /\ files' = files \/ MergeRename \/ DeleteFile
         /\ sidecar' = sidecar \/ MergeWriteBloom \/ DeleteBloom
         /\ (blooms' = blooms /\ paths' = paths) \/ MergeManager \/ RetentionDelete
         /\ idx' = idx \/ MergeUnindex \/ MergeRenameFails \/ MergeReindex \/ RetentionUnindex
         /\ reader' = reader \/ MergeRead
<1> USE ZenonT(30)
<1>1. UNCHANGED <<writer, marker, phase, nextSeq, acked, cutoff>>
  BY DEF Compact, PassBegin, MergeSkip, MergeRead, MergeUnindex, MergeRename, MergeRenameFails, MergeWriteBloom,
         MergeReindex, MergeManager, DeleteFile, DeleteBloom, RetentionBegin, RetentionKeep,
         RetentionDelete, RetentionUnindex, RetentionEnd, disk, manager, history
<1>2. phase = "serving"
  <2>1. phase = "serving" \/ comp.pc # "idle"
    BY DEF Compact, PassBegin, MergeSkip, MergeRead, MergeUnindex, MergeRename, MergeRenameFails, MergeWriteBloom,
           MergeReindex, MergeManager, DeleteFile, DeleteBloom, RetentionBegin, RetentionKeep,
           RetentionDelete, RetentionUnindex, RetentionEnd
  <2> QED
    BY <2>1, CompactorUp
<1>3. fd' = fd \/ \E p : fd' = Unlinked(p)
  BY DEF Compact, PassBegin, MergeSkip, MergeRead, MergeUnindex, MergeRename, MergeRenameFails, MergeWriteBloom,
         MergeReindex, MergeManager, DeleteFile, DeleteBloom, RetentionBegin, RetentionKeep,
         RetentionDelete, RetentionUnindex, RetentionEnd, manager
<1>4. fd = [path |-> Last(paths), attached |-> TRUE, size |-> files[Last(paths)].size]
  BY <1>2 DEF SInv, ManagerOK
<1>5. fd'.path = fd.path
  BY <1>3, <1>4 DEF Unlinked
<1>6. files' = files \/ MergeRename \/ DeleteFile
  BY DEF Compact, PassBegin, MergeSkip, MergeRead, MergeUnindex, MergeRenameFails, MergeWriteBloom,
         MergeReindex, MergeManager, DeleteBloom, RetentionBegin, RetentionKeep,
         RetentionDelete, RetentionUnindex, RetentionEnd, disk
<1>7. sidecar' = sidecar \/ MergeWriteBloom \/ DeleteBloom
  BY DEF Compact, PassBegin, MergeSkip, MergeRead, MergeUnindex, MergeRename, MergeRenameFails,
         MergeReindex, MergeManager, DeleteFile, RetentionBegin, RetentionKeep,
         RetentionDelete, RetentionUnindex, RetentionEnd, disk
<1>8. (blooms' = blooms /\ paths' = paths) \/ MergeManager \/ RetentionDelete
  BY DEF Compact, PassBegin, MergeSkip, MergeRead, MergeUnindex, MergeRename, MergeRenameFails, MergeWriteBloom,
         MergeReindex, DeleteFile, DeleteBloom, RetentionBegin, RetentionKeep,
         RetentionUnindex, RetentionEnd, manager
<1>9. idx' = idx \/ MergeUnindex \/ MergeRenameFails \/ MergeReindex \/ RetentionUnindex
  BY DEF Compact, PassBegin, MergeSkip, MergeRead, MergeRename, MergeWriteBloom,
         MergeManager, DeleteFile, DeleteBloom, RetentionBegin, RetentionKeep, RetentionDelete, RetentionEnd
<1>10. reader' = reader \/ MergeRead
  BY DEF Compact, PassBegin, MergeSkip, MergeUnindex, MergeRename, MergeRenameFails, MergeWriteBloom,
         MergeReindex, MergeManager, DeleteFile, DeleteBloom, RetentionBegin, RetentionKeep,
         RetentionDelete, RetentionUnindex, RetentionEnd
<1> QED
  BY <1>1, <1>2, <1>5, <1>6, <1>7, <1>8, <1>9, <1>10

\* The beginning and the end of a pass.
LEMMA PassMoves ==
  ASSUME SInv, PassBegin \/ RetentionBegin \/ RetentionEnd
  PROVE  comp'.pc \in {"idle", "scan", "retain"} /\ comp'.run = <<>> /\ comp.run = <<>>
<1>1. comp.pc \in {"idle", "scan", "retain"}
  BY DEF PassBegin, RetentionBegin, RetentionEnd
<1>2. comp.run = <<>>
  BY <1>1, Zenon DEF SInv, CompactorOK, CompactorAt, ListsAt
<1>3. \/ comp' = IdleComp
      \/ \E x : comp' = [IdleComp EXCEPT !.pc = "scan", !.todo = x]
      \/ \E x, c : comp' = [IdleComp EXCEPT !.pc = "retain", !.todo = x, !.cutoff = c]
  BY Zenon DEF PassBegin, RetentionBegin, RetentionEnd
<1>4. comp'.pc \in {"idle", "scan", "retain"} /\ comp'.run = <<>>
  <2>1. CASE comp' = IdleComp
    BY <2>1 DEF IdleComp
  <2>2. ASSUME NEW x, comp' = [IdleComp EXCEPT !.pc = "scan", !.todo = x]
        PROVE  comp'.pc = "scan" /\ comp'.run = <<>>
    BY <2>2 DEF IdleComp
  <2>3. ASSUME NEW x, NEW c, comp' = [IdleComp EXCEPT !.pc = "retain", !.todo = x, !.cutoff = c]
        PROVE  comp'.pc = "retain" /\ comp'.run = <<>>
    BY <2>3 DEF IdleComp
  <2> QED
    BY <1>3, <2>1, <2>2, <2>3, Zenon
<1> QED
  BY <1>2, <1>4

\* Deletion removes a file of the run that is off the manager's list.
LEMMA DeleteFiles ==
  ASSUME SInv, DeleteFile \/ DeleteBloom
  PROVE  /\ Head(comp.left) \in Range(comp.left) /\ Head(comp.left) \in Range(comp.run)
         /\ Head(comp.left) \notin Range(paths)
         /\ DeleteFile => /\ DOMAIN files' = DOMAIN files \ {Head(comp.left)}
                          /\ \A p \in DOMAIN files : p # Head(comp.left) => files'[p] = files[p]
         /\ DeleteBloom => /\ DOMAIN sidecar' = DOMAIN sidecar \ {Head(comp.left)}
                           /\ \A p, e : Covers(sidecar, p, e) => Covers(sidecar', p, e)
<1> USE ZenonT(30)
<1>1. comp.pc \in {"delete", "delbloom"}
  BY DEF DeleteFile, DeleteBloom
<1>2. /\ comp.left \in Seq(Nat) /\ comp.left # <<>> /\ Range(comp.left) \subseteq Range(comp.run)
      /\ Range(comp.left) \cap Range(paths) = {}
  BY <1>1, DeleteUp
<1>3. Head(comp.left) \in Range(comp.left)
  BY <1>2, HeadIn
<1>4. PICK d : d = Head(comp.left)
  OBVIOUS
<1>5. ASSUME DeleteFile
      PROVE  DOMAIN files' = DOMAIN files \ {d} /\ \A p \in DOMAIN files : p # d => files'[p] = files[p]
  <2>1. files' = Drop(files, d)
    BY <1>4, <1>5 DEF DeleteFile
  <2> QED
    BY <2>1 DEF Drop, Restrict
<1>6. ASSUME DeleteBloom
      PROVE  /\ DOMAIN sidecar' = DOMAIN sidecar \ {d}
             /\ \A p, e : Covers(sidecar, p, e) => Covers(sidecar', p, e)
  <2>1. sidecar' = Restrict(sidecar, DOMAIN sidecar \ {d})
    BY <1>4, <1>6 DEF DeleteBloom, Drop
  <2>2. DOMAIN sidecar \ {d} \subseteq DOMAIN sidecar
    OBVIOUS
  <2> QED
    BY <2>1, <2>2, RestrictCovers
<1> QED
  BY <1>2, <1>3, <1>4, <1>5, <1>6

\* The merged file's sidecar.
LEMMA BloomWritten ==
  ASSUME SInv, MergeWriteBloom
  PROVE  /\ DOMAIN sidecar' = DOMAIN sidecar \cup {Head(comp.run)}
         /\ \A e : Covers(sidecar', Head(comp.run), e) <=> e \in comp.tmp.recs
         /\ \A q, e : q # Head(comp.run) => (Covers(sidecar', q, e) <=> Covers(sidecar, q, e))
         /\ Head(comp.run) # fd.path
<1> USE ZenonT(30)
<1>1. comp.pc \in {"unindex", "rename", "bloom", "reindex", "manager"}
  BY DEF MergeWriteBloom
<1>2. comp.run # <<>>
  BY <1>1, MergeUp
<1>3. PICK h, R : h = Head(comp.run) /\ R = comp.tmp.recs
  OBVIOUS
<1>4. sidecar' = Put(sidecar, h, R)
  BY <1>3 DEF MergeWriteBloom
<1>5. /\ DOMAIN sidecar' = DOMAIN sidecar \cup {h}
      /\ \A e : Covers(sidecar', h, e) <=> e \in R
      /\ \A q, e : q # h => (Covers(sidecar', q, e) <=> Covers(sidecar, q, e))
  BY <1>4, PutCovers
<1> QED
  BY <1>2, <1>3, <1>5, HeadClosed

\* The manager drops the merged-away paths and reloads the merged file's filter.
LEMMA ManagerReloads ==
  ASSUME SInv, FiltersOK, MergedFilters, MergeManager
  PROVE  /\ DOMAIN blooms' \subseteq Range(paths') /\ DOMAIN blooms' \subseteq DOMAIN blooms \cup {Head(comp.run)}
         /\ ~BloomEnabled => DOMAIN blooms' = {}
         /\ \A e \in comp.tmp.recs : Covers(blooms', Head(comp.run), e)
         /\ \A q, e : q \notin Range(comp.run) => (Covers(blooms', q, e) <=> Covers(blooms, q, e))
         /\ Head(comp.run) # fd.path
<1> USE ZenonT(30)
<1>1. comp.pc = "manager" /\ comp.pc \in {"unindex", "rename", "bloom", "reindex", "manager"}
  BY DEF MergeManager
<1>2. /\ comp.run \in Seq(Nat) /\ comp.run # <<>> /\ IsInjective(comp.run) /\ Range(comp.run) \subseteq Range(paths)
      /\ Head(comp.run) \in Range(comp.run) /\ phase # "down"
  BY <1>1, MergeUp
<1>3. PICK h, G, K : /\ h = Head(comp.run) /\ G = Range(Tail(comp.run))
                     /\ K = Restrict(blooms, DOMAIN blooms \ Range(comp.run))
  OBVIOUS
<1>4. Range(comp.run) = {h} \cup G /\ h \notin G
  BY <1>2, <1>3, TailList
<1>5. fd.path \notin Range(comp.run)
  BY InHand
<1>6. paths' = Without(paths, G) /\ UNCHANGED <<files, phase, nextSeq, fd>>
  BY <1>3 DEF MergeManager, disk
<1>7. Range(paths') = Range(paths) \ G
  BY <1>2, <1>4, <1>5, <1>6, ListWithout
<1>8. /\ DOMAIN K = DOMAIN blooms \ Range(comp.run)
      /\ \A q, e : q \in DOMAIN blooms \ Range(comp.run) => (Covers(blooms, q, e) <=> Covers(K, q, e))
  BY <1>3, RestrictCovers
<1>9. \A q, e : q \notin Range(comp.run) => (Covers(K, q, e) <=> Covers(blooms, q, e))
  BY <1>8 DEF Covers
<1>10. DOMAIN blooms \subseteq Range(paths) /\ (~BloomEnabled => DOMAIN blooms = {})
  BY DEF FiltersOK
<1>11. CASE BloomEnabled /\ h \in DOMAIN sidecar
  <2>0. PICK R : R = sidecar[h]
    OBVIOUS
  <2>1. blooms' = Put(K, h, R)
    BY <1>3, <1>11, <2>0 DEF MergeManager
  <2>2. /\ DOMAIN blooms' = DOMAIN K \cup {h}
        /\ \A e : Covers(blooms', h, e) <=> e \in R
        /\ \A q, e : q # h => (Covers(blooms', q, e) <=> Covers(K, q, e))
    BY <2>1, PutCovers
  <2>3. \A e \in comp.tmp.recs : Covers(blooms', h, e)
    BY <1>1, <1>3, <1>11, <2>0, <2>2 DEF MergedFilters, Covers
  <2> QED
    BY <1>2, <1>3, <1>4, <1>5, <1>7, <1>8, <1>9, <1>10, <1>11, <2>2, <2>3
<1>12. CASE ~(BloomEnabled /\ h \in DOMAIN sidecar)
  <2>1. blooms' = K
    BY <1>3, <1>12 DEF MergeManager
  <2>2. \A e : Covers(blooms', h, e)
    BY <1>3, <1>2, <1>8, <2>1 DEF Covers
  <2> QED
    BY <1>2, <1>3, <1>4, <1>5, <1>7, <1>8, <1>9, <1>10, <2>1, <2>2
<1> QED
  BY <1>11, <1>12

\* Retention takes a segment off the list, and its filter with it.
LEMMA RetentionDrops ==
  ASSUME SInv, FiltersOK, RetentionDelete
  PROVE  /\ DOMAIN blooms' \subseteq Range(paths') /\ DOMAIN blooms' \subseteq DOMAIN blooms
         /\ \A q, e : Covers(blooms, q, e) => Covers(blooms', q, e)
         /\ comp'.pc = "expire"
<1>1. comp.pc = "retain" /\ comp.pc # "idle" /\ comp.todo # <<>>
  BY DEF RetentionDelete
<1>2. comp \in Compactors /\ comp.todo \in Seq(Nat) /\ phase # "down" /\ fd.path \notin Range(comp.todo)
  BY <1>1, CompactorUp, Zenon DEF Compactors, ListsAt
<1>3. PICK p : p = Head(comp.todo)
  OBVIOUS
<1>4. p \in Range(comp.todo) /\ fd.path \notin {p}
  BY <1>1, <1>2, <1>3, HeadIn, Zenon
<1>5. paths' = Without(paths, {p}) /\ UNCHANGED <<files, phase, nextSeq, fd>>
  BY <1>3 DEF RetentionDelete, disk
<1>6. Range(paths') = Range(paths) \ {p}
  BY <1>2, <1>4, <1>5, ListWithout, Zenon
<1>7. blooms' = Restrict(blooms, DOMAIN blooms \ {p})
  BY <1>3, Zenon DEF RetentionDelete, Drop
<1>8. DOMAIN blooms' = DOMAIN blooms \ {p} /\ \A q, e : Covers(blooms, q, e) => Covers(blooms', q, e)
  <2>1. DOMAIN blooms \ {p} \subseteq DOMAIN blooms
    OBVIOUS
  <2> QED
    BY <1>7, <2>1, RestrictCovers, Zenon
<1>9. comp'.pc = "expire"
  BY <1>2 DEF RetentionDelete, Compactors
<1> QED
  BY <1>6, <1>8, <1>9, Zenon DEF FiltersOK

-----------------------------------------------------------------------------
(* Lock, marker and filters in every step.                                 *)

Structure == Lock /\ MarkerOK /\ MarkerOnDisk /\ FiltersOK /\ MergedFilters

\* A node that is down runs nothing.
LEMMA DownQuiet ==
  ASSUME SInv, phase # "serving"
  PROVE  comp.pc = "idle" /\ \A w \in Writers : writer[w].pc = "idle"
BY Zenon DEF SInv, HandlersOK

\* A crash leaves sidecars and files, and no handler or filter in memory.
LEMMA CrashFilters ==
  ASSUME SInv, FiltersOK, Crash
  PROVE  Lock' /\ MarkerOK' /\ FiltersOK' /\ MergedFilters' /\ \A l \in Locked : ~At(l)'
<1>1. /\ phase' = "down" /\ blooms' = <<>> /\ writer' = [w \in Writers |-> IdleWriter] /\ comp' = IdleComp
      /\ sidecar' = sidecar
  BY DEF Crash, disk
<1>2. \A w \in Writers : writer'[w].pc = "idle"
  BY <1>1 DEF IdleWriter
<1>3. comp'.pc = "idle" /\ DOMAIN blooms' = {}
  BY <1>1 DEF IdleComp
<1>4. Lock' /\ \A l \in Locked : ~At(l)'
  BY <1>2 DEF Lock, At, Locked
<1>5. MarkerOK'
  BY <1>1, Zenon DEF MarkerOK
<1>6. FiltersOK'
  BY <1>1, <1>3 DEF FiltersOK
<1>7. MergedFilters'
  BY <1>3 DEF MergedFilters
<1> QED
  BY <1>4, <1>5, <1>6, <1>7

\* What a restart makes of disk: it loads the sidecar of every file but the one
\* it reopens.
LEMMA StartFilters ==
  ASSUME SInv, Lock, MarkerOnDisk, FiltersOK, Start
  PROVE  /\ Lock' /\ MarkerOK' /\ FiltersOK' /\ MergedFilters' /\ \A l \in Locked : ~At(l) /\ ~At(l)'
         /\ \A p \in DOMAIN files : p \in DOMAIN files' /\ files'[p] = files[p]
         /\ \A p \in DOMAIN files : \A e : p = marker \/ Covers(sidecar, p, e) => Covers(blooms', p, e)
         /\ DOMAIN files # {} => marker' = marker
<1>1. phase = "down" /\ marker # EmptyMarker /\ RebuildSucceeds /\ NewManager /\ UNCHANGED <<sidecar, writer, comp>>
  BY DEF Start, ActiveReopens
<1>2. comp.pc = "idle" /\ \A w \in Writers : writer[w].pc = "idle"
  BY <1>1, DownQuiet
<1>3. Lock' /\ \A l \in Locked : ~At(l) /\ ~At(l)'
  BY <1>1, <1>2 DEF Lock, At, Locked
<1>4. ~At("truncate")' /\ ~At("mark")' /\ ~At("create")'
  BY <1>3 DEF Locked
<1>5. MergedFilters'
  BY <1>1, <1>2 DEF MergedFilters
<1>6. CASE DOMAIN files = {}
  <2>1. PICK a : a = nextSeqFromMatches({})
    OBVIOUS
  <2>2. /\ files' = Put(files, a, EmptySegment) /\ marker' = a
        /\ fd' = [path |-> a, attached |-> TRUE, size |-> 0] /\ blooms' = <<>>
    BY <1>1, <1>6, <2>1 DEF NewManager
  <2>3. fd'.path = a /\ DOMAIN blooms' = {} /\ ~files'[a].torn
    BY <2>2 DEF Put, EmptySegment
  <2>4. MarkerOK'
    BY <1>4, <2>2, <2>3, Zenon DEF MarkerOK
  <2>5. FiltersOK'
    BY <1>1, <1>4, <2>3, Zenon DEF FiltersOK
  <2> QED
    BY <1>3, <1>5, <1>6, <2>4, <2>5, Zenon
<1>7. CASE DOMAIN files # {}
  <2> USE ZenonT(30)
  <2>1. marker \in DOMAIN files
    BY <1>1, <1>7 DEF MarkerOnDisk
  <2>2. PICK a, C : a = marker /\ C = DOMAIN files \ {a}
    OBVIOUS
  <2>3. ActiveAtStart = a
    BY <2>1, <2>2 DEF ActiveAtStart
  <2>4. /\ paths' = PathsAtStart(a) /\ fd' = [path |-> a, attached |-> TRUE, size |-> Size(a)]
        /\ blooms' = LoadedBlooms(C) /\ UNCHANGED <<files, marker>>
    BY <1>1, <1>7, <2>2, <2>3 DEF NewManager
  <2>5. Range(paths') = DOMAIN files
    <3>1. DOMAIN files \subseteq Nat /\ IsFiniteSet(DOMAIN files)
      BY DEF SInv, FilesOK
    <3>2. C \in SUBSET Nat /\ IsFiniteSet(C) /\ a \in Nat
      BY <2>1, <2>2, <3>1, PartFinite
    <3>3. Sorted(C) \in Seq(C) /\ Range(Sorted(C)) = C
      BY <3>2, SortedNames DEF SInv
    <3>4. Sorted(C) \in Seq(Nat)
      BY <3>2, <3>3, WiderList
    <3>5. Range(Append(Sorted(C), a)) = Range(Sorted(C)) \cup {a}
      BY <3>2, <3>4, AppendList, SMT
    <3>6. paths' = Append(Sorted(C), a)
      BY <2>2, <2>4 DEF PathsAtStart
    <3> QED
      BY <2>1, <2>2, <3>3, <3>5, <3>6
  <2>6. fd'.path = a
    BY <2>4
  <2>7. /\ DOMAIN blooms' \subseteq C /\ (~BloomEnabled => DOMAIN blooms' = {})
        /\ \A p, e : Covers(sidecar, p, e) => Covers(blooms', p, e)
    <3>1. CASE BloomEnabled
      <4>1. blooms' = Restrict(sidecar, C \cap DOMAIN sidecar)
        BY <2>4, <3>1 DEF LoadedBlooms
      <4>2. C \cap DOMAIN sidecar \subseteq DOMAIN sidecar
        OBVIOUS
      <4>3. /\ DOMAIN blooms' = C \cap DOMAIN sidecar
            /\ \A p, e : Covers(sidecar, p, e) => Covers(blooms', p, e)
        BY <4>1, <4>2, RestrictCovers
      <4> QED
        BY <3>1, <4>3
    <3>2. CASE ~BloomEnabled
      <4>1. DOMAIN blooms' = {}
        BY <2>4, <3>2, SMT DEF LoadedBlooms
      <4> QED
        BY <4>1 DEF Covers
    <3> QED
      BY <3>1, <3>2
  <2>8. a \notin DOMAIN blooms' /\ \A e : Covers(blooms', a, e)
    BY <2>2, <2>7 DEF Covers
  <2>9. MarkerOK'
    BY <1>4, <2>2, <2>4, <2>6 DEF MarkerOK
  <2>10. ~files'[a].torn
    BY <1>1, <2>1, <2>2, <2>4 DEF RebuildSucceeds
  <2>11. FiltersOK'
    BY <1>1, <1>4, <2>2, <2>5, <2>6, <2>7, <2>8, <2>10 DEF FiltersOK
  <2> QED
    BY <1>3, <1>5, <2>2, <2>4, <2>7, <2>8, <2>9, <2>11
<1> QED
  BY <1>6, <1>7

\* Every step of the node, as long as sidecars get written and nothing is transferred.
LEMMA StructureStep ==
    SInv /\ SInv' /\ Structure /\ shards = {} /\ Next /\ SidecarsWritten =>
         Structure'
<1> USE ZenonT(30)
<1>BeginFilters.
    ASSUME SInv, Lock, MarkerOK, FiltersOK, MergedFilters, NEW w \in Writers, AppendBegin(w)
    PROVE  MarkerOK' /\ FiltersOK' /\ MergedFilters'
  <2> USE <1>BeginFilters
  <2>1. UNCHANGED <<files, sidecar, marker, phase, paths, fd, blooms, comp>>
    BY DEF AppendBegin, disk, manager
  <2>2. /\ \A l \in Locked : (At(l) <=> writer[w].pc = l) /\ (At(l)' <=> writer'[w].pc = l)
        /\ writer[w].pc = "idle" /\ writer'[w].pc \in {"rotate", "header"}
    BY AppendPcs
  <2>3. ~At("truncate") /\ ~At("mark") /\ ~At("create") /\ ~At("data")
    BY <2>2 DEF Locked
  <2>4. ~At("truncate")' /\ ~At("mark")' /\ ~At("create")' /\ ~At("data")'
    BY <2>2 DEF Locked
  <2> QED
    BY <2>1, <2>3, <2>4 DEF MarkerOK, FiltersOK, MergedFilters
<1>MarkFilters.
    ASSUME SInv, Lock, MarkerOK, FiltersOK, MergedFilters, NEW w \in Writers,
           TruncateMarker(w) \/ WriteMarker(w)
    PROVE  MarkerOK' /\ FiltersOK' /\ MergedFilters'
  <2> USE <1>MarkFilters
  <2>1. UNCHANGED <<files, sidecar, phase, paths, fd, blooms, comp>>
    BY DEF TruncateMarker, WriteMarker, manager
  <2>2. /\ \A l \in Locked : (At(l) <=> writer[w].pc = l) /\ (At(l)' <=> writer'[w].pc = l)
        /\ TruncateMarker(w) => writer[w].pc = "truncate" /\ writer'[w].pc = "mark"
        /\ WriteMarker(w) => writer[w].pc = "mark" /\ writer'[w].pc = "header"
    BY AppendPcs
  <2>3. ~At("create") /\ ~At("data") /\ ~At("create")' /\ ~At("data")'
    BY <2>2 DEF Locked
  <2>4. phase # "down" /\ fd.path = Last(paths)
    <3>1. phase # "down"
      BY <2>2 DEF SInv, HandlersOK
    <3> QED
      BY <3>1, NodeUp
  <2>5. MarkerOK'
    <3>1. CASE TruncateMarker(w)
      <4>1. ~At("truncate")' /\ At("mark")' /\ marker' = EmptyMarker
        BY <2>2, <3>1 DEF Locked, TruncateMarker
      <4> QED
        BY <4>1 DEF MarkerOK
    <3>2. CASE WriteMarker(w)
      <4>1. ~At("truncate")' /\ ~At("mark")' /\ marker' = Last(paths)
        BY <2>2, <3>2 DEF Locked, WriteMarker
      <4> QED
        BY <2>1, <2>4, <4>1 DEF MarkerOK
    <3> QED
      BY <3>1, <3>2
  <2> QED
    BY <2>1, <2>3, <2>5 DEF FiltersOK, MergedFilters
<1>CompactFilters.
      SInv /\ Lock /\ MarkerOK /\ FiltersOK /\ MergedFilters /\ Compact /\ ~MergeWriteBloomFails =>
           Lock' /\ MarkerOK' /\ FiltersOK' /\ MergedFilters'
    \* Beginning a merge.
  <2>MergeBegins.
      ASSUME SInv, MergeRead
      PROVE  /\ comp.pc = "scan" /\ comp'.pc = "unindex" /\ comp.run = <<>>
             /\ Range(comp'.run) \subseteq Range(comp.todo) /\ Range(comp'.todo) \subseteq Range(comp.todo)
    <3> USE <2>MergeBegins
    <3>1. comp.pc = "scan" /\ comp.pc # "idle"
      BY DEF MergeRead
    <3>2. comp \in Compactors /\ comp.todo \in Seq(Nat) /\ ListsAt(comp, Range(paths), fd.path, nextSeq)
      BY <3>1, CompactorUp DEF Compactors
    <3>3. PICK s, n : s = comp.todo /\ n = RunLength(s)
      OBVIOUS
    <3>4. s \in Seq(Nat) /\ n \in 0 .. Len(s) /\ Len(s) \in Nat
      BY <3>2, <3>3, RunLengthRange, SMT DEF SInv
    <3>5. PICK r, t : r = SubSeq(s, 1, n) /\ t = SubSeq(s, n + 1, Len(s))
      OBVIOUS
    <3>6. Range(r) \subseteq Range(s) /\ Range(t) \subseteq Range(s)
      <4>1. 1 \in Nat \ {0} /\ n \in Nat /\ n <= Len(s) /\ n + 1 \in Nat \ {0} /\ Len(s) <= Len(s)
        BY <3>4, SMT
      <4> QED
        BY <3>4, <3>5, <4>1, PartList
    <3>7. PICK T : comp' = [comp EXCEPT !.pc = "unindex", !.run = r, !.left = r, !.tmp = T, !.todo = t]
      BY <3>3, <3>5 DEF MergeRead
    <3>8. comp'.pc = "unindex" /\ comp'.run = r /\ comp'.todo = t
      BY <3>2, <3>7 DEF Compactors
    <3> QED
      BY <3>1, <3>2, <3>3, <3>6, <3>8 DEF ListsAt
    \* Only under the lock does the compactor take up a segment it did not have.
  <2>ListsMove.
      ASSUME SInv, Compact, ~MergeWriteBloomFails
      PROVE  \/ LockFree
             \/ \A p : p \in Range(comp'.run) \/ p \in Range(comp'.todo) =>
                          p \in Range(comp.run) \/ p \in Range(comp.todo)
    <3> USE <2>ListsMove
    <3>1. Range(<<>>) = {}
      BY EmptyList
    <3>2. CASE PassBegin \/ RetentionBegin \/ MergeManager \/ RetentionDelete
      BY <3>2 DEF PassBegin, RetentionBegin, MergeManager, RetentionDelete
    <3>3. CASE MergeUnindex \/ MergeRename \/ MergeWriteBloom \/ MergeReindex \/ DeleteFile \/ RetentionUnindex
      BY <3>3, InHandStays
    <3>4. CASE DeleteBloom \/ MergeRenameFails
      <4>1. comp'.todo = comp.todo /\ comp'.run \in {comp.run, <<>>}
        BY <3>4, DeleteEnds, MergeGivenUp
      <4> QED
        BY <3>1, <4>1
    <3>5. CASE MergeRead
      BY <3>5, <2>MergeBegins
    <3>6. CASE MergeSkip \/ RetentionKeep
      BY <3>6, TodoMoves
    <3>7. CASE RetentionEnd
      <4>1. comp'.todo = <<>> /\ comp'.run = <<>>
        BY <3>7 DEF RetentionEnd, IdleComp
      <4> QED
        BY <3>1, <4>1
    <3> QED
      BY <3>2, <3>3, <3>4, <3>5, <3>6, <3>7 DEF Compact
    \* The rename replaces the first file of the run.
  <2>RenameFiles.
      ASSUME SInv, MergeRename
      PROVE  /\ Head(comp.run) \in Range(comp.run) /\ DOMAIN files' = DOMAIN files
             /\ files'[Head(comp.run)] = comp.tmp
             /\ \A p \in DOMAIN files : p # Head(comp.run) => files'[p] = files[p]
             /\ Head(comp.run) \in DOMAIN files
    <3> USE <2>RenameFiles
    <3>1. comp.pc \in {"unindex", "rename", "bloom", "reindex", "manager"}
      BY DEF MergeRename
    <3>2. Head(comp.run) \in Range(comp.run) /\ Head(comp.run) \in DOMAIN files
      BY <3>1, MergeUp
    <3>3. PICK h, T : h = Head(comp.run) /\ T = comp.tmp
      OBVIOUS
    <3>4. files' = Put(files, h, T)
      BY <3>3 DEF MergeRename, Merged
    <3>5. DOMAIN files' = DOMAIN files \cup {h} /\ files'[h] = T /\ \A p \in DOMAIN files : p # h => files'[p] = files[p]
      BY <3>4 DEF Put
    <3> QED
      BY <3>2, <3>3, <3>5
  <2> SUFFICES ASSUME SInv, Lock, MarkerOK, FiltersOK, MergedFilters, Compact, ~MergeWriteBloomFails
               PROVE  Lock' /\ MarkerOK' /\ FiltersOK' /\ MergedFilters'
    OBVIOUS
  <2>1. /\ UNCHANGED <<writer, marker, phase, nextSeq>> /\ phase = "serving" /\ fd'.path = fd.path
        /\ files' = files \/ MergeRename \/ DeleteFile
        /\ sidecar' = sidecar \/ MergeWriteBloom \/ DeleteBloom
        /\ (blooms' = blooms /\ paths' = paths) \/ MergeManager \/ RetentionDelete
    BY CompactorQuiet
  <2>2. Lock' /\ \A l : At(l)' <=> At(l)
    BY <2>1 DEF Lock, At
  <2>3. ASSUME NEW p \in DOMAIN files, p \notin Range(comp.run)
        PROVE  p \in DOMAIN files' /\ files'[p] = files[p]
    BY <2>1, <2>3, <2>RenameFiles, DeleteFiles
  <2>4. fd.path \in DOMAIN files /\ fd.path \notin Range(comp.run) /\ phase # "down"
    BY <2>1, NodeUp, InHand
  <2>5. (At("truncate") \/ At("create")) => ~LockFree
    BY DEF At, LockFree
  <2>6. MarkerOK'
    <3>1. ASSUME At("truncate")
          PROVE  marker \in DOMAIN files' /\ marker \notin Range(comp'.run) /\ marker \notin Range(comp'.todo)
      <4>1. marker \in DOMAIN files /\ marker \notin Range(comp.run) /\ marker \notin Range(comp.todo)
        BY <2>4, <3>1 DEF MarkerOK
      <4> QED
        BY <2>3, <2>5, <3>1, <4>1, <2>ListsMove
    <3> QED
      BY <2>1, <2>2, <3>1 DEF MarkerOK
  <2>7. FiltersOK'
    <3>1. DOMAIN blooms' \subseteq Range(paths') /\ (~BloomEnabled => DOMAIN blooms' = {})
      BY <2>1, ManagerReloads, RetentionDrops DEF FiltersOK
    <3>2. ~BloomEnabled => DOMAIN sidecar' = {}
      <4>1. MergeWriteBloom => comp.pc = "bloom"
        BY DEF MergeWriteBloom
      <4>2. MergeWriteBloom => BloomEnabled
        BY <4>1 DEF MergedFilters
      <4> QED
        BY <2>1, <4>2, DeleteFiles DEF FiltersOK
    <3>3. fd.path \notin DOMAIN blooms => fd.path \notin DOMAIN blooms'
      BY <2>1, ManagerReloads, RetentionDrops
    <3>4. ASSUME At("create"), NEW e \in files'[fd.path].recs
          PROVE  Covers(blooms', fd.path, e) /\ Covers(sidecar', fd.path, e)
      <4>1. Covers(blooms, fd.path, e) /\ Covers(sidecar, fd.path, e)
        BY <2>3, <2>4, <3>4 DEF FiltersOK
      <4>2. blooms' = blooms
        BY <2>1, <2>5, <3>4 DEF MergeManager, RetentionDelete
      <4>3. Covers(sidecar', fd.path, e)
        BY <2>1, <4>1, BloomWritten, DeleteFiles
      <4> QED
        BY <4>1, <4>2, <4>3
    <3>5. files'[fd.path].torn => At("data")
      BY <2>3, <2>4 DEF FiltersOK
    <3> QED
      BY <2>1, <2>2, <2>4, <3>1, <3>2, <3>3, <3>4, <3>5 DEF FiltersOK
  <2>8. MergedFilters'
    <3>1. CASE MergeRename
      <4>1. UNCHANGED <<comp.run, comp.tmp>> /\ comp'.pc = IF BloomEnabled /\ comp.tmp.recs # {} THEN "bloom" ELSE "reindex"
        BY <3>1, InHandStays
      <4>2. sidecar' = sidecar
        BY <3>1 DEF MergeRename
      <4>3. CASE BloomEnabled /\ comp.tmp.recs # {}
        <5>1. comp'.pc = "bloom"
          BY <4>1, <4>3
        <5> QED
          BY <4>3, <5>1 DEF MergedFilters
      <4>4. CASE ~(BloomEnabled /\ comp.tmp.recs # {})
        <5>1. comp'.pc = "reindex"
          BY <4>1, <4>4
        <5>2. \A e \in comp.tmp.recs : Covers(sidecar', Head(comp'.run), e)
          <6>1. CASE comp.tmp.recs = {}
            BY <6>1
          <6>2. CASE ~BloomEnabled
            BY <4>2, <6>2 DEF FiltersOK, Covers
          <6> QED
            BY <4>4, <6>1, <6>2
        <5> QED
          BY <4>1, <5>1, <5>2 DEF MergedFilters
      <4> QED
        BY <4>3, <4>4
    <3>2. CASE MergeWriteBloom
      <4>1. UNCHANGED <<comp.run, comp.tmp>> /\ comp'.pc = "reindex"
        BY <3>2, InHandStays
      <4> QED
        BY <3>2, <4>1, BloomWritten DEF MergedFilters
    <3>3. CASE MergeReindex
      <4>1. UNCHANGED <<comp.run, comp.tmp, sidecar>> /\ comp.pc = "reindex" /\ comp'.pc = "manager"
        BY <3>3, InHandStays DEF MergeReindex, disk
      <4> QED
        BY <4>1 DEF MergedFilters
    <3>4. CASE MergeManager
      <4>1. UNCHANGED <<comp.run, comp.tmp, sidecar>> /\ comp.pc = "manager" /\ comp'.pc = "delete"
        BY <3>4, InHandStays DEF MergeManager, disk
      <4>2. \A e \in comp.tmp.recs : Covers(blooms', Head(comp.run), e)
        BY <3>4, ManagerReloads
      <4> QED
        BY <4>1, <4>2 DEF MergedFilters
    <3>5. CASE DeleteFile
      <4>1. UNCHANGED <<comp.run, comp.tmp, sidecar, blooms>> /\ comp.pc = "delete" /\ comp'.pc = "delbloom"
        BY <3>5, InHandStays DEF DeleteFile
      <4> QED
        BY <4>1 DEF MergedFilters
    <3>6. CASE DeleteBloom
      <4>1. /\ comp.pc = "delbloom"
            /\ \/ comp'.pc = "delete" /\ comp'.run = comp.run /\ comp'.tmp = comp.tmp
               \/ comp'.pc \in {"scan", "retain"}
        BY <3>6, DeleteEnds
      <4>2. blooms' = blooms /\ \A p, e : Covers(sidecar, p, e) => Covers(sidecar', p, e)
        BY <3>6, DeleteFiles DEF DeleteBloom, manager
      <4>3. CASE comp'.pc = "delete" /\ comp'.run = comp.run /\ comp'.tmp = comp.tmp
        BY <4>1, <4>2, <4>3 DEF MergedFilters
      <4>4. CASE comp'.pc \in {"scan", "retain"}
        BY <4>4 DEF MergedFilters
      <4> QED
        BY <4>1, <4>3, <4>4
    <3>7. CASE RetentionUnindex
      <4>1. comp.pc = "expire" /\ UNCHANGED comp.run /\ comp'.pc = "delete"
        BY <3>7, InHandStays
      <4>2. Len(comp.run) = 1
        BY <4>1 DEF SInv, CompactorOK, CompactorAt, DeleteAt
      <4>3. ~(Len(comp'.run) > 1) /\ comp'.pc \notin {"bloom", "reindex", "manager"}
        BY <4>1, <4>2, SMT
      <4> QED
        BY <4>3 DEF MergedFilters
    <3>8. CASE MergeUnindex \/ MergeRead \/ MergeRenameFails \/ RetentionDelete \/ MergeSkip \/ RetentionKeep
               \/ PassBegin \/ RetentionBegin \/ RetentionEnd
      <4>1. comp'.pc \in {"idle", "scan", "retain", "unindex", "rename", "expire"}
        <5>1. MergeUnindex \/ MergeRead \/ MergeRenameFails \/ RetentionDelete => comp'.pc \in {"unindex", "rename", "scan", "expire"}
          BY InHandStays, <2>MergeBegins, MergeGivenUp, RetentionDrops
        <5>2. MergeSkip \/ RetentionKeep => comp'.pc \in {"scan", "retain"}
          BY TodoMoves
        <5>3. PassBegin \/ RetentionBegin \/ RetentionEnd => comp'.pc \in {"idle", "scan", "retain"}
          BY PassMoves
        <5> QED
          BY <3>8, <5>1, <5>2, <5>3
      <4> QED
        BY <4>1 DEF MergedFilters
    <3> QED
      BY <3>1, <3>2, <3>3, <3>4, <3>5, <3>6, <3>7, <3>8 DEF Compact
  <2> QED
    BY <2>2, <2>6, <2>7, <2>8
  \* Steps that touch neither disk nor manager.
<1>QuietFilters.
    ASSUME SInv, Lock, MarkerOK, FiltersOK, MergedFilters,
           UNCHANGED <<files, sidecar, marker, paths, fd, blooms, comp>>,
           writer' = writer \/ \E w \in Writers : IndexAndAck(w),
           phase = "down" => phase' = "down"
    PROVE  Lock' /\ MarkerOK' /\ FiltersOK' /\ MergedFilters' /\ \A l \in Locked : At(l)' <=> At(l)
  <2> USE <1>QuietFilters
  <2>1. Lock' /\ \A l \in Locked : At(l)' <=> At(l)
    BY LabelsStay
  <2>2. /\ (At("truncate")' <=> At("truncate")) /\ (At("mark")' <=> At("mark"))
        /\ (At("create")' <=> At("create")) /\ (At("data")' <=> At("data"))
    BY <2>1 DEF Locked
  <2> QED
    BY <2>1, <2>2 DEF MarkerOK, FiltersOK, MergedFilters
  \* On a node that is up, the marker is empty or names a file.
<1>MarkerUp.
    ASSUME SInv', MarkerOK', phase' # "down"
    PROVE  MarkerOnDisk'
  <2> USE <1>MarkerUp
  <2>1. /\ paths' \in Seq(Nat) /\ paths' # <<>> /\ Range(paths') \subseteq DOMAIN files'
        /\ fd' = [path |-> Last(paths'), attached |-> TRUE, size |-> files'[Last(paths')].size]
    BY DEF SInv, ManagerOK
  <2>2. fd'.path = Last(paths')
    BY <2>1
  <2>3. Last(paths') \in Range(paths')
    BY <2>1, FrontList
  <2> QED
    BY <2>1, <2>2, <2>3 DEF MarkerOK, MarkerOnDisk
<1> SUFFICES ASSUME SInv, SInv', Structure, shards = {}, Next, SidecarsWritten
             PROVE  Structure'
  OBVIOUS
<1> USE DEF Structure
<1>1. CASE Start
  <2>1. Lock' /\ MarkerOK' /\ FiltersOK' /\ MergedFilters' /\ phase' = "catchup"
    BY <1>1, StartFilters DEF Start
  <2> QED
    BY <2>1, <1>MarkerUp
<1>2. CASE Crash
  <2>1. Lock' /\ MarkerOK' /\ FiltersOK' /\ MergedFilters' /\ UNCHANGED <<files, marker>>
    BY <1>2, CrashFilters DEF Crash, disk
  <2> QED
    BY <2>1 DEF MarkerOnDisk
<1>3. CASE Serve \/ AdvanceCutoff \/ Query \/ \E w \in Writers : IndexAndAck(w)
  <2>1. UNCHANGED <<files, sidecar, marker, paths, fd, blooms, comp>>
    BY <1>3 DEF Serve, AdvanceCutoff, Query, QueryResolve, QueryPrune, QueryRead, QueryReadFails, QueryReturn,
                IndexAndAck, disk, manager
  <2>2. writer' = writer \/ \E w \in Writers : IndexAndAck(w)
    BY <1>3 DEF Serve, AdvanceCutoff, Query, QueryResolve, QueryPrune, QueryRead, QueryReadFails, QueryReturn
  <2>3. phase = "down" => phase' = "down"
    BY <1>3 DEF Serve, AdvanceCutoff, Query, QueryResolve, QueryPrune, QueryRead, QueryReadFails, QueryReturn,
                IndexAndAck
  <2>4. Lock' /\ MarkerOK' /\ FiltersOK' /\ MergedFilters'
    BY <2>1, <2>2, <2>3, <1>QuietFilters
  <2> QED
    BY <2>1, <2>4 DEF MarkerOnDisk
<1>4. ASSUME NEW w \in Writers, Append1(w), ~IndexAndAck(w)
      PROVE  Structure'
  <2>1. /\ AppendBegin(w) \/ RotateClose(w) \/ OpenNewSegment(w) \/ TruncateMarker(w)
           \/ WriteMarker(w) \/ WriteHeader(w) \/ WriteData(w)
    BY <1>4 DEF Append1, SidecarsWritten
  <2>2. Lock' /\ (writer[w].pc # "idle" \/ AppendBegin(w))
    BY <2>1, AppendPcs
  <2>3. Lock' /\ MarkerOK' /\ FiltersOK' /\ MergedFilters'
    BY <2>1, AppendPcs, <1>BeginFilters, CloseFilters, OpenFilters, <1>MarkFilters, WriteFilters
  <2>4. phase = "serving"
    BY <2>2 DEF AppendBegin, SInv, HandlersOK
  <2>5. phase' = phase
    BY <2>1 DEF AppendBegin, RotateClose, OpenNewSegment, TruncateMarker, WriteMarker, WriteHeader, WriteData
  <2>6. phase' # "down"
    BY <2>4, <2>5
  <2> QED
    BY <2>3, <2>6, <1>MarkerUp
<1>5. CASE Compact
  <2>1. Lock' /\ MarkerOK' /\ FiltersOK' /\ MergedFilters'
    BY <1>5, <1>CompactFilters DEF SidecarsWritten
  <2>2. phase' = "serving"
    BY <1>5, CompactorQuiet DEF SidecarsWritten
  <2> QED
    BY <2>1, <2>2, <1>MarkerUp
<1> QED
  BY <1>1, <1>2, <1>3, <1>4, <1>5 DEF Next
=============================================================================
