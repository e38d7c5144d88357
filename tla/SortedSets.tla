----------------------------- MODULE SortedSets -----------------------------
(***************************************************************************)
(* What sort.Strings makes of a set of names, and what is left of a list   *)
(* of names when some are dropped.  The code only compares and sorts names *)
(* (of nodes, of segments), so a name is a number: its place in the order. *)
(***************************************************************************)
EXTENDS Integers, FiniteSets, Sequences

\* The names that come before n.
Rank(n, H) == Cardinality({m \in H : m < n})

\* The sorted list of H, counted from 0: the name with exactly i names before it.
SortedAt(H, i) == CHOOSE n \in H : Rank(n, H) = i

\* The same list as a sequence.
Sorted(H) == [i \in 1 .. Cardinality(H) |-> SortedAt(H, i - 1)]

\* A list's last name, and the names before it.  (SequencesExt has both, but also
\* the theory of bags, which slows every step of a proof tenfold.)
Last(s) == s[Len(s)]
Front(s) == SubSeq(s, 1, Len(s) - 1)

\* A loop that copies the list s, skipping the names in gone.
Without(s, gone) ==
  LET kept == Sorted({i \in DOMAIN s : s[i] \notin gone})
  IN  [k \in DOMAIN kept |-> s[kept[k]]]
=============================================================================
