----------------------------- MODULE QueryParser ----------------------------
(***************************************************************************)
(* The parser against the grammar in its comment: every sequence of words  *)
(* is built one word at a time, parsed, and compared with the grammar read *)
(* as a set of equations over sequences.  IDENT is what parseAtom takes    *)
(* for one, and a ")" that closes nothing is among them: the query ")" is  *)
(* the term ")", not a syntax error.                                       *)
(***************************************************************************)
EXTENDS QueryAST

CONSTANTS
  Words,     \* words a query is made of
  MaxWords,  \* bound: words in a query
  Probes     \* entries that tell any two conditions on the words apart

VARIABLE query

Init == query = <<>>

Next == \E w \in Words : Len(query) < MaxWords /\ query' = Append(query, w)

Spec == Init /\ [][Next]_query

-----------------------------------------------------------------------------
(* The grammar.  A phrase denotes the set of probes it matches; X(q) is    *)
(* the set of what q denotes as an X, empty if q is not an X.              *)

Ident(w) == w \notin {"AND", "OR", "("}

RECURSIVE or_expr(_)
atom(q) ==
  (IF Len(q) = 1 /\ Ident(q[1])
     THEN {{e \in Probes : matchesNode(e, wordNode(q[1]))}} ELSE {})
  \cup (IF Len(q) > 2 /\ q[1] = "(" /\ q[Len(q)] = ")"
          THEN or_expr(SubSeq(q, 2, Len(q) - 1)) ELSE {})

RECURSIVE and_expr(_)
and_expr(q) ==
  atom(q) \cup UNION {{l \cap r : l \in and_expr(SubSeq(q, 1, i - 1)),
                                  r \in atom(SubSeq(q, i + 1, Len(q)))} :
                      i \in {i \in DOMAIN q : q[i] = "AND"}}

or_expr(q) ==
  and_expr(q) \cup UNION {{l \cup r : l \in or_expr(SubSeq(q, 1, i - 1)),
                                      r \in and_expr(SubSeq(q, i + 1, Len(q)))} :
                          i \in {i \in DOMAIN q : q[i] = "OR"}}

-----------------------------------------------------------------------------
\* Parse accepts exactly what the grammar derives, the grammar derives it in one
\* way only, and the tree matches the entries the grammar says: AND binds
\* tighter than OR, and parentheses group.
ParseMatchesGrammar ==
  query # <<>> =>
    or_expr(query) = IF Parse(query).ok
                       THEN {{e \in Probes : matchesNode(e, Parse(query).node)}} ELSE {}

\* The tokens the index and the filters are asked for are necessary: an entry
\* without one of them does not match the query.
RequiredTokensNecessary ==
  Parse(query).ok =>
    \A e \in Probes :
       matchesNode(e, Parse(query).node)
         => collectTermTokens(Parse(query).node) \subseteq e.words
=============================================================================
