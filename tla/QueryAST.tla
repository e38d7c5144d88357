------------------------------ MODULE QueryAST ------------------------------
(***************************************************************************)
(* The boolean query language: the recursive-descent parser of             *)
(* internal/query/parser.go and what internal/query/executor.go computes   *)
(* from the tree it returns.                                               *)
(*                                                                         *)
(* A query is the sequence of words lex returns.  Words are opaque: Lower  *)
(* is strings.ToLower on them, and SplitField gives the two parts of a     *)
(* word with a colon.                                                      *)
(***************************************************************************)
EXTENDS Naturals, Sequences

CONSTANTS
  Lower,      \* the words strings.ToLower changes, and what it makes of them
  SplitField  \* the words that contain ":" |-> <<field, value>>

ToLower(w) == IF w \in DOMAIN Lower THEN Lower[w] ELSE w

\* An entry as queries see it: its message is the set of its tokens, and custom
\* is its Fields map, where an absent key reads as "".
Custom(e, field) == IF field \in DOMAIN e.custom THEN e.custom[field] ELSE ""

AndNode(l, r)   == [op |-> "and", left |-> l, right |-> r]
OrNode(l, r)    == [op |-> "or", left |-> l, right |-> r]
TermNode(t)     == [op |-> "term", token |-> t]
FieldNode(f, v) == [op |-> "field", field |-> f, value |-> v]
MatchAll        == [op |-> "nil"]

-----------------------------------------------------------------------------
(* The parser.  A step returns the tree and the position after it, or an   *)
(* error.                                                                  *)

Error == [ok |-> FALSE]
At(node, pos) == [ok |-> TRUE, node |-> node, pos |-> pos]

peek(q, pos) == IF pos > Len(q) THEN "" ELSE q[pos]

RECURSIVE parseOr(_, _)
RECURSIVE orLoop(_, _)
RECURSIVE andLoop(_, _)

wordNode(w) ==
  IF w \in DOMAIN SplitField THEN FieldNode(SplitField[w][1], SplitField[w][2])
                             ELSE TermNode(ToLower(w))

\* Mutant: the closing parenthesis is not required.
parseAtom_Unclosed(q, pos) ==
  LET tok   == peek(q, pos)
      inner == parseOr(q, pos + 1)
  IN  CASE tok \in {"", "AND", "OR"} -> Error
        [] tok = "("  -> IF ~inner.ok THEN Error
                         ELSE At(inner.node, IF peek(q, inner.pos) = ")"
                                               THEN inner.pos + 1 ELSE inner.pos)
        [] OTHER      -> At(wordNode(tok), pos + 1)

\* Any other word is a term, a ")" where a term is expected included.
parseAtom(q, pos) ==
  LET tok   == peek(q, pos)
      inner == parseOr(q, pos + 1)
  IN  CASE tok \in {"", "AND", "OR"} -> Error
        [] tok = "("  -> IF inner.ok /\ peek(q, inner.pos) = ")"
                           THEN At(inner.node, inner.pos + 1) ELSE Error
        [] OTHER      -> At(wordNode(tok), pos + 1)

andLoop(q, left) ==
  LET right == parseAtom(q, left.pos + 1)
  IN  IF ~left.ok \/ peek(q, left.pos) # "AND" THEN left
      ELSE IF right.ok THEN andLoop(q, At(AndNode(left.node, right.node), right.pos))
                       ELSE Error

parseAnd(q, pos) == andLoop(q, parseAtom(q, pos))

orLoop(q, left) ==
  LET right == parseAnd(q, left.pos + 1)
  IN  IF ~left.ok \/ peek(q, left.pos) # "OR" THEN left
      ELSE IF right.ok THEN orLoop(q, At(OrNode(left.node, right.node), right.pos))
                       ELSE Error

parseOr(q, pos) == orLoop(q, parseAnd(q, pos))

\* An empty query matches everything; words left over are an error.
Parse(q) ==
  LET all == parseOr(q, 1)
  IN  IF q = <<>> THEN At(MatchAll, 1)
      ELSE IF all.ok /\ all.pos > Len(q) THEN all ELSE Error

-----------------------------------------------------------------------------
(* What the executor makes of the tree.                                    *)

matchField(e, field, value) ==
  CASE ToLower(field) = "level"     -> ToLower(e.level) = ToLower(value)
    [] ToLower(field) = "service"   -> e.svc = value
    [] ToLower(field) = "namespace" -> e.ns = value
    [] ToLower(field) = "message"   -> ToLower(value) \in e.words
    [] OTHER                        -> Custom(e, field) = value

RECURSIVE matchesNode(_, _)
matchesNode(e, node) ==
  CASE node.op = "nil"   -> TRUE
    [] node.op = "and"   -> matchesNode(e, node.left) /\ matchesNode(e, node.right)
    [] node.op = "or"    -> matchesNode(e, node.left) \/ matchesNode(e, node.right)
    [] node.op = "term"  -> node.token \in e.words
    [] node.op = "field" -> matchField(e, node.field, node.value)

\* Mutant: the tokens below an OR are required too.
RECURSIVE collectTermTokens_Or(_)
collectTermTokens_Or(node) ==
  CASE node.op \in {"and", "or"} -> collectTermTokens_Or(node.left)
                                      \cup collectTermTokens_Or(node.right)
    [] node.op = "term"          -> {node.token}
    [] OTHER                     -> {}

\* The tokens a segment must hold; none are required below an OR.
RECURSIVE collectTermTokens(_)
collectTermTokens(node) ==
  CASE node.op = "and"  -> collectTermTokens(node.left) \cup collectTermTokens(node.right)
    [] node.op = "term" -> {node.token}
    [] OTHER            -> {}

\* What a segment's filter can exclude, for the words in the filter.
RECURSIVE bloomDefiniteMiss(_, _)
bloomDefiniteMiss(filter, node) ==
  CASE node.op = "and"   -> \/ bloomDefiniteMiss(filter, node.left)
                            \/ bloomDefiniteMiss(filter, node.right)
    [] node.op = "term"  -> node.token \notin filter
    [] node.op = "field" -> ToLower(node.value) \notin filter
    [] OTHER             -> FALSE
=============================================================================
