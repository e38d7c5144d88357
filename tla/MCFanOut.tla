------------------------------ MODULE MCFanOut ------------------------------
(* Requests and entries of the FanOut run; the two entries share a         *)
(* timestamp, so their IDs order them.                                     *)
EXTENDS FanOut, TLC

MCTs == [id \in 1 .. 2 |-> 1]
MCMatch == [f \in {<<<<"a">>, <<>>>>} |-> 1 .. 2]

Ask(limit, offset) == [text |-> <<"a">>, ns |-> <<>>, limit |-> limit, offset |-> offset]

\* Two pages that share a limit: offset plus limit is exactly IntMax = 2 in the
\* first, and wraps around in the second.
MCRequests == {Ask(1, 1), Ask(1, 2)}

MCSymmetry == Permutations(Nodes) \cup Permutations(Handlers)
=============================================================================
