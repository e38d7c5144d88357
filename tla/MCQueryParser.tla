---------------------------- MODULE MCQueryParser ---------------------------
(* Words and probes of the QueryParser run: one term and one field word.   *)
EXTENDS QueryParser

MCLower == [w \in {"A"} |-> "a"]
MCSplit == [w \in {"level:x"} |-> <<"level", "x">>]
MCWords == {"AND", "OR", "(", ")", "A", "level:x"}
MCProbes == [words : SUBSET {"a"}, level : {"x", "y"}, svc : {"s"}, ns : {""},
             custom : {[f \in {} |-> ""]}]
=============================================================================
