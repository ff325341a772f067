--------------------------- MODULE MCPublication ---------------------------
(***************************************************************************)
(* Publication of one lot of the tag, whose second event is private, while *)
(* a lot of another tag draws numbers from the same journal; two nodes.    *)
(***************************************************************************)
EXTENDS Publication, TLC

CONSTANTS a, b, n1, n2

ProxyLimitOfA == {[lot |-> a, version |-> 2]}

EitherNode == Permutations(Nodes)
=============================================================================
