---------------------------- MODULE MCLotEntity ----------------------------
(***************************************************************************)
(* A small instance of module LotEntity for TLC: two instances of one lot, *)
(* a bid, a bid of another participant under the same op_id, and a removal *)
(* that races them.                                                        *)
(***************************************************************************)
EXTENDS LotEntity, TLC

Bid(op, p) == [op |-> op, participant |-> p, kind |-> "Bid"]

Removal(op, p) == [op |-> op, participant |-> p, kind |-> "Remove"]

Race == {Bid("o1", "p1"), Bid("o1", "p2"), Removal("o2", "p1")}

Symmetry == Permutations(Nodes)
=============================================================================
