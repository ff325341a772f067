----------------------------- MODULE MCAuctions -----------------------------
(***************************************************************************)
(* Auctions of a community for TLC, in two situations: two auctions that   *)
(* want the slot, one of them with a lot, while nobody presses a button;   *)
(* and one auction with every lot, while the other one is over.            *)
(***************************************************************************)
EXTENDS Auctions, TLC

CONSTANTS A, B, x, y

AllOfA == [l \in Lots |-> A]

EitherLot == Permutations(Lots)

Rivals ==
  /\ \A a \in Auctions : auction[a].phase = "Scheduled"
  /\ Cardinality(auction[A].registry) = 1
  /\ \A l \in Lots \ auction[A].registry : lot[l].phase = "Draft"
  /\ presses = MaxPresses

WholeCourse ==
  /\ {a \in Auctions : auction[a].phase = "Scheduled"} = {A}
  /\ auction[A].registry = Lots
  /\ presses = 0

MCInit == Init /\ (Rivals \/ WholeCourse)

MCSpec == MCInit /\ [][Next]_auctionVars
=============================================================================
