------------------------------ MODULE LotFeed ------------------------------
(***************************************************************************)
(* What the Auction promises to whoever reads the facts of its lots from   *)
(* the bus (integration.md, "Auction NATS"): setting repeats aside, the    *)
(* facts of one lot come in the order of its journal, and none of them     *)
(* overtakes an earlier one.  Module Publication implements it.            *)
(***************************************************************************)
EXTENDS Naturals

CONSTANTS
  Lots,
  Facts    \* Facts[l]: the versions of a lot's public events

VARIABLE met   \* met[l]: the versions that a reader has met

Init == met = [l \in Lots |-> {}]

(* The next one after all that come before it.                             *)
Meet(l, v) ==
  /\ v \in Facts[l] \ met[l]
  /\ \A u \in Facts[l] : u < v => u \in met[l]
  /\ met' = [met EXCEPT ![l] = @ \cup {v}]

Next == \E l \in Lots : \E v \in Facts[l] : Meet(l, v)

Spec == Init /\ [][Next]_met
=============================================================================
