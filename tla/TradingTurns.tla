---------------------------- MODULE TradingTurns ----------------------------
(***************************************************************************)
(* What the trading slot promises to the community: its auctions trade one *)
(* at a time, and each at most once.                                       *)
(***************************************************************************)
CONSTANT Auctions

VARIABLE turn

Init == turn \in [Auctions -> {"Waiting", "Over"}]

Begin(a) ==
  /\ turn[a] = "Waiting"
  /\ \A b \in Auctions : turn[b] # "Trading"
  /\ turn' = [turn EXCEPT ![a] = "Trading"]

End(a) ==
  /\ turn[a] = "Trading"
  /\ turn' = [turn EXCEPT ![a] = "Over"]

Next == \E a \in Auctions : Begin(a) \/ End(a)

Spec == Init /\ [][Next]_turn
=============================================================================
