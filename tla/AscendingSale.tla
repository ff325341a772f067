--------------------------- MODULE AscendingSale ---------------------------
(***************************************************************************)
(* What a lot promises to everybody who watches it, with no proxy limits,  *)
(* deadlines or histories: the price climbs, the leader at the end buys at *)
(* the price everybody sees, the trade opens once and a finished lot never *)
(* moves again (RFC-011, I-01, I-05, I-09, I-10, I-11, I-22, I-23).        *)
(* Module Lot implements it.                                               *)
(***************************************************************************)
EXTENDS Integers

CONSTANTS Participants, NoOne, Prices

VARIABLES stage, price, leader, removed

vars == <<stage, price, leader, removed>>

Init ==
  /\ stage = "Unopened"
  /\ price = 0
  /\ leader = NoOne
  /\ removed = {}

Kept == Participants \ removed

Open ==
  /\ stage = "Unopened"
  /\ stage' = "Open"
  /\ price' \in Prices
  /\ UNCHANGED <<leader, removed>>

(* The first bid may be below the starting price, at the start of a window *)
(* of happy hours; every other bid is above the price of the lot.          *)
Bid ==
  /\ stage = "Open"
  /\ leader' \in Kept
  /\ price' \in Prices
  /\ leader # NoOne => price' > price
  /\ UNCHANGED <<stage, removed>>

Pause ==
  /\ stage = "Open"
  /\ stage' = "Paused"
  /\ UNCHANGED <<price, leader, removed>>

(* The final may begin with the bid the waiting limits place.              *)
Resume ==
  /\ stage = "Paused"
  /\ stage' = "Open"
  /\ removed' = removed
  /\ \/ UNCHANGED <<price, leader>>
     \/ /\ leader' \in Kept
        /\ price' \in Prices
        /\ leader # NoOne => price' > price

Remove ==
  /\ stage \in {"Open", "Paused"}
  /\ \E p \in Kept : removed' = removed \cup {p}
  /\ leader' \in (Participants \ removed') \cup {NoOne}
  /\ price' \in Prices
  /\ price' <= price
  /\ UNCHANGED stage

(* A sale is at the price and to the leader of the moment before.          *)
Sell ==
  /\ stage \in {"Open", "Paused"}
  /\ leader # NoOne
  /\ stage' = "Sold"
  /\ removed' = {}
  /\ UNCHANGED <<price, leader>>

End ==
  /\ stage # "Sold" /\ stage # "Unsold" /\ stage # "Withdrawn"
  /\ stage' \in {"Unsold", "Withdrawn"}
  /\ stage' = "Unsold" => leader = NoOne /\ stage # "Unopened"
  /\ leader' = NoOne
  /\ removed' = {}
  /\ price' = 0

Next == Open \/ Bid \/ Pause \/ Resume \/ Remove \/ Sell \/ End

Spec == Init /\ [][Next]_vars
=============================================================================
