---------------------------- MODULE TradingSlot ----------------------------
(***************************************************************************)
(* The decisions of the trading slot of the community (auction/slot/       *)
(* TradingSlot.scala): trading is open in one auction at most.  The slot   *)
(* does not trust its own record; it asks the holder whether it trades.    *)
(***************************************************************************)
CONSTANT NoAuction   \* holds the slot when it is free

Claim(holder, claimant) ==
  IF holder \in {NoAuction, claimant} THEN "Granted" ELSE "AskHolder"

(* The holder that was asked has answered.  The slot decides anew, and the *)
(* answer counts only if that auction still holds it.                      *)
Answered(holder, claimant, asked, busy) ==
  IF Claim(holder, claimant) = "Granted" \/ (holder = asked /\ ~busy)
    THEN "Granted" ELSE "Taken"

(* Only the holder gives it back.                                          *)
Release(holder, releaser) == IF holder = releaser THEN NoAuction ELSE holder
=============================================================================
