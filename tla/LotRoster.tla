----------------------------- MODULE LotRoster -----------------------------
(***************************************************************************)
(* What an auction knows of its lots, and what it asks of them next        *)
(* (auction/aggregate/LotRoster.scala): the confirmations between an       *)
(* auction and its lots as pure functions.  Each returns a step: the       *)
(* knowledge after it, the call to each of some lots, and the notes the    *)
(* entity sends to itself.                                                 *)
(*                                                                         *)
(* `know` is the standing of every lot, "None" where the roster has no     *)
(* entry; `removals` counts the removals of participants under way.        *)
(* Windows and the terms of periods are not modelled.                      *)
(***************************************************************************)
EXTENDS Naturals, Sequences

Standings ==
  {"None", "Asked", "Opening", "Active", "Closing", "Declined", "NotOpened",
   "Unanswered", "Held", "Closed", "Withdrawing", "Withdrawn"}

(* Slip: a lot that is silent does not hold the trading up either.         *)
SettledOrSilent == {"Closed", "Held", "Declined", "NotOpened", "Withdrawn", "Unanswered"}

(* Standings that no longer hold up the end of the online trading.         *)
Settled == {"Closed", "Held", "Declined", "NotOpened", "Withdrawn"}

(* The phases in which the auction asks its lots, and those in which it    *)
(* trades by its own journal.                                              *)
Asking  == {"Prebidding", "Settling", "Break"}
Holding == Asking \cup {"LineupFrozen", "Final"}

-----------------------------------------------------------------------------
(* The line-up of the final, as the journal of the auction tells it.       *)

Members(order) == {order[i] : i \in DOMAIN order}

(* The lot of the final that is back in trade and not completed.           *)
ActiveLots(auction) ==
  IF auction.phase = "Final" /\ auction.activated # <<>>
    THEN {auction.activated[Len(auction.activated)]} \ auction.completed
    ELSE {}

LineupCompleted(auction) ==
  auction.phase = "Final" /\ Members(auction.order) \subseteq auction.completed

-----------------------------------------------------------------------------
(* Steps.                                                                  *)

NoNotes == [settle |-> {}, ended |-> {}, finish |-> FALSE]

Step(know, sent, notes) == [know |-> know, calls |-> sent, notes |-> notes]

Unmoved(know) == Step(know, <<>>, NoNotes)

Marked(know, lots, standing) ==
  [l \in DOMAIN know |-> IF l \in lots THEN standing ELSE know[l]]

Mark(know, l, standing) == Unmoved(Marked(know, {l}, standing))

Ask(know, lots) == Step(Marked(know, lots, "Asked"), [l \in lots |-> "Ask"], NoNotes)

Withdraw(know, lots) ==
  Step(Marked(know, lots, "Withdrawing"), [l \in lots |-> "Withdraw"], NoNotes)

Complete(auction, know) == \A l \in auction.registry : know[l] \in Settled

HeldLots(auction, know) == {l \in auction.registry : know[l] = "Held"}

(* Settling ends when no lot holds it up; the note says whether any lot    *)
(* is held for the final.                                                  *)
Settling(auction, step) ==
  IF auction.phase = "Settling" /\ Complete(auction, step.know)
    THEN [step EXCEPT !.notes.settle = {HeldLots(auction, step.know) # {}}]
    ELSE step

(* Slip: a removal on its way does not count.                              *)
AllAnswered(auction, know, removals) == auction.phase = "Break" /\ Complete(auction, know)

(* The line-up is known in the break only, once each lot has answered and  *)
(* no removal is on its way.                                               *)
LineupKnown(auction, know, removals) ==
  /\ auction.phase = "Break"
  /\ Complete(auction, know)
  /\ \A l \in auction.registry : removals[l] = 0

BreakOver(auction, removals, step) ==
  IF LineupKnown(auction, step.know, removals) /\ HeldLots(auction, step.know) = {}
    THEN [step EXCEPT !.notes.finish = TRUE]
    ELSE step

-----------------------------------------------------------------------------
(* What the auction knows and does next.  In Survey the roster is empty.   *)

Survey(auction, empty) ==
  CASE auction.phase = "Cancelled" -> Withdraw(empty, auction.registry)
    [] auction.phase \in Asking    -> Settling(auction, Ask(empty, auction.registry))
    [] LineupCompleted(auction)    -> Step(empty, <<>>, [NoNotes EXCEPT !.finish = TRUE])
    [] OTHER                       -> Ask(empty, ActiveLots(auction))

Pending(auction, know) == {l \in auction.registry : know[l] \in {"None", "Unanswered"}}

(* A repeat of the start asks the lots that have not answered.             *)
Resume(auction, know) ==
  IF auction.phase = "Prebidding" THEN Ask(know, Pending(auction, know)) ELSE Unmoved(know)

(* A repeat of the cancellation withdraws the lots that have not answered. *)
WithdrawAgain(auction, know) == Withdraw(know, Pending(auction, know))

(* By the timer: a lot that has not answered would have nobody to ask it. *)
AskSilent(auction, know) ==
  LET silent == {l \in auction.registry : know[l] = "Unanswered"}
  IN  CASE auction.phase = "Cancelled" -> Withdraw(know, silent)
        [] auction.phase \in Asking \cup {"Final"} -> Ask(know, silent)
        [] OTHER -> Unmoved(know)

(* Slip: whatever the lot reports, its sale is done.                       *)
EndedInFinal(know, l, report) ==
  Step(Marked(know, {l}, "Closed"), <<>>, [NoNotes EXCEPT !.ended = {l}])

(* In the final only the lot that is back in trade is asked.               *)
ObservedInFinal(know, l, report) ==
  IF report = "Over"
    THEN Step(Marked(know, {l}, "Closed"), <<>>, [NoNotes EXCEPT !.ended = {l}])
    ELSE Mark(know, l, "Active")

Observed(auction, know, removals, l, report) ==
  LET NotOpen ==
        IF auction.phase = "Prebidding"
          THEN Step(Marked(know, {l}, "Opening"), [m \in {l} |-> "Open"], NoNotes)
          ELSE Mark(know, l, "NotOpened")
      asked ==
        CASE report = "Trading" -> Mark(know, l, "Active")
          [] report = "Held"    -> Mark(know, l, "Held")
          [] report = "Over"    -> Mark(know, l, "Closed")
          [] OTHER              -> NotOpen
  IN  IF know[l] # "Asked" THEN Unmoved(know)
      ELSE IF auction.phase \in Asking
        THEN BreakOver(auction, removals, Settling(auction, asked))
      ELSE IF auction.phase = "Final" THEN ObservedInFinal(know, l, report)
      ELSE Unmoved(know)

Opened(auction, know, l, answer) ==
  IF know[l] # "Opening" THEN Unmoved(know)
  ELSE IF answer = "Opened" THEN Mark(know, l, "Active")
  ELSE Settling(auction, Mark(know, l, "Declined"))

(* The deadline of a lot has come: only an active lot is closed by it.     *)
Due(auction, know, l) ==
  IF auction.phase \in {"Prebidding", "Settling"} /\ know[l] = "Active"
    THEN Step(Marked(know, {l}, "Closing"), [m \in {l} |-> "Close"], NoNotes)
    ELSE Unmoved(know)

Closed(auction, know, l, answer) ==
  IF know[l] # "Closing" THEN Unmoved(know)
  ELSE IF answer = "Refused" THEN Ask(know, {l})
  ELSE Settling(auction, Mark(know, l, IF answer = "Held" THEN "Held" ELSE "Closed"))

Withdrawn(know, l, answer) ==
  IF know[l] # "Withdrawing" THEN Unmoved(know)
  ELSE Mark(know, l, IF answer = "Refused" THEN "Closed" ELSE "Withdrawn")

(* Slip: the lot is still held as far as the auction knows.                *)
ClosingUnmarked(auction, know, l) == know

ClosingByAuctioneer(auction, know, l) ==
  IF auction.phase = "Break" \/ l \in ActiveLots(auction)
    THEN Marked(know, {l}, "Closing")
    ELSE know

EndedByAuctioneer(auction, know, removals, l, answer) ==
  IF know[l] # "Closing" THEN Unmoved(know)
  ELSE IF answer = "Refused" THEN Ask(know, {l})
  ELSE BreakOver(auction, removals, Mark(know, l, "Closed"))

(* Slip: taken from a roster that never counted it.                        *)
RemovalTaken(removals, l) == [removals EXCEPT ![l] = @ - 1]

(* A removal is over, answered or not: a lot known as held may have        *)
(* changed.  One that a new roster never counted leaves nothing to take.   *)
RemovalOver(removals, l) ==
  [removals EXCEPT ![l] = IF @ > 0 THEN @ - 1 ELSE 0]

RemovalAnswered(know, l) ==
  IF know[l] = "Held" THEN Ask(know, {l}) ELSE Unmoved(know)

Unanswered(know, l) ==
  IF know[l] \in {"Asked", "Opening", "Closing", "Withdrawing"}
    THEN Marked(know, {l}, "Unanswered")
    ELSE know

(* Slip: a cancelled auction is out of trade at once.                      *)
TradingByPhase(auction, know) == auction.phase \in Holding

(* Whether the auction trades, as it answers the slot.  A cancelled one    *)
(* does until each lot has answered its withdrawal.                        *)
Trading(auction, know) ==
  \/ auction.phase \in Holding
  \/ /\ auction.phase = "Cancelled"
     /\ \E l \in auction.registry : know[l] \notin {"Withdrawn", "Closed"}
=============================================================================
