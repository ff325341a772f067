------------------------------ MODULE Auctions ------------------------------
(***************************************************************************)
(* The auctions of a community with their lots and the trading slot: the   *)
(* entity of an auction (auction/entity/AuctionEntity.scala) with the      *)
(* decisions of aggregate/Auction.scala and the knowledge of module        *)
(* LotRoster; what it asks of its lots (entity/AuctionLots.scala) and how  *)
(* they answer (lot/Lot.scala); the slot (slot/TradingSlotEntity.scala).   *)
(*                                                                         *)
(* An auction and the slot are journals behind one actor each: a handler   *)
(* is one step.  What an auction knows of its lots is memory that a        *)
(* restart loses; a call sent by the lost incarnation may arrive later     *)
(* (`strays`).  Calls of one incarnation to a lot arrive in the order they *)
(* were sent, if they do, and so do the answers; all wait equally long, so *)
(* the oldest is given up first.                                           *)
(*                                                                         *)
(* Abstracted: bids, prices, windows, predictions, raffle and results;     *)
(* time, so that a deadline may come at any moment; of an op_id, whether   *)
(* the lot has recorded it.  The registry is filled before the model       *)
(* begins.                                                                 *)
(***************************************************************************)
EXTENDS LotRoster, TradingSlot, FiniteSets

CONSTANTS
  Auctions, Lots,
  AuctionOf,     \* the auction of each lot
  MaxTickets,    \* bound: calls of an auction to the slot at a time
  MaxCalls,      \* bound: calls to a lot at a time, when a person adds one
  MaxPresses,    \* bound: sales and removals that people ask for
  MaxFaults      \* bound: restarts and calls given up

LotsOf(a) == {l \in Lots : AuctionOf[l] = a}

ASSUME AuctionsAssumption ==
  /\ NoAuction \notin Auctions /\ IsFiniteSet(Lots)
  /\ AuctionOf \in [Lots -> Auctions]
  /\ {MaxTickets, MaxCalls, MaxPresses, MaxFaults} \subseteq Nat

VARIABLES
  auction,    \* the journal of each auction
  know,       \* memory: the standing of each lot
  removals,   \* memory: removals of participants under way, per lot
  notes,      \* memory: messages of each auction to itself
  confirmed,  \* memory: auctions that know that the slot is theirs
  released,   \* memory: auctions that know that the slot is released
  lot,        \* the journal of each lot
  calls,      \* calls of the living incarnation to each lot, oldest first
  strays,     \* calls of a lost incarnation that may still reach each lot
  slotCalls,  \* calls of each auction to the slot
  holder,     \* the journal of the slot
  inquiry,    \* the question of the slot to its holder
  presses,    \* sales and removals asked for so far
  faults,     \* faults so far
  astray      \* history: lots that a stray call opened late or sold, or for
              \* which an answer to an earlier question stood

roster   == <<know, removals, notes>>
slot     == <<holder, inquiry>>
slotSide == <<confirmed, released, slotCalls, slot>>
lotSide  == <<lot, calls, strays, astray, presses>>
auctionVars == <<auction, roster, slotSide, lotSide, faults>>

-----------------------------------------------------------------------------
(* Values.                                                                 *)

Phases == Holding \cup {"Initial", "Draft", "Scheduled", "Finished", "Cancelled"}

Unplanned == {"Initial", "Draft", "Scheduled"}

Over == {"Ended", "Withdrawn"}

Call(kind) == [kind |-> kind, answer |-> "None", waits |-> TRUE]

SlotCall(ticket, kind) ==
  [ticket |-> ticket, kind |-> kind, fresh |-> TRUE, answer |-> "None", waits |-> TRUE]

NoInquiry == [claimant |-> NoAuction, ticket |-> 0, asked |-> NoAuction, answer |-> "None"]

Fault == faults < MaxFaults /\ faults' = faults + 1

(* Each auction waits for its turn with some lots in its registry, or has  *)
(* been over for long.                                                     *)
Init ==
  /\ auction \in [Auctions ->
        [phase : {"Scheduled", "Finished"}, registry : SUBSET Lots, order : {<<>>},
         activated : {<<>>}, completed : {{}}]]
  /\ \A a \in Auctions : auction[a].registry \subseteq LotsOf(a)
  /\ know = [l \in Lots |-> "None"]
  /\ removals = [l \in Lots |-> 0]
  /\ notes = [a \in Auctions |-> NoNotes]
  /\ confirmed = {}
  /\ released = {a \in Auctions : auction[a].phase = "Finished"}
  /\ lot \in [Lots -> {[phase |-> p, seen |-> {}] : p \in {"Draft", "Scheduled"}}]
  /\ calls = [l \in Lots |-> <<>>]
  /\ strays = [l \in Lots |-> {}]
  /\ slotCalls = [a \in Auctions |-> {}]
  /\ holder = NoAuction
  /\ inquiry = NoInquiry
  /\ presses \in 0 .. MaxPresses
  /\ faults = 0
  /\ astray = {}

-----------------------------------------------------------------------------
(* Lots: how a lot answers a call, as the set of its outcomes.             *)

Outcome(phase, seen, answer) ==
  [state |-> [phase |-> phase, seen |-> seen], answer |-> answer]

Stays(s, answer) == {Outcome(s.phase, s.seen, answer)}

Becomes(s, phase, ops, answer) == {Outcome(phase, s.seen \cup ops, answer)}

(* A call that a lot has recorded, or that finds it over, does not move it *)
(* any more.                                                               *)
StillMove(s, kinds) == IF s.phase \in Over THEN {} ELSE kinds \ s.seen

Report(phase) ==
  CASE phase \in {"Draft", "Scheduled"} -> "NotOpen"
    [] phase \in {"Online", "Live"}     -> "Trading"
    [] phase = "Held"                   -> "Held"
    [] OTHER                            -> "Over"

OpenLot(s) ==
  IF "Open" \in s.seen THEN Stays(s, "Opened")
  ELSE IF s.phase = "Scheduled" THEN Becomes(s, "Online", {"Open"}, "Opened")
  ELSE Stays(s, "Refused")

(* By the deadline: the lot decides whether it has come, and a marked lot  *)
(* is held.  A live lot has none.  A repeat is answered by what the first  *)
(* one did.                                                                *)
CloseLot(s) ==
  IF "Close" \in s.seen THEN Stays(s, IF "Held" \in s.seen THEN "Held" ELSE "Ended")
  ELSE IF s.phase = "Online"
    THEN Becomes(s, "Held", {"Close", "Held"}, "Held")
           \cup Becomes(s, "Ended", {"Close"}, "Ended")
           \cup Stays(s, "Refused")
  ELSE Stays(s, "Refused")

(* By the auctioneer, under an op_id of a person: a repeat of the close    *)
(* that ended the lot is answered by it, another one is refused.           *)
CloseLotByAuctioneer(s) ==
  IF s.phase \in {"Online", "Held", "Live"} THEN Becomes(s, "Ended", {"Sale"}, "Ended")
  ELSE Stays(s, "Refused") \cup {o \in Stays(s, "Ended") : "Sale" \in s.seen}

ResumeLot(s) ==
  IF "Resume" \in s.seen THEN Stays(s, "Resumed")
  ELSE IF s.phase = "Held" THEN Becomes(s, "Live", {"Resume"}, "Resumed")
  ELSE Stays(s, "Refused")

WithdrawLot(s) ==
  IF "Withdraw" \in s.seen THEN Stays(s, "Withdrawn")
  ELSE IF s.phase \in Over THEN Stays(s, "Refused")
  ELSE Becomes(s, "Withdrawn", {"Withdraw"}, "Withdrawn")

Outcomes(s, kind) ==
  CASE kind = "Ask"      -> Stays(s, Report(s.phase))
    [] kind = "Open"     -> OpenLot(s)
    [] kind = "Close"    -> CloseLot(s)
    [] kind = "Sale"     -> CloseLotByAuctioneer(s)
    [] kind = "Resume"   -> ResumeLot(s)
    [] kind = "Withdraw" -> WithdrawLot(s)
    [] kind = "Remove"   -> Stays(s, "Done")

-----------------------------------------------------------------------------
(* The calls of an auction.                                                *)

Without(queue, i) == SubSeq(queue, 1, i - 1) \o SubSeq(queue, i + 1, Len(queue))

Sent(queues, sent) ==
  [l \in Lots |-> IF l \in DOMAIN sent THEN Append(queues[l], Call(sent[l])) ELSE queues[l]]

(* The auction takes a step of its roster: `queues` are the calls without  *)
(* the one whose answer it handles.                                        *)
Follow(a, queues, step) ==
  /\ know' = step.know
  /\ calls' = Sent(queues, step.calls)
  /\ notes' = [notes EXCEPT ![a] =
                 [settle |-> @.settle \cup step.notes.settle,
                  ended |-> @.ended \cup step.notes.ended,
                  finish |-> @.finish \/ step.notes.finish]]

FreeTickets(pending) == {t \in 1 .. MaxTickets : \A c \in pending : c.ticket # t}

FreeTicket(pending) == CHOOSE t \in FreeTickets(pending) : TRUE

(* A call to the slot, if `due`; `pending` are the calls without the one   *)
(* whose answer is handled.                                                *)
CallSlot(a, pending, due, kind) ==
  IF due
    THEN /\ FreeTickets(pending) # {}
         /\ slotCalls' = [slotCalls EXCEPT ![a] =
                            pending \cup {SlotCall(FreeTicket(pending), kind)}]
    ELSE slotCalls' = [slotCalls EXCEPT ![a] = pending]

ReleaseDue(isReleased, after, known) ==
  ~isReleased /\ after.phase \notin Unplanned /\ ~Trading(after, known)

ReleaseSlot(a, after, known) ==
  CallSlot(a, slotCalls[a], ReleaseDue(a \in released, after, known), "Release")

(* A recovery or the timer confirms the slot, or else gives it back.       *)
ConfirmOrRelease(a, pending, isConfirmed, isReleased, known) ==
  LET confirms == ~isConfirmed /\ auction[a].phase \in Holding
  IN  CallSlot(a, pending, confirms \/ ReleaseDue(isReleased, auction[a], known),
               IF confirms THEN "Confirm" ELSE "Release")

Advance(a, phase) == auction' = [auction EXCEPT ![a].phase = phase]

(* The roster of a begins anew.                                            *)
Forgotten(a) == Marked(know, LotsOf(a), "None")

Uncounted(a) == [l \in Lots |-> IF l \in LotsOf(a) THEN 0 ELSE removals[l]]

-----------------------------------------------------------------------------
(* Before the trading.  Each event recorded since a claim was sent makes   *)
(* the auction decide about its answer anew; after the start a late answer *)
(* is refused in any case, so its freshness is not kept.                   *)

Record(a, after) ==
  /\ auction' = [auction EXCEPT ![a] = after]
  /\ slotCalls' = [slotCalls EXCEPT ![a] = {[c EXCEPT !.fresh = FALSE] : c \in @}]
  /\ UNCHANGED <<roster, confirmed, released, slot, lotSide, faults>>

Draft(a) ==
  /\ auction[a].phase = "Initial"
  /\ Record(a, [auction[a] EXCEPT !.phase = "Draft"])

Schedule(a) ==
  /\ auction[a].phase \in {"Draft", "Scheduled"}
  /\ Record(a, [auction[a] EXCEPT !.phase = "Scheduled"])

(* An administrator discards the auction, or its meetup is cancelled.      *)
Discard(a) ==
  /\ auction[a].phase \in {"Draft", "Scheduled"}
  /\ Record(a, [auction[a] EXCEPT !.phase = "Initial", !.registry = {}])

(* An accepted start claims the slot first.                                *)
Start(a) ==
  /\ auction[a].phase = "Scheduled"
  /\ CallSlot(a, slotCalls[a], TRUE, "Open")
  /\ UNCHANGED <<auction, roster, confirmed, released, slot, lotSide, faults>>

(* A repeat of the start under its op_id.                                  *)
Repeat(a, pending) ==
  /\ auction[a].phase \notin Unplanned
  /\ confirmed' = IF auction[a].phase \in Holding THEN confirmed \cup {a} ELSE confirmed
  /\ Follow(a, calls, Resume(auction[a], know))
  /\ slotCalls' = [slotCalls EXCEPT ![a] = pending]
  /\ UNCHANGED <<auction, removals, released, slot, lot, strays, astray, presses, faults>>

(* Where the roster asks nobody and the slot is confirmed, it changes      *)
(* nothing.                                                                *)
StartAgain(a) ==
  /\ auction[a].phase = "Prebidding" \/ a \notin confirmed
  /\ Repeat(a, slotCalls[a])

-----------------------------------------------------------------------------
(* The answers of the slot.                                                *)

AnsweredBySlot(a, c) == c \in slotCalls[a] /\ c.waits /\ c.answer # "None"

(* The slot is with another auction or does not know, or the auction is no *)
(* longer one to start.                                                    *)
StartRefused(a, c) ==
  /\ AnsweredBySlot(a, c) /\ c.kind = "Open"
  /\ c.answer # "Granted" \/ auction[a].phase # "Scheduled"
  /\ CallSlot(a, slotCalls[a] \ {c}, FALSE, "Open")
  /\ UNCHANGED <<auction, roster, confirmed, released, slot, lotSide, faults>>

StartDecidedAnew(a, c) ==
  /\ AnsweredBySlot(a, c) /\ c.kind = "Open"
  /\ c.answer = "Granted" /\ auction[a].phase = "Scheduled" /\ ~c.fresh
  /\ CallSlot(a, slotCalls[a] \ {c}, TRUE, "Open")
  /\ UNCHANGED <<auction, roster, confirmed, released, slot, lotSide, faults>>

StartAccepted(a, c) ==
  LET after == [auction[a] EXCEPT !.phase = "Prebidding"]
  IN  /\ AnsweredBySlot(a, c) /\ c.kind = "Open"
      /\ c.answer = "Granted" /\ auction[a].phase = "Scheduled" /\ c.fresh
      /\ auction' = [auction EXCEPT ![a] = after]
      /\ confirmed' = confirmed \cup {a}
      /\ removals' = Uncounted(a)
      /\ Follow(a, calls, Survey(after, Forgotten(a)))
      /\ CallSlot(a, slotCalls[a] \ {c}, FALSE, "Open")
      /\ UNCHANGED <<released, slot, lot, strays, astray, presses, faults>>

StartRepeated(a, c) ==
  /\ AnsweredBySlot(a, c) /\ c.kind = "Open" /\ c.answer = "Granted"
  /\ Repeat(a, slotCalls[a] \ {c})

(* Another auction may have taken the slot before this one confirmed it;   *)
(* nothing can be done about that, and it is logged once.                  *)
SlotConfirmed(a, c) ==
  /\ AnsweredBySlot(a, c) /\ c.kind = "Confirm"
  /\ confirmed' = confirmed \cup {b \in {a} : c.answer \in {"Granted", "Taken"}}
  /\ CallSlot(a, slotCalls[a] \ {c}, FALSE, "Confirm")
  /\ UNCHANGED <<auction, roster, released, slot, lotSide, faults>>

SlotReleased(a, c) ==
  /\ AnsweredBySlot(a, c) /\ c.kind = "Release"
  /\ released' = released \cup {b \in {a} : c.answer = "Done"}
  /\ CallSlot(a, slotCalls[a] \ {c}, FALSE, "Release")
  /\ UNCHANGED <<auction, roster, confirmed, slot, lotSide, faults>>

(* The slot has not answered in time.  A lost call is gone, another may    *)
(* still be handled.                                                       *)
SlotSilent(a, c, lost) ==
  LET left == IF lost \/ c.answer # "None" THEN {}
              ELSE {[c EXCEPT !.waits = FALSE, !.fresh = FALSE]}
  IN  /\ Fault
      /\ c \in slotCalls[a] /\ c.waits
      /\ slotCalls' = [slotCalls EXCEPT ![a] = (@ \ {c}) \cup left]
      /\ UNCHANGED <<auction, roster, confirmed, released, slot, lotSide>>

-----------------------------------------------------------------------------
(* The slot.                                                               *)

Reply(a, c, answer) ==
  slotCalls' = [slotCalls EXCEPT ![a] =
                  (@ \ {c}) \cup (IF c.waits THEN {[c EXCEPT !.answer = answer]} ELSE {})]

(* While the slot waits for its holder, it puts every other call off.      *)
Handles(a, c) == inquiry = NoInquiry /\ c \in slotCalls[a] /\ c.answer = "None"

SlotGrants(a, c) ==
  /\ Handles(a, c) /\ c.kind # "Release"
  /\ Claim(holder, a) = "Granted"
  /\ holder' = a
  /\ Reply(a, c, "Granted")
  /\ UNCHANGED <<auction, roster, confirmed, released, inquiry, lotSide, faults>>

SlotAsksHolder(a, c) ==
  /\ Handles(a, c) /\ c.kind # "Release"
  /\ Claim(holder, a) = "AskHolder"
  /\ inquiry' = [claimant |-> a, ticket |-> c.ticket, asked |-> holder, answer |-> "None"]
  /\ UNCHANGED <<auction, roster, confirmed, released, slotCalls, holder, lotSide, faults>>

SlotReleases(a, c) ==
  /\ Handles(a, c) /\ c.kind = "Release"
  /\ holder' = Release(holder, a)
  /\ Reply(a, c, "Done")
  /\ UNCHANGED <<auction, roster, confirmed, released, inquiry, lotSide, faults>>

(* Slip: the holder does not mind its own claim in flight.                 *)
NoClaims(a) == {}

ClaimsInFlight(a) == {c \in slotCalls[a] : c.kind = "Open" /\ c.waits}

(* The holder answers for a claim of its own in flight as for trading.     *)
HolderAnswers(a) ==
  LET busy == ClaimsInFlight(a) # {} \/ Trading(auction[a], know)
  IN  /\ inquiry.asked = a /\ inquiry.answer = "None"
      /\ inquiry' = [inquiry EXCEPT !.answer = IF busy THEN "Busy" ELSE "Idle"]
      /\ UNCHANGED <<auction, roster, confirmed, released, slotCalls, holder, lotSide, faults>>

HolderSilent ==
  /\ Fault
  /\ inquiry # NoInquiry
  /\ inquiry' = [inquiry EXCEPT !.answer = "Silent"]
  /\ UNCHANGED <<auction, roster, confirmed, released, slotCalls, holder, lotSide>>

SlotDecides(a, c) ==
  LET decided == IF inquiry.answer = "Silent" THEN "Unavailable"
                 ELSE Answered(holder, a, inquiry.asked, inquiry.answer = "Busy")
  IN  /\ inquiry.claimant = a /\ inquiry.answer # "None"
      /\ c \in slotCalls[a] /\ c.ticket = inquiry.ticket
      /\ holder' = IF decided = "Granted" THEN a ELSE holder
      /\ inquiry' = NoInquiry
      /\ Reply(a, c, decided)
      /\ UNCHANGED <<auction, roster, confirmed, released, lotSide, faults>>

(* With the slot go its question and the calls it has put off, or any that *)
(* are on the way to it; whoever waits for them learns of no answer.       *)
SlotRestarts(gone) ==
  LET Lost(a, c) == c.answer = "None" /\ <<a, c.ticket>> \in gone
  IN  /\ Fault
      /\ inquiry # NoInquiry => <<inquiry.claimant, inquiry.ticket>> \in gone
      /\ slotCalls' = [a \in Auctions |->
           {c \in slotCalls[a] : ~Lost(a, c)}
             \cup {[c EXCEPT !.answer = "Silent"] : c \in {d \in slotCalls[a] : Lost(a, d) /\ d.waits}}]
      /\ inquiry' = NoInquiry
      /\ UNCHANGED <<auction, roster, confirmed, released, holder, lotSide>>

-----------------------------------------------------------------------------
(* The lots.                                                               *)

Unhandled(l) == {i \in DOMAIN calls[l] : calls[l][i].answer = "None"}

(* Handling a call at a lot whose auction no longer waits leaves nothing.  *)
LotHandles(l, i) ==
  LET c == calls[l][i]
  IN  /\ i \in Unhandled(l) /\ \A j \in Unhandled(l) : i <= j
      /\ \E o \in Outcomes(lot[l], c.kind) :
           /\ lot' = [lot EXCEPT ![l] = o.state]
           /\ strays' = [strays EXCEPT ![l] = StillMove(o.state, @)]
           /\ calls' = [calls EXCEPT ![l] =
                IF c.waits THEN [@ EXCEPT ![i].answer = o.answer] ELSE Without(@, i)]
      /\ UNCHANGED <<auction, roster, slotSide, astray, presses, faults>>

(* The auction is about to hear that the lot is open, and can close it.    *)
WillHear(l) ==
  /\ auction[AuctionOf[l]].phase \in {"Prebidding", "Settling"}
  /\ \E i \in Unhandled(l) : calls[l][i].waits /\ calls[l][i].kind \in {"Ask", "Open"}

(* A call of a lost incarnation arrives.  The auction may never learn that *)
(* it has opened the lot, or sold it.                                      *)
StrayArrives(l, kind) ==
  /\ kind \in strays[l]
  /\ \E o \in Outcomes(lot[l], kind) :
       /\ lot' = [lot EXCEPT ![l] = o.state]
       /\ strays' = [strays EXCEPT ![l] = StillMove(o.state, @ \ {kind})]
       /\ astray' = astray \cup
            {m \in {l} : /\ o.state # lot[l]
                         /\ kind = "Sale" \/ (kind = "Open" /\ ~WillHear(l))}
  /\ UNCHANGED <<auction, roster, slotSide, calls, presses, faults>>

-----------------------------------------------------------------------------
(* The answers of the lots, each to one kind of call.                      *)

AnsweredByLot(l, i, kind) ==
  /\ i \in DOMAIN calls[l]
  /\ calls[l][i].kind = kind /\ calls[l][i].waits /\ calls[l][i].answer \notin {"None", "Lost"}
  /\ \A j \in 1 .. i - 1 : calls[l][j].waits => calls[l][j].answer = "Lost"

Taken(l, i) == [calls EXCEPT ![l] = Without(@, i)]

(* The roster takes a step and the journal of the auction does not.        *)
OnlyFollow(l, queues, step) ==
  /\ Follow(AuctionOf[l], queues, step)
  /\ UNCHANGED <<auction, slotSide, lot, strays, presses, faults>>

(* The lot was asked once more after this call.                            *)
AskedAgain(l, i) == \E j \in i + 1 .. Len(calls[l]) : calls[l][j].kind = "Ask"

(* A standing says that an answer is waited for and not which: one to an   *)
(* earlier question is taken for that to the later one.                    *)
LotObserved(l, i) ==
  /\ AnsweredByLot(l, i, "Ask")
  /\ OnlyFollow(l, Taken(l, i),
       Observed(auction[AuctionOf[l]], know, removals, l, calls[l][i].answer))
  /\ astray' = astray \cup {m \in {l} : know[l] = "Asked" /\ AskedAgain(l, i)}
  /\ UNCHANGED removals

LotAnswered(l, i) ==
  /\ AnsweredByLot(l, i, "Open")
  /\ OnlyFollow(l, Taken(l, i), Opened(auction[AuctionOf[l]], know, l, calls[l][i].answer))
  /\ UNCHANGED <<removals, astray>>

LotClosed(l, i) ==
  /\ AnsweredByLot(l, i, "Close")
  /\ OnlyFollow(l, Taken(l, i), Closed(auction[AuctionOf[l]], know, l, calls[l][i].answer))
  /\ UNCHANGED <<removals, astray>>

LotParticipantRemoved(l, i) ==
  /\ AnsweredByLot(l, i, "Remove")
  /\ removals' = RemovalOver(removals, l)
  /\ OnlyFollow(l, Taken(l, i), RemovalAnswered(know, l))
  /\ UNCHANGED astray

LotWithdrew(l, i) ==
  LET a == AuctionOf[l]
      step == Withdrawn(know, l, calls[l][i].answer)
  IN  /\ AnsweredByLot(l, i, "Withdraw")
      /\ Follow(a, Taken(l, i), step)
      /\ ReleaseSlot(a, auction[a], step.know)
      /\ UNCHANGED <<auction, removals, confirmed, released, slot, lot, strays, astray, presses, faults>>

(* The active lot of the final is completed; with the last one the auction *)
(* reminds itself of its end.                                              *)
Completed(a, l) ==
  [auction[a] EXCEPT !.completed = @ \cup ({l} \cap ActiveLots(auction[a]))]

Ended(a, l, step) ==
  LET after == Completed(a, l)
  IN  [step EXCEPT !.notes.finish = @ \/ (LineupCompleted(after) /\ l \in after.completed)]

LotEnded(l, i) ==
  LET a == AuctionOf[l]
      answer == calls[l][i].answer
      step == EndedByAuctioneer(auction[a], know, removals, l, answer)
  IN  /\ AnsweredByLot(l, i, "Sale")
      /\ IF answer = "Refused"
           THEN Follow(a, Taken(l, i), step) /\ UNCHANGED auction
           ELSE /\ auction' = [auction EXCEPT ![a] = Completed(a, l)]
                /\ Follow(a, Taken(l, i), Ended(a, l, step))
      /\ UNCHANGED <<removals, slotSide, lot, strays, astray, presses, faults>>

(* The first lot of the order that has not been back in trade.             *)
NextLots(au) ==
  LET Was(i) == au.order[i] \in Members(au.activated) \cup au.completed
  IN  {au.order[i] : i \in {j \in DOMAIN au.order : ~Was(j) /\ \A k \in 1 .. j - 1 : Was(k)}}

MayReturn(a) ==
  IF auction[a].phase = "Final" /\ ActiveLots(auction[a]) = {}
    THEN NextLots(auction[a]) ELSE {}

(* The next lot is decided anew once the lot has answered.                 *)
LotReturned(l, i) ==
  LET a == AuctionOf[l]
  IN  /\ AnsweredByLot(l, i, "Resume")
      /\ auction' = IF calls[l][i].answer = "Resumed" /\ l \in MayReturn(a)
                      THEN [auction EXCEPT ![a].activated = Append(@, l)] ELSE auction
      /\ calls' = Taken(l, i)
      /\ UNCHANGED <<roster, slotSide, lot, strays, astray, presses, faults>>

(* A call to a lot, or its answer, is lost.                                *)
CallLost(l, i) ==
  /\ Fault
  /\ i \in DOMAIN calls[l] /\ calls[l][i].waits /\ calls[l][i].answer # "Lost"
  /\ calls' = [calls EXCEPT ![l][i].answer = "Lost"]
  /\ UNCHANGED <<auction, roster, slotSide, lot, strays, astray, presses>>

(* The oldest call that waits is given up: it was lost, or the lot is slow *)
(* and may still handle it.                                                *)
LotSilent(l, i) ==
  LET c == calls[l][i]
  IN  /\ i \in DOMAIN calls[l] /\ c.waits
      /\ \A j \in 1 .. i - 1 : ~calls[l][j].waits
      /\ IF c.answer = "Lost" THEN UNCHANGED faults ELSE c.answer = "None" /\ Fault
      /\ removals' = IF c.kind = "Remove" THEN RemovalOver(removals, l) ELSE removals
      /\ Follow(AuctionOf[l],
                IF c.answer = "Lost" THEN Taken(l, i) ELSE [calls EXCEPT ![l][i].waits = FALSE],
                CASE c.kind = "Remove" -> RemovalAnswered(know, l)
                  [] c.kind = "Resume" -> Unmoved(know)
                  [] OTHER             -> Unmoved(Unanswered(know, l)))
      /\ UNCHANGED <<auction, slotSide, lot, strays, astray, presses>>

-----------------------------------------------------------------------------
(* Timers and the messages of an auction to itself.                        *)

DeadlineDue(l) ==
  /\ know[l] = "Active"
  /\ OnlyFollow(l, calls, Due(auction[AuctionOf[l]], know, l))
  /\ UNCHANGED <<removals, astray>>

PrebiddingDue(a) ==
  LET after == [auction[a] EXCEPT !.phase = "Settling"]
  IN  /\ auction[a].phase = "Prebidding"
      /\ auction' = [auction EXCEPT ![a] = after]
      /\ Follow(a, calls, Settling(after, Unmoved(know)))
      /\ UNCHANGED <<removals, slotSide, lot, strays, astray, presses, faults>>

(* The end of the online trading: the break, or the end of the auction     *)
(* when no lot is held.  A second note finds its op_id recorded.           *)
LotsSettled(a, held) ==
  LET after == [auction[a] EXCEPT !.phase = IF held THEN "Break" ELSE "Finished"]
  IN  /\ held \in notes[a].settle
      /\ notes' = [notes EXCEPT ![a].settle = @ \ {held}]
      /\ IF auction[a].phase = "Settling"
           THEN /\ auction' = [auction EXCEPT ![a] = after]
                /\ ReleaseSlot(a, after, know)
           ELSE UNCHANGED <<auction, slotCalls>>
      /\ UNCHANGED <<know, removals, confirmed, released, slot, lotSide, faults>>

FinalLotEnded(a, l) ==
  /\ l \in notes[a].ended
  /\ auction' = [auction EXCEPT ![a] = Completed(a, l)]
  /\ notes' = [notes EXCEPT
       ![a].ended = @ \ {l},
       ![a].finish = @ \/ (LineupCompleted(Completed(a, l)) /\ l \in Completed(a, l).completed)]
  /\ UNCHANGED <<know, removals, slotSide, lotSide, faults>>

Sold(a) == LineupKnown(auction[a], know, removals) /\ HeldLots(auction[a], know) = {}

FinishDue(a) ==
  LET after == [auction[a] EXCEPT !.phase = "Finished"]
  IN  /\ notes[a].finish
      /\ notes' = [notes EXCEPT ![a].finish = FALSE]
      /\ IF LineupCompleted(auction[a]) \/ Sold(a)
           THEN /\ auction' = [auction EXCEPT ![a] = after]
                /\ ReleaseSlot(a, after, know)
           ELSE UNCHANGED <<auction, slotCalls>>
      /\ UNCHANGED <<know, removals, confirmed, released, slot, lotSide, faults>>

Recheck(a) ==
  LET step == AskSilent(auction[a], know)
  IN  /\ auction[a].phase # "Initial"
      /\ Follow(a, calls, step)
      /\ ConfirmOrRelease(a, slotCalls[a], a \in confirmed, a \in released, step.know)
      /\ UNCHANGED <<auction, removals, confirmed, released, slot, lot, strays, astray, presses, faults>>

(* The entity restarts: its memory is empty, the answers it waited for are *)
(* lost, what it has sent may still arrive.  The recovery asks again.      *)
AuctionRestarts(a) ==
  LET lots == LotsOf(a)
      step == Survey(auction[a], Forgotten(a))
      sentByIt(l) == {calls[l][i].kind : i \in Unhandled(l)} \ {"Ask"}
      left == {[c EXCEPT !.waits = FALSE, !.fresh = FALSE] :
                 c \in {d \in slotCalls[a] : d.answer = "None"}}
  IN  /\ Fault
      /\ strays' = [l \in Lots |-> IF l \in lots THEN StillMove(lot[l], strays[l] \cup sentByIt(l))
                                 ELSE strays[l]]
      /\ removals' = Uncounted(a)
      /\ know' = step.know
      /\ calls' = Sent([l \in Lots |-> IF l \in lots THEN <<>> ELSE calls[l]], step.calls)
      /\ notes' = [notes EXCEPT ![a] = step.notes]
      /\ confirmed' = confirmed \ {a}
      /\ released' = released \ {a}
      /\ ConfirmOrRelease(a, left, FALSE, FALSE, step.know)
      /\ UNCHANGED <<auction, slot, lot, astray, presses>>

-----------------------------------------------------------------------------
(* The people who lead the auction.                                        *)

Orders(lots) == {o \in [1 .. Cardinality(lots) -> lots] : Members(o) = lots}

Freeze(a, order) ==
  /\ LineupKnown(auction[a], know, removals)
  /\ HeldLots(auction[a], know) # {}
  /\ order \in Orders(HeldLots(auction[a], know))
  /\ auction' = [auction EXCEPT ![a].phase = "LineupFrozen", ![a].order = order]
  /\ UNCHANGED <<roster, slotSide, lotSide, faults>>

(* Decided anew once the predictions of the final are closed.              *)
BeginFinal(a) ==
  /\ auction[a].phase = "LineupFrozen"
  /\ Advance(a, "Final")
  /\ UNCHANGED <<roster, slotSide, lotSide, faults>>

(* A person adds a call while the bounds leave room.                       *)
Sends(l, kind) ==
  /\ Len(calls[l]) < MaxCalls
  /\ calls' = [calls EXCEPT ![l] = Append(@, Call(kind))]

Presses(l, kind) ==
  /\ presses < MaxPresses /\ presses' = presses + 1
  /\ Sends(l, kind)

NextLot(a, l) ==
  /\ l \in MayReturn(a)
  /\ Sends(l, "Resume")
  /\ UNCHANGED <<auction, roster, slotSide, lot, strays, astray, presses, faults>>

(* A lot of the frozen line-up waits for its turn: neither its sale nor    *)
(* its price may change before.                                            *)
AwaitsItsTurn(au, l) ==
  /\ au.phase \in {"LineupFrozen", "Final"}
  /\ l \in Members(au.order) \ Members(au.activated)

CloseByAuctioneer(a, l) ==
  /\ l \in auction[a].registry
  /\ auction[a].phase \in Phases \ {"Initial", "Prebidding", "Settling", "Cancelled"}
  /\ ~AwaitsItsTurn(auction[a], l)
  /\ know' = ClosingByAuctioneer(auction[a], know, l)
  /\ Presses(l, "Sale")
  /\ UNCHANGED <<auction, removals, notes, slotSide, lot, strays, astray, faults>>

RemoveParticipant(a, l) ==
  /\ l \in auction[a].registry
  /\ auction[a].phase \in Holding
  /\ ~AwaitsItsTurn(auction[a], l)
  /\ removals' = [removals EXCEPT ![l] = @ + 1]
  /\ Presses(l, "Remove")
  /\ UNCHANGED <<auction, know, notes, slotSide, lot, strays, astray, faults>>

(* By an administrator or with the meetup; an auction that is over but has *)
(* not recorded it is not cancelled.                                       *)
Cancel(a) ==
  LET after == [auction[a] EXCEPT !.phase = "Cancelled"]
      step == Survey(after, Forgotten(a))
  IN  /\ auction[a].phase \in Holding /\ ~LineupCompleted(auction[a]) /\ ~Sold(a)
      /\ auction' = [auction EXCEPT ![a] = after]
      /\ removals' = Uncounted(a)
      /\ Follow(a, calls, step)
      /\ ReleaseSlot(a, after, step.know)
      /\ UNCHANGED <<confirmed, released, slot, lot, strays, astray, presses, faults>>

(* A repeat of the cancellation; under another op_id it only releases the  *)
(* slot, as the timer does.                                                *)
CancelAgain(a) ==
  LET step == WithdrawAgain(auction[a], know)
  IN  /\ auction[a].phase = "Cancelled"
      /\ Follow(a, calls, step)
      /\ ReleaseSlot(a, auction[a], step.know)
      /\ UNCHANGED <<auction, removals, confirmed, released, slot, lot, strays, astray, presses, faults>>

-----------------------------------------------------------------------------
Plan(a) == Draft(a) \/ Schedule(a) \/ Discard(a) \/ Start(a) \/ StartAgain(a)

Claims(a) ==
  \E c \in slotCalls[a] :
    \/ StartRefused(a, c) \/ StartDecidedAnew(a, c) \/ StartAccepted(a, c)
    \/ StartRepeated(a, c) \/ SlotConfirmed(a, c) \/ SlotReleased(a, c)
    \/ \E lost \in BOOLEAN : SlotSilent(a, c, lost)

SlotNext ==
  \/ \E a \in Auctions : HolderAnswers(a)
  \/ \E a \in Auctions, c \in UNION {slotCalls[b] : b \in Auctions} :
       SlotGrants(a, c) \/ SlotAsksHolder(a, c) \/ SlotReleases(a, c) \/ SlotDecides(a, c)
  \/ HolderSilent
  \/ \E gone \in SUBSET (Auctions \X (1 .. MaxTickets)) : SlotRestarts(gone)

LotNext(l) ==
  \/ \E kind \in strays[l] : StrayArrives(l, kind)
  \/ \E i \in DOMAIN calls[l] :
       \/ LotHandles(l, i) \/ LotObserved(l, i) \/ LotAnswered(l, i) \/ LotClosed(l, i)
       \/ LotParticipantRemoved(l, i) \/ LotWithdrew(l, i) \/ LotEnded(l, i) \/ LotReturned(l, i)
       \/ CallLost(l, i) \/ LotSilent(l, i)

Course(a) ==
  \/ PrebiddingDue(a) \/ FinishDue(a) \/ Recheck(a) \/ AuctionRestarts(a)
  \/ \E held \in BOOLEAN : LotsSettled(a, held)
  \/ BeginFinal(a) \/ Cancel(a) \/ CancelAgain(a)
  \/ \E order \in Orders(HeldLots(auction[a], know)) : Freeze(a, order)
  \/ \E l \in LotsOf(a) :
       FinalLotEnded(a, l) \/ NextLot(a, l) \/ CloseByAuctioneer(a, l) \/ RemoveParticipant(a, l)

Next ==
  \/ SlotNext
  \/ \E a \in Auctions : Plan(a) \/ Claims(a) \/ Course(a)
  \/ \E l \in Lots : DeadlineDue(l) \/ LotNext(l)

Spec == Init /\ [][Next]_auctionVars

-----------------------------------------------------------------------------
(* Correctness.                                                            *)

(* Every variable has its type.  No removal is counted below none: an      *)
(* answer that an earlier roster waited for takes nothing from this one.   *)
TypeOK ==
  /\ \A a \in Auctions :
       /\ auction[a].phase \in Phases
       /\ auction[a].registry \in SUBSET Lots
       /\ auction[a].order \in Seq(Lots)
       /\ auction[a].activated \in Seq(Lots)
       /\ auction[a].completed \in SUBSET Lots
       /\ notes[a] \in [settle : SUBSET BOOLEAN, ended : SUBSET Lots, finish : BOOLEAN]
       /\ slotCalls[a] \subseteq
            [ticket : 1 .. MaxTickets, kind : {"Open", "Confirm", "Release"}, fresh : BOOLEAN,
             answer : {"None", "Granted", "Taken", "Unavailable", "Done", "Silent"}, waits : BOOLEAN]
  /\ know \in [Lots -> Standings]
  /\ removals \in [Lots -> Nat]
  /\ confirmed \subseteq Auctions /\ released \subseteq Auctions
  /\ lot \in [Lots -> [phase : {"Draft", "Scheduled", "Online", "Held", "Live"} \cup Over,
                       seen : SUBSET {"Open", "Close", "Held", "Sale", "Resume", "Withdraw"}]]
  /\ holder \in Auctions \cup {NoAuction}
  /\ inquiry = NoInquiry \/ inquiry \in
       [claimant : Auctions, ticket : 1 .. MaxTickets, asked : Auctions,
        answer : {"None", "Busy", "Idle", "Silent"}]
  /\ presses \in 0 .. MaxPresses /\ faults \in 0 .. MaxFaults
  /\ astray \subseteq Lots

(* An auction whose lots may be bid on, whatever it knows of them.         *)
Trades(a) ==
  \/ auction[a].phase \in Holding
  \/ auction[a].phase = "Cancelled" /\ \E l \in auction[a].registry : lot[l].phase \notin Over

(* ADR-047, the slot of the community: one auction at most trades, though  *)
(* the slot only has the word of its holder, and calls to it are lost,     *)
(* late, or made by an auction that has since restarted.                   *)
OneAuctionTrades == \A a, b \in Auctions : Trades(a) /\ Trades(b) => a = b

(* The auctions of a community take turns (module TradingTurns): one that  *)
(* has been over never trades again, and a cancelled one hands over only   *)
(* when the last of its lots is out of trade.                              *)
TurnOf(a) ==
  CASE auction[a].phase \in Unplanned -> "Waiting"
    [] Trades(a)                      -> "Trading"
    [] OTHER                          -> "Over"

Turns == INSTANCE TradingTurns WITH turn <- [a \in Auctions |-> TurnOf(a)]

IsTakingTurns == Turns!Spec

(* И-14: the phase of an auction and its lots agree, though only the lots  *)
(* know where they are: none is online once the break has begun, none is   *)
(* live before the final, and none is left behind in a finished auction.   *)
(* Lots that a call of a lost incarnation has moved are excused, and lots  *)
(* for which an answer to an earlier question stood (LotObserved).         *)
LotsKeepThePhase ==
  \A l \in Lots \ astray :
    LET phase == auction[AuctionOf[l]].phase
    IN  /\ lot[l].phase = "Online" => phase \in {"Prebidding", "Settling", "Cancelled"}
        /\ lot[l].phase = "Live" => phase \in {"Final", "Cancelled"}
        /\ lot[l].phase = "Held" => phase \in (Holding \cup {"Cancelled"})

(* И-19: the frozen line-up stands.  A lot that has not been back in trade *)
(* is still held; only the next one may have returned before the auction   *)
(* has heard of it.                                                        *)
FrozenLineupStands ==
  \A l \in Lots \ astray :
    LET au == auction[AuctionOf[l]]
    IN  AwaitsItsTurn(au, l)
          => lot[l].phase = "Held" \/ (lot[l].phase = "Live" /\ l \in NextLots(au))

FrozenLineup == {l \in Lots : AwaitsItsTurn(auction[AuctionOf[l]], l)}

(* PER-658, PER-607: from the freeze until its turn no sale and no removal *)
(* of the living incarnation is on its way to a lot of the line-up, given  *)
(* up or not: the question that let it be frozen stands behind them in the *)
(* queue of the lot.  A restart therefore leaves none behind: those that   *)
(* may still come are of an incarnation lost before the freeze, which took *)
(* the count of its removals with it and which no question stands behind.  *)
FrozenLineupIsClosed ==
  [][\A l \in FrozenLineup \ astray :
       /\ \A i \in Unhandled(l) : calls[l][i].kind \notin {"Sale", "Remove"}
       /\ strays'[l] \cap {"Sale", "Remove"} \subseteq strays[l]]_auctionVars

(* RFC-011: one lot of the final at a time is in trade, and what has been  *)
(* completed is over.                                                      *)
OneLotInTheFinal ==
  \A a \in Auctions :
    /\ \A l, m \in LotsOf(a) : lot[l].phase = "Live" /\ lot[m].phase = "Live" => l = m
    /\ \A l \in auction[a].completed : lot[l].phase \in Over

(* LotRoster: a break in which each lot has answered and none is held any  *)
(* more ends by a message of the auction to itself.                        *)
EmptyBreakFinishes == \A a \in Auctions : Sold(a) => notes[a].finish
=============================================================================
