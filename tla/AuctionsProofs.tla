--------------------------- MODULE AuctionsProofs ---------------------------
(***************************************************************************)
(* Module Auctions keeps its types, lets one auction trade at a time,      *)
(* implements TradingTurns and brings the lots of a final back one by one, *)
(* for any number of auctions, lots, calls and faults.                     *)
(*                                                                         *)
(* Whoever trades holds the slot (HolderTrades), since a grant, the answer *)
(* of a holder and a release each stay true until they are used.  All      *)
(* actions but those of the slot and the accepted start begin no trading   *)
(* and give nobody a grant (Modest).                                       *)
(*                                                                         *)
(* A step of the roster keeps to the lots of its auction, and learns       *)
(* nothing of the lots of a cancelled one but that they are silent (Minds).*)
(*                                                                         *)
(* The final goes on lot by lot since the journal of the auction is ahead  *)
(* of its lots: one that is back in trade, or that a call on its way would *)
(* bring back, has had its turn or is the next one (FinalInOrder), and a   *)
(* lot that the auction has noted as ended is over.  All steps but the     *)
(* call that brings the next lot back, and its answer, bring none back     *)
(* (Quiet).                                                                *)
(***************************************************************************)
EXTENDS Auctions, SequenceTheorems, FiniteSetTheorems, TLAPS

-----------------------------------------------------------------------------
(* Types.                                                                  *)

Notes == [settle : SUBSET BOOLEAN, ended : SUBSET Lots, finish : BOOLEAN]

Kinds == {"Ask", "Open", "Close", "Sale", "Resume", "Withdraw", "Remove"}

(* What a roster asks for by itself.                                       *)
Errands == {"Ask", "Open", "Close", "Withdraw"}

Answers == {"None", "Lost", "NotOpen", "Trading", "Held", "Over", "Opened", "Refused",
            "Ended", "Resumed", "Withdrawn", "Done"}

LotCalls == [kind : Kinds, answer : Answers, waits : BOOLEAN]

Queues == [Lots -> Seq(LotCalls)]

SlotCalls ==
  [ticket : 1 .. MaxTickets, kind : {"Open", "Confirm", "Release"}, fresh : BOOLEAN,
   answer : {"None", "Granted", "Taken", "Unavailable", "Done", "Silent"}, waits : BOOLEAN]

Inquiries ==
  [claimant : Auctions, ticket : 1 .. MaxTickets, asked : Auctions,
   answer : {"None", "Busy", "Idle", "Silent"}]

LotStates ==
  [phase : {"Draft", "Scheduled", "Online", "Held", "Live"} \cup Over,
   seen : SUBSET {"Open", "Close", "Held", "Sale", "Resume", "Withdraw"}]

Knowledge == [Lots -> Standings]

AuctionStates ==
  [phase : Phases, registry : SUBSET Lots, order : Seq(Lots), activated : Seq(Lots),
   completed : SUBSET Lots]

(* An auction deals with its own lots only.                                *)
Owns(au, S) ==
  au.registry \subseteq S /\ Members(au.order) \subseteq S /\ Members(au.activated) \subseteq S

TypesOfAuctions ==
  /\ auction \in [Auctions -> AuctionStates]
  /\ \A a \in Auctions : Owns(auction[a], LotsOf(a))

TypesOfRosters ==
  know \in Knowledge /\ removals \in [Lots -> Nat] /\ notes \in [Auctions -> Notes]

TypesOfTheSlot ==
  /\ confirmed \subseteq Auctions /\ released \subseteq Auctions
  /\ slotCalls \in [Auctions -> SUBSET SlotCalls]
  /\ holder \in Auctions \cup {NoAuction}
  /\ inquiry = NoInquiry \/ inquiry \in Inquiries

TypesOfLots ==
  /\ lot \in [Lots -> LotStates] /\ strays \in [Lots -> SUBSET Kinds]
  /\ calls \in Queues /\ astray \subseteq Lots
  /\ presses \in 0 .. MaxPresses /\ faults \in 0 .. MaxFaults

-----------------------------------------------------------------------------
(* Invariants.                                                             *)

(* A cancelled auction knows of a lot no more than that it is asked to     *)
(* withdraw, has not answered, or is over.                                 *)
Fading == {"Withdrawing", "Withdrawn", "Closed", "Unanswered"}

Gone == {"Withdrawn", "Closed"}

KnowsTheGone ==
  \A a \in Auctions : auction[a].phase = "Cancelled" =>
    \A l \in auction[a].registry :
      know[l] \in Fading /\ (know[l] \in Gone => lot[l].phase \in Over)

(* An answer that says that the lot is over, and a lot that has recorded a *)
(* withdrawal or a sale, tell the truth.                                   *)
SaysOver(kind, answer) ==
  \/ kind = "Withdraw"
  \/ kind = "Sale" /\ answer # "Refused"
  \/ kind = "Ask" /\ answer = "Over"

TellsOver(c) == c.answer \notin {"None", "Lost"} /\ SaysOver(c.kind, c.answer)

(* A call on its way that will bring the lot back into trade.              *)
Resumes(c) == c.kind = "Resume" /\ c.answer = "None"

Resuming(queue) == \E i \in DOMAIN queue : Resumes(queue[i])

RecordedIsOver(s) == {"Withdraw", "Sale"} \cap s.seen # {} => s.phase \in Over

OverAsTold(queues, lots) ==
  \A l \in Lots : \A i \in DOMAIN queues[l] : TellsOver(queues[l][i]) => lots[l].phase \in Over

OverIsTrue ==
  /\ OverAsTold(calls, lot)
  /\ \A l \in Lots : RecordedIsOver(lot[l])

(* An auction that has traded and trades no more.                          *)
Past(a) == auction[a].phase \notin Unplanned /\ ~Trades(a)

(* A claim granted, of which the auction is yet to hear.                   *)
Granted(c) == c.kind = "Open" /\ c.waits /\ c.answer = "Granted"

MayStart(a) == auction[a].phase \in Unplanned /\ \E c \in slotCalls[a] : Granted(c)

HolderTrades == \A a \in Auctions : Trades(a) \/ MayStart(a) => holder = a

IdleIsIdle == inquiry.answer = "Idle" => ~Trades(inquiry.asked) /\ ~MayStart(inquiry.asked)

ReleasedIsPast ==
  \A a \in Auctions : \A c \in slotCalls[a] : c.kind = "Release" => Past(a)

Types == TypesOfAuctions /\ TypesOfRosters /\ TypesOfTheSlot /\ TypesOfLots

Inv ==
  /\ Types
  /\ KnowsTheGone /\ OverIsTrue
  /\ HolderTrades /\ IdleIsIdle /\ ReleasedIsPast

-----------------------------------------------------------------------------
(* Steps of the roster.                                                    *)

StepOK(s) ==
  /\ s \in [know : Knowledge, calls : {s.calls}, notes : Notes]
  /\ \A l \in DOMAIN s.calls : s.calls[l] \in Errands

(* A step from `known` keeps to the lots of S, and learns of a lot of a    *)
(* cancelled auction nothing but that it is silent.                        *)
Minds(au, S, known, s) ==
  /\ StepOK(s)
  /\ \A l \in Lots \ S : s.know[l] = known[l]
  /\ au.phase = "Cancelled" /\ (\A l \in au.registry : known[l] \in Fading) =>
       \A l \in au.registry : s.know[l] = known[l] \/ s.know[l] \in {"Withdrawing", "Unanswered"}

(* The auction of a roster, its lots and what it knows.                    *)
Roster(au, S, known) ==
  /\ au \in AuctionStates /\ Owns(au, S) /\ S \subseteq Lots /\ known \in Knowledge

LEMMA MarkedType ==
  ASSUME NEW known \in Knowledge, NEW lots, NEW s \in Standings
  PROVE  /\ Marked(known, lots, s) \in Knowledge
         /\ \A l \in Lots : Marked(known, lots, s)[l] = IF l \in lots THEN s ELSE known[l]
BY DEF Marked, Knowledge

LEMMA StepType ==
  ASSUME NEW known \in Knowledge, NEW lots \in SUBSET Lots
  PROVE  /\ NoNotes \in Notes /\ StepOK(Unmoved(known))
         /\ Unmoved(known).know = known
         /\ StepOK(Ask(known, lots)) /\ Ask(known, lots).know = Marked(known, lots, "Asked")
         /\ StepOK(Withdraw(known, lots))
         /\ Withdraw(known, lots).know = Marked(known, lots, "Withdrawing")
         /\ \A l \in Lots, s \in Standings :
              /\ StepOK(Mark(known, l, s))
              /\ Mark(known, l, s).know = Marked(known, {l}, s)
<1>1. NoNotes \in Notes
  BY DEF NoNotes, Notes
<1>2. StepOK(Unmoved(known)) /\ Unmoved(known).know = known
  BY <1>1 DEF StepOK, Unmoved, Step
<1>3. {"Asked", "Withdrawing"} \subseteq Standings /\ {"Ask", "Withdraw"} \subseteq Errands
  BY DEF Standings, Errands
<1>4. StepOK(Ask(known, lots)) /\ Ask(known, lots).know = Marked(known, lots, "Asked")
  BY <1>1, <1>3, MarkedType DEF StepOK, Ask, Step
<1>5. /\ StepOK(Withdraw(known, lots))
      /\ Withdraw(known, lots).know = Marked(known, lots, "Withdrawing")
  BY <1>1, <1>3, MarkedType DEF StepOK, Withdraw, Step
<1>6. ASSUME NEW l \in Lots, NEW s \in Standings
      PROVE  StepOK(Mark(known, l, s)) /\ Mark(known, l, s).know = Marked(known, {l}, s)
  BY <1>1, MarkedType DEF StepOK, Mark, Unmoved, Step
<1> QED BY <1>1, <1>2, <1>4, <1>5, <1>6

(* The ends of the online trading and of the break only add a note.        *)
LEMMA NotedType ==
  ASSUME NEW au, NEW s, StepOK(s), NEW counted
  PROVE  /\ StepOK(Settling(au, s)) /\ Settling(au, s).know = s.know
         /\ StepOK(BreakOver(au, counted, s)) /\ BreakOver(au, counted, s).know = s.know
<1>1. s.notes \in Notes /\ s = [know |-> s.know, calls |-> s.calls, notes |-> s.notes]
  BY DEF StepOK
<1>2. ASSUME NEW m \in Notes
      PROVE  /\ StepOK([s EXCEPT !.notes = m])
             /\ [s EXCEPT !.notes = m].know = s.know
  BY DEF StepOK
<1>3. ASSUME NEW b \in BOOLEAN
      PROVE  /\ [s.notes EXCEPT !.settle = {b}] \in Notes
             /\ [s EXCEPT !.notes.settle = {b}] = [s EXCEPT !.notes = [s.notes EXCEPT !.settle = {b}]]
  BY <1>1 DEF Notes
<1>4. /\ [s.notes EXCEPT !.finish = TRUE] \in Notes
      /\ [s EXCEPT !.notes.finish = TRUE] = [s EXCEPT !.notes = [s.notes EXCEPT !.finish = TRUE]]
  BY <1>1 DEF Notes
<1>5. (HeldLots(au, s.know) # {}) \in BOOLEAN
  OBVIOUS
<1>6. StepOK(Settling(au, s)) /\ Settling(au, s).know = s.know
  BY <1>2, <1>3, <1>5 DEF Settling
<1>7. StepOK(BreakOver(au, counted, s)) /\ BreakOver(au, counted, s).know = s.know
  BY <1>2, <1>4 DEF BreakOver
<1> QED BY <1>6, <1>7

(* A note that a step adds changes nothing of what it minds.               *)
LEMMA NotedMinds ==
  ASSUME NEW au, NEW S, NEW known, NEW s, Minds(au, S, known, s), NEW counted
  PROVE  Minds(au, S, known, Settling(au, s)) /\ Minds(au, S, known, BreakOver(au, counted, s))
BY NotedType DEF Minds

(* Marking lots of the auction itself; of a cancelled one, as what it may  *)
(* learn or unless the lot is not fading.                                  *)
LEMMA MarkingMinds ==
  ASSUME NEW au, NEW S, NEW known, Roster(au, S, known), NEW lots \in SUBSET S,
         NEW standing \in Standings, NEW s, StepOK(s), s.know = Marked(known, lots, standing),
         \/ au.phase # "Cancelled" \/ standing \in {"Withdrawing", "Unanswered"}
         \/ lots \cap au.registry = {}
         \/ \E l \in lots \cap au.registry : known[l] \notin Fading
  PROVE  Minds(au, S, known, s)
<1>1. \A l \in Lots : s.know[l] = IF l \in lots THEN standing ELSE known[l]
  BY MarkedType DEF Roster
<1>2. au.registry \subseteq Lots
  BY DEF Roster, Owns
<1> QED BY <1>1, <1>2 DEF Minds

LEMMA UnmovedMinds ==
  ASSUME NEW au, NEW S, NEW known, Roster(au, S, known)
  PROVE  Minds(au, S, known, Unmoved(known))
BY StepType DEF Roster, Minds

LEMMA WithdrawMinds ==
  ASSUME NEW au, NEW S, NEW known, Roster(au, S, known), NEW lots \in SUBSET S
  PROVE  Minds(au, S, known, Withdraw(known, lots))
<1>1. "Withdrawing" \in Standings /\ lots \in SUBSET Lots /\ known \in Knowledge
  BY DEF Standings, Roster
<1>2. /\ StepOK(Withdraw(known, lots))
      /\ Withdraw(known, lots).know = Marked(known, lots, "Withdrawing")
  BY <1>1, StepType
<1> QED BY <1>1, <1>2, MarkingMinds

(* Asking lots of an auction that is not cancelled, or one that is not     *)
(* fading.                                                                 *)
LEMMA AskMinds ==
  ASSUME NEW au, NEW S, NEW known, Roster(au, S, known), NEW lots \in SUBSET S,
         \/ au.phase # "Cancelled" \/ \E l \in lots : lots = {l} /\ known[l] \notin Fading
  PROVE  Minds(au, S, known, Ask(known, lots))
<1>1. "Asked" \in Standings /\ lots \in SUBSET Lots /\ known \in Knowledge
  BY DEF Standings, Roster
<1>2. StepOK(Ask(known, lots)) /\ Ask(known, lots).know = Marked(known, lots, "Asked")
  BY <1>1, StepType
<1> QED BY <1>1, <1>2, MarkingMinds

LEMMA MarkMinds ==
  ASSUME NEW au, NEW S, NEW known, Roster(au, S, known), NEW l \in S, NEW standing \in Standings,
         au.phase # "Cancelled" \/ known[l] \notin Fading
  PROVE  Minds(au, S, known, Mark(known, l, standing))
<1>1. l \in Lots /\ known \in Knowledge /\ {l} \in SUBSET S
  BY DEF Roster
<1>2. StepOK(Mark(known, l, standing)) /\ Mark(known, l, standing).know = Marked(known, {l}, standing)
  BY <1>1, StepType
<1> QED BY <1>1, <1>2, MarkingMinds

LEMMA ActiveLotsOwned ==
  ASSUME NEW au \in AuctionStates, NEW S, Owns(au, S)
  PROVE  ActiveLots(au) \subseteq S
<1>1. SUFFICES ASSUME au.activated # <<>>
               PROVE  au.activated[Len(au.activated)] \in S
  BY DEF ActiveLots
<1>2. Len(au.activated) \in DOMAIN au.activated
  BY <1>1, EmptySeq, LenProperties DEF AuctionStates
<1> QED BY <1>2 DEF Owns, Members

-----------------------------------------------------------------------------
(* Each function of the roster.                                            *)

LEMMA SurveyMinds ==
  ASSUME NEW au, NEW S, NEW empty, Roster(au, S, empty)
  PROVE  /\ Minds(au, S, empty, Survey(au, empty))
         /\ au.phase = "Cancelled" => \A l \in au.registry : Survey(au, empty).know[l] = "Withdrawing"
<1>1. au \in AuctionStates /\ au.registry \subseteq S /\ ActiveLots(au) \subseteq S
  BY ActiveLotsOwned DEF Roster, Owns
<1>2. CASE au.phase = "Cancelled"
  <2>1. Survey(au, empty) = Withdraw(empty, au.registry)
    BY <1>2 DEF Survey, Asking, LineupCompleted
  <2>2. au.registry \subseteq Lots /\ empty \in Knowledge /\ "Withdrawing" \in Standings
    BY <1>1 DEF Roster, Standings
  <2>3. \A l \in au.registry : Withdraw(empty, au.registry).know[l] = "Withdrawing"
    BY <2>2, StepType, MarkedType
  <2> QED BY <1>1, <2>1, <2>3, WithdrawMinds
<1>3. CASE au.phase \in Asking
  <2>1. au.phase # "Cancelled" /\ Survey(au, empty) = Settling(au, Ask(empty, au.registry))
    BY <1>3 DEF Survey, Asking, LineupCompleted
  <2> QED BY <1>1, <2>1, AskMinds, NotedMinds
<1>4. CASE au.phase # "Cancelled" /\ au.phase \notin Asking /\ LineupCompleted(au)
  <2>1. Survey(au, empty) = Step(empty, <<>>, [NoNotes EXCEPT !.finish = TRUE])
    BY <1>4 DEF Survey
  <2>2. [NoNotes EXCEPT !.finish = TRUE] \in Notes
    BY DEF NoNotes, Notes
  <2> QED BY <1>4, <2>1, <2>2 DEF Minds, StepOK, Step, Roster
<1>5. CASE au.phase # "Cancelled" /\ au.phase \notin Asking /\ ~LineupCompleted(au)
  <2>1. Survey(au, empty) = Ask(empty, ActiveLots(au))
    BY <1>5 DEF Survey
  <2> QED BY <1>1, <1>5, <2>1, AskMinds
<1> QED BY <1>2, <1>3, <1>4, <1>5

LEMMA AskingMinds ==
  ASSUME NEW au, NEW S, NEW known, Roster(au, S, known)
  PROVE  /\ Minds(au, S, known, Resume(au, known))
         /\ Minds(au, S, known, WithdrawAgain(au, known))
         /\ Minds(au, S, known, AskSilent(au, known))
<1> DEFINE silent == {l \in au.registry : known[l] = "Unanswered"}
<1>1. Pending(au, known) \in SUBSET S /\ silent \in SUBSET S
  BY DEF Roster, Owns, Pending
<1>2. au.phase \in Asking \cup {"Final"} \/ au.phase = "Prebidding" => au.phase # "Cancelled"
  BY DEF Asking
<1>3. Minds(au, S, known, Resume(au, known))
  BY <1>1, <1>2, AskMinds, UnmovedMinds DEF Resume
<1>4. Minds(au, S, known, WithdrawAgain(au, known))
  BY <1>1, WithdrawMinds DEF WithdrawAgain
<1>5. \/ AskSilent(au, known) = Withdraw(known, silent)
      \/ AskSilent(au, known) = Ask(known, silent) /\ au.phase # "Cancelled"
      \/ AskSilent(au, known) = Unmoved(known)
  BY <1>2 DEF AskSilent
<1>6. Minds(au, S, known, AskSilent(au, known))
  BY <1>1, <1>5, AskMinds, WithdrawMinds, UnmovedMinds
<1> QED BY <1>3, <1>4, <1>6

(* A step about one lot, whatever it asks for.                             *)
LEMMA SendMinds ==
  ASSUME NEW au, NEW S, NEW known, Roster(au, S, known), NEW l \in S, NEW standing \in Standings,
         NEW sent, \A m \in DOMAIN sent : sent[m] \in Errands, NEW n \in Notes, au.phase # "Cancelled"
  PROVE  Minds(au, S, known, Step(Marked(known, {l}, standing), sent, n))
<1>1. Marked(known, {l}, standing) \in Knowledge /\ {l} \in SUBSET S
  BY MarkedType DEF Roster
<1>2. /\ StepOK(Step(Marked(known, {l}, standing), sent, n))
      /\ Step(Marked(known, {l}, standing), sent, n).know = Marked(known, {l}, standing)
  BY <1>1 DEF StepOK, Step
<1> QED BY <1>1, <1>2, MarkingMinds

(* Nothing, or one kind of call to one lot.                                *)
LEMMA SentErrands ==
  ASSUME NEW l, NEW kind \in Errands
  PROVE  /\ \A k \in DOMAIN [m \in {l} |-> kind] : [m \in {l} |-> kind][k] \in Errands
         /\ \A k \in DOMAIN <<>> : <<>>[k] \in Errands
OBVIOUS

LEMMA ObservedMinds ==
  ASSUME NEW au, NEW S, NEW known, Roster(au, S, known), NEW counted, NEW l \in S, NEW report
  PROVE  Minds(au, S, known, Observed(au, known, counted, l, report))
<1>1. Minds(au, S, known, Unmoved(known))
  BY UnmovedMinds
<1>2. SUFFICES ASSUME au.phase \in Asking \cup {"Final"}
               PROVE  Minds(au, S, known, Observed(au, known, counted, l, report))
  BY <1>1 DEF Observed
<1>3. au.phase # "Cancelled"
  BY <1>2 DEF Asking
<1> DEFINE ended == [NoNotes EXCEPT !.ended = {l}]
           open == Step(Marked(known, {l}, "Opening"), [m \in {l} |-> "Open"], NoNotes)
           over == Step(Marked(known, {l}, "Closed"), <<>>, ended)
           Asked == {Mark(known, l, s) : s \in Standings} \cup {open}
<1>4. /\ {"Opening", "NotOpened", "Active", "Held", "Closed"} \subseteq Standings /\ "Open" \in Errands
      /\ NoNotes \in Notes /\ ended \in Notes
  <2>1. l \in Lots
    BY DEF Roster
  <2> QED BY <2>1 DEF Standings, Errands, NoNotes, Notes
<1>5. \A s \in Asked \cup {over} : Minds(au, S, known, s)
  <2>1. \A s \in Standings : Minds(au, S, known, Mark(known, l, s))
    BY <1>3, MarkMinds
  <2>2. Minds(au, S, known, open)
    BY <1>3, <1>4, SendMinds, SentErrands
  <2>3. Minds(au, S, known, over)
    BY <1>3, <1>4, SendMinds, SentErrands
  <2> QED BY <2>1, <2>2, <2>3
<1>6. \A s \in Asked : Minds(au, S, known, BreakOver(au, counted, Settling(au, s)))
  BY <1>5, NotedMinds
<1> DEFINE asked ==
             CASE report = "Trading" -> Mark(known, l, "Active")
               [] report = "Held"    -> Mark(known, l, "Held")
               [] report = "Over"    -> Mark(known, l, "Closed")
               [] OTHER -> IF au.phase = "Prebidding" THEN open ELSE Mark(known, l, "NotOpened")
<1>7. asked \in Asked
  BY <1>4
<1>8. \/ Observed(au, known, counted, l, report) = Unmoved(known)
      \/ Observed(au, known, counted, l, report) = BreakOver(au, counted, Settling(au, asked))
      \/ Observed(au, known, counted, l, report) \in {over, Mark(known, l, "Active")}
  BY DEF Observed, ObservedInFinal
<1>9. Mark(known, l, "Active") \in Asked
  BY <1>4
<1> HIDE DEF Asked, asked, over
<1> QED BY <1>1, <1>5, <1>6, <1>7, <1>8, <1>9

LEMMA AnswerMinds ==
  ASSUME NEW au, NEW S, NEW known, Roster(au, S, known), NEW counted, NEW l \in S, NEW answer
  PROVE  /\ Minds(au, S, known, Opened(au, known, l, answer))
         /\ Minds(au, S, known, Closed(au, known, l, answer))
         /\ Minds(au, S, known, EndedByAuctioneer(au, known, counted, l, answer))
         /\ Minds(au, S, known, RemovalAnswered(known, l))
         /\ Minds(au, S, known, Due(au, known, l))
<1>1. Minds(au, S, known, Unmoved(known))
  BY UnmovedMinds
<1>2. \A s \in Standings :
        known[l] \in {"Opening", "Closing", "Held"} => Minds(au, S, known, Mark(known, l, s))
  BY MarkMinds DEF Fading
<1>3. {"Active", "Declined", "Held", "Closed", "Closing"} \subseteq Standings /\ {l} \in SUBSET S
  BY DEF Standings
<1>4. known[l] \in {"Opening", "Closing", "Held"} => Minds(au, S, known, Ask(known, {l}))
  BY <1>3, AskMinds DEF Fading
<1>5. Minds(au, S, known, Opened(au, known, l, answer))
  BY <1>1, <1>2, <1>3, NotedMinds DEF Opened
<1>6. Minds(au, S, known, Closed(au, known, l, answer))
  BY <1>1, <1>2, <1>3, <1>4, NotedMinds DEF Closed
<1>7. Minds(au, S, known, EndedByAuctioneer(au, known, counted, l, answer))
  BY <1>1, <1>2, <1>3, <1>4, NotedMinds DEF EndedByAuctioneer
<1>8. Minds(au, S, known, RemovalAnswered(known, l))
  BY <1>1, <1>4 DEF RemovalAnswered
<1>9. Minds(au, S, known, Due(au, known, l))
  <2>1. NoNotes \in Notes /\ "Close" \in Errands
    BY DEF NoNotes, Notes, Errands
  <2>2. au.phase # "Cancelled" =>
          Minds(au, S, known, Step(Marked(known, {l}, "Closing"), [m \in {l} |-> "Close"], NoNotes))
    BY <1>3, <2>1, SendMinds, SentErrands
  <2> QED BY <1>1, <2>2 DEF Due
<1> QED BY <1>5, <1>6, <1>7, <1>8, <1>9

LEMMA SilenceMinds ==
  ASSUME NEW au, NEW S, NEW known, Roster(au, S, known), NEW l \in S
  PROVE  Minds(au, S, known, Unmoved(Unanswered(known, l)))
<1>1. "Unanswered" \in Standings /\ {l} \in SUBSET S /\ NoNotes \in Notes
  BY DEF Standings, NoNotes, Notes
<1>2. Marked(known, {l}, "Unanswered") \in Knowledge
  BY <1>1, MarkedType DEF Roster
<1>3. /\ StepOK(Unmoved(Marked(known, {l}, "Unanswered")))
      /\ Unmoved(Marked(known, {l}, "Unanswered")).know = Marked(known, {l}, "Unanswered")
  BY <1>1, <1>2, SentErrands DEF StepOK, Unmoved, Step
<1>4. Minds(au, S, known, Unmoved(Marked(known, {l}, "Unanswered")))
  BY <1>1, <1>3, MarkingMinds
<1> QED BY <1>4, UnmovedMinds DEF Unanswered

(* A lot is marked for its close by an auctioneer in the break or in the   *)
(* final.                                                                  *)
LEMMA ClosingType ==
  ASSUME NEW known \in Knowledge, NEW au, NEW l \in Lots
  PROVE  /\ ClosingByAuctioneer(au, known, l) \in Knowledge
         /\ \A m \in Lots : m # l \/ au.phase = "Cancelled"
              => ClosingByAuctioneer(au, known, l)[m] = known[m]
<1>1. "Closing" \in Standings
  BY DEF Standings
<1>2. /\ Marked(known, {l}, "Closing") \in Knowledge
      /\ \A m \in Lots : m # l => Marked(known, {l}, "Closing")[m] = known[m]
  BY <1>1, MarkedType
<1>3. au.phase = "Cancelled" => ClosingByAuctioneer(au, known, l) = known
  BY DEF ClosingByAuctioneer, ActiveLots
<1> QED BY <1>2, <1>3 DEF ClosingByAuctioneer

(* The answer to a withdrawal.                                             *)
LEMMA WithdrawnType ==
  ASSUME NEW known \in Knowledge, NEW l \in Lots, NEW answer
  PROVE  /\ StepOK(Withdrawn(known, l, answer))
         /\ \A m \in Lots \ {l} : Withdrawn(known, l, answer).know[m] = known[m]
         /\ \/ Withdrawn(known, l, answer).know[l] = known[l]
            \/ Withdrawn(known, l, answer).know[l] \in Gone
<1>1. {"Closed", "Withdrawn"} \subseteq Standings /\ {l} \in SUBSET Lots
  BY DEF Standings
<1>2. ASSUME NEW s \in {"Closed", "Withdrawn"}
      PROVE  /\ StepOK(Mark(known, l, s)) /\ Mark(known, l, s).know = Marked(known, {l}, s)
             /\ \A m \in Lots : Marked(known, {l}, s)[m] = IF m = l THEN s ELSE known[m]
  <2>1. s \in Standings
    BY <1>1
  <2>2. StepOK(Mark(known, l, s)) /\ Mark(known, l, s).know = Marked(known, {l}, s)
    BY <1>1, <2>1, StepType
  <2>3. \A m \in Lots : Marked(known, {l}, s)[m] = IF m \in {l} THEN s ELSE known[m]
    BY <2>1, MarkedType
  <2> QED BY <2>2, <2>3
<1>3. StepOK(Unmoved(known)) /\ Unmoved(known).know = known
  BY <1>1, StepType
<1>4. \/ Withdrawn(known, l, answer) = Unmoved(known)
      \/ \E s \in {"Closed", "Withdrawn"} : Withdrawn(known, l, answer) = Mark(known, l, s)
  BY DEF Withdrawn
<1> QED BY <1>2, <1>3, <1>4 DEF Gone

-----------------------------------------------------------------------------
(* Queues of calls.                                                        *)

LEMMA CallType ==
  ASSUME NEW kind \in Kinds
  PROVE  Call(kind) \in LotCalls /\ ~TellsOver(Call(kind)) /\ (Resumes(Call(kind)) <=> kind = "Resume")
BY DEF Call, LotCalls, TellsOver, Answers, Resumes

LEMMA QueueOf ==
  ASSUME NEW queues \in Queues, NEW l \in Lots
  PROVE  queues[l] \in Seq(LotCalls) /\ DOMAIN queues[l] = 1 .. Len(queues[l])
BY LenProperties DEF Queues

(* A call at the end of a queue.                                           *)
LEMMA AppendedCall ==
  ASSUME NEW queue \in Seq(LotCalls), NEW kind \in Kinds
  PROVE  /\ Append(queue, Call(kind)) \in Seq(LotCalls)
         /\ \A i \in DOMAIN Append(queue, Call(kind)) :
              \/ \E j \in DOMAIN queue : Append(queue, Call(kind))[i] = queue[j]
              \/ Append(queue, Call(kind))[i] = Call(kind)
<1>1. Call(kind) \in LotCalls
  BY CallType
<1>2. /\ Append(queue, Call(kind)) \in Seq(LotCalls)
      /\ Len(Append(queue, Call(kind))) = Len(queue) + 1
      /\ \A i \in 1 .. Len(queue) : Append(queue, Call(kind))[i] = queue[i]
      /\ Append(queue, Call(kind))[Len(queue) + 1] = Call(kind)
  BY <1>1, AppendProperties
<1>3. /\ DOMAIN queue = 1 .. Len(queue) /\ Len(queue) \in Nat
      /\ DOMAIN Append(queue, Call(kind)) = 1 .. Len(queue) + 1
  BY <1>2, LenProperties
<1> QED BY <1>1, <1>2, <1>3

(* The place in a queue of a call that stands at j once call i is taken.   *)
Place(i, j) == IF j < i THEN j ELSE j + 1

LEMMA WithoutIs ==
  ASSUME NEW q \in Seq(LotCalls), NEW i \in DOMAIN q
  PROVE  /\ Without(q, i) \in Seq(LotCalls)
         /\ DOMAIN Without(q, i) \subseteq Nat
         /\ \A j \in DOMAIN Without(q, i) :
              Place(i, j) \in DOMAIN q \ {i} /\ Without(q, i)[j] = q[Place(i, j)]
         /\ \A j, k \in DOMAIN Without(q, i) : j < k <=> Place(i, j) < Place(i, k)
         /\ \A m \in DOMAIN q \ {i} : \E j \in DOMAIN Without(q, i) : Place(i, j) = m
         /\ Members(Without(q, i)) \subseteq Members(q)
<1>1. DOMAIN q = 1 .. Len(q) /\ Len(q) \in Nat /\ i \in 1 .. Len(q)
  BY LenProperties
<1>2. \A k \in 1 .. Len(q) : q[k] \in LotCalls
  BY ElementOfSeq
<1> DEFINE front == SubSeq(q, 1, i - 1)
           back == SubSeq(q, i + 1, Len(q))
<1>3. /\ front \in Seq(LotCalls) /\ Len(front) = i - 1
      /\ \A j \in 1 .. i - 1 : front[j] = q[j]
  <2>1. \A k \in 1 .. i - 1 : q[k] \in LotCalls
    BY <1>1, <1>2
  <2>2. 1 \in Int /\ i - 1 \in Int
    BY <1>1
  <2>3. /\ front \in Seq(LotCalls)
        /\ Len(front) = IF 1 <= i - 1 THEN i - 1 - 1 + 1 ELSE 0
        /\ \A j \in 1 .. i - 1 - 1 + 1 : front[j] = q[1 + j - 1]
    BY <2>1, <2>2, SubSeqProperties
  <2> QED BY <1>1, <2>3
<1>4. /\ back \in Seq(LotCalls) /\ Len(back) = Len(q) - i
      /\ \A j \in 1 .. Len(q) - i : back[j] = q[i + j]
  <2>1. \A k \in i + 1 .. Len(q) : q[k] \in LotCalls
    BY <1>1, <1>2
  <2>2. i + 1 \in Int /\ Len(q) \in Int
    BY <1>1
  <2>3. /\ back \in Seq(LotCalls)
        /\ Len(back) = IF i + 1 <= Len(q) THEN Len(q) - (i + 1) + 1 ELSE 0
        /\ \A j \in 1 .. Len(q) - (i + 1) + 1 : back[j] = q[i + 1 + j - 1]
    BY <2>1, <2>2, SubSeqProperties
  <2> QED BY <1>1, <2>3
<1> HIDE DEF front, back
<1>5. /\ front \o back \in Seq(LotCalls)
      /\ Len(front \o back) = Len(q) - 1
      /\ \A j \in 1 .. Len(q) - 1 :
           (front \o back)[j] = IF j <= i - 1 THEN front[j] ELSE back[j - (i - 1)]
  <2>1. /\ front \o back \in Seq(LotCalls)
        /\ Len(front \o back) = Len(front) + Len(back)
        /\ \A j \in 1 .. Len(front) + Len(back) :
             (front \o back)[j] = IF j <= Len(front) THEN front[j] ELSE back[j - Len(front)]
    BY <1>3, <1>4, ConcatProperties
  <2> QED BY <1>1, <1>3, <1>4, <2>1
<1>6. DOMAIN (front \o back) = 1 .. Len(q) - 1
  BY <1>5, LenProperties
<1>7. Without(q, i) = front \o back
  BY DEF Without, front, back
<1>8. ASSUME NEW j \in 1 .. Len(q) - 1
      PROVE  Place(i, j) \in DOMAIN q \ {i} /\ (front \o back)[j] = q[Place(i, j)]
  <2>1. Place(i, j) \in DOMAIN q \ {i}
    BY <1>1 DEF Place
  <2>2. CASE j < i
    BY <1>1, <1>3, <1>5, <2>2 DEF Place
  <2>3. CASE ~(j < i)
    <3>1. j - (i - 1) \in 1 .. Len(q) - i
      BY <1>1, <2>3
    <3>2. (front \o back)[j] = q[i + (j - (i - 1))]
      BY <1>1, <1>4, <1>5, <2>3, <3>1
    <3>3. i + (j - (i - 1)) = j + 1
      BY <1>1
    <3> QED BY <2>1, <2>3, <3>2, <3>3 DEF Place
  <2> QED BY <2>1, <2>2, <2>3
<1>9. \A j, k \in 1 .. Len(q) - 1 : j < k <=> Place(i, j) < Place(i, k)
  BY <1>1 DEF Place
<1>10. ASSUME NEW m \in DOMAIN q \ {i}
       PROVE  \E j \in 1 .. Len(q) - 1 : Place(i, j) = m
  <2>1. CASE m < i
    <3>1. m \in 1 .. Len(q) - 1 /\ Place(i, m) = m
      BY <1>1, <2>1 DEF Place
    <3> QED BY <3>1
  <2>2. CASE ~(m < i)
    <3>1. m - 1 \in 1 .. Len(q) - 1 /\ Place(i, m - 1) = m
      BY <1>1, <2>2 DEF Place
    <3> QED BY <3>1
  <2> QED BY <2>1, <2>2
<1>11. Members(front \o back) \subseteq Members(q)
  BY <1>6, <1>8 DEF Members
<1>12. 1 .. Len(q) - 1 \subseteq Nat
  BY <1>1
<1> QED BY <1>5, <1>6, <1>7, <1>8, <1>9, <1>10, <1>11, <1>12

(* A queue without one of its calls.                                       *)
LEMMA ShorterQueue ==
  ASSUME NEW queue \in Seq(LotCalls), NEW i \in DOMAIN queue
  PROVE  /\ Without(queue, i) \in Seq(LotCalls)
         /\ \A j \in DOMAIN Without(queue, i) : \E k \in DOMAIN queue : Without(queue, i)[j] = queue[k]
BY WithoutIs

(* A queue in which one call is replaced.                                  *)
LEMMA ReplacedCall ==
  ASSUME NEW queue \in Seq(LotCalls), NEW i \in DOMAIN queue, NEW c \in LotCalls
  PROVE  /\ [queue EXCEPT ![i] = c] \in Seq(LotCalls)
         /\ \A j \in DOMAIN [queue EXCEPT ![i] = c] :
              j \in DOMAIN queue /\ [queue EXCEPT ![i] = c][j] = IF j = i THEN c ELSE queue[j]
<1>1. i \in 1 .. Len(queue) /\ DOMAIN queue = 1 .. Len(queue)
  BY LenProperties
<1>2. [queue EXCEPT ![i] = c] \in Seq(LotCalls)
  BY <1>1, ExceptSeq
<1> QED BY <1>1, <1>2

LEMMA QueueType ==
  ASSUME NEW queues \in Queues, NEW l \in Lots, NEW queue \in Seq(LotCalls)
  PROVE  [queues EXCEPT ![l] = queue] \in Queues
BY DEF Queues

(* The queue of a lot becomes one that says of a withdrawal no more than   *)
(* the lot does.                                                           *)
LEMMA QueueChanges ==
  ASSUME NEW queues \in Queues, NEW l \in Lots, NEW queue \in Seq(LotCalls), NEW lots,
         OverAsTold(queues, lots),
         \A i \in DOMAIN queue : TellsOver(queue[i]) => lots[l].phase \in Over
  PROVE  OverAsTold([queues EXCEPT ![l] = queue], lots)
<1>1. \A m \in Lots : [queues EXCEPT ![l] = queue][m] = IF m = l THEN queue ELSE queues[m]
  BY DEF Queues
<1> QED BY <1>1 DEF OverAsTold

LEMMA TakenType ==
  ASSUME calls \in Queues, NEW l \in Lots, NEW i \in DOMAIN calls[l]
  PROVE  /\ Taken(l, i) \in Queues
         /\ \A lots : OverAsTold(calls, lots) => OverAsTold(Taken(l, i), lots)
         /\ \A m \in Lots : Resuming(Taken(l, i)[m]) => Resuming(calls[m])
<1>1. calls[l] \in Seq(LotCalls)
  BY QueueOf
<1>2. /\ Without(calls[l], i) \in Seq(LotCalls)
      /\ \A j \in DOMAIN Without(calls[l], i) :
           \E k \in DOMAIN calls[l] : Without(calls[l], i)[j] = calls[l][k]
  BY <1>1, ShorterQueue
<1>3. Taken(l, i) = [calls EXCEPT ![l] = Without(calls[l], i)]
  BY DEF Taken
<1>4. Taken(l, i) \in Queues
  BY <1>2, <1>3, QueueType
<1>5. ASSUME NEW lots, OverAsTold(calls, lots)
      PROVE  OverAsTold(Taken(l, i), lots)
  <2>1. \A j \in DOMAIN Without(calls[l], i) :
          TellsOver(Without(calls[l], i)[j]) => lots[l].phase \in Over
    BY <1>2, <1>5 DEF OverAsTold
  <2>2. OverAsTold([calls EXCEPT ![l] = Without(calls[l], i)], lots)
    BY <1>2, <1>5, <2>1, QueueChanges
  <2> QED BY <1>3, <2>2
<1>6. \A m \in Lots : Resuming(Taken(l, i)[m]) => Resuming(calls[m])
  <2>1. \A m \in Lots : Taken(l, i)[m] = IF m = l THEN Without(calls[l], i) ELSE calls[m]
    BY <1>3 DEF Queues
  <2>2. Resuming(Without(calls[l], i)) => Resuming(calls[l])
    BY <1>2 DEF Resuming
  <2> QED BY <2>1, <2>2
<1> QED BY <1>4, <1>5, <1>6

LEMMA SentType ==
  ASSUME NEW queues \in Queues, NEW sent, \A m \in DOMAIN sent : sent[m] \in Errands
  PROVE  /\ Sent(queues, sent) \in Queues
         /\ \A lots : OverAsTold(queues, lots) => OverAsTold(Sent(queues, sent), lots)
         /\ \A l \in Lots : Resuming(Sent(queues, sent)[l]) => Resuming(queues[l])
<1>1. ASSUME NEW l \in Lots
      PROVE  /\ Sent(queues, sent)[l] \in Seq(LotCalls)
             /\ \A i \in DOMAIN Sent(queues, sent)[l] :
                  \/ \E j \in DOMAIN queues[l] : Sent(queues, sent)[l][i] = queues[l][j]
                  \/ \E kind \in Errands : Sent(queues, sent)[l][i] = Call(kind)
  <2>1. queues[l] \in Seq(LotCalls)
    BY QueueOf
  <2>2. \/ Sent(queues, sent)[l] = queues[l]
        \/ \E kind \in Errands : Sent(queues, sent)[l] = Append(queues[l], Call(kind))
    BY DEF Sent
  <2>3. \A kind \in Errands :
          /\ Append(queues[l], Call(kind)) \in Seq(LotCalls)
          /\ \A i \in DOMAIN Append(queues[l], Call(kind)) :
               \/ \E j \in DOMAIN queues[l] : Append(queues[l], Call(kind))[i] = queues[l][j]
               \/ Append(queues[l], Call(kind))[i] = Call(kind)
    <3>1. Errands \subseteq Kinds
      BY DEF Errands, Kinds
    <3> QED BY <2>1, <3>1, AppendedCall
  <2> QED BY <2>1, <2>2, <2>3
<1>2. Sent(queues, sent) \in Queues
  <2>1. Sent(queues, sent) = [l \in Lots |-> Sent(queues, sent)[l]]
    BY DEF Sent
  <2> QED BY <1>1, <2>1 DEF Queues
<1>3. \A kind \in Errands : ~TellsOver(Call(kind)) /\ ~Resumes(Call(kind))
  <2>1. Errands \subseteq Kinds \ {"Resume"}
    BY DEF Errands, Kinds
  <2> QED BY <2>1, CallType
<1>4. \A lots : OverAsTold(queues, lots) => OverAsTold(Sent(queues, sent), lots)
  BY <1>1, <1>3 DEF OverAsTold
<1>5. \A l \in Lots : Resuming(Sent(queues, sent)[l]) => Resuming(queues[l])
  BY <1>1, <1>3 DEF Resuming
<1> QED BY <1>2, <1>4, <1>5

(* An auction takes a step of its roster.                                  *)
LEMMA FollowType ==
  ASSUME NEW a \in Auctions, NEW queues \in Queues, NEW s, StepOK(s), Follow(a, queues, s),
         notes \in [Auctions -> Notes]
  PROVE  /\ know' = s.know /\ know' \in Knowledge /\ notes' \in [Auctions -> Notes]
         /\ calls' \in Queues
         /\ \A lots : OverAsTold(queues, lots) => OverAsTold(calls', lots)
         /\ \A l \in Lots : Resuming(calls'[l]) => Resuming(queues[l])
<1>1. know' = s.know /\ know' \in Knowledge /\ s.notes \in Notes /\ notes[a] \in Notes
  BY DEF Follow, StepOK
<1>2. calls' = Sent(queues, s.calls) /\ \A m \in DOMAIN s.calls : s.calls[m] \in Errands
  BY DEF Follow, StepOK
<1>3. notes' \in [Auctions -> Notes]
  <2>1. [settle |-> notes[a].settle \cup s.notes.settle, ended |-> notes[a].ended \cup s.notes.ended,
         finish |-> notes[a].finish \/ s.notes.finish] \in Notes
    BY <1>1 DEF Notes
  <2> QED BY <2>1 DEF Follow
<1> QED BY <1>1, <1>2, <1>3, SentType

-----------------------------------------------------------------------------
(* Calls to the slot.                                                      *)

LEMMA FreeTicketType ==
  ASSUME NEW pending, FreeTickets(pending) # {}
  PROVE  FreeTicket(pending) \in 1 .. MaxTickets
BY DEF FreeTicket, FreeTickets

(* What a step that is none of the slot's makes of the calls to it: no     *)
(* grant comes of it, and a release only from an auction whose trading is  *)
(* over.                                                                   *)
SlotMove ==
  /\ slotCalls' \in [Auctions -> SUBSET SlotCalls]
  /\ \A b \in Auctions : \A c \in slotCalls'[b] :
       /\ Granted(c) => \E d \in slotCalls[b] : Granted(d)
       /\ c.kind = "Release" => Past(b)' \/ \E d \in slotCalls[b] : d.kind = "Release"

LEMMA SlotCallType ==
  ASSUME NEW ticket \in 1 .. MaxTickets, NEW kind \in {"Open", "Confirm", "Release"}
  PROVE  /\ SlotCall(ticket, kind) \in SlotCalls
         /\ ~Granted(SlotCall(ticket, kind)) /\ SlotCall(ticket, kind).kind = kind
BY DEF SlotCall, SlotCalls, Granted

(* `pending` holds calls that were there, or that nobody waits for.        *)
LEMMA PendingMove ==
  ASSUME slotCalls \in [Auctions -> SUBSET SlotCalls], NEW a \in Auctions,
         NEW pending \in SUBSET SlotCalls,
         \A c \in pending : \E d \in slotCalls[a] : c.kind = d.kind /\ (Granted(c) => Granted(d)),
         NEW added \in SUBSET SlotCalls,
         \A c \in added : ~Granted(c) /\ (c.kind = "Release" => Past(a)'),
         slotCalls' = [slotCalls EXCEPT ![a] = pending \cup added]
  PROVE  SlotMove
<1>1. slotCalls' \in [Auctions -> SUBSET SlotCalls]
  OBVIOUS
<1>2. \A b \in Auctions : slotCalls'[b] = IF b = a THEN pending \cup added ELSE slotCalls[b]
  OBVIOUS
<1>3. ASSUME NEW b \in Auctions, NEW c \in slotCalls'[b]
      PROVE  /\ Granted(c) => \E d \in slotCalls[b] : Granted(d)
             /\ c.kind = "Release" => Past(b)' \/ \E d \in slotCalls[b] : d.kind = "Release"
  <2>1. CASE b = a /\ c \in pending
    BY <2>1
  <2>2. CASE b = a /\ c \in added
    BY <2>2
  <2>3. CASE b # a
    BY <1>2, <1>3, <2>3
  <2> QED BY <1>2, <1>3, <2>1, <2>2, <2>3
<1> QED BY <1>1, <1>3 DEF SlotMove

LEMMA CallSlotMove ==
  ASSUME slotCalls \in [Auctions -> SUBSET SlotCalls], NEW a \in Auctions,
         NEW pending \in SUBSET SlotCalls,
         \A c \in pending : \E d \in slotCalls[a] : c.kind = d.kind /\ (Granted(c) => Granted(d)),
         NEW due \in BOOLEAN, NEW kind \in {"Open", "Confirm", "Release"},
         CallSlot(a, pending, due, kind), due /\ kind = "Release" => Past(a)'
  PROVE  SlotMove
<1>1. CASE due
  <2>1. FreeTicket(pending) \in 1 .. MaxTickets
    BY <1>1, FreeTicketType DEF CallSlot
  <2> DEFINE added == {SlotCall(FreeTicket(pending), kind)}
  <2>2. added \in SUBSET SlotCalls /\ \A c \in added : ~Granted(c) /\ (c.kind = "Release" => Past(a)')
    BY <1>1, <2>1, SlotCallType
  <2>3. slotCalls' = [slotCalls EXCEPT ![a] = pending \cup added]
    BY <1>1 DEF CallSlot
  <2>4. added \in SUBSET SlotCalls
    BY <2>2
  <2> HIDE DEF added
  <2> QED BY <2>2, <2>3, <2>4, PendingMove
<1>2. CASE ~due
  <2> DEFINE none == {}
  <2>1. slotCalls' = [slotCalls EXCEPT ![a] = pending \cup none]
    BY <1>2 DEF CallSlot
  <2>2. none \in SUBSET SlotCalls /\ \A c \in none : ~Granted(c) /\ (c.kind = "Release" => Past(a)')
    OBVIOUS
  <2> HIDE DEF none
  <2> QED BY <2>1, <2>2, PendingMove
<1> QED BY <1>1, <1>2

LEMMA SlotCallsStay ==
  ASSUME slotCalls \in [Auctions -> SUBSET SlotCalls], slotCalls' = slotCalls
  PROVE  SlotMove
BY DEF SlotMove

-----------------------------------------------------------------------------
(* The lots.                                                               *)

(* An answer, and the state of a lot that is still over if it was, and is  *)
(* if the answer says so.  Only a call that resumes it brings it back.     *)
Fits(s, kind, o) ==
  /\ o.state \in LotStates /\ o.answer \in Answers \ {"None", "Lost"}
  /\ s.phase \in Over \/ SaysOver(kind, o.answer) => o.state.phase \in Over
  /\ o.state.phase = "Live" => s.phase = "Live" \/ kind = "Resume"
  /\ RecordedIsOver(o.state)

LEMMA StaysFits ==
  ASSUME NEW s \in LotStates, RecordedIsOver(s), NEW kind, NEW answer \in Answers \ {"None", "Lost"},
         SaysOver(kind, answer) => s.phase \in Over, NEW o \in Stays(s, answer)
  PROVE  Fits(s, kind, o)
<1>1. o.state = [phase |-> s.phase, seen |-> s.seen] /\ o.answer = answer
  BY DEF Stays, Outcome
<1>2. o.state = s
  BY <1>1 DEF LotStates
<1> QED BY <1>1, <1>2 DEF Fits

LEMMA BecomesFits ==
  ASSUME NEW s \in LotStates, RecordedIsOver(s), NEW kind, NEW answer \in Answers \ {"None", "Lost"},
         NEW phase \in {"Online", "Held", "Live"} \cup Over,
         NEW ops \in SUBSET {"Open", "Close", "Held", "Sale", "Resume", "Withdraw"},
         \/ phase \in Over
         \/ s.phase \notin Over /\ {"Withdraw", "Sale"} \cap ops = {} /\ ~SaysOver(kind, answer),
         phase = "Live" => kind = "Resume", NEW o \in Becomes(s, phase, ops, answer)
  PROVE  Fits(s, kind, o)
<1>1. o.state = [phase |-> phase, seen |-> s.seen \cup ops] /\ o.answer = answer
  BY DEF Becomes, Outcome
<1>2. o.state \in LotStates /\ o.state.phase = phase /\ o.state.seen = s.seen \cup ops
  <2>1. s.seen \cup ops \in SUBSET {"Open", "Close", "Held", "Sale", "Resume", "Withdraw"}
    BY DEF LotStates
  <2>2. phase \in {"Draft", "Scheduled", "Online", "Held", "Live"} \cup Over
    OBVIOUS
  <2> QED BY <1>1, <2>1, <2>2 DEF LotStates
<1>3. RecordedIsOver(o.state)
  BY <1>2 DEF RecordedIsOver
<1> QED BY <1>1, <1>2, <1>3 DEF Fits

(* However a lot answers a call, it fits.                                  *)
LEMMA OutcomeFits ==
  ASSUME NEW s \in LotStates, RecordedIsOver(s), NEW kind \in Kinds, NEW o \in Outcomes(s, kind)
  PROVE  Fits(s, kind, o)
<1>1. /\ {"Opened", "Held", "Ended", "Refused", "Resumed", "Withdrawn", "Done", Report(s.phase)}
           \subseteq Answers \ {"None", "Lost"}
      /\ {"Online", "Held", "Live", "Scheduled"} \cap Over = {} /\ {"Ended", "Withdrawn"} \subseteq Over
  BY DEF Report, Answers, Over
<1>2. ASSUME NEW answer \in Answers \ {"None", "Lost"}, o \in Stays(s, answer),
             SaysOver(kind, answer) => s.phase \in Over
      PROVE  Fits(s, kind, o)
  BY <1>2, StaysFits
<1>3. CASE kind = "Ask"
  <2>1. SaysOver(kind, Report(s.phase)) => s.phase \in Over
    BY <1>3 DEF SaysOver, Report, LotStates
  <2> QED BY <1>1, <1>2, <1>3, <2>1 DEF Outcomes
<1>4. CASE kind = "Remove"
  BY <1>1, <1>2, <1>4 DEF Outcomes, SaysOver
<1>5. CASE kind = "Open"
  <2>1. \/ \E answer \in {"Opened", "Refused"} : o \in Stays(s, answer)
        \/ s.phase = "Scheduled" /\ o \in Becomes(s, "Online", {"Open"}, "Opened")
    BY <1>5 DEF Outcomes, OpenLot
  <2>2. \A answer : ~SaysOver(kind, answer)
    BY <1>5 DEF SaysOver
  <2>3. ASSUME s.phase = "Scheduled", o \in Becomes(s, "Online", {"Open"}, "Opened")
        PROVE  Fits(s, kind, o)
    BY <1>1, <1>5, <2>2, <2>3, BecomesFits
  <2> QED BY <1>1, <1>2, <2>1, <2>2, <2>3
<1>6. CASE kind = "Close"
  <2>1. \/ \E answer \in {"Held", "Ended", "Refused"} : o \in Stays(s, answer)
        \/ s.phase = "Online" /\ o \in Becomes(s, "Held", {"Close", "Held"}, "Held")
        \/ s.phase = "Online" /\ o \in Becomes(s, "Ended", {"Close"}, "Ended")
    BY <1>6 DEF Outcomes, CloseLot
  <2>2. \A answer : ~SaysOver(kind, answer)
    BY <1>6 DEF SaysOver
  <2>3. ASSUME s.phase = "Online", o \in Becomes(s, "Held", {"Close", "Held"}, "Held")
        PROVE  Fits(s, kind, o)
    BY <1>1, <1>6, <2>2, <2>3, BecomesFits
  <2>4. ASSUME s.phase = "Online", o \in Becomes(s, "Ended", {"Close"}, "Ended")
        PROVE  Fits(s, kind, o)
    BY <1>1, <1>6, <2>4, BecomesFits
  <2> QED BY <1>1, <1>2, <2>1, <2>2, <2>3, <2>4
<1>7. CASE kind = "Sale"
  <2>1. \/ o \in Stays(s, "Refused")
        \/ s.phase \in Over /\ o \in Stays(s, "Ended")
        \/ o \in Becomes(s, "Ended", {"Sale"}, "Ended")
    BY <1>7 DEF Outcomes, CloseLotByAuctioneer, RecordedIsOver
  <2>2. ~SaysOver(kind, "Refused")
    BY <1>7 DEF SaysOver
  <2>3. ASSUME o \in Becomes(s, "Ended", {"Sale"}, "Ended") PROVE Fits(s, kind, o)
    BY <1>1, <1>7, <2>3, BecomesFits
  <2> QED BY <1>1, <1>2, <2>1, <2>2, <2>3
<1>8. CASE kind = "Resume"
  <2>1. \/ \E answer \in {"Resumed", "Refused"} : o \in Stays(s, answer)
        \/ s.phase = "Held" /\ o \in Becomes(s, "Live", {"Resume"}, "Resumed")
    BY <1>8 DEF Outcomes, ResumeLot
  <2>2. \A answer : ~SaysOver(kind, answer)
    BY <1>8 DEF SaysOver
  <2>3. ASSUME s.phase = "Held", o \in Becomes(s, "Live", {"Resume"}, "Resumed")
        PROVE  Fits(s, kind, o)
    BY <1>1, <1>8, <2>2, <2>3, BecomesFits
  <2> QED BY <1>1, <1>2, <2>1, <2>2, <2>3
<1>9. CASE kind = "Withdraw"
  <2>1. \/ s.phase \in Over /\ \E answer \in {"Withdrawn", "Refused"} : o \in Stays(s, answer)
        \/ o \in Becomes(s, "Withdrawn", {"Withdraw"}, "Withdrawn")
    BY <1>9 DEF Outcomes, WithdrawLot, RecordedIsOver
  <2>2. ASSUME o \in Becomes(s, "Withdrawn", {"Withdraw"}, "Withdrawn") PROVE Fits(s, kind, o)
    BY <1>1, <1>9, <2>2, BecomesFits
  <2> QED BY <1>1, <1>2, <2>1, <2>2
<1> QED BY <1>3, <1>4, <1>5, <1>6, <1>7, <1>8, <1>9 DEF Kinds

-----------------------------------------------------------------------------
(* Steps that begin no trading.                                            *)

PhasesMove(a) ==
  /\ \A b \in Auctions \ {a} : auction'[b] = auction[b]
  /\ auction'[a].phase \in Unplanned <=> auction[a].phase \in Unplanned
  /\ auction'[a].phase \in Holding => auction[a].phase \in Holding
  /\ auction'[a].phase = "Cancelled" =>
       \/ auction[a].phase \in Holding
       \/ auction[a].phase = "Cancelled" /\ auction'[a].registry = auction[a].registry

LotsMove(a) ==
  \A l \in Lots :
    lot'[l] = lot[l] \/ (AuctionOf[l] = a /\ (lot[l].phase \in Over => lot'[l].phase \in Over))

Modest(a) == PhasesMove(a) /\ LotsMove(a) /\ SlotMove /\ UNCHANGED slot

Kept(a) == Types' /\ KnowsTheGone' /\ OverIsTrue' /\ Modest(a)

LEMMA NoBegin ==
  ASSUME Types, Types', NEW a \in Auctions, PhasesMove(a), LotsMove(a), NEW b \in Auctions
  PROVE  /\ Trades(b)' => Trades(b)
         /\ auction'[b].phase \in Unplanned <=> auction[b].phase \in Unplanned
         /\ b # a => (Trades(b)' <=> Trades(b))
<1>1. auction[b].registry \subseteq LotsOf(b) /\ auction'[b].registry \subseteq LotsOf(b)
  BY DEF Types, TypesOfAuctions, Owns
<1>2. \A l \in LotsOf(b) : l \in Lots /\ AuctionOf[l] = b
  BY DEF LotsOf
<1>3. b # a => auction'[b] = auction[b] /\ \A l \in LotsOf(b) : lot'[l] = lot[l]
  BY <1>2 DEF PhasesMove, LotsMove
<1>4. \A l \in LotsOf(b) : lot[l].phase \in Over => lot'[l].phase \in Over
  BY <1>2 DEF LotsMove
<1>5. auction'[b].phase \in Unplanned <=> auction[b].phase \in Unplanned
  BY <1>3 DEF PhasesMove
<1>6. b # a => (Trades(b)' <=> Trades(b))
  BY <1>1, <1>3 DEF Trades
<1>7. ASSUME b = a, Trades(b)' PROVE Trades(b)
  BY <1>1, <1>4, <1>7 DEF PhasesMove, Trades
<1> QED BY <1>5, <1>6, <1>7

(* Such a step keeps what is said of the slot.                             *)
LEMMA SlotKept ==
  ASSUME Inv, NEW a \in Auctions, Kept(a)
  PROVE  Inv'
<1>1. /\ Types /\ Types' /\ PhasesMove(a) /\ LotsMove(a) /\ SlotMove
      /\ holder' = holder /\ inquiry' = inquiry
  BY DEF Inv, Kept, Modest, slot
<1>2. \A b \in Auctions :
        /\ Trades(b)' => Trades(b)
        /\ auction'[b].phase \in Unplanned <=> auction[b].phase \in Unplanned
  BY <1>1, NoBegin
<1>3. \A b \in Auctions : (MayStart(b)' => MayStart(b)) /\ (Past(b) => Past(b)')
  BY <1>1, <1>2 DEF MayStart, Past, SlotMove, Granted
<1>4. HolderTrades'
  BY <1>1, <1>2, <1>3 DEF Inv, HolderTrades
<1>5. IdleIsIdle'
  <2>1. inquiry.answer = "Idle" => inquiry.asked \in Auctions
    BY <1>1 DEF Types, TypesOfTheSlot, Inquiries, NoInquiry
  <2>2. SUFFICES ASSUME NEW b \in Auctions, b = inquiry.asked, inquiry.answer = "Idle"
                 PROVE  ~Trades(b)' /\ ~MayStart(b)'
    BY <1>1, <2>1 DEF IdleIsIdle, Trades, MayStart
  <2> QED BY <1>2, <1>3, <2>2 DEF Inv, IdleIsIdle
<1>6. ReleasedIsPast'
  BY <1>1, <1>3 DEF Inv, ReleasedIsPast, SlotMove
<1> QED BY <1>4, <1>5, <1>6 DEF Inv, Kept

-----------------------------------------------------------------------------
(* The invariant holds at first, and says what is claimed.                 *)

LEMMA InitInv == Init => Inv
<1> SUFFICES ASSUME Init PROVE Inv
  OBVIOUS
<1>1. TypesOfAuctions
  <2>1. <<>> \in Seq(Lots) /\ Members(<<>>) = {}
    BY EmptySeq DEF Members
  <2>2. ASSUME NEW a \in Auctions
        PROVE  /\ auction[a] \in AuctionStates
               /\ auction[a].order = <<>> /\ auction[a].activated = <<>>
    BY <2>1 DEF Init, AuctionStates, Phases
  <2>3. auction = [a \in Auctions |-> auction[a]]
    BY DEF Init
  <2> QED BY <2>1, <2>2, <2>3 DEF Init, TypesOfAuctions, Owns
<1>2. TypesOfRosters
  BY DEF Init, TypesOfRosters, Knowledge, Standings, NoNotes, Notes
<1>3. TypesOfTheSlot
  BY DEF Init, TypesOfTheSlot
<1>4. TypesOfLots
  BY AuctionsAssumption, EmptySeq DEF Init, TypesOfLots, LotStates, Queues
<1>5. \A a \in Auctions : auction[a].phase \in {"Scheduled", "Finished"} /\ ~Trades(a) /\ ~MayStart(a)
  BY DEF Init, Trades, MayStart, Holding, Asking
<1>6. KnowsTheGone /\ HolderTrades /\ IdleIsIdle /\ ReleasedIsPast
  BY <1>5 DEF Init, KnowsTheGone, HolderTrades, IdleIsIdle, ReleasedIsPast, NoInquiry
<1>7. OverIsTrue
  BY DEF Init, OverIsTrue, OverAsTold, RecordedIsOver
<1> QED BY <1>1, <1>2, <1>3, <1>4, <1>6, <1>7 DEF Inv, Types

LEMMA TypesOK == Types => TypeOK
<1> SUFFICES ASSUME Types PROVE TypeOK
  OBVIOUS
<1>1. \A a \in Auctions :
        auction[a] \in AuctionStates /\ notes[a] \in Notes /\ slotCalls[a] \subseteq SlotCalls
  BY DEF Types, TypesOfAuctions, TypesOfRosters, TypesOfTheSlot
<1> QED BY <1>1 DEF Types, TypesOfRosters, TypesOfTheSlot, TypesOfLots, TypeOK, AuctionStates, Notes,
         SlotCalls, Knowledge, LotStates, Inquiries

(* Everything else an auction knows of its lots.                           *)
LEMMA RosterOf ==
  ASSUME Types, NEW a \in Auctions
  PROVE  /\ Roster(auction[a], LotsOf(a), know)
         /\ Roster(auction[a], LotsOf(a), Forgotten(a))
         /\ \A l \in Lots \ LotsOf(a) : Forgotten(a)[l] = know[l]
         /\ Uncounted(a) \in [Lots -> Nat]
<1>1. "None" \in Standings /\ know \in Knowledge /\ LotsOf(a) \subseteq Lots
  BY DEF Standings, Types, TypesOfRosters, LotsOf
<1>2. /\ Forgotten(a) \in Knowledge
      /\ \A l \in Lots : Forgotten(a)[l] = IF l \in LotsOf(a) THEN "None" ELSE know[l]
  BY <1>1, MarkedType DEF Forgotten
<1>3. Uncounted(a) \in [Lots -> Nat]
  BY DEF Types, TypesOfRosters, Uncounted
<1> QED BY <1>1, <1>2, <1>3 DEF Types, TypesOfAuctions, Roster

(* The state of one auction changes.                                       *)
LEMMA AuctionChanges ==
  ASSUME Types, NEW a \in Auctions, NEW after \in AuctionStates, Owns(after, LotsOf(a)),
         auction' = [auction EXCEPT ![a] = after],
         after.phase \in Unplanned <=> auction[a].phase \in Unplanned,
         after.phase \in Holding => auction[a].phase \in Holding,
         after.phase = "Cancelled" =>
           \/ auction[a].phase \in Holding
           \/ auction[a].phase = "Cancelled" /\ after.registry = auction[a].registry
  PROVE  TypesOfAuctions' /\ PhasesMove(a)
<1>1. auction \in [Auctions -> AuctionStates]
  BY DEF Types, TypesOfAuctions
<1>2. \A b \in Auctions : auction'[b] = IF b = a THEN after ELSE auction[b]
  BY <1>1
<1>3. auction' \in [Auctions -> AuctionStates]
  BY <1>1
<1>4. \A b \in Auctions : Owns(auction'[b], LotsOf(b))
  BY <1>2 DEF Types, TypesOfAuctions
<1>5. TypesOfAuctions'
  BY <1>3, <1>4 DEF TypesOfAuctions, LotsOf
<1> QED BY <1>2, <1>5 DEF PhasesMove

LEMMA AuctionStays ==
  ASSUME Types, NEW a \in Auctions, auction' = auction
  PROVE  TypesOfAuctions' /\ PhasesMove(a)
BY DEF Types, TypesOfAuctions, PhasesMove, Owns, LotsOf

(* An auction that passes to another phase.                                *)
LEMMA PhaseType ==
  ASSUME Types, NEW a \in Auctions, NEW phase \in Phases
  PROVE  /\ [auction[a] EXCEPT !.phase = phase] \in AuctionStates
         /\ Owns([auction[a] EXCEPT !.phase = phase], LotsOf(a))
BY DEF Types, TypesOfAuctions, AuctionStates, Owns, Members

(* What is known of the lots of one auction changes.                       *)
LEMMA KnowledgeChanges ==
  ASSUME Types, TypesOfAuctions', KnowsTheGone, NEW a \in Auctions, PhasesMove(a), LotsMove(a),
         \A l \in Lots \ LotsOf(a) : know'[l] = know[l],
         auction'[a].phase = "Cancelled" =>
           \A l \in auction'[a].registry :
             know'[l] \in Fading /\ (know'[l] \in Gone => lot'[l].phase \in Over)
  PROVE  KnowsTheGone'
<1> SUFFICES ASSUME NEW b \in Auctions, b # a, auction'[b].phase = "Cancelled",
                    NEW l \in auction'[b].registry
             PROVE  know'[l] \in Fading /\ (know'[l] \in Gone => lot'[l].phase \in Over)
  BY DEF KnowsTheGone
<1>1. auction'[b] = auction[b]
  BY DEF PhasesMove
<1>2. l \in Lots /\ AuctionOf[l] = b
  BY DEF TypesOfAuctions, Owns, LotsOf
<1>3. know'[l] = know[l] /\ lot'[l] = lot[l]
  BY <1>2 DEF LotsOf, LotsMove
<1> QED BY <1>1, <1>3 DEF KnowsTheGone

LEMMA KnowledgeStays ==
  ASSUME Types, TypesOfAuctions', KnowsTheGone, NEW a \in Auctions, PhasesMove(a), LotsMove(a),
         know' = know, auction'[a].phase = "Cancelled" => auction[a].phase = "Cancelled"
  PROVE  KnowsTheGone'
<1>1. ASSUME auction'[a].phase = "Cancelled", NEW l \in auction'[a].registry
      PROVE  know'[l] \in Fading /\ (know'[l] \in Gone => lot'[l].phase \in Over)
  <2>1. auction[a].phase = "Cancelled" /\ l \in auction[a].registry
    BY <1>1 DEF PhasesMove, Holding, Asking
  <2>2. l \in Lots
    BY <1>1 DEF TypesOfAuctions, Owns, LotsOf
  <2> QED BY <2>1, <2>2 DEF KnowsTheGone, LotsMove
<1> QED BY <1>1, KnowledgeChanges

(* A step of the roster that minds.                                        *)
LEMMA FollowKeeps ==
  ASSUME Inv, NEW a \in Auctions, NEW queues \in Queues, OverAsTold(queues, lot),
         NEW s, Minds(auction[a], LotsOf(a), know, s), Follow(a, queues, s), lot' = lot,
         TypesOfAuctions', PhasesMove(a),
         auction'[a].phase = "Cancelled" => auction[a].phase = "Cancelled"
  PROVE  /\ know' = s.know /\ know' \in Knowledge /\ notes' \in [Auctions -> Notes]
         /\ calls' \in Queues /\ LotsMove(a) /\ KnowsTheGone' /\ OverIsTrue'
<1>1. /\ know' = s.know /\ know' \in Knowledge /\ notes' \in [Auctions -> Notes]
      /\ calls' \in Queues /\ OverAsTold(calls', lot)
  BY FollowType DEF Minds, Inv, Types, TypesOfRosters
<1>2. LotsMove(a)
  BY DEF LotsMove
<1>3. OverIsTrue'
  BY <1>1 DEF Inv, OverIsTrue, OverAsTold
<1>4. \A l \in Lots \ LotsOf(a) : know'[l] = know[l]
  BY <1>1 DEF Minds
<1>5. ASSUME auction'[a].phase = "Cancelled", NEW l \in auction'[a].registry
      PROVE  know'[l] \in Fading /\ (know'[l] \in Gone => lot'[l].phase \in Over)
  <2>1. auction[a].phase = "Cancelled" /\ l \in auction[a].registry
    BY <1>5 DEF PhasesMove, Holding, Asking
  <2>2. know[l] \in Fading /\ (know[l] \in Gone => lot[l].phase \in Over)
    BY <2>1 DEF Inv, KnowsTheGone
  <2>3. know'[l] = know[l] \/ know'[l] \in {"Withdrawing", "Unanswered"}
    BY <1>1, <2>1 DEF Minds, Inv, KnowsTheGone
  <2> QED BY <2>2, <2>3 DEF Fading, Gone
<1>6. KnowsTheGone'
  BY <1>2, <1>4, <1>5, KnowledgeChanges DEF Inv
<1> QED BY <1>1, <1>2, <1>3, <1>6

(* Such a step, when the rest has its types.                               *)
LEMMA FollowKept ==
  ASSUME Inv, NEW a \in Auctions, NEW queues \in Queues, OverAsTold(queues, lot),
         NEW s, Minds(auction[a], LotsOf(a), know, s), Follow(a, queues, s),
         TypesOfAuctions', PhasesMove(a),
         auction'[a].phase = "Cancelled" => auction[a].phase = "Cancelled",
         removals' \in [Lots -> Nat], confirmed' \subseteq Auctions, released' \subseteq Auctions,
         faults' \in 0 .. MaxFaults, astray' \subseteq Lots, UNCHANGED <<slot, lot, strays, presses>>
  PROVE  /\ know' = s.know /\ KnowsTheGone'
         /\ SlotMove => Kept(a)
<1>1. lot' = lot /\ strays' = strays /\ presses' = presses
      /\ holder' = holder /\ inquiry' = inquiry
  BY DEF slot
<1>2. /\ know' = s.know /\ know' \in Knowledge /\ notes' \in [Auctions -> Notes]
      /\ calls' \in Queues /\ LotsMove(a) /\ KnowsTheGone' /\ OverIsTrue'
  BY <1>1, FollowKeeps
<1>3. TypesOfRosters'
  BY <1>2 DEF TypesOfRosters
<1>4. SlotMove => TypesOfTheSlot'
  BY <1>1 DEF Inv, Types, TypesOfTheSlot, SlotMove
<1>5. TypesOfLots'
  BY <1>1, <1>2 DEF Inv, Types, TypesOfLots
<1> QED BY <1>1, <1>2, <1>3, <1>4, <1>5 DEF Kept, Types, Modest, slot

-----------------------------------------------------------------------------
(* The answers of the lots.                                                *)

(* An answer is handled, and the call taken from its queue.                *)
LEMMA TakenKeeps ==
  ASSUME Inv, NEW l \in Lots, NEW i \in DOMAIN calls[l]
  PROVE  Taken(l, i) \in Queues /\ OverAsTold(Taken(l, i), lot)
BY TakenType DEF Inv, Types, TypesOfLots, OverIsTrue

LEMMA OwnLot ==
  ASSUME NEW l \in Lots
  PROVE  AuctionOf[l] \in Auctions /\ l \in LotsOf(AuctionOf[l])
BY AuctionsAssumption DEF LotsOf

LEMMA OnlyFollowKept ==
  ASSUME Inv, NEW l \in Lots, NEW queues \in Queues, OverAsTold(queues, lot), NEW s,
         Minds(auction[AuctionOf[l]], LotsOf(AuctionOf[l]), know, s), OnlyFollow(l, queues, s),
         removals' \in [Lots -> Nat], astray' \subseteq Lots
  PROVE  Kept(AuctionOf[l])
<1>1. AuctionOf[l] \in Auctions
  BY OwnLot
<1>2. /\ auction' = auction /\ confirmed' = confirmed /\ released' = released /\ faults' = faults
      /\ slotCalls' = slotCalls /\ UNCHANGED <<slot, lot, strays, presses>>
      /\ Follow(AuctionOf[l], queues, s)
  BY DEF OnlyFollow, slotSide
<1>3. TypesOfAuctions' /\ PhasesMove(AuctionOf[l])
  BY <1>1, <1>2, AuctionStays DEF Inv
<1>4. SlotMove
  BY <1>2, SlotCallsStay DEF Inv, Types, TypesOfTheSlot
<1>5. /\ confirmed' \subseteq Auctions /\ released' \subseteq Auctions
      /\ faults' \in 0 .. MaxFaults
  BY <1>2 DEF Inv, Types, TypesOfTheSlot, TypesOfLots
<1> QED BY <1>1, <1>2, <1>3, <1>4, <1>5, FollowKept

LEMMA LotAnswersKept ==
  ASSUME Inv, NEW l \in Lots, NEW i \in DOMAIN calls[l],
         \/ LotObserved(l, i) \/ LotAnswered(l, i) \/ LotClosed(l, i) \/ LotParticipantRemoved(l, i)
  PROVE  Kept(AuctionOf[l])
<1> DEFINE a == AuctionOf[l]
           au == auction[AuctionOf[l]]
           answer == calls[l][i].answer
<1>1. a \in Auctions /\ l \in LotsOf(a) /\ Roster(au, LotsOf(a), know)
  BY OwnLot, RosterOf DEF Inv
<1>2. Taken(l, i) \in Queues /\ OverAsTold(Taken(l, i), lot)
  BY TakenKeeps
<1>3. \A counted :
        /\ Minds(au, LotsOf(a), know, Observed(au, know, counted, l, answer))
        /\ Minds(au, LotsOf(a), know, Opened(au, know, l, answer))
        /\ Minds(au, LotsOf(a), know, Closed(au, know, l, answer))
        /\ Minds(au, LotsOf(a), know, RemovalAnswered(know, l))
  BY <1>1, ObservedMinds, AnswerMinds
<1>4. removals \in [Lots -> Nat] /\ RemovalOver(removals, l) \in [Lots -> Nat]
  BY DEF Inv, Types, TypesOfRosters, RemovalOver
<1>5. astray' \subseteq Lots
  BY DEF Inv, Types, TypesOfLots, LotObserved, LotAnswered, LotClosed, LotParticipantRemoved
<1>6. CASE LotObserved(l, i)
  BY <1>2, <1>3, <1>4, <1>5, <1>6, OnlyFollowKept DEF LotObserved
<1>7. CASE LotAnswered(l, i)
  BY <1>2, <1>3, <1>4, <1>5, <1>7, OnlyFollowKept DEF LotAnswered
<1>8. CASE LotClosed(l, i)
  BY <1>2, <1>3, <1>4, <1>5, <1>8, OnlyFollowKept DEF LotClosed
<1>9. CASE LotParticipantRemoved(l, i)
  BY <1>2, <1>3, <1>4, <1>5, <1>9, OnlyFollowKept DEF LotParticipantRemoved
<1> QED BY <1>6, <1>7, <1>8, <1>9

LEMMA DeadlineKept ==
  ASSUME Inv, NEW l \in Lots, DeadlineDue(l)
  PROVE  Kept(AuctionOf[l])
<1>1. AuctionOf[l] \in Auctions /\ l \in LotsOf(AuctionOf[l])
      /\ Roster(auction[AuctionOf[l]], LotsOf(AuctionOf[l]), know)
  BY OwnLot, RosterOf DEF Inv
<1>2. Minds(auction[AuctionOf[l]], LotsOf(AuctionOf[l]), know, Due(auction[AuctionOf[l]], know, l))
  BY <1>1, AnswerMinds
<1>3. /\ calls \in Queues /\ OverAsTold(calls, lot) /\ removals' \in [Lots -> Nat]
      /\ astray' \subseteq Lots
  BY DEF Inv, Types, TypesOfLots, TypesOfRosters, OverIsTrue, DeadlineDue
<1> QED BY <1>2, <1>3, OnlyFollowKept DEF DeadlineDue

-----------------------------------------------------------------------------
(* Steps of the lots.                                                      *)

(* Only the lots and their calls move.                                     *)
LEMMA QueuesKept ==
  ASSUME Inv, NEW a \in Auctions, LotsMove(a), lot' \in [Lots -> LotStates],
         \A l \in Lots : RecordedIsOver(lot'[l]),
         calls' \in Queues, OverAsTold(calls', lot'),
         strays' \in [Lots -> SUBSET Kinds], astray' \subseteq Lots,
         presses' \in 0 .. MaxPresses, faults' \in 0 .. MaxFaults,
         UNCHANGED <<auction, roster, slotSide>>
  PROVE  Kept(a)
<1>1. /\ auction' = auction /\ know' = know /\ removals' = removals /\ notes' = notes
      /\ confirmed' = confirmed /\ released' = released /\ slotCalls' = slotCalls
      /\ holder' = holder /\ inquiry' = inquiry
  BY DEF roster, slotSide, slot
<1>2. TypesOfAuctions' /\ PhasesMove(a)
  BY <1>1, AuctionStays DEF Inv
<1>3. SlotMove
  BY <1>1, SlotCallsStay DEF Inv, Types, TypesOfTheSlot
<1>4. KnowsTheGone'
  BY <1>1, <1>2, KnowledgeStays DEF Inv
<1>5. OverIsTrue'
  BY DEF OverIsTrue, RecordedIsOver
<1>6. TypesOfRosters' /\ TypesOfTheSlot'
  BY <1>1 DEF Inv, Types, TypesOfRosters, TypesOfTheSlot
<1>7. TypesOfLots'
  BY DEF TypesOfLots
<1> QED BY <1>1, <1>2, <1>3, <1>4, <1>5, <1>6, <1>7 DEF Kept, Types, Modest, slot

(* When the lots stay as they are.                                         *)
LEMMA CallsKept ==
  ASSUME Inv, NEW a \in Auctions, calls' \in Queues, OverAsTold(calls', lot),
         presses' \in 0 .. MaxPresses, faults' \in 0 .. MaxFaults,
         UNCHANGED <<auction, roster, slotSide, lot, strays, astray>>
  PROVE  Kept(a)
<1>1. LotsMove(a) /\ \A l \in Lots : RecordedIsOver(lot'[l])
  BY DEF LotsMove, Inv, OverIsTrue, RecordedIsOver
<1>2. /\ lot' \in [Lots -> LotStates] /\ strays' \in [Lots -> SUBSET Kinds] /\ astray' \subseteq Lots
      /\ OverAsTold(calls', lot')
  BY DEF Inv, Types, TypesOfLots
<1> QED BY <1>1, <1>2, QueuesKept

(* One call to a lot changes.                                              *)
LEMMA CallChanges ==
  ASSUME calls \in Queues, NEW l \in Lots, NEW i \in DOMAIN calls[l], NEW c \in LotCalls, NEW lots,
         OverAsTold(calls, lots), TellsOver(c) => lots[l].phase \in Over
  PROVE  LET queues == [calls EXCEPT ![l] = [calls[l] EXCEPT ![i] = c]]
         IN  /\ queues \in Queues /\ OverAsTold(queues, lots)
             /\ (Resumes(c) => Resumes(calls[l][i])) =>
                  \A m \in Lots : Resuming(queues[m]) => Resuming(calls[m])
<1> DEFINE queue == [calls[l] EXCEPT ![i] = c]
<1>1. calls[l] \in Seq(LotCalls)
  BY QueueOf
<1>2. /\ queue \in Seq(LotCalls)
      /\ \A j \in DOMAIN queue : j \in DOMAIN calls[l] /\ queue[j] = IF j = i THEN c ELSE calls[l][j]
  BY <1>1, ReplacedCall
<1>3. \A j \in DOMAIN queue : TellsOver(queue[j]) => lots[l].phase \in Over
  BY <1>2 DEF OverAsTold
<1> HIDE DEF queue
<1>4. [calls EXCEPT ![l] = queue] \in Queues
  BY <1>2, QueueType
<1>5. OverAsTold([calls EXCEPT ![l] = queue], lots)
  BY <1>2, <1>3, QueueChanges
<1>6. ASSUME Resumes(c) => Resumes(calls[l][i])
      PROVE  \A m \in Lots : Resuming([calls EXCEPT ![l] = queue][m]) => Resuming(calls[m])
  <2>1. \A m \in Lots : [calls EXCEPT ![l] = queue][m] = IF m = l THEN queue ELSE calls[m]
    BY DEF Queues
  <2>2. Resuming(queue) => Resuming(calls[l])
    BY <1>2, <1>6 DEF Resuming
  <2> QED BY <2>1, <2>2
<1> QED BY <1>4, <1>5, <1>6 DEF queue

LEMMA PendingCall ==
  ASSUME Inv, NEW l \in Lots, NEW i \in DOMAIN calls[l]
  PROVE  /\ calls \in Queues /\ calls[l][i] \in LotCalls
         /\ OverAsTold(calls, lot) /\ (TellsOver(calls[l][i]) => lot[l].phase \in Over)
<1>1. calls \in Queues /\ OverAsTold(calls, lot)
  BY DEF Inv, Types, TypesOfLots, OverIsTrue
<1>2. calls[l] \in Seq(LotCalls) /\ DOMAIN calls[l] = 1 .. Len(calls[l])
  BY <1>1, QueueOf
<1>3. calls[l][i] \in LotCalls
  BY <1>2, ElementOfSeq
<1> QED BY <1>1, <1>3 DEF OverAsTold

(* An auction hears nothing of a call in time.                             *)
LEMMA SilenceKept ==
  ASSUME Inv, NEW l \in Lots, NEW i \in DOMAIN calls[l], LotSilent(l, i)
  PROVE  Kept(AuctionOf[l])
<1> DEFINE a == AuctionOf[l]
           c == calls[l][i]
           late == [c EXCEPT !.waits = FALSE]
           queues == IF c.answer = "Lost" THEN Taken(l, i) ELSE [calls EXCEPT ![l][i].waits = FALSE]
           step == CASE c.kind = "Remove" -> RemovalAnswered(know, l)
                     [] c.kind = "Resume" -> Unmoved(know)
                     [] OTHER             -> Unmoved(Unanswered(know, l))
<1>1. a \in Auctions /\ l \in LotsOf(a) /\ Roster(auction[a], LotsOf(a), know)
  BY OwnLot, RosterOf DEF Inv
<1>2. /\ calls \in Queues /\ c \in LotCalls
      /\ OverAsTold(calls, lot) /\ (TellsOver(c) => lot[l].phase \in Over)
  BY PendingCall
<1>3. late \in LotCalls /\ (TellsOver(late) => TellsOver(c))
  BY <1>2 DEF LotCalls, TellsOver
<1>4. [calls EXCEPT ![l][i].waits = FALSE] = [calls EXCEPT ![l] = [calls[l] EXCEPT ![i] = late]]
  BY <1>2 DEF Queues
<1>5. /\ [calls EXCEPT ![l][i].waits = FALSE] \in Queues
      /\ OverAsTold([calls EXCEPT ![l][i].waits = FALSE], lot)
  BY <1>2, <1>3, <1>4, CallChanges
<1>6. queues \in Queues /\ OverAsTold(queues, lot)
  BY <1>5, TakenKeeps
<1>7. Minds(auction[a], LotsOf(a), know, step)
  BY <1>1, AnswerMinds, SilenceMinds, UnmovedMinds
<1>8. removals' \in [Lots -> Nat]
  BY DEF Inv, Types, TypesOfRosters, LotSilent, RemovalOver
<1>9. faults' \in 0 .. MaxFaults
  BY AuctionsAssumption DEF Inv, Types, TypesOfLots, LotSilent, Fault
<1>10. /\ auction' = auction /\ confirmed' = confirmed /\ released' = released
       /\ slotCalls' = slotCalls /\ UNCHANGED <<slot, lot, strays, astray, presses>>
       /\ Follow(a, queues, step)
  BY DEF LotSilent, slotSide
<1> HIDE DEF a, queues, step
<1>11. SlotMove /\ TypesOfAuctions' /\ PhasesMove(a)
  BY <1>1, <1>10, SlotCallsStay, AuctionStays DEF Inv, Types, TypesOfTheSlot
<1>12. confirmed' \subseteq Auctions /\ released' \subseteq Auctions /\ astray' \subseteq Lots
  BY <1>10 DEF Inv, Types, TypesOfTheSlot, TypesOfLots
<1>13. Kept(a)
  BY <1>1, <1>6, <1>7, <1>8, <1>9, <1>10, <1>11, <1>12, FollowKept
<1> QED BY <1>13 DEF a

LEMMA CallLostKept ==
  ASSUME Inv, NEW l \in Lots, NEW i \in DOMAIN calls[l], CallLost(l, i)
  PROVE  Kept(AuctionOf[l])
<1> DEFINE c == calls[l][i]
           lost == [c EXCEPT !.answer = "Lost"]
<1>1. /\ calls \in Queues /\ c \in LotCalls
      /\ OverAsTold(calls, lot) /\ (TellsOver(c) => lot[l].phase \in Over)
  BY PendingCall
<1>2. lost \in LotCalls /\ ~TellsOver(lost)
  BY <1>1 DEF LotCalls, TellsOver, Answers
<1>3. calls' = [calls EXCEPT ![l] = [calls[l] EXCEPT ![i] = lost]]
  BY <1>1 DEF Queues, CallLost
<1>4. calls' \in Queues /\ OverAsTold(calls', lot)
  BY <1>1, <1>2, <1>3, CallChanges
<1>5. faults' \in 0 .. MaxFaults /\ presses' \in 0 .. MaxPresses
  BY AuctionsAssumption DEF Inv, Types, TypesOfLots, CallLost, Fault
<1>6. /\ auction' = auction /\ UNCHANGED <<roster, slotSide, lot, strays, astray, presses>>
  BY DEF CallLost
<1>7. AuctionOf[l] \in Auctions
  BY OwnLot
<1> QED BY <1>4, <1>5, <1>6, <1>7, CallsKept

(* The lot that a call moves.                                              *)
LEMMA LotChanges ==
  ASSUME Inv, NEW l \in Lots, NEW kind \in Kinds, NEW o \in Outcomes(lot[l], kind),
         lot' = [lot EXCEPT ![l] = o.state]
  PROVE  /\ Fits(lot[l], kind, o) /\ LotsMove(AuctionOf[l])
         /\ lot' \in [Lots -> LotStates] /\ \A m \in Lots : RecordedIsOver(lot'[m])
         /\ OverAsTold(calls, lot') /\ lot'[l] = o.state
<1>1. lot \in [Lots -> LotStates] /\ \A m \in Lots : RecordedIsOver(lot[m])
  BY DEF Inv, Types, TypesOfLots, OverIsTrue, RecordedIsOver
<1>2. Fits(lot[l], kind, o)
  BY <1>1, OutcomeFits
<1>3. \A m \in Lots : lot'[m] = IF m = l THEN o.state ELSE lot[m]
  BY <1>1
<1>4. lot' \in [Lots -> LotStates] /\ \A m \in Lots : RecordedIsOver(lot'[m])
  BY <1>1, <1>2, <1>3 DEF Fits
<1>5. LotsMove(AuctionOf[l])
  BY <1>2, <1>3 DEF LotsMove, Fits
<1>6. OverAsTold(calls, lot')
  BY <1>2, <1>3 DEF Fits, Inv, OverIsTrue, OverAsTold
<1> QED BY <1>2, <1>3, <1>4, <1>5, <1>6

LEMMA StillMoveType ==
  ASSUME NEW s, NEW kinds \in SUBSET Kinds
  PROVE  StillMove(s, kinds) \in SUBSET Kinds
BY DEF StillMove

LEMMA LotHandlesKept ==
  ASSUME Inv, NEW l \in Lots, NEW i \in DOMAIN calls[l], LotHandles(l, i)
  PROVE  Kept(AuctionOf[l])
<1> DEFINE c == calls[l][i]
<1>1. calls \in Queues /\ c \in LotCalls /\ c.kind \in Kinds
  BY PendingCall DEF LotCalls
<1>2. PICK o \in Outcomes(lot[l], c.kind) :
        /\ lot' = [lot EXCEPT ![l] = o.state]
        /\ strays' = [strays EXCEPT ![l] = StillMove(o.state, @)]
        /\ calls' = [calls EXCEPT ![l] =
             IF c.waits THEN [@ EXCEPT ![i].answer = o.answer] ELSE Without(@, i)]
  BY DEF LotHandles
<1>3. /\ Fits(lot[l], c.kind, o) /\ LotsMove(AuctionOf[l])
      /\ lot' \in [Lots -> LotStates] /\ \A m \in Lots : RecordedIsOver(lot'[m])
      /\ OverAsTold(calls, lot') /\ lot'[l] = o.state
  BY <1>1, <1>2, LotChanges
<1>4. strays' \in [Lots -> SUBSET Kinds]
  BY <1>2, StillMoveType DEF Inv, Types, TypesOfLots
<1>5. calls' \in Queues /\ OverAsTold(calls', lot')
  <2> DEFINE answered == [c EXCEPT !.answer = o.answer]
  <2>1. answered \in LotCalls /\ answered.kind = c.kind
    BY <1>1, <1>3 DEF LotCalls, Fits
  <2>2. TellsOver(answered) => lot'[l].phase \in Over
    <3>1. answered.answer = o.answer
      BY <1>1 DEF LotCalls
    <3> QED BY <1>3, <2>1, <3>1 DEF TellsOver, Fits
  <2>3. CASE c.waits
    <3>1. calls' = [calls EXCEPT ![l] = [calls[l] EXCEPT ![i] = answered]]
      BY <1>1, <1>2, <2>3 DEF Queues
    <3> QED BY <1>1, <1>3, <2>1, <2>2, <3>1, CallChanges
  <2>4. CASE ~c.waits
    <3>1. calls' = Taken(l, i)
      BY <1>2, <2>4 DEF Taken
    <3> QED BY <1>1, <1>3, <3>1, TakenType
  <2> QED BY <2>3, <2>4
<1>6. /\ astray' \subseteq Lots /\ presses' \in 0 .. MaxPresses /\ faults' \in 0 .. MaxFaults
      /\ UNCHANGED <<auction, roster, slotSide>>
  BY DEF LotHandles, Inv, Types, TypesOfLots
<1>7. AuctionOf[l] \in Auctions
  BY OwnLot
<1> QED BY <1>3, <1>4, <1>5, <1>6, <1>7, QueuesKept

LEMMA StrayKept ==
  ASSUME Inv, NEW l \in Lots, NEW kind \in strays[l], StrayArrives(l, kind)
  PROVE  Kept(AuctionOf[l])
<1>1. kind \in Kinds /\ strays[l] \in SUBSET Kinds
  BY DEF Inv, Types, TypesOfLots
<1>2. PICK o \in Outcomes(lot[l], kind) :
        /\ lot' = [lot EXCEPT ![l] = o.state]
        /\ strays' = [strays EXCEPT ![l] = StillMove(o.state, @ \ {kind})]
        /\ astray' = astray \cup
             {m \in {l} : /\ o.state # lot[l]
                          /\ kind = "Sale" \/ (kind = "Open" /\ ~WillHear(l))}
  BY DEF StrayArrives
<1>3. /\ LotsMove(AuctionOf[l])
      /\ lot' \in [Lots -> LotStates] /\ \A m \in Lots : RecordedIsOver(lot'[m])
      /\ OverAsTold(calls, lot')
  BY <1>1, <1>2, LotChanges
<1>4. StillMove(o.state, strays[l] \ {kind}) \in SUBSET Kinds
  BY <1>1, StillMoveType
<1>5. strays' \in [Lots -> SUBSET Kinds] /\ astray' \subseteq Lots
  BY <1>2, <1>4 DEF Inv, Types, TypesOfLots
<1>6. /\ calls' = calls /\ calls' \in Queues
      /\ presses' \in 0 .. MaxPresses /\ faults' \in 0 .. MaxFaults
      /\ UNCHANGED <<auction, roster, slotSide>>
  BY DEF StrayArrives, Inv, Types, TypesOfLots
<1>7. AuctionOf[l] \in Auctions
  BY OwnLot
<1> QED BY <1>3, <1>5, <1>6, <1>7, QueuesKept

-----------------------------------------------------------------------------
(* The calls to the slot.                                                  *)

(* An auction gives the slot back only when its trading is over.           *)
LEMMA DueIsPast ==
  ASSUME NEW a \in Auctions, KnowsTheGone', NEW isReleased,
         ReleaseDue(isReleased, auction'[a], know')
  PROVE  Past(a)'
BY DEF KnowsTheGone, ReleaseDue, Trading, Trades, Past, Gone

LEMMA OwnCalls ==
  ASSUME Inv, NEW a \in Auctions
  PROVE  /\ slotCalls \in [Auctions -> SUBSET SlotCalls] /\ slotCalls[a] \in SUBSET SlotCalls
         /\ \A c \in slotCalls[a] : \E d \in slotCalls[a] :
              c.kind = d.kind /\ (Granted(c) => Granted(d))
BY DEF Inv, Types, TypesOfTheSlot

(* A call that nobody waits for any more, or that is no longer fresh, or   *)
(* that is answered.                                                       *)
LEMMA LateCall ==
  ASSUME NEW c \in SlotCalls
  PROVE  LET late == [c EXCEPT !.waits = FALSE, !.fresh = FALSE]
         IN  late \in SlotCalls /\ late.kind = c.kind /\ ~Granted(late)
BY DEF SlotCalls, Granted

LEMMA StaleCall ==
  ASSUME NEW c \in SlotCalls
  PROVE  LET stale == [c EXCEPT !.fresh = FALSE]
         IN  stale \in SlotCalls /\ stale.kind = c.kind /\ (Granted(stale) <=> Granted(c))
BY DEF SlotCalls, Granted

LEMMA AnsweredCall ==
  ASSUME NEW c \in SlotCalls, NEW answer \in {"Granted", "Taken", "Unavailable", "Done", "Silent"}
  PROVE  LET answered == [c EXCEPT !.answer = answer]
         IN  /\ answered \in SlotCalls /\ answered.kind = c.kind
             /\ Granted(answered) => answer = "Granted" /\ c.kind = "Open" /\ c.waits
BY DEF SlotCalls, Granted

LEMMA ReleaseMove ==
  ASSUME Inv, NEW a \in Auctions, KnowsTheGone', ReleaseSlot(a, auction'[a], know')
  PROVE  SlotMove
<1> DEFINE due == ReleaseDue(a \in released, auction'[a], know')
<1>1. due \in BOOLEAN
  BY DEF ReleaseDue
<1>2. due => Past(a)'
  BY DueIsPast
<1>3. CallSlot(a, slotCalls[a], due, "Release")
  BY DEF ReleaseSlot
<1> HIDE DEF due
<1> QED BY <1>1, <1>2, <1>3, OwnCalls, CallSlotMove

(* The timer or a recovery; `pending` is what is left of the calls.        *)
LEMMA ConfirmMove ==
  ASSUME Inv, NEW a \in Auctions, KnowsTheGone', auction' = auction, NEW pending \in SUBSET SlotCalls,
         \A c \in pending : \E d \in slotCalls[a] : c.kind = d.kind /\ (Granted(c) => Granted(d)),
         NEW isConfirmed, NEW isReleased, ConfirmOrRelease(a, pending, isConfirmed, isReleased, know')
  PROVE  SlotMove
<1> DEFINE confirms == ~isConfirmed /\ auction[a].phase \in Holding
           release == ReleaseDue(isReleased, auction[a], know')
           kind == IF confirms THEN "Confirm" ELSE "Release"
<1>1. (confirms \/ release) \in BOOLEAN /\ kind \in {"Open", "Confirm", "Release"}
  BY DEF ReleaseDue
<1>2. (confirms \/ release) /\ kind = "Release" => Past(a)'
  BY DueIsPast
<1>3. CallSlot(a, pending, confirms \/ release, kind)
  BY DEF ConfirmOrRelease
<1>4. slotCalls \in [Auctions -> SUBSET SlotCalls]
  BY OwnCalls
<1> HIDE DEF confirms, release, kind
<1> QED BY <1>1, <1>2, <1>3, <1>4, CallSlotMove

-----------------------------------------------------------------------------
(* Steps of an auction.                                                    *)

LEMMA StepKept ==
  ASSUME Inv, NEW a \in Auctions, TypesOfAuctions', PhasesMove(a), KnowsTheGone', SlotMove,
         know' \in Knowledge, removals' \in [Lots -> Nat], notes' \in [Auctions -> Notes],
         calls' \in Queues, OverAsTold(calls', lot),
         confirmed' \subseteq Auctions, released' \subseteq Auctions,
         strays' \in [Lots -> SUBSET Kinds], presses' \in 0 .. MaxPresses, faults' \in 0 .. MaxFaults,
         UNCHANGED <<slot, lot, astray>>
  PROVE  Kept(a)
<1>1. holder' = holder /\ inquiry' = inquiry /\ lot' = lot /\ astray' = astray
  BY DEF slot
<1>2. TypesOfRosters' /\ TypesOfTheSlot'
  BY <1>1 DEF TypesOfRosters, Inv, Types, TypesOfTheSlot, SlotMove
<1>3. TypesOfLots'
  BY <1>1 DEF Inv, Types, TypesOfLots
<1>4. OverIsTrue' /\ LotsMove(a)
  BY <1>1 DEF Inv, OverIsTrue, OverAsTold, LotsMove
<1> QED BY <1>1, <1>2, <1>3, <1>4 DEF Kept, Types, Modest, slot

(* The types of what a step leaves alone.                                  *)
LEMMA TypesNow ==
  ASSUME Inv
  PROVE  /\ know \in Knowledge /\ removals \in [Lots -> Nat] /\ notes \in [Auctions -> Notes]
         /\ calls \in Queues /\ OverAsTold(calls, lot)
         /\ confirmed \subseteq Auctions /\ released \subseteq Auctions
         /\ strays \in [Lots -> SUBSET Kinds] /\ presses \in 0 .. MaxPresses
         /\ faults \in 0 .. MaxFaults /\ astray \subseteq Lots
BY DEF Inv, Types, TypesOfRosters, TypesOfTheSlot, TypesOfLots, OverIsTrue

LEMMA LotWithdrewKept ==
  ASSUME Inv, NEW l \in Lots, NEW i \in DOMAIN calls[l], LotWithdrew(l, i)
  PROVE  Kept(AuctionOf[l])
<1> DEFINE a == AuctionOf[l]
           step == Withdrawn(know, l, calls[l][i].answer)
<1>1. a \in Auctions /\ l \in LotsOf(a)
  BY OwnLot
<1>2. Taken(l, i) \in Queues /\ OverAsTold(Taken(l, i), lot)
  BY TakenKeeps
<1>3. /\ StepOK(step) /\ \A m \in Lots \ {l} : step.know[m] = know[m]
      /\ step.know[l] = know[l] \/ step.know[l] \in Gone
  BY TypesNow, WithdrawnType
<1>4. lot[l].phase \in Over
  BY PendingCall DEF LotWithdrew, AnsweredByLot, TellsOver, SaysOver
<1>5. /\ Follow(a, Taken(l, i), step) /\ ReleaseSlot(a, auction[a], step.know)
      /\ UNCHANGED <<auction, removals, confirmed, released, slot, lot, strays, astray, presses, faults>>
  BY DEF LotWithdrew
<1> HIDE DEF a, step
<1>6. /\ know' = step.know /\ know' \in Knowledge /\ notes' \in [Auctions -> Notes]
      /\ calls' \in Queues /\ OverAsTold(calls', lot)
  BY <1>1, <1>2, <1>3, <1>5, FollowType, TypesNow
<1>7. TypesOfAuctions' /\ PhasesMove(a) /\ LotsMove(a)
  BY <1>1, <1>5, AuctionStays DEF Inv, LotsMove
<1>8. \A m \in Lots \ LotsOf(a) : know'[m] = know[m]
  BY <1>1, <1>3, <1>6
<1>9. ASSUME auction'[a].phase = "Cancelled", NEW m \in auction'[a].registry
      PROVE  know'[m] \in Fading /\ (know'[m] \in Gone => lot'[m].phase \in Over)
  <2>1. m \in Lots /\ auction'[a] = auction[a] /\ lot' = lot
    BY <1>1, <1>5, <1>7, <1>9 DEF TypesOfAuctions, Owns, LotsOf
  <2>2. know[m] \in Fading /\ (know[m] \in Gone => lot[m].phase \in Over)
    BY <1>1, <1>9, <2>1 DEF Inv, KnowsTheGone
  <2>3. know'[m] = know[m] \/ (m = l /\ know'[m] \in Gone)
    BY <1>3, <1>6, <2>1
  <2> QED BY <1>4, <2>1, <2>2, <2>3 DEF Gone, Fading
<1>10. KnowsTheGone'
  BY <1>1, <1>7, <1>8, <1>9, KnowledgeChanges DEF Inv
<1>11. SlotMove
  <2>1. ReleaseSlot(a, auction'[a], know')
    BY <1>5, <1>6
  <2> QED BY <1>1, <1>10, <2>1, ReleaseMove
<1>12. Kept(a)
  BY <1>1, <1>5, <1>6, <1>7, <1>10, <1>11, StepKept, TypesNow
<1> QED BY <1>12 DEF a

(* A lot of the final is completed.                                        *)
LEMMA CompletedType ==
  ASSUME Inv, NEW a \in Auctions, NEW l \in Lots
  PROVE  /\ Completed(a, l) \in AuctionStates /\ Owns(Completed(a, l), LotsOf(a))
         /\ Completed(a, l).phase = auction[a].phase /\ Completed(a, l).registry = auction[a].registry
<1>1. auction[a] \in AuctionStates /\ Owns(auction[a], LotsOf(a))
  BY DEF Inv, Types, TypesOfAuctions
<1>2. auction[a].completed \cup ({l} \cap ActiveLots(auction[a])) \in SUBSET Lots
  BY <1>1 DEF AuctionStates
<1> QED BY <1>1, <1>2 DEF Completed, AuctionStates, Owns, Members

LEMMA CompletionMoves ==
  ASSUME Inv, NEW a \in Auctions, NEW l \in Lots, auction' = [auction EXCEPT ![a] = Completed(a, l)]
  PROVE  /\ TypesOfAuctions' /\ PhasesMove(a)
         /\ auction'[a].phase = "Cancelled" => auction[a].phase = "Cancelled"
<1>1. /\ Completed(a, l) \in AuctionStates /\ Owns(Completed(a, l), LotsOf(a))
      /\ Completed(a, l).phase = auction[a].phase /\ Completed(a, l).registry = auction[a].registry
  BY CompletedType
<1>2. TypesOfAuctions' /\ PhasesMove(a)
  BY <1>1, AuctionChanges DEF Inv
<1>3. auction'[a] = Completed(a, l)
  BY DEF Inv, Types, TypesOfAuctions
<1> QED BY <1>1, <1>2, <1>3

LEMMA LotEndedKept ==
  ASSUME Inv, NEW l \in Lots, NEW i \in DOMAIN calls[l], LotEnded(l, i)
  PROVE  Kept(AuctionOf[l])
<1> DEFINE a == AuctionOf[l]
           answer == calls[l][i].answer
           step == EndedByAuctioneer(auction[a], know, removals, l, answer)
<1>1. a \in Auctions /\ l \in LotsOf(a) /\ Roster(auction[a], LotsOf(a), know)
  BY OwnLot, RosterOf DEF Inv
<1>2. Taken(l, i) \in Queues /\ OverAsTold(Taken(l, i), lot)
  BY TakenKeeps
<1>3. Minds(auction[a], LotsOf(a), know, step)
  BY <1>1, AnswerMinds
<1>4. Minds(auction[a], LotsOf(a), know, Ended(a, l, step))
  <2> DEFINE over == LineupCompleted(Completed(a, l)) /\ l \in Completed(a, l).completed
             finish == step.notes.finish \/ over
  <2>1. StepOK(step) /\ step.notes \in Notes /\ step = [know |-> step.know, calls |-> step.calls, notes |-> step.notes]
    BY <1>3 DEF Minds, StepOK
  <2>2. finish \in BOOLEAN /\ [step.notes EXCEPT !.finish = finish] \in Notes
    BY <2>1 DEF Notes, LineupCompleted
  <2>3. Ended(a, l, step) = [step EXCEPT !.notes = [step.notes EXCEPT !.finish = finish]]
    BY <2>1 DEF Ended, Notes
  <2> HIDE DEF finish, step
  <2>4. StepOK(Ended(a, l, step)) /\ Ended(a, l, step).know = step.know
    BY <2>1, <2>2, <2>3 DEF StepOK
  <2> QED BY <1>3, <2>4 DEF Minds
<1>5. /\ IF answer = "Refused"
           THEN Follow(a, Taken(l, i), step) /\ auction' = auction
           ELSE /\ auction' = [auction EXCEPT ![a] = Completed(a, l)]
                /\ Follow(a, Taken(l, i), Ended(a, l, step))
      /\ UNCHANGED <<removals, confirmed, released, slotCalls, faults>>
      /\ UNCHANGED <<slot, lot, strays, astray, presses>>
  BY DEF LotEnded, slotSide
<1>6. SlotMove
  BY <1>5, SlotCallsStay, OwnCalls, <1>1
<1> HIDE DEF a, answer, step
<1>7. CASE answer = "Refused"
  <2>1. TypesOfAuctions' /\ PhasesMove(a) /\ Follow(a, Taken(l, i), step) /\ auction' = auction
    BY <1>1, <1>5, <1>7, AuctionStays DEF Inv
  <2> QED BY <1>1, <1>2, <1>3, <1>5, <1>6, <2>1, TypesNow, FollowKept DEF a
<1>8. CASE answer # "Refused"
  <2>1. /\ TypesOfAuctions' /\ PhasesMove(a) /\ Follow(a, Taken(l, i), Ended(a, l, step))
        /\ auction'[a].phase = "Cancelled" => auction[a].phase = "Cancelled"
    BY <1>1, <1>5, <1>8, CompletionMoves
  <2> QED BY <1>1, <1>2, <1>4, <1>5, <1>6, <2>1, TypesNow, FollowKept DEF a
<1> QED BY <1>7, <1>8

(* The phase of an auction that is under way changes, to none in which it  *)
(* was not planned and none in which it is cancelled.                      *)
LEMMA PhaseMoves ==
  ASSUME Inv, NEW a \in Auctions, auction[a].phase \in Holding, NEW phase \in Phases \ Unplanned,
         auction' = [auction EXCEPT ![a] = [auction[a] EXCEPT !.phase = phase]]
  PROVE  /\ TypesOfAuctions' /\ PhasesMove(a)
         /\ auction'[a] = [auction[a] EXCEPT !.phase = phase] /\ auction'[a].phase = phase
<1> DEFINE after == [auction[a] EXCEPT !.phase = phase]
<1>1. after \in AuctionStates /\ Owns(after, LotsOf(a)) /\ auction[a].phase \notin Unplanned
  BY PhaseType DEF Inv, Holding, Asking, Unplanned
<1>2. after.phase = phase
  BY DEF Inv, Types, TypesOfAuctions, AuctionStates
<1>3. TypesOfAuctions' /\ PhasesMove(a)
  BY <1>1, <1>2, AuctionChanges DEF Inv
<1> QED BY <1>2, <1>3 DEF Inv, Types, TypesOfAuctions

LEMMA PrebiddingKept ==
  ASSUME Inv, NEW a \in Auctions, PrebiddingDue(a)
  PROVE  Kept(a)
<1> DEFINE after == [auction[a] EXCEPT !.phase = "Settling"]
<1>1. /\ auction' = [auction EXCEPT ![a] = after] /\ Follow(a, calls, Settling(after, Unmoved(know)))
      /\ slotCalls' = slotCalls /\ UNCHANGED <<removals, confirmed, released, faults>>
      /\ UNCHANGED <<slot, lot, strays, astray, presses>>
  BY DEF PrebiddingDue, slotSide
<1>2. auction[a].phase \in Holding /\ "Settling" \in Phases \ Unplanned
  BY DEF PrebiddingDue, Holding, Asking, Phases, Unplanned
<1>3. TypesOfAuctions' /\ PhasesMove(a) /\ auction'[a].phase = "Settling"
  BY <1>1, <1>2, PhaseMoves
<1>4. StepOK(Settling(after, Unmoved(know))) /\ Settling(after, Unmoved(know)).know = know
  <2>1. StepOK(Unmoved(know)) /\ Unmoved(know).know = know
    BY StepType, TypesNow
  <2> QED BY <2>1, NotedType
<1>5. Minds(auction[a], LotsOf(a), know, Settling(after, Unmoved(know)))
  BY <1>4 DEF Minds
<1>6. SlotMove
  BY <1>1, SlotCallsStay, OwnCalls
<1> QED BY <1>1, <1>3, <1>5, <1>6, TypesNow, FollowKept

(* The journal of an auction changes, or a message to itself is gone.      *)
LEMMA JournalKept ==
  ASSUME Inv, NEW a \in Auctions, TypesOfAuctions', PhasesMove(a),
         auction'[a].phase = "Cancelled" => auction[a].phase = "Cancelled",
         notes' \in [Auctions -> Notes],
         slotCalls' = slotCalls \/ ReleaseSlot(a, auction'[a], know'),
         UNCHANGED <<know, removals, confirmed, released, slot, lotSide, faults>>
  PROVE  Kept(a)
<1>1. /\ UNCHANGED <<know, removals, confirmed, released, slot, faults>>
      /\ UNCHANGED <<lot, calls, strays, astray, presses>>
  BY DEF lotSide
<1>2. LotsMove(a)
  BY <1>1 DEF LotsMove
<1>3. KnowsTheGone'
  BY <1>1, <1>2, KnowledgeStays DEF Inv
<1>4. SlotMove
  BY <1>3, SlotCallsStay, ReleaseMove, OwnCalls
<1> QED BY <1>1, <1>3, <1>4, StepKept, TypesNow

LEMMA LotsSettledKept ==
  ASSUME Inv, NEW a \in Auctions, NEW held \in BOOLEAN, LotsSettled(a, held)
  PROVE  Kept(a)
<1> DEFINE phase == IF held THEN "Break" ELSE "Finished"
           after == [auction[a] EXCEPT !.phase = phase]
<1>1. notes' \in [Auctions -> Notes]
  BY TypesNow DEF LotsSettled, Notes
<1>2. UNCHANGED <<know, removals, confirmed, released, slot, lotSide, faults>>
  BY DEF LotsSettled
<1>3. CASE auction[a].phase = "Settling"
  <2>1. auction' = [auction EXCEPT ![a] = after] /\ ReleaseSlot(a, after, know)
    BY <1>3 DEF LotsSettled
  <2>2. auction[a].phase \in Holding /\ phase \in Phases \ Unplanned /\ phase # "Cancelled"
    BY <1>3 DEF Holding, Asking, Phases, Unplanned
  <2> HIDE DEF phase
  <2>3. TypesOfAuctions' /\ PhasesMove(a) /\ auction'[a] = after /\ auction'[a].phase = phase
    BY <2>1, <2>2, PhaseMoves
  <2>4. ReleaseSlot(a, auction'[a], know')
    BY <1>2, <2>1, <2>3
  <2> QED BY <1>1, <1>2, <2>2, <2>3, <2>4, JournalKept
<1>4. CASE auction[a].phase # "Settling"
  <2>1. auction' = auction /\ slotCalls' = slotCalls
    BY <1>4 DEF LotsSettled
  <2>2. TypesOfAuctions' /\ PhasesMove(a)
    BY <2>1, AuctionStays DEF Inv
  <2> QED BY <1>1, <1>2, <2>1, <2>2, JournalKept
<1> QED BY <1>3, <1>4

LEMMA FinishKept ==
  ASSUME Inv, NEW a \in Auctions, FinishDue(a)
  PROVE  Kept(a)
<1> DEFINE after == [auction[a] EXCEPT !.phase = "Finished"]
<1>1. notes' \in [Auctions -> Notes]
  BY TypesNow DEF FinishDue, Notes
<1>2. UNCHANGED <<know, removals, confirmed, released, slot, lotSide, faults>>
  BY DEF FinishDue
<1>3. CASE LineupCompleted(auction[a]) \/ Sold(a)
  <2>1. auction' = [auction EXCEPT ![a] = after] /\ ReleaseSlot(a, after, know)
    BY <1>3 DEF FinishDue
  <2>2. auction[a].phase \in Holding /\ "Finished" \in Phases \ Unplanned
    BY <1>3 DEF LineupCompleted, Sold, LineupKnown, Holding, Asking, Phases, Unplanned
  <2>3. TypesOfAuctions' /\ PhasesMove(a) /\ auction'[a] = after /\ auction'[a].phase = "Finished"
    BY <2>1, <2>2, PhaseMoves
  <2>4. ReleaseSlot(a, auction'[a], know')
    BY <1>2, <2>1, <2>3
  <2> QED BY <1>1, <1>2, <2>3, <2>4, JournalKept
<1>4. CASE ~(LineupCompleted(auction[a]) \/ Sold(a))
  <2>1. auction' = auction /\ slotCalls' = slotCalls
    BY <1>4 DEF FinishDue
  <2>2. TypesOfAuctions' /\ PhasesMove(a)
    BY <2>1, AuctionStays DEF Inv
  <2> QED BY <1>1, <1>2, <2>1, <2>2, JournalKept
<1> QED BY <1>3, <1>4

LEMMA FinalLotEndedKept ==
  ASSUME Inv, NEW a \in Auctions, NEW l \in LotsOf(a), FinalLotEnded(a, l)
  PROVE  Kept(a)
<1> DEFINE over == LineupCompleted(Completed(a, l)) /\ l \in Completed(a, l).completed
<1>1. l \in Lots
  BY DEF LotsOf
<1>2. TypesOfAuctions' /\ PhasesMove(a) /\ (auction'[a].phase = "Cancelled" => auction[a].phase = "Cancelled")
  BY <1>1, CompletionMoves DEF FinalLotEnded
<1>3. notes' \in [Auctions -> Notes]
  <2>1. over \in BOOLEAN
    BY DEF LineupCompleted
  <2> DEFINE fewer == [notes EXCEPT ![a].ended = notes[a].ended \ {l}]
             finish == notes[a].finish \/ over
  <2>2. fewer \in [Auctions -> Notes] /\ fewer[a].finish = notes[a].finish
    BY TypesNow DEF Notes
  <2>3. finish \in BOOLEAN
    BY <2>1, TypesNow DEF Notes
  <2>4. notes' = [fewer EXCEPT ![a].finish = finish]
    BY <2>2, TypesNow DEF FinalLotEnded
  <2> HIDE DEF fewer, finish
  <2> QED BY <2>2, <2>3, <2>4 DEF Notes
<1>4. /\ slotCalls' = slotCalls
      /\ UNCHANGED <<know, removals, confirmed, released, slot, lotSide, faults>>
  BY DEF FinalLotEnded, slotSide
<1> QED BY <1>2, <1>3, <1>4, JournalKept

LEMMA FreezeKept ==
  ASSUME Inv, NEW a \in Auctions, NEW order, Freeze(a, order)
  PROVE  Kept(a)
<1> DEFINE after == [auction[a] EXCEPT !.phase = "LineupFrozen", !.order = order]
           held == HeldLots(auction[a], know)
<1>1. auction[a] \in AuctionStates /\ Owns(auction[a], LotsOf(a)) /\ held \subseteq auction[a].registry
  BY DEF Inv, Types, TypesOfAuctions, HeldLots
<1>2. order \in Seq(Lots) /\ Members(order) \subseteq LotsOf(a)
  <2>1. order \in [1 .. Cardinality(held) -> held] /\ Members(order) = held
    BY DEF Freeze, Orders
  <2>2. IsFiniteSet(held) /\ held \subseteq Lots
    <3>1. held \subseteq Lots
      BY <1>1 DEF AuctionStates
    <3> QED BY <3>1, AuctionsAssumption, FS_Subset
  <2>3. Cardinality(held) \in Nat
    BY <2>2, FS_CardinalityType
  <2>4. order \in [1 .. Cardinality(held) -> Lots]
    BY <2>1, <2>2
  <2>5. order \in Seq(Lots)
    BY <2>3, <2>4, SeqDef
  <2> QED BY <1>1, <2>1, <2>5 DEF Owns
<1>3. after \in AuctionStates /\ Owns(after, LotsOf(a))
  BY <1>1, <1>2 DEF AuctionStates, Owns, Phases, Holding
<1>4. auction[a].phase \in Holding \ Unplanned /\ after.phase \in Holding \ Unplanned /\ after.phase # "Cancelled"
  BY <1>1 DEF Freeze, LineupKnown, Holding, Asking, Unplanned, AuctionStates
<1>5. auction' = [auction EXCEPT ![a] = after]
  BY <1>1 DEF Freeze, AuctionStates, Inv, Types, TypesOfAuctions
<1> HIDE DEF after
<1>6. TypesOfAuctions' /\ PhasesMove(a)
  BY <1>3, <1>4, <1>5, AuctionChanges DEF Inv
<1>7. auction'[a].phase # "Cancelled"
  BY <1>4, <1>5 DEF Inv, Types, TypesOfAuctions
<1>8. /\ slotCalls' = slotCalls /\ notes' \in [Auctions -> Notes]
      /\ UNCHANGED <<know, removals, confirmed, released, slot, lotSide, faults>>
  BY TypesNow DEF Freeze, slotSide, roster
<1> QED BY <1>6, <1>7, <1>8, JournalKept

LEMMA BeginFinalKept ==
  ASSUME Inv, NEW a \in Auctions, BeginFinal(a)
  PROVE  Kept(a)
<1>1. auction' = [auction EXCEPT ![a] = [auction[a] EXCEPT !.phase = "Final"]]
  BY DEF BeginFinal, Advance, Inv, Types, TypesOfAuctions
<1>2. auction[a].phase \in Holding /\ "Final" \in Phases \ Unplanned
  BY DEF BeginFinal, Holding, Asking, Phases, Unplanned
<1>3. TypesOfAuctions' /\ PhasesMove(a) /\ auction'[a].phase = "Final"
  BY <1>1, <1>2, PhaseMoves
<1>4. /\ slotCalls' = slotCalls /\ notes' \in [Auctions -> Notes]
      /\ UNCHANGED <<know, removals, confirmed, released, slot, lotSide, faults>>
  BY TypesNow DEF BeginFinal, slotSide, roster
<1> QED BY <1>3, <1>4, JournalKept

LEMMA LotReturnedKept ==
  ASSUME Inv, NEW l \in Lots, NEW i \in DOMAIN calls[l], LotReturned(l, i)
  PROVE  Kept(AuctionOf[l])
<1> DEFINE a == AuctionOf[l]
           after == [auction[a] EXCEPT !.activated = Append(@, l)]
<1>1. a \in Auctions /\ l \in LotsOf(a)
  BY OwnLot
<1>2. calls' \in Queues /\ OverAsTold(calls', lot)
  BY TakenKeeps DEF LotReturned
<1>3. /\ UNCHANGED <<know, removals, notes, confirmed, released, slotCalls, slot>>
      /\ UNCHANGED <<lot, strays, astray, presses, faults>>
  BY DEF LotReturned, roster, slotSide
<1>4. TypesOfAuctions' /\ PhasesMove(a) /\ (auction'[a].phase = "Cancelled" => auction[a].phase = "Cancelled")
  <2>1. CASE auction' = auction
    BY <1>1, <2>1, AuctionStays DEF Inv
  <2>2. CASE auction' = [auction EXCEPT ![a] = after]
    <3>1. auction[a] \in AuctionStates /\ Owns(auction[a], LotsOf(a))
      BY <1>1 DEF Inv, Types, TypesOfAuctions
    <3>2. /\ Append(auction[a].activated, l) \in Seq(Lots)
          /\ Members(Append(auction[a].activated, l)) \subseteq LotsOf(a)
      <4>1. auction[a].activated \in Seq(Lots) /\ Members(auction[a].activated) \subseteq LotsOf(a)
        BY <3>1 DEF AuctionStates, Owns
      <4>2. /\ Append(auction[a].activated, l) \in Seq(Lots)
            /\ Len(Append(auction[a].activated, l)) = Len(auction[a].activated) + 1
            /\ \A j \in 1 .. Len(auction[a].activated) :
                 Append(auction[a].activated, l)[j] = auction[a].activated[j]
            /\ Append(auction[a].activated, l)[Len(auction[a].activated) + 1] = l
        BY <4>1, AppendProperties
      <4>3. /\ DOMAIN auction[a].activated = 1 .. Len(auction[a].activated)
            /\ Len(auction[a].activated) \in Nat
            /\ DOMAIN Append(auction[a].activated, l) = 1 .. Len(auction[a].activated) + 1
        BY <4>1, <4>2, LenProperties
      <4> QED BY <1>1, <4>1, <4>2, <4>3 DEF Members
    <3>3. /\ after \in AuctionStates /\ Owns(after, LotsOf(a))
          /\ after.phase = auction[a].phase /\ after.registry = auction[a].registry
      BY <3>1, <3>2 DEF AuctionStates, Owns
    <3>4. auction'[a] = after
      BY <1>1, <2>2 DEF Inv, Types, TypesOfAuctions
    <3> HIDE DEF a, after
    <3> QED BY <1>1, <2>2, <3>3, <3>4, AuctionChanges DEF Inv
  <2>3. auction' = auction \/ auction' = [auction EXCEPT ![a] = after]
    BY DEF LotReturned, Inv, Types, TypesOfAuctions
  <2> QED BY <2>1, <2>2, <2>3
<1>5. KnowsTheGone' /\ SlotMove
  <2>1. LotsMove(a)
    BY <1>3 DEF LotsMove
  <2> QED BY <1>1, <1>3, <1>4, <2>1, KnowledgeStays, SlotCallsStay, OwnCalls DEF Inv
<1> QED BY <1>1, <1>2, <1>3, <1>4, <1>5, StepKept, TypesNow

LEMMA RecheckKept ==
  ASSUME Inv, NEW a \in Auctions, Recheck(a)
  PROVE  Kept(a)
<1> DEFINE step == AskSilent(auction[a], know)
<1>1. Minds(auction[a], LotsOf(a), know, step)
  BY RosterOf, AskingMinds DEF Inv
<1>2. /\ Follow(a, calls, step)
      /\ ConfirmOrRelease(a, slotCalls[a], a \in confirmed, a \in released, step.know)
      /\ UNCHANGED <<auction, removals, confirmed, released, faults>>
      /\ UNCHANGED <<slot, lot, strays, astray, presses>>
  BY DEF Recheck
<1> HIDE DEF step
<1>3. TypesOfAuctions' /\ PhasesMove(a)
  BY <1>2, AuctionStays DEF Inv
<1>4. know' = step.know /\ KnowsTheGone' /\ (SlotMove => Kept(a))
  BY <1>1, <1>2, <1>3, TypesNow, FollowKept
<1>5. SlotMove
  <2>1. ConfirmOrRelease(a, slotCalls[a], a \in confirmed, a \in released, know')
    BY <1>2, <1>4
  <2> QED BY <1>2, <1>4, <2>1, OwnCalls, ConfirmMove
<1> QED BY <1>4, <1>5

(* A roster that begins anew.                                              *)
LEMMA SurveyKnows ==
  ASSUME Inv, NEW a \in Auctions, NEW au \in AuctionStates, Owns(au, LotsOf(a))
  PROVE  /\ StepOK(Survey(au, Forgotten(a)))
         /\ \A l \in Lots \ LotsOf(a) : Survey(au, Forgotten(a)).know[l] = know[l]
         /\ au.phase = "Cancelled" =>
              \A l \in au.registry : Survey(au, Forgotten(a)).know[l] = "Withdrawing"
<1>1. /\ Roster(au, LotsOf(a), Forgotten(a))
      /\ \A l \in Lots \ LotsOf(a) : Forgotten(a)[l] = know[l]
  BY RosterOf DEF Inv, Roster
<1>2. /\ Minds(au, LotsOf(a), Forgotten(a), Survey(au, Forgotten(a)))
      /\ au.phase = "Cancelled" =>
           \A l \in au.registry : Survey(au, Forgotten(a)).know[l] = "Withdrawing"
  BY <1>1, SurveyMinds
<1> QED BY <1>1, <1>2 DEF Minds

LEMMA RestartKept ==
  ASSUME Inv, NEW a \in Auctions, AuctionRestarts(a)
  PROVE  Kept(a)
<1> DEFINE step == Survey(auction[a], Forgotten(a))
           left == {[c EXCEPT !.waits = FALSE, !.fresh = FALSE] :
                      c \in {d \in slotCalls[a] : d.answer = "None"}}
           queues == [l \in Lots |-> IF l \in LotsOf(a) THEN <<>> ELSE calls[l]]
<1>1. auction[a] \in AuctionStates /\ Owns(auction[a], LotsOf(a))
  BY DEF Inv, Types, TypesOfAuctions
<1>2. /\ StepOK(step) /\ \A l \in Lots \ LotsOf(a) : step.know[l] = know[l]
      /\ auction[a].phase = "Cancelled" => \A l \in auction[a].registry : step.know[l] = "Withdrawing"
  BY <1>1, SurveyKnows
<1>3. strays' \in [Lots -> SUBSET Kinds]
  <2> DEFINE sentByIt(l) == {calls[l][i].kind : i \in Unhandled(l)} \ {"Ask"}
  <2>1. ASSUME NEW l \in Lots
        PROVE  strays[l] \in SUBSET Kinds /\ strays[l] \cup sentByIt(l) \in SUBSET Kinds
    <3>1. strays[l] \in SUBSET Kinds
      BY TypesNow
    <3>2. \A i \in DOMAIN calls[l] : calls[l][i].kind \in Kinds
      BY PendingCall DEF LotCalls
    <3> QED BY <3>1, <3>2 DEF Unhandled
  <2>2. strays' = [l \in Lots |-> IF l \in LotsOf(a) THEN StillMove(lot[l], strays[l] \cup sentByIt(l))
                                  ELSE strays[l]]
    BY DEF AuctionRestarts
  <2> HIDE DEF sentByIt
  <2> QED BY <2>1, <2>2, StillMoveType
<1>4. /\ removals' = Uncounted(a) /\ know' = step.know
      /\ calls' = Sent(queues, step.calls) /\ notes' = [notes EXCEPT ![a] = step.notes]
      /\ confirmed' = confirmed \ {a} /\ released' = released \ {a}
      /\ ConfirmOrRelease(a, left, FALSE, FALSE, step.know)
      /\ UNCHANGED <<auction, slot, lot, astray, presses>> /\ Fault
  BY DEF AuctionRestarts
<1>5. left \in SUBSET SlotCalls /\ \A c \in left : \E d \in slotCalls[a] :
                                      c.kind = d.kind /\ (Granted(c) => Granted(d))
  <2>1. ASSUME NEW c \in left
        PROVE  c \in SlotCalls /\ \E d \in slotCalls[a] : c.kind = d.kind /\ (Granted(c) => Granted(d))
    <3>1. PICK d \in slotCalls[a] : c = [d EXCEPT !.waits = FALSE, !.fresh = FALSE]
      OBVIOUS
    <3>2. d \in SlotCalls
      BY OwnCalls
    <3>3. c \in SlotCalls /\ c.kind = d.kind /\ ~Granted(c)
      BY <3>1, <3>2, LateCall
    <3> QED BY <3>3
  <2> QED BY <2>1
<1>6. queues \in Queues /\ OverAsTold(queues, lot)
  <2>1. \A l \in Lots : queues[l] \in Seq(LotCalls) /\ (queues[l] = <<>> \/ queues[l] = calls[l])
    BY TypesNow, QueueOf, EmptySeq
  <2>2. \A j \in DOMAIN <<>> : FALSE
    OBVIOUS
  <2> QED BY <2>1, <2>2, TypesNow DEF Queues, OverAsTold
<1> HIDE DEF step, left, queues
<1>7. calls' \in Queues /\ OverAsTold(calls', lot)
  BY <1>2, <1>4, <1>6, SentType DEF StepOK
<1>8. TypesOfAuctions' /\ PhasesMove(a) /\ LotsMove(a)
  BY <1>4, AuctionStays DEF Inv, LotsMove
<1>9. KnowsTheGone'
  <2>1. \A l \in Lots \ LotsOf(a) : know'[l] = know[l]
    BY <1>2, <1>4
  <2>2. auction'[a].phase = "Cancelled" =>
          \A l \in auction'[a].registry :
            know'[l] \in Fading /\ (know'[l] \in Gone => lot'[l].phase \in Over)
    BY <1>2, <1>4 DEF Fading, Gone
  <2> QED BY <1>8, <2>1, <2>2, KnowledgeChanges DEF Inv
<1>10. SlotMove
  <2>1. ConfirmOrRelease(a, left, FALSE, FALSE, know') /\ auction' = auction
    BY <1>4
  <2> QED BY <1>5, <1>9, <2>1, ConfirmMove
<1>11. know' \in Knowledge /\ notes' \in [Auctions -> Notes] /\ removals' \in [Lots -> Nat]
  BY <1>2, <1>4, RosterOf, TypesNow DEF StepOK, Inv
<1>12. /\ confirmed' \subseteq Auctions /\ released' \subseteq Auctions
       /\ presses' \in 0 .. MaxPresses /\ faults' \in 0 .. MaxFaults
  BY <1>4, TypesNow, AuctionsAssumption DEF Fault
<1> QED BY <1>3, <1>4, <1>7, <1>8, <1>9, <1>10, <1>11, <1>12, StepKept

(* A person adds a call.                                                   *)
LEMMA SendKeeps ==
  ASSUME Inv, NEW l \in Lots, NEW kind \in Kinds, Sends(l, kind)
  PROVE  /\ calls' \in Queues /\ OverAsTold(calls', lot)
         /\ \A m \in Lots : Resuming(calls'[m]) => Resuming(calls[m]) \/ (m = l /\ kind = "Resume")
<1> DEFINE queue == Append(calls[l], Call(kind))
<1>1. calls \in Queues /\ OverAsTold(calls, lot) /\ calls[l] \in Seq(LotCalls)
  BY TypesNow, QueueOf
<1>2. /\ queue \in Seq(LotCalls)
      /\ \A i \in DOMAIN queue :
           (\E j \in DOMAIN calls[l] : queue[i] = calls[l][j]) \/ queue[i] = Call(kind)
  BY <1>1, AppendedCall
<1>3. calls' = [calls EXCEPT ![l] = queue]
  BY DEF Sends
<1> HIDE DEF queue
<1>4. \A i \in DOMAIN queue : TellsOver(queue[i]) => lot[l].phase \in Over
  BY <1>1, <1>2, CallType DEF OverAsTold
<1>5. calls' \in Queues
  BY <1>1, <1>2, <1>3, QueueType
<1>6. OverAsTold(calls', lot)
  BY <1>1, <1>2, <1>3, <1>4, QueueChanges
<1>7. \A m \in Lots : Resuming(calls'[m]) => Resuming(calls[m]) \/ (m = l /\ kind = "Resume")
  <2>1. \A m \in Lots : calls'[m] = IF m = l THEN queue ELSE calls[m]
    BY <1>1, <1>3 DEF Queues
  <2>2. Resuming(queue) => Resuming(calls[l]) \/ kind = "Resume"
    BY <1>2, CallType DEF Resuming
  <2> QED BY <2>1, <2>2
<1> QED BY <1>5, <1>6, <1>7

LEMMA NextLotKept ==
  ASSUME Inv, NEW a \in Auctions, NEW l \in LotsOf(a), NextLot(a, l)
  PROVE  Kept(a)
<1>1. l \in Lots /\ "Resume" \in Kinds /\ Sends(l, "Resume")
  BY DEF LotsOf, Kinds, NextLot
<1>2. calls' \in Queues /\ OverAsTold(calls', lot)
  BY <1>1, SendKeeps
<1>3. /\ presses' \in 0 .. MaxPresses /\ faults' \in 0 .. MaxFaults
      /\ UNCHANGED <<auction, roster, slotSide, lot, strays, astray>>
  BY TypesNow DEF NextLot
<1> QED BY <1>2, <1>3, CallsKept

LEMMA PressesType ==
  ASSUME Inv, NEW l \in Lots, NEW kind \in Kinds, Presses(l, kind)
  PROVE  presses' \in 0 .. MaxPresses /\ calls' \in Queues /\ OverAsTold(calls', lot)
<1>1. presses' \in 0 .. MaxPresses
  BY TypesNow, AuctionsAssumption DEF Presses
<1>2. Sends(l, kind)
  BY DEF Presses
<1> QED BY <1>1, <1>2, SendKeeps

LEMMA CloseByAuctioneerKept ==
  ASSUME Inv, NEW a \in Auctions, NEW l \in LotsOf(a), CloseByAuctioneer(a, l)
  PROVE  Kept(a)
<1>1. l \in Lots /\ "Sale" \in Kinds /\ Presses(l, "Sale")
  BY DEF LotsOf, Kinds, CloseByAuctioneer
<1>2. presses' \in 0 .. MaxPresses /\ calls' \in Queues /\ OverAsTold(calls', lot)
  BY <1>1, PressesType
<1>3. /\ auction[a].phase # "Cancelled"
      /\ UNCHANGED <<auction, removals, notes, confirmed, released, slotCalls, faults>>
      /\ UNCHANGED <<slot, lot, strays, astray>>
  BY DEF CloseByAuctioneer, slotSide
<1>4. /\ know' \in Knowledge /\ \A m \in Lots \ LotsOf(a) : know'[m] = know[m]
  BY <1>1, TypesNow, ClosingType DEF CloseByAuctioneer
<1>5. TypesOfAuctions' /\ PhasesMove(a) /\ LotsMove(a)
  BY <1>3, AuctionStays DEF Inv, LotsMove
<1>6. KnowsTheGone'
  BY <1>3, <1>4, <1>5, KnowledgeChanges DEF Inv
<1>7. SlotMove
  BY <1>3, SlotCallsStay, OwnCalls
<1> QED BY <1>2, <1>3, <1>4, <1>5, <1>6, <1>7, StepKept, TypesNow

LEMMA RemoveParticipantKept ==
  ASSUME Inv, NEW a \in Auctions, NEW l \in LotsOf(a), RemoveParticipant(a, l)
  PROVE  Kept(a)
<1>1. l \in Lots /\ "Remove" \in Kinds /\ Presses(l, "Remove")
  BY DEF LotsOf, Kinds, RemoveParticipant
<1>2. presses' \in 0 .. MaxPresses /\ calls' \in Queues /\ OverAsTold(calls', lot)
  BY <1>1, PressesType
<1>3. /\ UNCHANGED <<auction, know, notes, confirmed, released, slotCalls, faults>>
      /\ UNCHANGED <<slot, lot, strays, astray>>
  BY DEF RemoveParticipant, slotSide
<1>4. removals' \in [Lots -> Nat]
  <2>1. removals \in [Lots -> Nat] /\ removals' = [removals EXCEPT ![l] = removals[l] + 1]
    BY TypesNow DEF RemoveParticipant
  <2> QED BY <1>1, <2>1
<1>5. TypesOfAuctions' /\ PhasesMove(a) /\ LotsMove(a)
  BY <1>3, AuctionStays DEF Inv, LotsMove
<1>6. KnowsTheGone' /\ SlotMove
  BY <1>3, <1>5, KnowledgeStays, SlotCallsStay, OwnCalls DEF Inv
<1> QED BY <1>2, <1>3, <1>4, <1>5, <1>6, StepKept, TypesNow

LEMMA CancelKept ==
  ASSUME Inv, NEW a \in Auctions, Cancel(a)
  PROVE  Kept(a)
<1> DEFINE after == [auction[a] EXCEPT !.phase = "Cancelled"]
           step == Survey(after, Forgotten(a))
<1>1. /\ auction' = [auction EXCEPT ![a] = after] /\ removals' = Uncounted(a)
      /\ Follow(a, calls, step) /\ ReleaseSlot(a, after, step.know)
      /\ UNCHANGED <<confirmed, released, slot, lot, strays, astray, presses, faults>>
  BY DEF Cancel
<1>2. auction[a].phase \in Holding /\ "Cancelled" \in Phases \ Unplanned
  BY DEF Cancel, Phases, Unplanned
<1>3. TypesOfAuctions' /\ PhasesMove(a) /\ auction'[a] = after /\ after.phase = "Cancelled"
  BY <1>1, <1>2, PhaseMoves
<1>4. after \in AuctionStates /\ Owns(after, LotsOf(a))
  BY <1>2, PhaseType DEF Inv
<1>5. /\ StepOK(step) /\ \A l \in Lots \ LotsOf(a) : step.know[l] = know[l]
      /\ \A l \in after.registry : step.know[l] = "Withdrawing"
  BY <1>3, <1>4, SurveyKnows
<1> HIDE DEF after, step
<1>6. /\ know' = step.know /\ know' \in Knowledge /\ notes' \in [Auctions -> Notes]
      /\ calls' \in Queues /\ OverAsTold(calls', lot)
  BY <1>1, <1>5, FollowType, TypesNow
<1>7. KnowsTheGone'
  <2>1. LotsMove(a) /\ \A l \in Lots \ LotsOf(a) : know'[l] = know[l]
    BY <1>1, <1>5, <1>6 DEF LotsMove
  <2>2. \A l \in auction'[a].registry :
          know'[l] \in Fading /\ (know'[l] \in Gone => lot'[l].phase \in Over)
    BY <1>3, <1>5, <1>6 DEF Fading, Gone
  <2> QED BY <1>3, <2>1, <2>2, KnowledgeChanges DEF Inv
<1>8. SlotMove
  <2>1. ReleaseSlot(a, auction'[a], know')
    BY <1>1, <1>3, <1>6
  <2> QED BY <1>7, <2>1, ReleaseMove
<1>9. removals' \in [Lots -> Nat]
  BY <1>1, RosterOf DEF Inv
<1> QED BY <1>1, <1>3, <1>6, <1>7, <1>8, <1>9, StepKept, TypesNow

LEMMA CancelAgainKept ==
  ASSUME Inv, NEW a \in Auctions, CancelAgain(a)
  PROVE  Kept(a)
<1> DEFINE step == WithdrawAgain(auction[a], know)
<1>1. Minds(auction[a], LotsOf(a), know, step)
  BY RosterOf, AskingMinds DEF Inv
<1>2. /\ Follow(a, calls, step) /\ ReleaseSlot(a, auction[a], step.know)
      /\ UNCHANGED <<auction, removals, confirmed, released, faults>>
      /\ UNCHANGED <<slot, lot, strays, astray, presses>>
  BY DEF CancelAgain
<1> HIDE DEF step
<1>3. TypesOfAuctions' /\ PhasesMove(a)
  BY <1>2, AuctionStays DEF Inv
<1>4. know' = step.know /\ KnowsTheGone' /\ (SlotMove => Kept(a))
  BY <1>1, <1>2, <1>3, TypesNow, FollowKept
<1>5. SlotMove
  <2>1. ReleaseSlot(a, auction'[a], know')
    BY <1>2, <1>4
  <2> QED BY <1>4, <2>1, ReleaseMove
<1> QED BY <1>4, <1>5

-----------------------------------------------------------------------------
(* Before the trading, and the answers of the slot.                        *)

(* Only what an auction holds of its calls to the slot changes.            *)
LEMMA ClaimsKept ==
  ASSUME Inv, NEW a \in Auctions, SlotMove, confirmed' \subseteq Auctions, released' \subseteq Auctions,
         faults' \in 0 .. MaxFaults, UNCHANGED <<auction, roster, slot, lotSide>>
  PROVE  Kept(a)
<1>1. UNCHANGED <<auction, know, removals, notes, slot, lot, calls, strays, astray, presses>>
  BY DEF roster, lotSide
<1>2. TypesOfAuctions' /\ PhasesMove(a) /\ LotsMove(a)
  BY <1>1, AuctionStays DEF Inv, LotsMove
<1>3. KnowsTheGone'
  BY <1>1, <1>2, KnowledgeStays DEF Inv
<1> QED BY <1>1, <1>2, <1>3, StepKept, TypesNow

(* An answer is taken; the auction may call again, not to give back.       *)
LEMMA AnswerTaken ==
  ASSUME Inv, NEW a \in Auctions, NEW gone \in SUBSET slotCalls[a], NEW due \in BOOLEAN,
         NEW kind \in {"Open", "Confirm", "Release"}, due => kind # "Release",
         CallSlot(a, slotCalls[a] \ gone, due, kind)
  PROVE  SlotMove
<1>1. /\ slotCalls[a] \ gone \in SUBSET SlotCalls
      /\ \A c \in slotCalls[a] \ gone : \E d \in slotCalls[a] :
           c.kind = d.kind /\ (Granted(c) => Granted(d))
  BY OwnCalls
<1> QED BY <1>1, OwnCalls, CallSlotMove

LEMMA RecordKept ==
  ASSUME Inv, NEW a \in Auctions, NEW after \in AuctionStates, Owns(after, LotsOf(a)),
         auction[a].phase \in Unplanned, after.phase \in Unplanned, Record(a, after)
  PROVE  Kept(a)
<1>1. /\ auction' = [auction EXCEPT ![a] = after]
      /\ slotCalls' = [slotCalls EXCEPT ![a] = {[c EXCEPT !.fresh = FALSE] : c \in @}]
      /\ UNCHANGED <<know, removals, notes, confirmed, released, faults>>
      /\ UNCHANGED <<slot, lot, calls, strays, astray, presses>>
  BY DEF Record, roster, lotSide
<1>2. after.phase \notin Holding \cup {"Cancelled"}
  BY DEF Unplanned, Holding, Asking
<1>3. TypesOfAuctions' /\ PhasesMove(a)
  BY <1>1, <1>2, AuctionChanges DEF Inv
<1>4. KnowsTheGone'
  <2>1. LotsMove(a) /\ auction'[a].phase # "Cancelled"
    BY <1>1, <1>2 DEF LotsMove, Inv, Types, TypesOfAuctions
  <2> QED BY <1>1, <1>3, <2>1, KnowledgeStays DEF Inv
<1>5. SlotMove
  <2> DEFINE stale == {[c EXCEPT !.fresh = FALSE] : c \in slotCalls[a]}
  <2>1. ASSUME NEW c \in stale
        PROVE  c \in SlotCalls /\ \E d \in slotCalls[a] : c.kind = d.kind /\ (Granted(c) => Granted(d))
    <3>1. PICK d \in slotCalls[a] : c = [d EXCEPT !.fresh = FALSE]
      OBVIOUS
    <3>2. d \in SlotCalls
      BY OwnCalls
    <3>3. c \in SlotCalls /\ c.kind = d.kind /\ (Granted(c) <=> Granted(d))
      BY <3>1, <3>2, StaleCall
    <3> QED BY <3>3
  <2>2. slotCalls' = [slotCalls EXCEPT ![a] = stale]
    BY <1>1
  <2> HIDE DEF stale
  <2>3. CallSlot(a, stale, FALSE, "Open") /\ stale \in SUBSET SlotCalls
    BY <2>1, <2>2 DEF CallSlot
  <2> QED BY <2>1, <2>3, OwnCalls, CallSlotMove
<1> QED BY <1>1, <1>3, <1>4, <1>5, StepKept, TypesNow

LEMMA PlanKept ==
  ASSUME Inv, NEW a \in Auctions, Draft(a) \/ Schedule(a) \/ Discard(a) \/ Start(a)
  PROVE  Kept(a)
<1>1. auction[a] \in AuctionStates /\ Owns(auction[a], LotsOf(a))
  BY DEF Inv, Types, TypesOfAuctions
<1>2. {"Draft", "Scheduled", "Initial"} \subseteq Phases /\ Unplanned = {"Draft", "Scheduled", "Initial"}
  BY DEF Phases, Unplanned
<1>3. ASSUME NEW phase \in {"Draft", "Scheduled"}
      PROVE  /\ [auction[a] EXCEPT !.phase = phase] \in AuctionStates
             /\ Owns([auction[a] EXCEPT !.phase = phase], LotsOf(a))
             /\ [auction[a] EXCEPT !.phase = phase].phase = phase
  BY <1>1, <1>2, PhaseType DEF Inv, AuctionStates
<1>4. CASE Draft(a)
  BY <1>2, <1>3, <1>4, RecordKept DEF Draft
<1>5. CASE Schedule(a)
  BY <1>2, <1>3, <1>5, RecordKept DEF Schedule
<1>6. CASE Discard(a)
  <2> DEFINE after == [auction[a] EXCEPT !.phase = "Initial", !.registry = {}]
  <2>1. after \in AuctionStates /\ Owns(after, LotsOf(a)) /\ after.phase = "Initial"
    BY <1>1, <1>2 DEF AuctionStates, Owns, Members
  <2>2. Record(a, after) /\ auction[a].phase \in Unplanned
    BY <1>2, <1>6 DEF Discard
  <2> HIDE DEF after
  <2> QED BY <1>2, <2>1, <2>2, RecordKept
<1>7. CASE Start(a)
  <2>1. CallSlot(a, slotCalls[a] \ {}, TRUE, "Open")
    BY <1>7 DEF Start
  <2>2. SlotMove
    BY <2>1, AnswerTaken
  <2> QED BY <1>7, <2>2, ClaimsKept, TypesNow DEF Start
<1> QED BY <1>4, <1>5, <1>6, <1>7

(* A repeat of the start; `gone` are the claims whose answer is taken.     *)
LEMMA RepeatKept ==
  ASSUME Inv, NEW a \in Auctions, NEW gone \in SUBSET slotCalls[a], Repeat(a, slotCalls[a] \ gone)
  PROVE  Kept(a)
<1>1. Minds(auction[a], LotsOf(a), know, Resume(auction[a], know))
  BY RosterOf, AskingMinds DEF Inv
<1>2. /\ Follow(a, calls, Resume(auction[a], know))
      /\ slotCalls' = [slotCalls EXCEPT ![a] = slotCalls[a] \ gone]
      /\ confirmed' \in {confirmed, confirmed \cup {a}}
      /\ UNCHANGED <<auction, removals, released, faults>>
      /\ UNCHANGED <<slot, lot, strays, astray, presses>>
  BY DEF Repeat
<1>3. TypesOfAuctions' /\ PhasesMove(a)
  BY <1>2, AuctionStays DEF Inv
<1>4. SlotMove
  <2>1. CallSlot(a, slotCalls[a] \ gone, FALSE, "Open")
    BY <1>2 DEF CallSlot
  <2> QED BY <2>1, AnswerTaken
<1>5. confirmed' \subseteq Auctions /\ released' \subseteq Auctions
  BY <1>2, TypesNow
<1> QED BY <1>1, <1>2, <1>3, <1>4, <1>5, TypesNow, FollowKept

LEMMA StartAgainKept ==
  ASSUME Inv, NEW a \in Auctions, StartAgain(a)
  PROVE  Kept(a)
<1>1. Repeat(a, slotCalls[a] \ {})
  BY DEF StartAgain
<1> QED BY <1>1, RepeatKept

LEMMA AnswersKept ==
  ASSUME Inv, NEW a \in Auctions, NEW c \in slotCalls[a],
         \/ StartRefused(a, c) \/ StartDecidedAnew(a, c) \/ StartRepeated(a, c)
         \/ SlotConfirmed(a, c) \/ SlotReleased(a, c) \/ \E lost \in BOOLEAN : SlotSilent(a, c, lost)
  PROVE  Kept(a)
<1>1. {c} \in SUBSET slotCalls[a]
  OBVIOUS
<1>2. CASE StartRefused(a, c)
  <2>1. SlotMove
    BY <1>1, <1>2, AnswerTaken DEF StartRefused
  <2> QED BY <1>2, <2>1, ClaimsKept, TypesNow DEF StartRefused
<1>3. CASE StartDecidedAnew(a, c)
  <2>1. SlotMove
    BY <1>1, <1>3, AnswerTaken DEF StartDecidedAnew
  <2> QED BY <1>3, <2>1, ClaimsKept, TypesNow DEF StartDecidedAnew
<1>4. CASE StartRepeated(a, c)
  BY <1>1, <1>4, RepeatKept DEF StartRepeated
<1>5. CASE SlotConfirmed(a, c)
  <2>1. SlotMove
    BY <1>1, <1>5, AnswerTaken DEF SlotConfirmed
  <2>2. confirmed' \subseteq Auctions
    BY <1>5, TypesNow DEF SlotConfirmed
  <2> QED BY <1>5, <2>1, <2>2, ClaimsKept, TypesNow DEF SlotConfirmed
<1>6. CASE SlotReleased(a, c)
  <2>1. SlotMove
    BY <1>1, <1>6, AnswerTaken DEF SlotReleased
  <2>2. released' \subseteq Auctions
    BY <1>6, TypesNow DEF SlotReleased
  <2> QED BY <1>6, <2>1, <2>2, ClaimsKept, TypesNow DEF SlotReleased
<1>7. ASSUME NEW lost \in BOOLEAN, SlotSilent(a, c, lost)
      PROVE  Kept(a)
  <2> DEFINE left == IF lost \/ c.answer # "None" THEN {}
                     ELSE {[c EXCEPT !.waits = FALSE, !.fresh = FALSE]}
             pending == (slotCalls[a] \ {c}) \cup left
  <2>1. \A d \in left : d \in SlotCalls /\ d.kind = c.kind /\ ~Granted(d)
    BY OwnCalls, LateCall
  <2>2. slotCalls' = [slotCalls EXCEPT ![a] = pending]
    BY <1>7 DEF SlotSilent
  <2> HIDE DEF left
  <2>3. /\ pending \in SUBSET SlotCalls
        /\ \A d \in pending : \E e \in slotCalls[a] : d.kind = e.kind /\ (Granted(d) => Granted(e))
    BY <2>1, OwnCalls
  <2> HIDE DEF pending
  <2>4. CallSlot(a, pending, FALSE, "Open")
    BY <2>2 DEF CallSlot
  <2>5. SlotMove
    BY <2>3, <2>4, OwnCalls, CallSlotMove
  <2>6. faults' \in 0 .. MaxFaults
    BY <1>7, TypesNow, AuctionsAssumption DEF SlotSilent, Fault
  <2>7. UNCHANGED <<auction, roster, slot, lotSide, confirmed, released>>
    BY <1>7 DEF SlotSilent
  <2> QED BY <2>5, <2>6, <2>7, ClaimsKept, TypesNow
<1> QED BY <1>2, <1>3, <1>4, <1>5, <1>6, <1>7

-----------------------------------------------------------------------------
(* The steps of the slot.                                                  *)

(* No auction moves: what trades, and what is past, stays.                 *)
LEMMA SlotSteps ==
  ASSUME Inv, UNCHANGED <<auction, roster, confirmed, released, lotSide>>,
         slotCalls' \in [Auctions -> SUBSET SlotCalls], holder' \in Auctions \cup {NoAuction},
         inquiry' = NoInquiry \/ inquiry' \in Inquiries, faults' \in 0 .. MaxFaults
  PROVE  /\ Types' /\ KnowsTheGone' /\ OverIsTrue'
         /\ \A a \in Auctions : (Trades(a)' <=> Trades(a)) /\ (Past(a)' <=> Past(a))
<1>1. UNCHANGED <<auction, know, removals, notes, confirmed, released, lot, calls, strays, astray, presses>>
  BY DEF roster, lotSide
<1>2. TypesOfAuctions'
  BY <1>1 DEF Inv, Types, TypesOfAuctions, Owns, LotsOf
<1>3. TypesOfRosters' /\ TypesOfTheSlot' /\ TypesOfLots'
  BY <1>1 DEF Inv, Types, TypesOfRosters, TypesOfTheSlot, TypesOfLots
<1>4. KnowsTheGone' /\ OverIsTrue'
  BY <1>1 DEF Inv, KnowsTheGone, OverIsTrue, OverAsTold
<1>5. \A a \in Auctions : (Trades(a)' <=> Trades(a)) /\ (Past(a)' <=> Past(a))
  BY <1>1 DEF Trades, Past
<1> QED BY <1>2, <1>3, <1>4, <1>5 DEF Types

(* The slot answers: only "Granted" is a grant, and to the claimant.       *)
LEMMA ReplyMoves ==
  ASSUME Inv, NEW a \in Auctions, NEW c \in slotCalls[a],
         NEW answer \in {"Granted", "Taken", "Unavailable", "Done", "Silent"}, Reply(a, c, answer)
  PROVE  /\ slotCalls' \in [Auctions -> SUBSET SlotCalls]
         /\ \A b \in Auctions : \A d \in slotCalls'[b] :
              /\ Granted(d) => (b = a /\ answer = "Granted") \/ \E e \in slotCalls[b] : Granted(e)
              /\ d.kind = "Release" => \E e \in slotCalls[b] : e.kind = "Release"
<1> DEFINE answered == [c EXCEPT !.answer = answer]
           after == (slotCalls[a] \ {c}) \cup (IF c.waits THEN {answered} ELSE {})
<1>1. c \in SlotCalls /\ slotCalls[a] \subseteq SlotCalls /\ slotCalls \in [Auctions -> SUBSET SlotCalls]
  BY OwnCalls
<1>2. /\ answered \in SlotCalls /\ answered.kind = c.kind /\ (Granted(answered) => answer = "Granted")
  BY <1>1, AnsweredCall
<1>3. slotCalls' = [slotCalls EXCEPT ![a] = after]
  BY DEF Reply
<1> HIDE DEF answered
<1>4. after \in SUBSET SlotCalls /\ \A d \in after :
        /\ Granted(d) => answer = "Granted" \/ \E e \in slotCalls[a] : Granted(e)
        /\ d.kind = "Release" => \E e \in slotCalls[a] : e.kind = "Release"
  BY <1>1, <1>2
<1> HIDE DEF after
<1>5. slotCalls' \in [Auctions -> SUBSET SlotCalls]
  BY <1>1, <1>3, <1>4
<1>6. \A b \in Auctions : slotCalls'[b] = IF b = a THEN after ELSE slotCalls[b]
  BY <1>1, <1>3
<1> QED BY <1>4, <1>5, <1>6

LEMMA GrantInv ==
  ASSUME Inv, NEW a \in Auctions, NEW c, SlotGrants(a, c)
  PROVE  Inv'
<1>1. c \in slotCalls[a] /\ inquiry = NoInquiry /\ holder \in {NoAuction, a}
  BY DEF SlotGrants, Handles, Claim
<1>2. /\ slotCalls' \in [Auctions -> SUBSET SlotCalls]
      /\ \A b \in Auctions : \A d \in slotCalls'[b] :
           /\ Granted(d) => b = a \/ \E e \in slotCalls[b] : Granted(e)
           /\ d.kind = "Release" => \E e \in slotCalls[b] : e.kind = "Release"
  BY <1>1, ReplyMoves DEF SlotGrants
<1>3. /\ UNCHANGED <<auction, roster, confirmed, released, lotSide>> /\ auction' = auction
      /\ faults' \in 0 .. MaxFaults /\ holder' = a /\ inquiry' = inquiry
  BY TypesNow DEF SlotGrants
<1>4. /\ Types' /\ KnowsTheGone' /\ OverIsTrue'
      /\ \A b \in Auctions : (Trades(b)' <=> Trades(b)) /\ (Past(b)' <=> Past(b))
  BY <1>1, <1>2, <1>3, SlotSteps
<1>5. \A b \in Auctions : MayStart(b)' => b = a \/ MayStart(b)
  BY <1>2, <1>3 DEF MayStart
<1>6. HolderTrades'
  BY <1>1, <1>3, <1>4, <1>5, AuctionsAssumption DEF Inv, HolderTrades
<1>7. IdleIsIdle'
  BY <1>1, <1>3 DEF IdleIsIdle, NoInquiry
<1>8. ReleasedIsPast'
  BY <1>2, <1>4 DEF Inv, ReleasedIsPast
<1> QED BY <1>4, <1>6, <1>7, <1>8 DEF Inv

LEMMA AskInv ==
  ASSUME Inv, NEW a \in Auctions, NEW c, SlotAsksHolder(a, c)
  PROVE  Inv'
<1>1. c \in SlotCalls /\ holder \in Auctions
  BY OwnCalls DEF SlotAsksHolder, Handles, Claim, Inv, Types, TypesOfTheSlot
<1>2. inquiry' \in Inquiries /\ inquiry'.answer = "None"
  BY <1>1 DEF SlotAsksHolder, Inquiries, SlotCalls
<1>3. /\ UNCHANGED <<auction, roster, confirmed, released, lotSide>> /\ auction' = auction
      /\ faults' \in 0 .. MaxFaults /\ holder' = holder /\ slotCalls' = slotCalls
  BY TypesNow DEF SlotAsksHolder
<1>4. /\ Types' /\ KnowsTheGone' /\ OverIsTrue'
      /\ \A b \in Auctions : (Trades(b)' <=> Trades(b)) /\ (Past(b)' <=> Past(b))
  BY <1>1, <1>2, <1>3, SlotSteps, OwnCalls
<1>5. \A b \in Auctions : MayStart(b)' => MayStart(b)
  BY <1>3 DEF MayStart
<1> QED BY <1>2, <1>3, <1>4, <1>5 DEF Inv, HolderTrades, IdleIsIdle, ReleasedIsPast

LEMMA ReleaseInv ==
  ASSUME Inv, NEW a \in Auctions, NEW c, SlotReleases(a, c)
  PROVE  Inv'
<1>1. c \in slotCalls[a] /\ inquiry = NoInquiry /\ c.kind = "Release"
  BY DEF SlotReleases, Handles
<1>2. /\ slotCalls' \in [Auctions -> SUBSET SlotCalls]
      /\ \A b \in Auctions : \A d \in slotCalls'[b] :
           /\ Granted(d) => \E e \in slotCalls[b] : Granted(e)
           /\ d.kind = "Release" => \E e \in slotCalls[b] : e.kind = "Release"
  BY <1>1, ReplyMoves DEF SlotReleases
<1>3. /\ UNCHANGED <<auction, roster, confirmed, released, lotSide>> /\ auction' = auction
      /\ faults' \in 0 .. MaxFaults /\ inquiry' = inquiry
      /\ holder' = IF holder = a THEN NoAuction ELSE holder
  BY TypesNow DEF SlotReleases, Release
<1>4. /\ Types' /\ KnowsTheGone' /\ OverIsTrue'
      /\ \A b \in Auctions : (Trades(b)' <=> Trades(b)) /\ (Past(b)' <=> Past(b))
  BY <1>1, <1>2, <1>3, SlotSteps DEF Inv, Types, TypesOfTheSlot
<1>5. \A b \in Auctions : MayStart(b)' => MayStart(b)
  BY <1>2, <1>3 DEF MayStart
<1>6. ~Trades(a) /\ ~MayStart(a)
  BY <1>1 DEF Inv, ReleasedIsPast, Past, MayStart
<1>7. HolderTrades'
  BY <1>3, <1>4, <1>5, <1>6 DEF Inv, HolderTrades
<1>8. IdleIsIdle'
  BY <1>1, <1>3 DEF IdleIsIdle, NoInquiry
<1>9. ReleasedIsPast'
  BY <1>2, <1>4 DEF Inv, ReleasedIsPast
<1> QED BY <1>4, <1>7, <1>8, <1>9 DEF Inv

LEMMA HolderAnswersInv ==
  ASSUME Inv, NEW a \in Auctions, HolderAnswers(a)
  PROVE  Inv'
<1>1. inquiry # NoInquiry /\ inquiry.asked = a
  BY AuctionsAssumption DEF HolderAnswers, NoInquiry
<1>2. inquiry \in Inquiries
  BY <1>1 DEF Inv, Types, TypesOfTheSlot
<1>3. /\ inquiry' \in Inquiries /\ inquiry'.asked = a
      /\ inquiry'.answer = "Idle" => ClaimsInFlight(a) = {} /\ ~Trading(auction[a], know)
  BY <1>1, <1>2 DEF HolderAnswers, Inquiries
<1>4. /\ UNCHANGED <<auction, roster, confirmed, released, lotSide>> /\ auction' = auction
      /\ faults' \in 0 .. MaxFaults /\ holder' = holder /\ slotCalls' = slotCalls
  BY TypesNow DEF HolderAnswers
<1>5. /\ Types' /\ KnowsTheGone' /\ OverIsTrue'
      /\ \A b \in Auctions : (Trades(b)' <=> Trades(b)) /\ (Past(b)' <=> Past(b))
  BY <1>3, <1>4, SlotSteps DEF Inv, Types, TypesOfTheSlot
<1>6. \A b \in Auctions : MayStart(b)' => MayStart(b)
  BY <1>4 DEF MayStart
<1>7. ASSUME inquiry'.answer = "Idle" PROVE ~Trades(a) /\ ~MayStart(a)
  <2>1. ~MayStart(a)
    BY <1>3, <1>7 DEF MayStart, Granted, ClaimsInFlight
  <2>2. ~Trades(a)
    BY <1>3, <1>7 DEF Inv, KnowsTheGone, Trading, Trades, Gone
  <2> QED BY <2>1, <2>2
<1>8. IdleIsIdle'
  <2>1. inquiry'.answer = "Idle" => ~Trades(a)' /\ ~MayStart(a)'
    BY <1>5, <1>6, <1>7
  <2> QED BY <1>3, <2>1 DEF IdleIsIdle, Trades, MayStart
<1> QED BY <1>4, <1>5, <1>6, <1>8 DEF Inv, HolderTrades, ReleasedIsPast

LEMMA HolderSilentInv ==
  ASSUME Inv, HolderSilent
  PROVE  Inv'
<1>1. inquiry \in Inquiries
  BY DEF HolderSilent, Inv, Types, TypesOfTheSlot
<1>2. inquiry' \in Inquiries /\ inquiry'.answer = "Silent"
  BY <1>1 DEF HolderSilent, Inquiries
<1>3. /\ UNCHANGED <<auction, roster, confirmed, released, lotSide>> /\ auction' = auction
      /\ faults' \in 0 .. MaxFaults /\ holder' = holder /\ slotCalls' = slotCalls
  BY TypesNow, AuctionsAssumption DEF HolderSilent, Fault
<1>4. /\ Types' /\ KnowsTheGone' /\ OverIsTrue'
      /\ \A b \in Auctions : (Trades(b)' <=> Trades(b)) /\ (Past(b)' <=> Past(b))
  BY <1>2, <1>3, SlotSteps DEF Inv, Types, TypesOfTheSlot
<1>5. \A b \in Auctions : MayStart(b)' => MayStart(b)
  BY <1>3 DEF MayStart
<1> QED BY <1>2, <1>3, <1>4, <1>5 DEF Inv, HolderTrades, IdleIsIdle, ReleasedIsPast

(* The slot goes to the claimant only if no other auction trades.          *)
LEMMA DecidesInv ==
  ASSUME Inv, NEW a \in Auctions, NEW c, SlotDecides(a, c)
  PROVE  Inv'
<1> DEFINE decided == IF inquiry.answer = "Silent" THEN "Unavailable"
                      ELSE Answered(holder, a, inquiry.asked, inquiry.answer = "Busy")
<1>1. inquiry \in Inquiries /\ inquiry.answer \in {"Busy", "Idle", "Silent"}
  BY DEF SlotDecides, Inv, Types, TypesOfTheSlot, NoInquiry, Inquiries
<1>2. decided \in {"Granted", "Taken", "Unavailable"}
  BY DEF Answered
<1>3. ASSUME decided = "Granted", NEW b \in Auctions, b # a PROVE ~Trades(b) /\ ~MayStart(b)
  <2>1. holder \in {NoAuction, a} \/ (holder = inquiry.asked /\ inquiry.answer = "Idle")
    BY <1>1, <1>3 DEF Answered, Claim
  <2>2. CASE holder \in {NoAuction, a}
    BY <1>3, <2>2, AuctionsAssumption DEF Inv, HolderTrades
  <2>3. CASE holder = inquiry.asked /\ inquiry.answer = "Idle"
    BY <1>1, <2>3 DEF Inv, HolderTrades, IdleIsIdle, Inquiries
  <2> QED BY <2>1, <2>2, <2>3
<1>4. /\ UNCHANGED <<auction, roster, confirmed, released, lotSide>> /\ auction' = auction
      /\ faults' \in 0 .. MaxFaults /\ holder' = IF decided = "Granted" THEN a ELSE holder
      /\ inquiry' = NoInquiry /\ c \in slotCalls[a] /\ Reply(a, c, decided)
  BY TypesNow DEF SlotDecides
<1> HIDE DEF decided
<1>5. /\ slotCalls' \in [Auctions -> SUBSET SlotCalls]
      /\ \A b \in Auctions : \A d \in slotCalls'[b] :
           /\ Granted(d) => (b = a /\ decided = "Granted") \/ \E e \in slotCalls[b] : Granted(e)
           /\ d.kind = "Release" => \E e \in slotCalls[b] : e.kind = "Release"
  BY <1>2, <1>4, ReplyMoves
<1>6. /\ Types' /\ KnowsTheGone' /\ OverIsTrue'
      /\ \A b \in Auctions : (Trades(b)' <=> Trades(b)) /\ (Past(b)' <=> Past(b))
  BY <1>4, <1>5, SlotSteps DEF Inv, Types, TypesOfTheSlot
<1>7. \A b \in Auctions : MayStart(b)' => (b = a /\ decided = "Granted") \/ MayStart(b)
  BY <1>4, <1>5 DEF MayStart
<1>8. HolderTrades'
  BY <1>3, <1>4, <1>6, <1>7 DEF Inv, HolderTrades
<1>9. IdleIsIdle'
  BY <1>4 DEF IdleIsIdle, NoInquiry
<1>10. ReleasedIsPast'
  BY <1>5, <1>6 DEF Inv, ReleasedIsPast
<1> QED BY <1>6, <1>8, <1>9, <1>10 DEF Inv

LEMMA SlotRestartsInv ==
  ASSUME Inv, NEW gone, SlotRestarts(gone)
  PROVE  Inv'
<1> DEFINE Lost(b, d) == d.answer = "None" /\ <<b, d.ticket>> \in gone
           after(b) == {d \in slotCalls[b] : ~Lost(b, d)}
                         \cup {[d EXCEPT !.answer = "Silent"] :
                                 d \in {e \in slotCalls[b] : Lost(b, e) /\ e.waits}}
<1>1. slotCalls' = [b \in Auctions |-> after(b)]
  BY DEF SlotRestarts
<1>2. ASSUME NEW b \in Auctions, NEW d \in after(b)
      PROVE  /\ d \in SlotCalls
             /\ Granted(d) => \E e \in slotCalls[b] : Granted(e)
             /\ d.kind = "Release" => \E e \in slotCalls[b] : e.kind = "Release"
  <2>1. CASE d \in slotCalls[b]
    BY <2>1, OwnCalls
  <2>2. CASE d \notin slotCalls[b]
    <3>1. PICK e \in slotCalls[b] : d = [e EXCEPT !.answer = "Silent"]
      BY <2>2
    <3>2. e \in SlotCalls
      BY OwnCalls
    <3> HIDE DEF after
    <3>3. d \in SlotCalls /\ d.kind = e.kind /\ ~Granted(d)
      BY <3>1, <3>2, AnsweredCall
    <3> QED BY <3>3
  <2> QED BY <2>1, <2>2
<1> HIDE DEF after
<1>3. slotCalls' \in [Auctions -> SUBSET SlotCalls] /\ \A b \in Auctions : slotCalls'[b] = after(b)
  BY <1>1, <1>2
<1>4. /\ UNCHANGED <<auction, roster, confirmed, released, lotSide>> /\ auction' = auction
      /\ faults' \in 0 .. MaxFaults /\ holder' = holder /\ inquiry' = NoInquiry
  BY TypesNow, AuctionsAssumption DEF SlotRestarts, Fault
<1>5. /\ Types' /\ KnowsTheGone' /\ OverIsTrue'
      /\ \A b \in Auctions : (Trades(b)' <=> Trades(b)) /\ (Past(b)' <=> Past(b))
  BY <1>3, <1>4, SlotSteps DEF Inv, Types, TypesOfTheSlot
<1>6. \A b \in Auctions : MayStart(b)' => MayStart(b)
  BY <1>2, <1>3, <1>4 DEF MayStart
<1>7. HolderTrades' /\ IdleIsIdle'
  BY <1>4, <1>5, <1>6 DEF Inv, HolderTrades, IdleIsIdle, NoInquiry
<1>8. ReleasedIsPast'
  BY <1>2, <1>3, <1>5 DEF Inv, ReleasedIsPast
<1> QED BY <1>5, <1>7, <1>8 DEF Inv

-----------------------------------------------------------------------------
(* The accepted start.                                                     *)

(* The auction that begins to trade holds the slot, and no other trades.   *)
LEMMA StartAcceptedBegins ==
  ASSUME Inv, NEW a \in Auctions, NEW c, StartAccepted(a, c)
  PROVE  /\ Inv' /\ auction[a].phase \in Unplanned /\ auction'[a].phase \in Holding
         /\ \A b \in Auctions \ {a} : auction'[b] = auction[b] /\ (Trades(b)' <=> Trades(b)) /\ ~Trades(b)
<1> DEFINE after == [auction[a] EXCEPT !.phase = "Prebidding"]
           step == Survey(after, Forgotten(a))
<1>1. /\ c \in slotCalls[a] /\ Granted(c) /\ auction[a].phase = "Scheduled"
      /\ auction' = [auction EXCEPT ![a] = after] /\ confirmed' = confirmed \cup {a}
      /\ removals' = Uncounted(a) /\ Follow(a, calls, step)
      /\ slotCalls' = [slotCalls EXCEPT ![a] = slotCalls[a] \ {c}]
      /\ released' = released /\ faults' = faults /\ holder' = holder /\ inquiry' = inquiry
      /\ UNCHANGED <<lot, strays, astray, presses>>
  BY DEF StartAccepted, AnsweredBySlot, CallSlot, Granted, slot
<1>2. /\ after \in AuctionStates /\ Owns(after, LotsOf(a))
      /\ after.phase = "Prebidding" /\ "Prebidding" \in Holding \ Unplanned
  <2>1. "Prebidding" \in Phases /\ "Prebidding" \in Holding \ Unplanned
    BY DEF Phases, Holding, Asking, Unplanned
  <2> QED BY <2>1, PhaseType DEF Inv, Types, TypesOfAuctions, AuctionStates
<1>3. /\ StepOK(step) /\ \A l \in Lots \ LotsOf(a) : step.know[l] = know[l]
  BY <1>2, SurveyKnows
<1> HIDE DEF after, step
<1>4. auction \in [Auctions -> AuctionStates] /\ \A b \in Auctions : Owns(auction[b], LotsOf(b))
  BY DEF Inv, Types, TypesOfAuctions
<1>5. \A b \in Auctions : auction'[b] = IF b = a THEN after ELSE auction[b]
  BY <1>1, <1>4
<1>6. TypesOfAuctions'
  <2>1. auction' \in [Auctions -> AuctionStates]
    BY <1>1, <1>2, <1>4
  <2>2. \A b \in Auctions : Owns(auction'[b], LotsOf(b))
    BY <1>2, <1>4, <1>5
  <2> QED BY <2>1, <2>2 DEF TypesOfAuctions, LotsOf
<1>7. /\ know' = step.know /\ know' \in Knowledge /\ notes' \in [Auctions -> Notes]
      /\ calls' \in Queues /\ OverAsTold(calls', lot)
  BY <1>1, <1>3, FollowType, TypesNow
<1>8. /\ slotCalls' \in [Auctions -> SUBSET SlotCalls]
      /\ \A b \in Auctions : slotCalls'[b] \subseteq slotCalls[b]
  BY <1>1, OwnCalls
<1>9. Types'
  <2>1. TypesOfRosters'
    BY <1>1, <1>7, RosterOf DEF TypesOfRosters, Inv
  <2>2. TypesOfTheSlot'
    BY <1>1, <1>8 DEF Inv, Types, TypesOfTheSlot
  <2>3. TypesOfLots'
    BY <1>1, <1>7 DEF Inv, Types, TypesOfLots
  <2> QED BY <1>6, <2>1, <2>2, <2>3 DEF Types
<1>10. OverIsTrue'
  BY <1>1, <1>7 DEF Inv, OverIsTrue, OverAsTold
<1>11. KnowsTheGone'
  <2> SUFFICES ASSUME NEW b \in Auctions, auction'[b].phase = "Cancelled",
                      NEW l \in auction'[b].registry
               PROVE  know'[l] \in Fading /\ (know'[l] \in Gone => lot'[l].phase \in Over)
    BY DEF KnowsTheGone
  <2>1. b # a /\ auction'[b] = auction[b]
    BY <1>2, <1>5
  <2>2. l \in Lots \ LotsOf(a)
    BY <1>4, <2>1 DEF Owns, LotsOf
  <2>3. know'[l] = know[l] /\ lot' = lot
    BY <1>1, <1>3, <1>7, <2>2
  <2> QED BY <2>1, <2>3 DEF Inv, KnowsTheGone
<1>12. MayStart(a)
  BY <1>1 DEF MayStart, Unplanned
<1>13. holder = a /\ \A b \in Auctions \ {a} : ~Trades(b) /\ ~MayStart(b)
  BY <1>12 DEF Inv, HolderTrades
<1>14. \A b \in Auctions \ {a} : (Trades(b)' <=> Trades(b)) /\ (Past(b)' <=> Past(b))
                                  /\ (MayStart(b)' => MayStart(b))
  BY <1>1, <1>5, <1>8 DEF Trades, Past, MayStart
<1>15. ~MayStart(a)'
  BY <1>2, <1>5 DEF MayStart
<1>16. HolderTrades'
  BY <1>1, <1>13, <1>14 DEF HolderTrades
<1>17. IdleIsIdle'
  <2>1. inquiry.answer = "Idle" => inquiry.asked \in Auctions \ {a}
    BY <1>12 DEF Inv, Types, TypesOfTheSlot, Inquiries, NoInquiry, IdleIsIdle
  <2>2. SUFFICES ASSUME NEW b \in Auctions \ {a}, b = inquiry.asked, inquiry.answer = "Idle"
                 PROVE  ~Trades(b)' /\ ~MayStart(b)'
    BY <1>1, <2>1 DEF IdleIsIdle, Trades, MayStart
  <2> QED BY <1>13, <1>14
<1>18. ReleasedIsPast'
  <2>1. ~Past(a)
    BY <1>1 DEF Past, Unplanned
  <2>2. \A b \in Auctions : \A d \in slotCalls'[b] : d.kind = "Release" => b # a /\ Past(b)
    BY <1>8, <2>1 DEF Inv, ReleasedIsPast
  <2> QED BY <1>14, <2>2 DEF ReleasedIsPast
<1> QED BY <1>1, <1>2, <1>5, <1>9, <1>10, <1>11, <1>13, <1>14, <1>16, <1>17, <1>18 DEF Inv, Unplanned

-----------------------------------------------------------------------------
(* Every step.                                                             *)

(* The slot changes nothing but the answers and what it knows itself.      *)
LEMMA SlotStepInv == Inv /\ SlotNext => Inv' /\ UNCHANGED <<auction, lot>>
<1> SUFFICES ASSUME Inv, SlotNext PROVE Inv' /\ UNCHANGED <<auction, lot>>
  OBVIOUS
<1>1. ASSUME NEW a \in Auctions, HolderAnswers(a)
      PROVE  Inv' /\ UNCHANGED <<auction, lot>>
  <2>1. UNCHANGED <<auction, lot>>
    BY <1>1 DEF HolderAnswers, lotSide
  <2> QED BY <1>1, <2>1, HolderAnswersInv
<1>2. ASSUME NEW a \in Auctions, NEW c,
             SlotGrants(a, c) \/ SlotAsksHolder(a, c) \/ SlotReleases(a, c) \/ SlotDecides(a, c)
      PROVE  Inv' /\ UNCHANGED <<auction, lot>>
  <2>1. UNCHANGED <<auction, lot>>
    BY <1>2 DEF SlotGrants, SlotAsksHolder, SlotReleases, SlotDecides, lotSide
  <2>2. Inv'
    BY <1>2, GrantInv, AskInv, ReleaseInv, DecidesInv
  <2> QED BY <2>1, <2>2
<1>3. CASE HolderSilent
  <2>1. UNCHANGED <<auction, lot>>
    BY <1>3 DEF HolderSilent, lotSide
  <2> QED BY <1>3, <2>1, HolderSilentInv
<1>4. ASSUME NEW gone, SlotRestarts(gone)
      PROVE  Inv' /\ UNCHANGED <<auction, lot>>
  <2>1. UNCHANGED <<auction, lot>>
    BY <1>4 DEF SlotRestarts, lotSide
  <2> QED BY <1>4, <2>1, SlotRestartsInv
<1> QED BY <1>1, <1>2, <1>3, <1>4 DEF SlotNext

(* The auction decides, and is answered by the slot.                       *)
LEMMA DecisionSteps ==
  ASSUME Inv, NEW a \in Auctions, Plan(a) \/ Claims(a)
  PROVE  Kept(a) \/ \E c \in slotCalls[a] : StartAccepted(a, c)
<1>1. CASE Plan(a)
  BY <1>1, PlanKept, StartAgainKept DEF Plan
<1>2. CASE Claims(a)
  <2>1. PICK c \in slotCalls[a] :
          \/ StartRefused(a, c) \/ StartDecidedAnew(a, c) \/ StartAccepted(a, c)
          \/ StartRepeated(a, c) \/ SlotConfirmed(a, c) \/ SlotReleased(a, c)
          \/ \E lost \in BOOLEAN : SlotSilent(a, c, lost)
    BY <1>2 DEF Claims
  <2> QED BY <2>1, AnswersKept
<1> QED BY <1>1, <1>2

(* The auction goes on.                                                    *)
LEMMA CourseSteps ==
  ASSUME Inv, NEW a \in Auctions, Course(a)
  PROVE  Kept(a)
<1>1. CASE PrebiddingDue(a) \/ FinishDue(a) \/ Recheck(a) \/ AuctionRestarts(a)
  BY <1>1, PrebiddingKept, FinishKept, RecheckKept, RestartKept
<1>2. CASE \E held \in BOOLEAN : LotsSettled(a, held)
  BY <1>2, LotsSettledKept
<1>3. CASE BeginFinal(a) \/ Cancel(a) \/ CancelAgain(a)
  BY <1>3, BeginFinalKept, CancelKept, CancelAgainKept
<1>4. CASE \E order \in Orders(HeldLots(auction[a], know)) : Freeze(a, order)
  BY <1>4, FreezeKept
<1>5. CASE \E l \in LotsOf(a) :
             FinalLotEnded(a, l) \/ NextLot(a, l) \/ CloseByAuctioneer(a, l) \/ RemoveParticipant(a, l)
  BY <1>5, FinalLotEndedKept, NextLotKept, CloseByAuctioneerKept, RemoveParticipantKept
<1> QED BY <1>1, <1>2, <1>3, <1>4, <1>5 DEF Course

(* A lot handles what reaches it, and its auction hears of it.             *)
LEMMA LotSteps ==
  ASSUME Inv, NEW l \in Lots, DeadlineDue(l) \/ LotNext(l)
  PROVE  Kept(AuctionOf[l])
<1>1. CASE DeadlineDue(l)
  BY <1>1, DeadlineKept
<1>2. ASSUME NEW kind \in strays[l], StrayArrives(l, kind)
      PROVE  Kept(AuctionOf[l])
  BY <1>2, StrayKept
<1>3. ASSUME NEW i \in DOMAIN calls[l],
             \/ LotHandles(l, i) \/ LotWithdrew(l, i) \/ LotEnded(l, i) \/ LotReturned(l, i)
             \/ CallLost(l, i) \/ LotSilent(l, i)
      PROVE  Kept(AuctionOf[l])
  BY <1>3, LotHandlesKept, LotWithdrewKept, LotEndedKept, LotReturnedKept, CallLostKept, SilenceKept
<1>4. ASSUME NEW i \in DOMAIN calls[l],
             \/ LotObserved(l, i) \/ LotAnswered(l, i) \/ LotClosed(l, i) \/ LotParticipantRemoved(l, i)
      PROVE  Kept(AuctionOf[l])
  BY <1>4, LotAnswersKept
<1> QED BY <1>1, <1>2, <1>3, <1>4 DEF LotNext

LEMMA StepCases ==
  ASSUME Inv, [Next]_auctionVars
  PROVE  \/ \E a \in Auctions : Kept(a)
         \/ \E a \in Auctions : \E c \in slotCalls[a] : StartAccepted(a, c)
         \/ Inv' /\ UNCHANGED <<auction, lot>>
<1>1. CASE SlotNext
  BY <1>1, SlotStepInv
<1>2. ASSUME NEW a \in Auctions, Plan(a) \/ Claims(a) \/ Course(a)
      PROVE  Kept(a) \/ \E c \in slotCalls[a] : StartAccepted(a, c)
  BY <1>2, DecisionSteps, CourseSteps
<1>3. ASSUME NEW l \in Lots, DeadlineDue(l) \/ LotNext(l)
      PROVE  AuctionOf[l] \in Auctions /\ Kept(AuctionOf[l])
  BY <1>3, LotSteps, OwnLot
<1>4. CASE UNCHANGED auctionVars
  <2>1. /\ UNCHANGED <<auction, know, removals, notes, confirmed, released, slotCalls, holder, inquiry>>
        /\ UNCHANGED <<lot, calls, strays, astray, presses, faults>>
    BY <1>4 DEF auctionVars, roster, slotSide, slot, lotSide
  <2>2. Types'
    BY <2>1 DEF Inv, Types, TypesOfAuctions, TypesOfRosters, TypesOfTheSlot, TypesOfLots
  <2>3. KnowsTheGone' /\ OverIsTrue'
    BY <2>1 DEF Inv, KnowsTheGone, OverIsTrue
  <2>4. HolderTrades' /\ IdleIsIdle' /\ ReleasedIsPast'
    BY <2>1 DEF Inv, HolderTrades, IdleIsIdle, ReleasedIsPast, Trades, MayStart, Past
  <2> QED BY <2>1, <2>2, <2>3, <2>4 DEF Inv
<1> QED BY <1>1, <1>2, <1>3, <1>4 DEF Next

LEMMA InvStep == Inv /\ [Next]_auctionVars => Inv'
<1> SUFFICES ASSUME Inv, [Next]_auctionVars PROVE Inv'
  OBVIOUS
<1>1. CASE \E a \in Auctions : Kept(a)
  BY <1>1, SlotKept
<1>2. CASE \E a \in Auctions : \E c \in slotCalls[a] : StartAccepted(a, c)
  BY <1>2, StartAcceptedBegins
<1> QED BY <1>1, <1>2, StepCases

LEMMA Always == Spec => []Inv
BY InitInv, InvStep, PTL DEF Spec

-----------------------------------------------------------------------------
(* What is shown of the specification.                                     *)

(* In the journals of AuctionEntity and TradingSlot and in the memory of   *)
(* LotRoster every field stays what its class says it is; no answer takes  *)
(* a removal from a roster that has counted none, a restart in between     *)
(* included.                                                               *)
THEOREM AuctionTypes == Spec => []TypeOK
<1>1. Inv => TypeOK
  BY TypesOK DEF Inv
<1> QED BY <1>1, Always, PTL

(* ADR-047: whatever is lost, late or restarted between AuctionEntity and  *)
(* TradingSlot, two auctions of a community never trade at once: the slot  *)
(* holds whoever trades, and hands over on a word that stays true.         *)
THEOREM OneTradesAtATime == Spec => []OneAuctionTrades
<1>1. Inv => OneAuctionTrades
  BY DEF Inv, HolderTrades, OneAuctionTrades
<1> QED BY <1>1, Always, PTL

(* TurnOf is read off the phase and the trade.                             *)
LEMMA TurnIs ==
  ASSUME Inv, NEW a \in Auctions
  PROVE  /\ TurnOf(a) = "Waiting" <=> auction[a].phase \in Unplanned
         /\ TurnOf(a) = "Trading" <=> Trades(a)
         /\ TurnOf(a) \in {"Waiting", "Trading", "Over"}
         /\ Trades(a) => auction[a].phase \notin Unplanned
<1>1. Trades(a) => auction[a].phase \notin Unplanned
  BY DEF Trades, Holding, Asking, Unplanned
<1> QED BY <1>1 DEF TurnOf

LEMMA TurnThen ==
  ASSUME Inv', NEW a \in Auctions
  PROVE  /\ TurnOf(a)' = "Waiting" <=> auction'[a].phase \in Unplanned
         /\ TurnOf(a)' = "Trading" <=> Trades(a)'
         /\ TurnOf(a)' \in {"Waiting", "Trading", "Over"}
         /\ Trades(a)' => auction'[a].phase \notin Unplanned
<1>1. Trades(a)' => auction'[a].phase \notin Unplanned
  BY DEF Trades, Holding, Asking, Unplanned
<1> QED BY <1>1 DEF TurnOf

(* Where each auction is in its turn.                                      *)
TurnsNow == [a \in Auctions |-> TurnOf(a)]

(* A step that begins no trading ends one turn at most.                    *)
LEMMA KeptTakesTurns ==
  ASSUME Inv, Inv', NEW a \in Auctions, Kept(a)
  PROVE  Turns!Next \/ UNCHANGED TurnsNow
<1>1. \A b \in Auctions :
        /\ TurnOf(b)' = "Waiting" <=> TurnOf(b) = "Waiting"
        /\ TurnOf(b)' = "Trading" => TurnOf(b) = "Trading"
        /\ b # a => TurnOf(b)' = TurnOf(b)
        /\ TurnOf(b) \in {"Waiting", "Trading", "Over"} /\ TurnOf(b)' \in {"Waiting", "Trading", "Over"}
  <2> SUFFICES ASSUME NEW b \in Auctions
               PROVE  /\ TurnOf(b)' = "Waiting" <=> TurnOf(b) = "Waiting"
                      /\ TurnOf(b)' = "Trading" => TurnOf(b) = "Trading"
                      /\ b # a => TurnOf(b)' = TurnOf(b)
                      /\ TurnOf(b) \in {"Waiting", "Trading", "Over"}
                      /\ TurnOf(b)' \in {"Waiting", "Trading", "Over"}
    OBVIOUS
  <2>1. Types /\ Types' /\ PhasesMove(a) /\ LotsMove(a)
    BY DEF Inv, Kept, Modest
  <2>2. /\ Trades(b)' => Trades(b)
        /\ auction'[b].phase \in Unplanned <=> auction[b].phase \in Unplanned
        /\ b # a => (Trades(b)' <=> Trades(b))
    BY <2>1, NoBegin
  <2>3. /\ TurnOf(b) = "Waiting" <=> auction[b].phase \in Unplanned
        /\ TurnOf(b) = "Trading" <=> Trades(b)
        /\ TurnOf(b) \in {"Waiting", "Trading", "Over"}
    BY TurnIs
  <2>4. /\ TurnOf(b)' = "Waiting" <=> auction'[b].phase \in Unplanned
        /\ TurnOf(b)' = "Trading" <=> Trades(b)'
        /\ TurnOf(b)' \in {"Waiting", "Trading", "Over"}
    BY TurnThen
  <2> QED BY <2>2, <2>3, <2>4
<1>2. CASE TurnOf(a)' = TurnOf(a)
  BY <1>1, <1>2 DEF TurnsNow
<1>3. CASE TurnOf(a)' # TurnOf(a)
  <2>1. TurnOf(a) = "Trading" /\ TurnOf(a)' = "Over"
    BY <1>1, <1>3
  <2>2. TurnsNow' = [TurnsNow EXCEPT ![a] = "Over"]
    BY <1>1, <2>1 DEF TurnsNow
  <2>3. Turns!End(a)
    BY <2>1, <2>2 DEF Turns!End, TurnsNow
  <2> QED BY <2>3 DEF Turns!Next
<1> QED BY <1>2, <1>3

(* The accepted start begins the turn of its auction, and no other trades. *)
LEMMA StartTakesTurns ==
  ASSUME Inv, Inv', NEW a \in Auctions, NEW c, StartAccepted(a, c)
  PROVE  Turns!Next
<1>1. /\ auction[a].phase \in Unplanned /\ auction'[a].phase \in Holding
      /\ \A b \in Auctions \ {a} : auction'[b] = auction[b] /\ (Trades(b)' <=> Trades(b)) /\ ~Trades(b)
  BY StartAcceptedBegins
<1>2. TurnOf(a) = "Waiting" /\ TurnOf(a)' = "Trading"
  BY <1>1, TurnIs, TurnThen DEF Trades
<1>3. \A b \in Auctions \ {a} : TurnOf(b)' = TurnOf(b)
  BY <1>1 DEF TurnOf
<1>4. \A b \in Auctions : TurnOf(b) # "Trading"
  BY <1>1, <1>2, TurnIs
<1>5. TurnsNow' = [TurnsNow EXCEPT ![a] = "Trading"]
  BY <1>2, <1>3 DEF TurnsNow
<1>6. Turns!Begin(a)
  BY <1>2, <1>4, <1>5 DEF Turns!Begin, TurnsNow
<1> QED BY <1>6 DEF Turns!Next

LEMMA StepTakesTurns == Inv /\ Inv' /\ [Next]_auctionVars => [Turns!Next]_TurnsNow
<1> SUFFICES ASSUME Inv, Inv', [Next]_auctionVars PROVE Turns!Next \/ UNCHANGED TurnsNow
  OBVIOUS
<1>1. CASE \E a \in Auctions : Kept(a)
  BY <1>1, KeptTakesTurns
<1>2. CASE \E a \in Auctions : \E c \in slotCalls[a] : StartAccepted(a, c)
  BY <1>2, StartTakesTurns
<1>3. CASE UNCHANGED <<auction, lot>>
  BY <1>3 DEF TurnsNow, TurnOf, Trades
<1> QED BY <1>1, <1>2, <1>3, StepCases

(* TradingSlot.scala and AuctionEntity.scala together give the auctions of *)
(* a community their turns: none begins before the one before it has its   *)
(* last lot out of trade, and none begins twice.                           *)
THEOREM AuctionsTakeTurns == Spec => IsTakingTurns
<1>1. Init => Turns!Init
  <2>1. Init => \A a \in Auctions : TurnOf(a) \in {"Waiting", "Over"}
    <3> SUFFICES ASSUME Init, NEW a \in Auctions PROVE TurnOf(a) # "Trading"
      BY InitInv, TurnIs
    <3>1. auction[a].phase \in {"Scheduled", "Finished"}
      BY DEF Init
    <3>2. ~Trades(a)
      BY <3>1 DEF Trades, Holding, Asking
    <3> QED BY <3>2, InitInv, TurnIs
  <2> QED BY <2>1 DEF Turns!Init
<1>2. Inv /\ Inv' /\ [Next]_auctionVars => [Turns!Next]_[a \in Auctions |-> TurnOf(a)]
  BY StepTakesTurns DEF TurnsNow
<1> QED BY <1>1, <1>2, Always, PTL DEF Spec, IsTakingTurns, Turns!Spec

-----------------------------------------------------------------------------
(* The final: one lot at a time.                                           *)

(* Phases of an auction whose lots may have been back in trade.            *)
FinalPhases == {"Final", "Finished", "Cancelled"}

OverLots == {l \in Lots : lot[l].phase \in Over}

(* A lot that is back in trade, or that a call on its way may bring back.  *)
Coming(l) == Resuming(calls[l]) \/ "Resume" \in strays[l] \/ lot[l].phase = "Live"

(* It has been the turn of the lot, or it is next and no other one has a   *)
(* turn.                                                                   *)
MayCome(au, l) ==
  /\ au.phase \in FinalPhases
  /\ \/ l \in Members(au.activated)
     \/ l \in NextLots(au) /\ Members(au.activated) \subseteq au.completed

(* The journal of the final: all lots that were back in trade but the last *)
(* are completed.                                                          *)
InTurns(au) ==
  /\ au.phase \notin FinalPhases => au.activated = <<>>
  /\ au.completed \subseteq Members(au.activated)
  /\ \A i \in DOMAIN au.activated : i < Len(au.activated) => au.activated[i] \in au.completed

FinalInOrder(a) ==
  /\ InTurns(auction[a]) /\ auction[a].completed \subseteq OverLots
  /\ \A l \in LotsOf(a) : Coming(l) => MayCome(auction[a], l)

(* A lot of which an auction notes that it has ended, is over.             *)
NotedAreOver == \A a \in Auctions : notes[a].ended \subseteq OverLots

FinalInv == NotedAreOver /\ \A a \in Auctions : FinalInOrder(a)

(* What a step makes of the journal of an auction: it completes an active  *)
(* lot that is over, at most, and leaves the order of the final alone.     *)
GoesOn(before, after) ==
  /\ before.phase \in FinalPhases => after.phase \in FinalPhases
  /\ after.activated = before.activated
  /\ after.order = before.order \/ before.phase \notin FinalPhases
  /\ \E S \in SUBSET (ActiveLots(before) \cap OverLots) : after.completed = before.completed \cup S

(* A step that brings back no lot.                                         *)
Quiet(a) ==
  /\ \A l \in Lots : Coming(l)' => Coming(l)
  /\ \A b \in Auctions : notes'[b].ended \subseteq notes[b].ended \cup OverLots
  /\ GoesOn(auction[a], auction'[a])

(* One lot at most is next.                                                *)
LEMMA OneIsNext ==
  ASSUME NEW au \in AuctionStates, NEW l \in NextLots(au), NEW m \in NextLots(au)
  PROVE  l = m
<1> DEFINE Was(i) == au.order[i] \in Members(au.activated) \cup au.completed
           First == {j \in DOMAIN au.order : ~Was(j) /\ \A k \in 1 .. j - 1 : Was(k)}
<1>1. DOMAIN au.order = 1 .. Len(au.order) /\ Len(au.order) \in Nat
  BY LenProperties DEF AuctionStates
<1>2. NextLots(au) = {au.order[i] : i \in First}
  BY DEF NextLots
<1>3. PICK i \in First, j \in First : l = au.order[i] /\ m = au.order[j]
  BY <1>2
<1>4. i \in Nat /\ j \in Nat /\ 1 <= i /\ 1 <= j
  BY <1>1, <1>3
<1>5. ~(i \in 1 .. j - 1) /\ ~(j \in 1 .. i - 1)
  BY <1>3
<1>6. i = j
  BY <1>4, <1>5
<1> QED BY <1>3, <1>6

(* The active lot has been back in trade, last.                            *)
LEMMA ActiveIsLast ==
  ASSUME NEW au \in AuctionStates
  PROVE  /\ ActiveLots(au) \subseteq Members(au.activated)
         /\ DOMAIN au.activated = 1 .. Len(au.activated) /\ Len(au.activated) \in Nat
         /\ au.activated # <<>> => Len(au.activated) \in DOMAIN au.activated
<1>1. au.activated \in Seq(Lots)
  BY DEF AuctionStates
<1>2. DOMAIN au.activated = 1 .. Len(au.activated) /\ Len(au.activated) \in Nat
  BY <1>1, LenProperties
<1>3. au.activated # <<>> => Len(au.activated) \in DOMAIN au.activated
  BY <1>1, <1>2, EmptySeq
<1>4. ActiveLots(au) \subseteq Members(au.activated)
  BY <1>3 DEF ActiveLots, Members
<1> QED BY <1>2, <1>3, <1>4

(* When no lot of the final is active, all that had a turn are completed.  *)
LEMMA TurnsAreOver ==
  ASSUME NEW au \in AuctionStates, InTurns(au), au.phase = "Final", ActiveLots(au) = {}
  PROVE  Members(au.activated) \subseteq au.completed
<1> SUFFICES ASSUME NEW i \in DOMAIN au.activated PROVE au.activated[i] \in au.completed
  BY DEF Members
<1>1. /\ DOMAIN au.activated = 1 .. Len(au.activated) /\ Len(au.activated) \in Nat
  BY ActiveIsLast
<1>2. au.activated # <<>>
  OBVIOUS
<1>3. au.activated[Len(au.activated)] \in au.completed
  BY <1>2 DEF ActiveLots
<1>4. CASE i < Len(au.activated)
  BY <1>4 DEF InTurns
<1>5. CASE i = Len(au.activated)
  BY <1>3, <1>5
<1> QED BY <1>1, <1>4, <1>5

(* What follows for the lots of an auction.                                *)
LEMMA OneComes ==
  ASSUME Types, NEW a \in Auctions, FinalInOrder(a)
  PROVE  \A l, m \in LotsOf(a) : lot[l].phase = "Live" /\ lot[m].phase = "Live" => l = m
<1> DEFINE au == auction[a]
<1>1. au \in AuctionStates
  BY DEF Types, TypesOfAuctions
<1>2. InTurns(au) /\ au.completed \subseteq OverLots
  BY DEF FinalInOrder
<1> SUFFICES ASSUME NEW l \in LotsOf(a), NEW m \in LotsOf(a), lot[l].phase = "Live", lot[m].phase = "Live"
             PROVE  l = m
  OBVIOUS
<1>3. \A k \in {l, m} : MayCome(au, k) /\ k \notin au.completed
  BY <1>2 DEF FinalInOrder, Coming, OverLots, Over
<1> HIDE DEF au
<1>4. ASSUME NEW k \in {l, m}, k \in Members(au.activated)
      PROVE  k = au.activated[Len(au.activated)]
  <2>1. PICK i \in DOMAIN au.activated : k = au.activated[i]
    BY <1>4 DEF Members
  <2>2. DOMAIN au.activated = 1 .. Len(au.activated) /\ Len(au.activated) \in Nat
    BY <1>1, ActiveIsLast
  <2>3. ~(i < Len(au.activated))
    BY <1>2, <1>3, <2>1 DEF InTurns
  <2>4. i = Len(au.activated)
    BY <2>2, <2>3
  <2> QED BY <2>1, <2>4
<1>5. CASE l \in Members(au.activated) /\ m \in Members(au.activated)
  BY <1>4, <1>5
<1>6. CASE l \notin Members(au.activated) /\ m \notin Members(au.activated)
  BY <1>1, <1>3, <1>6, OneIsNext DEF MayCome
<1>7. CASE ~(l \in Members(au.activated) <=> m \in Members(au.activated))
  BY <1>3, <1>7 DEF MayCome
<1> QED BY <1>5, <1>6, <1>7

-----------------------------------------------------------------------------
(* Steps that bring back no lot.                                           *)

LEMMA OverStays ==
  ASSUME NEW a \in Auctions, LotsMove(a)
  PROVE  OverLots \subseteq OverLots'
BY DEF LotsMove, OverLots

(* The journal goes on in turns.                                           *)
LEMMA GoesOnInTurns ==
  ASSUME NEW au \in AuctionStates, NEW after, InTurns(au), GoesOn(au, after)
  PROVE  /\ InTurns(after)
         /\ after.completed \subseteq au.completed \cup OverLots
         /\ \A l : MayCome(au, l) => MayCome(after, l)
<1>1. PICK S \in SUBSET (ActiveLots(au) \cap OverLots) : after.completed = au.completed \cup S
  BY DEF GoesOn
<1>2. after.activated = au.activated /\ (after.phase \notin FinalPhases => au.phase \notin FinalPhases)
  BY DEF GoesOn
<1>3. au.completed \subseteq Members(au.activated) /\ after.completed \subseteq Members(au.activated)
  BY <1>1, ActiveIsLast DEF InTurns
<1>4. InTurns(after)
  BY <1>1, <1>2, <1>3 DEF InTurns
<1>5. ASSUME NEW l, MayCome(au, l) PROVE MayCome(after, l)
  <2>1. after.order = au.order /\ au.phase \in FinalPhases /\ after.phase \in FinalPhases
    BY <1>5 DEF MayCome, GoesOn
  <2>2. Members(after.activated) \cup after.completed = Members(au.activated) \cup au.completed
    BY <1>2, <1>3
  <2>3. NextLots(after) = NextLots(au)
    BY <2>1, <2>2 DEF NextLots
  <2>4. au.completed \subseteq after.completed
    BY <1>1
  <2> QED BY <1>2, <1>5, <2>1, <2>3, <2>4 DEF MayCome
<1> QED BY <1>1, <1>4, <1>5

LEMMA QuietKeeps ==
  ASSUME Inv, FinalInv, NEW a \in Auctions, Quiet(a), OverLots \subseteq OverLots',
         \A b \in Auctions \ {a} : auction'[b] = auction[b]
  PROVE  FinalInv'
<1>1. \A b \in Auctions : auction[b] \in AuctionStates
  BY DEF Inv, Types, TypesOfAuctions
<1>2. NotedAreOver'
  BY DEF FinalInv, NotedAreOver, Quiet
<1>3. ASSUME NEW b \in Auctions PROVE FinalInOrder(b)'
  <2>1. FinalInOrder(b) /\ InTurns(auction[b])
    BY DEF FinalInv, FinalInOrder
  <2>2. /\ InTurns(auction'[b]) /\ auction'[b].completed \subseteq auction[b].completed \cup OverLots
        /\ \A l : MayCome(auction[b], l) => MayCome(auction'[b], l)
    <3>1. CASE b = a
      BY <1>1, <2>1, <3>1, GoesOnInTurns DEF Quiet
    <3>2. CASE b # a
      BY <2>1, <3>2
    <3> QED BY <3>1, <3>2
  <2>3. \A l \in LotsOf(b) : Coming(l)' => MayCome(auction'[b], l)
    BY <2>1, <2>2 DEF Quiet, FinalInOrder, LotsOf
  <2> QED BY <2>1, <2>2, <2>3 DEF FinalInOrder, LotsOf
<1> QED BY <1>2, <1>3 DEF FinalInv

LEMMA KeptQuietKeeps ==
  ASSUME Inv, FinalInv, NEW a \in Auctions, Kept(a), Quiet(a)
  PROVE  FinalInv'
<1>1. OverLots \subseteq OverLots' /\ \A b \in Auctions \ {a} : auction'[b] = auction[b]
  BY OverStays DEF Kept, Modest, PhasesMove
<1> QED BY <1>1, QuietKeeps

(* The journal goes on where it is not touched, or only its phase is.      *)
LEMMA PhaseGoesOn ==
  ASSUME NEW before, NEW after,
         after.activated = before.activated, after.completed = before.completed,
         before.phase \in FinalPhases => after.phase \in FinalPhases,
         after.order = before.order \/ before.phase \notin FinalPhases
  PROVE  GoesOn(before, after)
<1>1. {} \in SUBSET (ActiveLots(before) \cap OverLots) /\ after.completed = before.completed \cup {}
  OBVIOUS
<1> QED BY <1>1 DEF GoesOn

LEMMA StillGoesOn ==
  ASSUME NEW au
  PROVE  GoesOn(au, au)
BY PhaseGoesOn

LEMMA CompletionGoesOn ==
  ASSUME Inv, NEW a \in Auctions, NEW l \in OverLots
  PROVE  GoesOn(auction[a], Completed(a, l))
<1>1. auction[a] \in AuctionStates
  BY DEF Inv, Types, TypesOfAuctions
<1>2. /\ Completed(a, l).phase = auction[a].phase /\ Completed(a, l).activated = auction[a].activated
      /\ Completed(a, l).order = auction[a].order
      /\ Completed(a, l).completed = auction[a].completed \cup ({l} \cap ActiveLots(auction[a]))
  BY <1>1 DEF Completed, AuctionStates
<1>3. {l} \cap ActiveLots(auction[a]) \in SUBSET (ActiveLots(auction[a]) \cap OverLots)
  OBVIOUS
<1> QED BY <1>2, <1>3 DEF GoesOn

(* The lots and their calls stay.                                          *)
LEMMA JournalQuiet ==
  ASSUME Inv, NEW a \in Auctions, UNCHANGED <<lot, calls, strays>>,
         \A b \in Auctions : notes'[b].ended \subseteq notes[b].ended,
         GoesOn(auction[a], auction'[a])
  PROVE  Quiet(a)
BY DEF Quiet, Coming

(* The auction takes a step of its roster.                                 *)
LEMMA FollowQuiet ==
  ASSUME Inv, NEW a \in Auctions, NEW queues \in Queues,
         \A l \in Lots : Resuming(queues[l]) => Resuming(calls[l]),
         NEW s, StepOK(s), s.notes.ended \subseteq OverLots, Follow(a, queues, s),
         UNCHANGED <<lot, strays>>, GoesOn(auction[a], auction'[a])
  PROVE  Quiet(a)
<1>1. \A l \in Lots : Resuming(calls'[l]) => Resuming(queues[l])
  BY FollowType, TypesNow
<1>2. \A b \in Auctions : notes'[b].ended \subseteq notes[b].ended \cup s.notes.ended
  BY TypesNow DEF Follow, Notes
<1> QED BY <1>1, <1>2 DEF Quiet, Coming

-----------------------------------------------------------------------------
(* A roster notes of no lot that it has ended but of one that says so.     *)

LEMMA NoNotesOf ==
  ASSUME NEW known
  PROVE  /\ Unmoved(known).notes.ended = {}
         /\ \A sent : Step(known, sent, NoNotes).notes.ended = {}
         /\ \A lots : Ask(known, lots).notes.ended = {} /\ Withdraw(known, lots).notes.ended = {}
         /\ \A l, s : Mark(known, l, s).notes.ended = {}
BY DEF Unmoved, Step, Ask, Withdraw, Mark, NoNotes

LEMMA NotedEnds ==
  ASSUME NEW au, NEW s, StepOK(s)
  PROVE  /\ Settling(au, s).notes.ended = s.notes.ended
         /\ \A counted : BreakOver(au, counted, s).notes.ended = s.notes.ended
<1>1. s.notes \in Notes /\ s = [know |-> s.know, calls |-> s.calls, notes |-> s.notes]
  BY DEF StepOK
<1>2. \A b : [s EXCEPT !.notes.settle = b].notes.ended = s.notes.ended
  BY <1>1 DEF Notes
<1>3. [s EXCEPT !.notes.finish = TRUE].notes.ended = s.notes.ended
  BY <1>1 DEF Notes
<1> QED BY <1>2, <1>3 DEF Settling, BreakOver

LEMMA AskingEndsNothing ==
  ASSUME NEW au, NEW S, NEW known, Roster(au, S, known)
  PROVE  /\ Survey(au, known).notes.ended = {} /\ Resume(au, known).notes.ended = {}
         /\ WithdrawAgain(au, known).notes.ended = {} /\ AskSilent(au, known).notes.ended = {}
<1>1. StepOK(Ask(known, au.registry))
  <2>1. known \in Knowledge /\ au.registry \in SUBSET Lots
    BY DEF Roster, Owns
  <2> QED BY <2>1, StepType
<1>2. Settling(au, Ask(known, au.registry)).notes.ended = {}
  <2>1. Ask(known, au.registry).notes.ended = {}
    BY NoNotesOf
  <2> QED BY <1>1, <2>1, NotedEnds
<1>3. Step(known, <<>>, [NoNotes EXCEPT !.finish = TRUE]).notes.ended = {}
  BY DEF Step, NoNotes
<1>4. Survey(au, known).notes.ended = {}
  BY <1>2, <1>3, NoNotesOf DEF Survey
<1>5. Resume(au, known).notes.ended = {} /\ WithdrawAgain(au, known).notes.ended = {}
  BY NoNotesOf DEF Resume, WithdrawAgain
<1>6. AskSilent(au, known).notes.ended = {}
  BY NoNotesOf DEF AskSilent
<1> QED BY <1>4, <1>5, <1>6

LEMMA AnswerEndsNothing ==
  ASSUME NEW au, NEW known \in Knowledge, NEW l \in Lots, NEW answer, NEW counted
  PROVE  /\ Opened(au, known, l, answer).notes.ended = {}
         /\ Closed(au, known, l, answer).notes.ended = {}
         /\ EndedByAuctioneer(au, known, counted, l, answer).notes.ended = {}
         /\ RemovalAnswered(known, l).notes.ended = {}
         /\ Withdrawn(known, l, answer).notes.ended = {}
         /\ Due(au, known, l).notes.ended = {}
<1>1. ASSUME NEW s \in {"Declined", "Held", "Closed"}
      PROVE  /\ Settling(au, Mark(known, l, s)).notes.ended = {}
             /\ BreakOver(au, counted, Mark(known, l, s)).notes.ended = {}
  <2>1. s \in Standings /\ {} \in SUBSET Lots
    BY DEF Standings
  <2>2. StepOK(Mark(known, l, s))
    BY <2>1, StepType
  <2> QED BY <2>2, NotedEnds, NoNotesOf
<1>2. Opened(au, known, l, answer).notes.ended = {}
  BY <1>1, NoNotesOf DEF Opened
<1>3. Closed(au, known, l, answer).notes.ended = {}
  BY <1>1, NoNotesOf DEF Closed
<1>4. EndedByAuctioneer(au, known, counted, l, answer).notes.ended = {}
  BY <1>1, NoNotesOf DEF EndedByAuctioneer
<1>5. RemovalAnswered(known, l).notes.ended = {} /\ Withdrawn(known, l, answer).notes.ended = {}
  BY NoNotesOf DEF RemovalAnswered, Withdrawn
<1>6. Due(au, known, l).notes.ended = {}
  BY NoNotesOf DEF Due
<1> QED BY <1>2, <1>3, <1>4, <1>5, <1>6

LEMMA ObservedEnds ==
  ASSUME NEW au, NEW known \in Knowledge, NEW l \in Lots, NEW report, NEW counted
  PROVE  Observed(au, known, counted, l, report).notes.ended \subseteq {m \in {l} : report = "Over"}
<1> DEFINE asked ==
             CASE report = "Trading" -> Mark(known, l, "Active")
               [] report = "Held"    -> Mark(known, l, "Held")
               [] report = "Over"    -> Mark(known, l, "Closed")
               [] OTHER -> IF au.phase = "Prebidding"
                             THEN Step(Marked(known, {l}, "Opening"), [m \in {l} |-> "Open"], NoNotes)
                             ELSE Mark(known, l, "NotOpened")
<1>1. StepOK(asked) /\ asked.notes.ended = {}
  <2>1. {"Opening", "Active", "Held", "Closed", "NotOpened"} \subseteq Standings
        /\ {} \in SUBSET Lots /\ "Open" \in Errands
    BY DEF Standings, Errands
  <2>2. \A s \in {"Active", "Held", "Closed", "NotOpened"} :
          StepOK(Mark(known, l, s)) /\ Mark(known, l, s).notes.ended = {}
    BY <2>1, StepType, NoNotesOf
  <2> DEFINE open == Step(Marked(known, {l}, "Opening"), [m \in {l} |-> "Open"], NoNotes)
  <2>3. open.notes.ended = {}
    BY NoNotesOf
  <2>4. StepOK(open)
    <3>1. Marked(known, {l}, "Opening") \in Knowledge /\ NoNotes \in Notes
      BY <2>1, MarkedType, StepType
    <3> QED BY <2>1, <3>1, SentErrands DEF StepOK, Step
  <2> HIDE DEF open
  <2> QED BY <2>2, <2>3, <2>4 DEF open
<1> HIDE DEF asked
<1>2. BreakOver(au, counted, Settling(au, asked)).notes.ended = {}
  <2>1. StepOK(Settling(au, asked)) /\ Settling(au, asked).notes.ended = {}
    BY <1>1, NotedType, NotedEnds
  <2> QED BY <2>1, NotedEnds
<1>3. ObservedInFinal(known, l, report).notes.ended \subseteq {m \in {l} : report = "Over"}
  BY NoNotesOf DEF ObservedInFinal, Step, NoNotes
<1>4. \/ Observed(au, known, counted, l, report) = Unmoved(known)
      \/ Observed(au, known, counted, l, report) = BreakOver(au, counted, Settling(au, asked))
      \/ Observed(au, known, counted, l, report) = ObservedInFinal(known, l, report)
  BY DEF Observed, asked
<1> QED BY <1>2, <1>3, <1>4, NoNotesOf

-----------------------------------------------------------------------------
(* The answers of the lots, and their silence.                             *)

LEMMA OnlyFollowQuiet ==
  ASSUME Inv, NEW l \in Lots, NEW queues \in Queues,
         \A m \in Lots : Resuming(queues[m]) => Resuming(calls[m]),
         NEW s, StepOK(s), s.notes.ended \subseteq OverLots, OnlyFollow(l, queues, s)
  PROVE  Quiet(AuctionOf[l])
<1>1. AuctionOf[l] \in Auctions
  BY OwnLot
<1>2. /\ Follow(AuctionOf[l], queues, s) /\ UNCHANGED <<lot, strays>>
      /\ GoesOn(auction[AuctionOf[l]], auction'[AuctionOf[l]])
  BY StillGoesOn DEF OnlyFollow
<1> QED BY <1>1, <1>2, FollowQuiet

LEMMA TakenQuiet ==
  ASSUME Inv, NEW l \in Lots, NEW i \in DOMAIN calls[l]
  PROVE  Taken(l, i) \in Queues /\ \A m \in Lots : Resuming(Taken(l, i)[m]) => Resuming(calls[m])
BY TakenType, TypesNow

LEMMA LotAnswersQuiet ==
  ASSUME Inv, NEW l \in Lots, NEW i \in DOMAIN calls[l],
         \/ LotObserved(l, i) \/ LotAnswered(l, i) \/ LotClosed(l, i) \/ LotParticipantRemoved(l, i)
  PROVE  Quiet(AuctionOf[l])
<1> DEFINE a == AuctionOf[l]
           au == auction[AuctionOf[l]]
           answer == calls[l][i].answer
<1>1. a \in Auctions /\ l \in LotsOf(a) /\ Roster(au, LotsOf(a), know) /\ know \in Knowledge
  BY OwnLot, RosterOf, TypesNow DEF Inv
<1>2. Taken(l, i) \in Queues /\ \A m \in Lots : Resuming(Taken(l, i)[m]) => Resuming(calls[m])
  BY TakenQuiet
<1>3. \A counted :
        /\ StepOK(Observed(au, know, counted, l, answer)) /\ StepOK(Opened(au, know, l, answer))
        /\ StepOK(Closed(au, know, l, answer)) /\ StepOK(RemovalAnswered(know, l))
  BY <1>1, ObservedMinds, AnswerMinds DEF Minds
<1>4. \A counted :
        /\ Observed(au, know, counted, l, answer).notes.ended \subseteq {m \in {l} : answer = "Over"}
        /\ Opened(au, know, l, answer).notes.ended = {}
        /\ Closed(au, know, l, answer).notes.ended = {}
        /\ RemovalAnswered(know, l).notes.ended = {}
  BY <1>1, ObservedEnds, AnswerEndsNothing
<1>5. CASE LotObserved(l, i)
  <2>1. answer = "Over" => lot[l].phase \in Over
    BY <1>5, PendingCall DEF LotObserved, AnsweredByLot, TellsOver, SaysOver
  <2>2. Observed(au, know, removals, l, answer).notes.ended \subseteq OverLots
    BY <1>4, <2>1 DEF OverLots
  <2>3. OnlyFollow(l, Taken(l, i), Observed(au, know, removals, l, answer))
    BY <1>5 DEF LotObserved
  <2> QED BY <1>2, <1>3, <2>2, <2>3, OnlyFollowQuiet
<1>6. CASE LotAnswered(l, i)
  BY <1>2, <1>3, <1>4, <1>6, OnlyFollowQuiet DEF LotAnswered
<1>7. CASE LotClosed(l, i)
  BY <1>2, <1>3, <1>4, <1>7, OnlyFollowQuiet DEF LotClosed
<1>8. CASE LotParticipantRemoved(l, i)
  BY <1>2, <1>3, <1>4, <1>8, OnlyFollowQuiet DEF LotParticipantRemoved
<1> QED BY <1>5, <1>6, <1>7, <1>8

LEMMA DeadlineQuiet ==
  ASSUME Inv, NEW l \in Lots, DeadlineDue(l)
  PROVE  Quiet(AuctionOf[l])
<1> DEFINE step == Due(auction[AuctionOf[l]], know, l)
<1>1. /\ l \in LotsOf(AuctionOf[l]) /\ Roster(auction[AuctionOf[l]], LotsOf(AuctionOf[l]), know)
      /\ know \in Knowledge /\ calls \in Queues
  BY OwnLot, RosterOf, TypesNow DEF Inv
<1>2. StepOK(step) /\ step.notes.ended = {}
  BY <1>1, AnswerMinds, AnswerEndsNothing DEF Minds
<1>3. OnlyFollow(l, calls, step)
  BY DEF DeadlineDue
<1> QED BY <1>1, <1>2, <1>3, OnlyFollowQuiet

LEMMA LotWithdrewQuiet ==
  ASSUME Inv, NEW l \in Lots, NEW i \in DOMAIN calls[l], LotWithdrew(l, i)
  PROVE  Quiet(AuctionOf[l])
<1> DEFINE step == Withdrawn(know, l, calls[l][i].answer)
<1>1. AuctionOf[l] \in Auctions /\ know \in Knowledge
  BY OwnLot, TypesNow
<1>2. StepOK(step) /\ step.notes.ended = {}
  BY <1>1, WithdrawnType, AnswerEndsNothing
<1>3. Follow(AuctionOf[l], Taken(l, i), step) /\ UNCHANGED <<auction, lot, strays>>
  BY DEF LotWithdrew
<1>4. GoesOn(auction[AuctionOf[l]], auction'[AuctionOf[l]])
  BY <1>3, StillGoesOn
<1> HIDE DEF step
<1> QED BY <1>1, <1>2, <1>3, <1>4, TakenQuiet, FollowQuiet

(* A lot that answers for its sale is over.                                *)
LEMMA LotEndedQuiet ==
  ASSUME Inv, NEW l \in Lots, NEW i \in DOMAIN calls[l], LotEnded(l, i)
  PROVE  Quiet(AuctionOf[l])
<1> DEFINE a == AuctionOf[l]
           answer == calls[l][i].answer
           step == EndedByAuctioneer(auction[a], know, removals, l, answer)
<1>1. a \in Auctions /\ l \in LotsOf(a) /\ Roster(auction[a], LotsOf(a), know) /\ know \in Knowledge
  BY OwnLot, RosterOf, TypesNow DEF Inv
<1>2. StepOK(step) /\ step.notes.ended = {}
  BY <1>1, AnswerMinds, AnswerEndsNothing DEF Minds
<1>3. StepOK(Ended(a, l, step)) /\ Ended(a, l, step).notes.ended = {}
  <2> DEFINE finish == step.notes.finish \/ (LineupCompleted(Completed(a, l)) /\ l \in Completed(a, l).completed)
  <2>1. step.notes \in Notes /\ step = [know |-> step.know, calls |-> step.calls, notes |-> step.notes]
    BY <1>2 DEF StepOK
  <2>2. finish \in BOOLEAN
    BY <2>1 DEF Notes, LineupCompleted
  <2> HIDE DEF finish
  <2>3. [step.notes EXCEPT !.finish = finish] \in Notes /\ [step.notes EXCEPT !.finish = finish].ended = {}
    BY <1>2, <2>1, <2>2 DEF Notes
  <2>4. Ended(a, l, step) = [step EXCEPT !.notes = [step.notes EXCEPT !.finish = finish]]
    BY <2>1 DEF Ended, Notes, finish
  <2> HIDE DEF step
  <2> QED BY <1>2, <2>1, <2>3, <2>4 DEF StepOK
<1>4. Taken(l, i) \in Queues /\ \A m \in Lots : Resuming(Taken(l, i)[m]) => Resuming(calls[m])
  BY TakenQuiet
<1>5. /\ AnsweredByLot(l, i, "Sale")
      /\ IF answer = "Refused"
           THEN Follow(a, Taken(l, i), step) /\ auction' = auction
           ELSE /\ auction' = [auction EXCEPT ![a] = Completed(a, l)]
                /\ Follow(a, Taken(l, i), Ended(a, l, step))
      /\ UNCHANGED <<lot, strays>>
  BY DEF LotEnded
<1>6. CASE answer = "Refused"
  <2>1. Follow(a, Taken(l, i), step) /\ GoesOn(auction[a], auction'[a])
    BY <1>5, <1>6, StillGoesOn
  <2> HIDE DEF step
  <2> QED BY <1>1, <1>2, <1>4, <1>5, <2>1, FollowQuiet
<1>7. CASE answer # "Refused"
  <2>1. l \in OverLots
    BY <1>5, <1>7, PendingCall DEF AnsweredByLot, TellsOver, SaysOver, OverLots
  <2>2. auction'[a] = Completed(a, l)
    BY <1>1, <1>5, <1>7 DEF Inv, Types, TypesOfAuctions
  <2>3. Follow(a, Taken(l, i), Ended(a, l, step)) /\ GoesOn(auction[a], auction'[a])
    BY <1>1, <1>5, <1>7, <2>1, <2>2, CompletionGoesOn
  <2> HIDE DEF step
  <2> QED BY <1>1, <1>3, <1>4, <1>5, <2>3, FollowQuiet
<1> QED BY <1>6, <1>7

(* A call given up stays in its queue as it was.                           *)
LEMMA SilenceQuiet ==
  ASSUME Inv, NEW l \in Lots, NEW i \in DOMAIN calls[l], LotSilent(l, i)
  PROVE  Quiet(AuctionOf[l])
<1> DEFINE a == AuctionOf[l]
           c == calls[l][i]
           late == [c EXCEPT !.waits = FALSE]
           givenUp == [calls EXCEPT ![l][i].waits = FALSE]
           queues == IF c.answer = "Lost" THEN Taken(l, i) ELSE givenUp
           step == CASE c.kind = "Remove" -> RemovalAnswered(know, l)
                     [] c.kind = "Resume" -> Unmoved(know)
                     [] OTHER             -> Unmoved(Unanswered(know, l))
<1>1. a \in Auctions /\ l \in LotsOf(a) /\ Roster(auction[a], LotsOf(a), know) /\ know \in Knowledge
  BY OwnLot, RosterOf, TypesNow DEF Inv
<1>2. /\ calls \in Queues /\ c \in LotCalls /\ OverAsTold(calls, lot)
      /\ (TellsOver(c) => lot[l].phase \in Over)
  BY PendingCall
<1>3. late \in LotCalls /\ (TellsOver(late) => TellsOver(c)) /\ (Resumes(late) => Resumes(c))
  BY <1>2 DEF LotCalls, TellsOver, Resumes
<1>4. givenUp = [calls EXCEPT ![l] = [calls[l] EXCEPT ![i] = late]]
  BY <1>2 DEF Queues
<1>5. givenUp \in Queues /\ \A m \in Lots : Resuming(givenUp[m]) => Resuming(calls[m])
  BY <1>2, <1>3, <1>4, CallChanges
<1>6. queues \in Queues /\ \A m \in Lots : Resuming(queues[m]) => Resuming(calls[m])
  BY <1>5, TakenQuiet
<1>7. StepOK(step) /\ step.notes.ended = {}
  BY <1>1, AnswerMinds, SilenceMinds, UnmovedMinds, AnswerEndsNothing, NoNotesOf DEF Minds
<1>8. Follow(a, queues, step) /\ UNCHANGED <<lot, strays, auction>>
  BY DEF LotSilent
<1>9. GoesOn(auction[a], auction'[a])
  BY <1>8, StillGoesOn
<1> HIDE DEF a, queues, step
<1>10. Quiet(a)
  BY <1>1, <1>6, <1>7, <1>8, <1>9, FollowQuiet
<1> QED BY <1>10 DEF a

-----------------------------------------------------------------------------
(* What the lots handle.                                                   *)

(* A call that is handled, or lost, does not come back.                    *)
LEMMA CallLostQuiet ==
  ASSUME Inv, NEW l \in Lots, NEW i \in DOMAIN calls[l], CallLost(l, i)
  PROVE  Quiet(AuctionOf[l])
<1> DEFINE c == calls[l][i]
           lost == [c EXCEPT !.answer = "Lost"]
<1>1. calls \in Queues /\ c \in LotCalls /\ OverAsTold(calls, lot)
  BY PendingCall
<1>2. lost \in LotCalls /\ ~TellsOver(lost) /\ ~Resumes(lost)
  BY <1>1 DEF LotCalls, TellsOver, Answers, Resumes
<1>3. calls' = [calls EXCEPT ![l] = [calls[l] EXCEPT ![i] = lost]]
  BY <1>1 DEF Queues, CallLost
<1> HIDE DEF lost
<1>4. \A m \in Lots : Resuming(calls'[m]) => Resuming(calls[m])
  BY <1>1, <1>2, <1>3, CallChanges
<1>5. auction' = auction /\ notes' = notes /\ lot' = lot /\ strays' = strays
  BY DEF CallLost, roster
<1> QED BY <1>4, <1>5, StillGoesOn DEF Quiet, Coming

(* A lot comes live by a call that was to resume it.                       *)
LEMMA LotComes ==
  ASSUME Inv, NEW l \in Lots, NEW kind \in Kinds, NEW o \in Outcomes(lot[l], kind),
         lot' = [lot EXCEPT ![l] = o.state], kind = "Resume" => Coming(l)
  PROVE  \A m \in Lots : lot'[m].phase = "Live" => Coming(m)
<1>1. Fits(lot[l], kind, o)
  BY LotChanges
<1>2. \A m \in Lots : lot'[m] = IF m = l THEN o.state ELSE lot[m]
  BY DEF Inv, Types, TypesOfLots
<1> QED BY <1>1, <1>2 DEF Fits, Coming

LEMMA LotHandlesQuiet ==
  ASSUME Inv, NEW l \in Lots, NEW i \in DOMAIN calls[l], LotHandles(l, i)
  PROVE  Quiet(AuctionOf[l])
<1> DEFINE c == calls[l][i]
<1>1. calls \in Queues /\ c \in LotCalls /\ c.kind \in Kinds /\ c.answer = "None"
  BY PendingCall DEF LotCalls, LotHandles, Unhandled
<1>2. PICK o \in Outcomes(lot[l], c.kind) :
        /\ lot' = [lot EXCEPT ![l] = o.state]
        /\ strays' = [strays EXCEPT ![l] = StillMove(o.state, @)]
        /\ calls' = [calls EXCEPT ![l] =
             IF c.waits THEN [@ EXCEPT ![i].answer = o.answer] ELSE Without(@, i)]
  BY DEF LotHandles
<1>3. Fits(lot[l], c.kind, o) /\ OverAsTold(calls, lot') /\ lot'[l] = o.state
  BY <1>1, <1>2, LotChanges
<1>4. c.kind = "Resume" => Coming(l)
  BY <1>1 DEF Coming, Resuming, Resumes
<1>5. \A m \in Lots : lot'[m].phase = "Live" => Coming(m)
  BY <1>1, <1>2, <1>4, LotComes
<1>6. \A m \in Lots : strays'[m] \subseteq strays[m]
  BY <1>2, TypesNow DEF StillMove
<1>7. \A m \in Lots : Resuming(calls'[m]) => Resuming(calls[m])
  <2> DEFINE answered == [c EXCEPT !.answer = o.answer]
  <2>1. answered \in LotCalls /\ answered.kind = c.kind /\ answered.answer = o.answer
    BY <1>1, <1>3 DEF LotCalls, Fits
  <2>2. (TellsOver(answered) => lot'[l].phase \in Over) /\ ~Resumes(answered)
    BY <1>3, <2>1 DEF TellsOver, Fits, Resumes
  <2>3. CASE c.waits
    <3>1. calls' = [calls EXCEPT ![l] = [calls[l] EXCEPT ![i] = answered]]
      BY <1>1, <1>2, <2>3 DEF Queues
    <3> HIDE DEF answered
    <3> QED BY <1>1, <1>3, <2>1, <2>2, <3>1, CallChanges
  <2>4. CASE ~c.waits
    <3>1. calls' = Taken(l, i)
      BY <1>2, <2>4 DEF Taken
    <3> QED BY <3>1, TakenQuiet
  <2> QED BY <2>3, <2>4
<1>8. auction' = auction /\ notes' = notes
  BY DEF LotHandles, roster
<1>9. \A m \in Lots : Coming(m)' => Coming(m)
  BY <1>5, <1>6, <1>7 DEF Coming
<1> QED BY <1>8, <1>9, StillGoesOn DEF Quiet

LEMMA StrayQuiet ==
  ASSUME Inv, NEW l \in Lots, NEW kind \in strays[l], StrayArrives(l, kind)
  PROVE  Quiet(AuctionOf[l])
<1>1. kind \in Kinds /\ (kind = "Resume" => Coming(l))
  BY TypesNow DEF Coming
<1>2. PICK o \in Outcomes(lot[l], kind) :
        /\ lot' = [lot EXCEPT ![l] = o.state]
        /\ strays' = [strays EXCEPT ![l] = StillMove(o.state, @ \ {kind})]
  BY DEF StrayArrives
<1>3. \A m \in Lots : lot'[m].phase = "Live" => Coming(m)
  BY <1>1, <1>2, LotComes
<1>4. \A m \in Lots : strays'[m] \subseteq strays[m]
  BY <1>2, TypesNow DEF StillMove
<1>5. auction' = auction /\ notes' = notes /\ calls' = calls
  BY DEF StrayArrives, roster
<1>6. \A m \in Lots : Coming(m)' => Coming(m)
  BY <1>3, <1>4, <1>5 DEF Coming
<1> QED BY <1>5, <1>6, StillGoesOn DEF Quiet

-----------------------------------------------------------------------------
(* Steps of an auction.                                                    *)

LEMMA PhaseQuiet ==
  ASSUME Inv, NEW a \in Auctions, NEW phase,
         auction[a].phase \in FinalPhases => phase \in FinalPhases,
         auction' = [auction EXCEPT ![a] = [auction[a] EXCEPT !.phase = phase]]
  PROVE  GoesOn(auction[a], auction'[a])
<1>1. /\ auction[a] \in AuctionStates /\ auction'[a] = [auction[a] EXCEPT !.phase = phase]
  BY DEF Inv, Types, TypesOfAuctions
<1>2. /\ auction'[a].phase = phase /\ auction'[a].activated = auction[a].activated
      /\ auction'[a].completed = auction[a].completed /\ auction'[a].order = auction[a].order
  BY <1>1 DEF AuctionStates
<1> QED BY <1>2, PhaseGoesOn

LEMMA PrebiddingQuiet ==
  ASSUME Inv, NEW a \in Auctions, PrebiddingDue(a)
  PROVE  Quiet(a)
<1> DEFINE after == [auction[a] EXCEPT !.phase = "Settling"]
           step == Settling(after, Unmoved(know))
<1>1. /\ auction' = [auction EXCEPT ![a] = after] /\ Follow(a, calls, step)
      /\ UNCHANGED <<lot, strays>> /\ auction[a].phase \notin FinalPhases
  BY DEF PrebiddingDue, FinalPhases
<1>2. GoesOn(auction[a], auction'[a])
  BY <1>1, PhaseQuiet
<1>3. StepOK(step) /\ step.notes.ended = {}
  <2>1. StepOK(Unmoved(know)) /\ Unmoved(know).notes.ended = {}
    BY StepType, TypesNow, NoNotesOf
  <2> QED BY <2>1, NotedType, NotedEnds
<1> HIDE DEF step
<1> QED BY <1>1, <1>2, <1>3, TypesNow, FollowQuiet

LEMMA LotsSettledQuiet ==
  ASSUME Inv, NEW a \in Auctions, NEW held \in BOOLEAN, LotsSettled(a, held)
  PROVE  Quiet(a)
<1> DEFINE phase == IF held THEN "Break" ELSE "Finished"
<1>1. UNCHANGED <<lot, calls, strays>> /\ \A b \in Auctions : notes'[b].ended \subseteq notes[b].ended
  BY TypesNow DEF LotsSettled, lotSide, Notes
<1>2. CASE auction[a].phase = "Settling"
  <2>1. /\ auction' = [auction EXCEPT ![a] = [auction[a] EXCEPT !.phase = phase]]
        /\ auction[a].phase \notin FinalPhases
    BY <1>2 DEF LotsSettled, FinalPhases
  <2> HIDE DEF phase
  <2> QED BY <1>1, <2>1, PhaseQuiet, JournalQuiet
<1>3. CASE auction[a].phase # "Settling"
  <2>1. auction' = auction
    BY <1>3 DEF LotsSettled
  <2> QED BY <1>1, <2>1, StillGoesOn, JournalQuiet
<1> QED BY <1>2, <1>3

LEMMA FinishQuiet ==
  ASSUME Inv, NEW a \in Auctions, FinishDue(a)
  PROVE  Quiet(a)
<1>1. UNCHANGED <<lot, calls, strays>> /\ \A b \in Auctions : notes'[b].ended \subseteq notes[b].ended
  BY TypesNow DEF FinishDue, lotSide, Notes
<1>2. CASE LineupCompleted(auction[a]) \/ Sold(a)
  <2>1. /\ auction' = [auction EXCEPT ![a] = [auction[a] EXCEPT !.phase = "Finished"]]
        /\ "Finished" \in FinalPhases
    BY <1>2 DEF FinishDue, FinalPhases
  <2> QED BY <1>1, <2>1, PhaseQuiet, JournalQuiet
<1>3. CASE ~(LineupCompleted(auction[a]) \/ Sold(a))
  <2>1. auction' = auction
    BY <1>3 DEF FinishDue
  <2> QED BY <1>1, <2>1, StillGoesOn, JournalQuiet
<1> QED BY <1>2, <1>3

(* What it has noted of a lot still holds.                                 *)
LEMMA FinalLotEndedQuiet ==
  ASSUME Inv, FinalInv, NEW a \in Auctions, NEW l \in LotsOf(a), FinalLotEnded(a, l)
  PROVE  Quiet(a)
<1>1. l \in OverLots
  BY DEF FinalLotEnded, FinalInv, NotedAreOver
<1>2. auction'[a] = Completed(a, l)
  BY DEF FinalLotEnded, Inv, Types, TypesOfAuctions
<1>3. GoesOn(auction[a], auction'[a])
  BY <1>1, <1>2, CompletionGoesOn
<1>4. UNCHANGED <<lot, calls, strays>>
  BY DEF FinalLotEnded, lotSide
<1>5. \A b \in Auctions : notes'[b].ended \subseteq notes[b].ended
  <2>1. notes \in [Auctions -> Notes]
    BY TypesNow
  <2>2. \A b \in Auctions : b # a => notes'[b] = notes[b]
    BY <2>1 DEF FinalLotEnded
  <2>3. notes'[a].ended = notes[a].ended \ {l}
    BY <2>1 DEF FinalLotEnded, Notes
  <2> QED BY <2>2, <2>3
<1> QED BY <1>3, <1>4, <1>5, JournalQuiet

LEMMA LineupQuiet ==
  ASSUME Inv, NEW a \in Auctions, BeginFinal(a) \/ \E order : Freeze(a, order)
  PROVE  Quiet(a)
<1>1. /\ UNCHANGED <<lot, calls, strays>> /\ notes' = notes
      /\ auction[a].phase \notin FinalPhases
  BY DEF BeginFinal, Freeze, roster, lotSide, LineupKnown, FinalPhases
<1>2. auction[a] \in AuctionStates /\ auction \in [Auctions -> AuctionStates]
  BY DEF Inv, Types, TypesOfAuctions
<1>3. auction'[a].activated = auction[a].activated /\ auction'[a].completed = auction[a].completed
  BY <1>2 DEF BeginFinal, Advance, Freeze, AuctionStates
<1>4. GoesOn(auction[a], auction'[a])
  BY <1>1, <1>3, PhaseGoesOn
<1> QED BY <1>1, <1>4, JournalQuiet

LEMMA AskingQuiet ==
  ASSUME Inv, NEW a \in Auctions, Recheck(a) \/ CancelAgain(a) \/ \E pending : Repeat(a, pending)
  PROVE  Quiet(a)
<1>1. Roster(auction[a], LotsOf(a), know)
  BY RosterOf DEF Inv
<1>2. \A s \in {AskSilent(auction[a], know), WithdrawAgain(auction[a], know), Resume(auction[a], know)} :
        StepOK(s) /\ s.notes.ended = {}
  BY <1>1, AskingMinds, AskingEndsNothing DEF Minds
<1>3. PICK s \in {AskSilent(auction[a], know), WithdrawAgain(auction[a], know), Resume(auction[a], know)} :
        Follow(a, calls, s) /\ UNCHANGED <<auction, lot, strays>>
  BY DEF Recheck, CancelAgain, Repeat
<1>4. StepOK(s) /\ s.notes.ended = {} /\ GoesOn(auction[a], auction'[a])
  BY <1>2, <1>3, StillGoesOn
<1> QED BY <1>3, <1>4, TypesNow, FollowQuiet

(* A roster that begins anew.                                              *)
LEMMA SurveyQuiet ==
  ASSUME Inv, NEW a \in Auctions, NEW au \in AuctionStates, Owns(au, LotsOf(a))
  PROVE  StepOK(Survey(au, Forgotten(a))) /\ Survey(au, Forgotten(a)).notes.ended = {}
<1>1. Roster(au, LotsOf(a), Forgotten(a))
  BY RosterOf DEF Inv, Roster
<1> QED BY <1>1, SurveyKnows, AskingEndsNothing

(* What the lost incarnation had sent may still arrive.                    *)
LEMMA RestartQuiet ==
  ASSUME Inv, NEW a \in Auctions, AuctionRestarts(a)
  PROVE  Quiet(a)
<1> DEFINE step == Survey(auction[a], Forgotten(a))
           queues == [l \in Lots |-> IF l \in LotsOf(a) THEN <<>> ELSE calls[l]]
<1>1. auction[a] \in AuctionStates /\ Owns(auction[a], LotsOf(a))
  BY DEF Inv, Types, TypesOfAuctions
<1>2. StepOK(step) /\ step.notes.ended = {}
  BY <1>1, SurveyQuiet
<1>3. /\ calls' = Sent(queues, step.calls) /\ notes' = [notes EXCEPT ![a] = step.notes]
      /\ auction' = auction /\ lot' = lot
  BY DEF AuctionRestarts
<1>4. queues \in Queues /\ \A l \in Lots : Resuming(queues[l]) => Resuming(calls[l])
  <2>1. \A l \in Lots : queues[l] \in Seq(LotCalls) /\ (queues[l] = <<>> \/ queues[l] = calls[l])
    BY TypesNow, QueueOf, EmptySeq
  <2>2. ~Resuming(<<>>)
    BY DEF Resuming
  <2> QED BY <2>1, <2>2 DEF Queues
<1>5. ASSUME NEW l \in Lots, "Resume" \in strays'[l]
      PROVE  "Resume" \in strays[l] \/ Resuming(calls[l])
  <2> DEFINE sentByIt == {calls[l][i].kind : i \in Unhandled(l)} \ {"Ask"}
  <2>1. strays'[l] = IF l \in LotsOf(a) THEN StillMove(lot[l], strays[l] \cup sentByIt) ELSE strays[l]
    BY DEF AuctionRestarts
  <2>2. "Resume" \in strays[l] \cup sentByIt
    BY <1>5, <2>1 DEF StillMove
  <2>3. "Resume" \in sentByIt => Resuming(calls[l])
    BY DEF Resuming, Resumes, Unhandled
  <2> QED BY <2>2, <2>3
<1> HIDE DEF step, queues
<1>6. \A l \in Lots : Resuming(calls'[l]) => Resuming(queues[l])
  BY <1>2, <1>3, <1>4, SentType DEF StepOK
<1>7. \A l \in Lots : Coming(l)' => Coming(l)
  BY <1>3, <1>4, <1>5, <1>6 DEF Coming
<1>8. \A b \in Auctions : notes'[b].ended \subseteq notes[b].ended
  BY <1>2, <1>3, TypesNow
<1> QED BY <1>3, <1>7, <1>8, StillGoesOn DEF Quiet

LEMMA CancelQuiet ==
  ASSUME Inv, NEW a \in Auctions, Cancel(a)
  PROVE  Quiet(a)
<1> DEFINE after == [auction[a] EXCEPT !.phase = "Cancelled"]
           step == Survey(after, Forgotten(a))
<1>1. /\ auction' = [auction EXCEPT ![a] = after] /\ Follow(a, calls, step)
      /\ UNCHANGED <<lot, strays>> /\ "Cancelled" \in FinalPhases
  BY DEF Cancel, FinalPhases
<1>2. GoesOn(auction[a], auction'[a])
  BY <1>1, PhaseQuiet
<1>3. StepOK(step) /\ step.notes.ended = {}
  <2>1. after \in AuctionStates /\ Owns(after, LotsOf(a))
    BY PhaseType DEF Inv, Phases
  <2> QED BY <2>1, SurveyQuiet
<1> HIDE DEF step
<1> QED BY <1>1, <1>2, <1>3, TypesNow, FollowQuiet

LEMMA PressesQuiet ==
  ASSUME Inv, NEW a \in Auctions, NEW l \in LotsOf(a),
         CloseByAuctioneer(a, l) \/ RemoveParticipant(a, l)
  PROVE  Quiet(a)
<1>1. \E kind \in {"Sale", "Remove"} : Sends(l, kind)
  BY DEF CloseByAuctioneer, RemoveParticipant, Presses
<1>2. {"Sale", "Remove"} \subseteq Kinds \ {"Resume"} /\ l \in Lots
  BY DEF Kinds, LotsOf
<1>3. \A m \in Lots : Resuming(calls'[m]) => Resuming(calls[m])
  BY <1>1, <1>2, SendKeeps
<1>4. auction' = auction /\ notes' = notes /\ lot' = lot /\ strays' = strays
  BY DEF CloseByAuctioneer, RemoveParticipant
<1> QED BY <1>3, <1>4, StillGoesOn DEF Quiet, Coming

-----------------------------------------------------------------------------
(* Before the trading, and the answers of the slot.                        *)

LEMMA PlanQuiet ==
  ASSUME Inv, NEW a \in Auctions, Plan(a)
  PROVE  Quiet(a)
<1>1. CASE Draft(a) \/ Schedule(a) \/ Discard(a)
  <2>1. PICK after :
          /\ Record(a, after) /\ auction[a].phase \notin FinalPhases
          /\ after.activated = auction[a].activated /\ after.completed = auction[a].completed
    <3>1. auction[a] \in AuctionStates
      BY DEF Inv, Types, TypesOfAuctions
    <3>2. CASE Draft(a)
      BY <3>1, <3>2 DEF Draft, FinalPhases, AuctionStates
    <3>3. CASE Schedule(a)
      BY <3>1, <3>3 DEF Schedule, FinalPhases, AuctionStates
    <3>4. CASE Discard(a)
      <4> DEFINE after == [auction[a] EXCEPT !.phase = "Initial", !.registry = {}]
      <4>1. Record(a, after) /\ auction[a].phase \notin FinalPhases
        BY <3>4 DEF Discard, FinalPhases
      <4>2. after.activated = auction[a].activated /\ after.completed = auction[a].completed
        BY <3>1 DEF AuctionStates
      <4> QED BY <4>1, <4>2
    <3> QED BY <1>1, <3>2, <3>3, <3>4
  <2>2. /\ auction'[a] = after /\ notes' = notes /\ UNCHANGED <<lot, calls, strays>>
    BY <2>1 DEF Record, roster, lotSide, Inv, Types, TypesOfAuctions
  <2>3. GoesOn(auction[a], auction'[a])
    BY <2>1, <2>2, PhaseGoesOn
  <2> QED BY <2>2, <2>3, JournalQuiet
<1>2. CASE Start(a)
  <2>1. auction' = auction /\ notes' = notes /\ UNCHANGED <<lot, calls, strays>>
    BY <1>2 DEF Start, roster, lotSide
  <2> QED BY <2>1, StillGoesOn, JournalQuiet
<1>3. CASE StartAgain(a)
  BY <1>3, AskingQuiet DEF StartAgain
<1> QED BY <1>1, <1>2, <1>3 DEF Plan

LEMMA ClaimsQuiet ==
  ASSUME Inv, NEW a \in Auctions, NEW c \in slotCalls[a],
         \/ StartRefused(a, c) \/ StartDecidedAnew(a, c) \/ StartAccepted(a, c)
         \/ StartRepeated(a, c) \/ SlotConfirmed(a, c) \/ SlotReleased(a, c)
         \/ \E lost \in BOOLEAN : SlotSilent(a, c, lost)
  PROVE  Quiet(a)
<1>1. CASE StartRepeated(a, c)
  BY <1>1, AskingQuiet DEF StartRepeated
<1>2. CASE StartAccepted(a, c)
  <2> DEFINE after == [auction[a] EXCEPT !.phase = "Prebidding"]
             step == Survey(after, Forgotten(a))
  <2>1. /\ auction' = [auction EXCEPT ![a] = after] /\ Follow(a, calls, step)
        /\ UNCHANGED <<lot, strays>> /\ auction[a].phase \notin FinalPhases
    BY <1>2 DEF StartAccepted, FinalPhases
  <2>2. GoesOn(auction[a], auction'[a])
    BY <2>1, PhaseQuiet
  <2>3. StepOK(step) /\ step.notes.ended = {}
    <3>1. after \in AuctionStates /\ Owns(after, LotsOf(a))
      BY PhaseType DEF Inv, Phases, Holding, Asking
    <3> QED BY <3>1, SurveyQuiet
  <2> HIDE DEF step
  <2> QED BY <2>1, <2>2, <2>3, TypesNow, FollowQuiet
<1>3. CASE \/ StartRefused(a, c) \/ StartDecidedAnew(a, c) \/ SlotConfirmed(a, c) \/ SlotReleased(a, c)
           \/ \E lost \in BOOLEAN : SlotSilent(a, c, lost)
  <2>1. UNCHANGED <<auction, roster, lotSide>>
    BY <1>3 DEF StartRefused, StartDecidedAnew, SlotConfirmed, SlotReleased, SlotSilent
  <2>2. auction' = auction /\ notes' = notes /\ UNCHANGED <<lot, calls, strays>>
    BY <2>1 DEF roster, lotSide
  <2> QED BY <2>2, StillGoesOn, JournalQuiet
<1> QED BY <1>1, <1>2, <1>3

-----------------------------------------------------------------------------
(* The steps that bring a lot back.                                        *)

LEMMA NothingMoves ==
  ASSUME Inv, FinalInv, UNCHANGED <<auction, lot, calls, strays, notes>>
  PROVE  FinalInv'
BY DEF FinalInv, NotedAreOver, FinalInOrder, Coming, OverLots, LotsOf

(* The next lot is called back while no other one has a turn.              *)
LEMMA NextLotInTurn ==
  ASSUME Inv, FinalInv, NEW a \in Auctions, NEW l \in LotsOf(a), NextLot(a, l)
  PROVE  FinalInv'
<1>1. /\ auction' = auction /\ notes' = notes /\ lot' = lot /\ strays' = strays
      /\ Sends(l, "Resume") /\ l \in MayReturn(a) /\ l \in Lots /\ "Resume" \in Kinds
  BY DEF NextLot, roster, LotsOf, Kinds
<1>2. \A m \in Lots : Resuming(calls'[m]) => Resuming(calls[m]) \/ m = l
  BY <1>1, SendKeeps
<1>3. MayCome(auction[a], l)
  <2>1. auction[a].phase = "Final" /\ ActiveLots(auction[a]) = {} /\ l \in NextLots(auction[a])
    BY <1>1 DEF MayReturn
  <2>2. auction[a] \in AuctionStates /\ InTurns(auction[a])
    BY DEF Inv, Types, TypesOfAuctions, FinalInv, FinalInOrder
  <2>3. Members(auction[a].activated) \subseteq auction[a].completed
    BY <2>1, <2>2, TurnsAreOver
  <2> QED BY <2>1, <2>3 DEF MayCome, FinalPhases
<1>4. OverLots' = OverLots
  BY <1>1 DEF OverLots
<1>5. ASSUME NEW b \in Auctions PROVE FinalInOrder(b)'
  <2>1. \A m \in LotsOf(b) : Coming(m)' => Coming(m) \/ (m = l /\ b = a)
    BY <1>1, <1>2 DEF Coming, LotsOf
  <2>2. \A m \in LotsOf(b) : Coming(m)' => MayCome(auction[b], m)
    BY <1>3, <2>1 DEF FinalInv, FinalInOrder
  <2> QED BY <1>1, <1>4, <2>2 DEF FinalInv, FinalInOrder, LotsOf
<1> QED BY <1>1, <1>4, <1>5 DEF FinalInv, NotedAreOver

(* Its answer gives it the turn.                                           *)
LEMMA TurnTaken ==
  ASSUME NEW au \in AuctionStates, InTurns(au), au.phase = "Final", ActiveLots(au) = {},
         NEW l \in NextLots(au) \cap Lots, NEW after,
         after = [au EXCEPT !.activated = Append(au.activated, l)]
  PROVE  /\ InTurns(after) /\ after.completed = au.completed
         /\ \A m : MayCome(au, m) => MayCome(after, m)
<1>1. /\ after.activated = Append(au.activated, l) /\ after.phase = au.phase
      /\ after.completed = au.completed /\ au.activated \in Seq(Lots)
  BY DEF AuctionStates
<1>2. /\ DOMAIN after.activated = 1 .. Len(au.activated) + 1
      /\ Len(after.activated) = Len(au.activated) + 1
      /\ DOMAIN au.activated = 1 .. Len(au.activated) /\ Len(au.activated) \in Nat
      /\ \A i \in 1 .. Len(au.activated) : after.activated[i] = au.activated[i]
      /\ after.activated[Len(au.activated) + 1] = l
  <2>1. l \in Lots
    OBVIOUS
  <2>2. Append(au.activated, l) \in Seq(Lots)
    BY <1>1, <2>1, AppendProperties
  <2> QED BY <1>1, <2>1, <2>2, AppendProperties, LenProperties
<1>3. Members(au.activated) \subseteq au.completed
  BY TurnsAreOver
<1>4. Members(au.activated) \cup {l} \subseteq Members(after.activated)
  <2>1. \A i \in DOMAIN au.activated : i \in DOMAIN after.activated /\ after.activated[i] = au.activated[i]
    BY <1>2
  <2>2. Len(au.activated) + 1 \in DOMAIN after.activated
    BY <1>2
  <2> QED BY <1>2, <2>1, <2>2 DEF Members
<1>5. InTurns(after)
  <2>1. after.phase \in FinalPhases /\ after.completed \subseteq Members(after.activated)
    BY <1>1, <1>4 DEF InTurns, FinalPhases
  <2>2. ASSUME NEW i \in DOMAIN after.activated, i < Len(after.activated)
        PROVE  after.activated[i] \in after.completed
    <3>1. i \in 1 .. Len(au.activated)
      BY <1>2, <2>2
    <3>2. after.activated[i] \in Members(au.activated)
      BY <1>2, <3>1 DEF Members
    <3> QED BY <1>1, <1>3, <3>2
  <2> QED BY <2>1, <2>2 DEF InTurns
<1>6. ASSUME NEW m, MayCome(au, m) PROVE MayCome(after, m)
  <2>1. m \in Members(au.activated) \cup NextLots(au)
    BY <1>6 DEF MayCome
  <2>2. m \in Members(after.activated)
    BY <1>4, <2>1, OneIsNext
  <2> QED BY <1>1, <2>2 DEF MayCome, FinalPhases
<1> QED BY <1>1, <1>5, <1>6

LEMMA LotReturnedInTurn ==
  ASSUME Inv, FinalInv, NEW l \in Lots, NEW i \in DOMAIN calls[l], LotReturned(l, i)
  PROVE  FinalInv'
<1> DEFINE a == AuctionOf[l]
           after == [auction[a] EXCEPT !.activated = Append(auction[a].activated, l)]
<1>1. a \in Auctions /\ auction \in [Auctions -> AuctionStates]
  BY OwnLot DEF Inv, Types, TypesOfAuctions
<1>2. /\ notes' = notes /\ lot' = lot /\ strays' = strays /\ calls' = Taken(l, i)
      /\ auction' = auction \/ (l \in MayReturn(a) /\ auction' = [auction EXCEPT ![a] = after])
  BY <1>1 DEF LotReturned, roster
<1>3. OverLots' = OverLots /\ \A m \in Lots : Coming(m)' => Coming(m)
  BY <1>2, TakenQuiet DEF OverLots, Coming
<1>4. ASSUME NEW b \in Auctions
      PROVE  /\ InTurns(auction'[b]) /\ auction'[b].completed = auction[b].completed
             /\ \A m : MayCome(auction[b], m) => MayCome(auction'[b], m)
  <2>1. InTurns(auction[b])
    BY DEF FinalInv, FinalInOrder
  <2>2. CASE auction'[b] = auction[b]
    BY <2>1, <2>2
  <2>3. CASE auction'[b] # auction[b]
    <3>1. b = a /\ auction'[a] = after /\ l \in MayReturn(a)
      BY <1>1, <1>2, <2>3
    <3>2. auction[a].phase = "Final" /\ ActiveLots(auction[a]) = {} /\ l \in NextLots(auction[a]) \cap Lots
      BY <3>1 DEF MayReturn
    <3>3. auction[a] \in AuctionStates
      BY <1>1
    <3> HIDE DEF a
    <3> QED BY <2>1, <3>1, <3>2, <3>3, TurnTaken
  <2> QED BY <2>2, <2>3
<1>5. ASSUME NEW b \in Auctions PROVE FinalInOrder(b)'
  <2>1. \A m \in LotsOf(b) : Coming(m)' => MayCome(auction'[b], m)
    BY <1>3, <1>4 DEF FinalInv, FinalInOrder, LotsOf
  <2> QED BY <1>3, <1>4, <2>1 DEF FinalInv, FinalInOrder, LotsOf
<1> QED BY <1>2, <1>3, <1>5 DEF FinalInv, NotedAreOver

-----------------------------------------------------------------------------
(* Every step.                                                             *)

LEMMA InitFinal == Init => FinalInv
<1> SUFFICES ASSUME Init PROVE FinalInv
  OBVIOUS
<1>1. NotedAreOver
  BY DEF Init, NotedAreOver, NoNotes
<1>2. ASSUME NEW a \in Auctions PROVE FinalInOrder(a)
  <2>1. auction[a].activated = <<>> /\ auction[a].completed = {}
    BY DEF Init
  <2>2. InTurns(auction[a])
    BY <2>1 DEF InTurns
  <2>3. \A l \in Lots : ~Coming(l)
    BY DEF Init, Coming, Resuming
  <2> QED BY <2>1, <2>2, <2>3 DEF FinalInOrder, LotsOf
<1> QED BY <1>1, <1>2 DEF FinalInv

(* The slot touches no lot and no journal of an auction.                   *)
LEMMA SlotIsQuiet ==
  ASSUME SlotNext
  PROVE  UNCHANGED <<auction, lot, calls, strays, notes>>
<1>1. UNCHANGED <<auction, roster, lotSide>>
  BY DEF SlotNext, HolderAnswers, SlotGrants, SlotAsksHolder, SlotReleases, SlotDecides,
         HolderSilent, SlotRestarts
<1> QED BY <1>1 DEF roster, lotSide

LEMMA DecisionsInTurn ==
  ASSUME Inv, FinalInv, NEW a \in Auctions, Plan(a) \/ Claims(a)
  PROVE  FinalInv'
<1>1. Quiet(a)
  BY PlanQuiet, ClaimsQuiet DEF Claims
<1>2. CASE Kept(a)
  BY <1>1, <1>2, KeptQuietKeeps
<1>3. CASE \E c \in slotCalls[a] : StartAccepted(a, c)
  <2>1. \A b \in Auctions \ {a} : auction'[b] = auction[b]
    BY <1>3, StartAcceptedBegins
  <2>2. OverLots' = OverLots
    BY <1>3 DEF StartAccepted, OverLots
  <2> QED BY <1>1, <2>1, <2>2, QuietKeeps
<1> QED BY <1>2, <1>3, DecisionSteps

LEMMA CourseInTurn ==
  ASSUME Inv, FinalInv, NEW a \in Auctions, Course(a)
  PROVE  FinalInv'
<1>1. CASE Quiet(a)
  BY <1>1, CourseSteps, KeptQuietKeeps
<1>2. CASE PrebiddingDue(a) \/ FinishDue(a) \/ Recheck(a) \/ AuctionRestarts(a)
  BY <1>1, <1>2, PrebiddingQuiet, FinishQuiet, AskingQuiet, RestartQuiet
<1>3. CASE \E held \in BOOLEAN : LotsSettled(a, held)
  BY <1>1, <1>3, LotsSettledQuiet
<1>4. CASE BeginFinal(a) \/ Cancel(a) \/ CancelAgain(a)
  BY <1>1, <1>4, LineupQuiet, CancelQuiet, AskingQuiet
<1>5. CASE \E order \in Orders(HeldLots(auction[a], know)) : Freeze(a, order)
  BY <1>1, <1>5, LineupQuiet
<1>6. CASE \E l \in LotsOf(a) :
             FinalLotEnded(a, l) \/ NextLot(a, l) \/ CloseByAuctioneer(a, l) \/ RemoveParticipant(a, l)
  BY <1>1, <1>6, FinalLotEndedQuiet, NextLotInTurn, PressesQuiet
<1> QED BY <1>2, <1>3, <1>4, <1>5, <1>6 DEF Course

LEMMA LotsInTurn ==
  ASSUME Inv, FinalInv, NEW l \in Lots, DeadlineDue(l) \/ LotNext(l)
  PROVE  FinalInv'
<1>1. CASE Quiet(AuctionOf[l])
  BY <1>1, OwnLot, LotSteps, KeptQuietKeeps
<1>2. CASE DeadlineDue(l)
  BY <1>1, <1>2, DeadlineQuiet
<1>3. ASSUME NEW kind \in strays[l], StrayArrives(l, kind)
      PROVE  FinalInv'
  BY <1>1, <1>3, StrayQuiet
<1>4. ASSUME NEW i \in DOMAIN calls[l],
             \/ LotHandles(l, i) \/ LotWithdrew(l, i) \/ LotEnded(l, i) \/ LotReturned(l, i)
             \/ CallLost(l, i) \/ LotSilent(l, i)
      PROVE  FinalInv'
  BY <1>1, <1>4, LotHandlesQuiet, LotWithdrewQuiet, LotEndedQuiet, LotReturnedInTurn, CallLostQuiet,
     SilenceQuiet
<1>5. ASSUME NEW i \in DOMAIN calls[l],
             \/ LotObserved(l, i) \/ LotAnswered(l, i) \/ LotClosed(l, i) \/ LotParticipantRemoved(l, i)
      PROVE  FinalInv'
  BY <1>1, <1>5, LotAnswersQuiet
<1> QED BY <1>2, <1>3, <1>4, <1>5 DEF LotNext

LEMMA FinalStep == Inv /\ FinalInv /\ [Next]_auctionVars => FinalInv'
<1> SUFFICES ASSUME Inv, FinalInv, [Next]_auctionVars PROVE FinalInv'
  OBVIOUS
<1>1. CASE SlotNext
  BY <1>1, SlotIsQuiet, NothingMoves
<1>2. ASSUME NEW a \in Auctions, Plan(a) \/ Claims(a) \/ Course(a)
      PROVE  FinalInv'
  BY <1>2, DecisionsInTurn, CourseInTurn
<1>3. ASSUME NEW l \in Lots, DeadlineDue(l) \/ LotNext(l)
      PROVE  FinalInv'
  BY <1>3, LotsInTurn
<1>4. CASE UNCHANGED auctionVars
  <2>1. UNCHANGED <<auction, lot, calls, strays, notes>>
    BY <1>4 DEF auctionVars, roster, lotSide
  <2> QED BY <2>1, NothingMoves
<1> QED BY <1>1, <1>2, <1>3, <1>4 DEF Next

(* RFC-011, Auction.scala: whatever is lost, late or restarted, and though *)
(* the auctioneer decides on what AuctionEntity has in its journal while   *)
(* the lots move by themselves, two lots of an auction are never back in   *)
(* trade at once, and no lot is completed that could still be bid on.      *)
THEOREM FinalIsOneByOne == Spec => []OneLotInTheFinal
<1>1. ASSUME Inv, FinalInv PROVE OneLotInTheFinal
  <2> SUFFICES ASSUME NEW a \in Auctions
               PROVE  /\ \A l, m \in LotsOf(a) : lot[l].phase = "Live" /\ lot[m].phase = "Live" => l = m
                      /\ \A l \in auction[a].completed : lot[l].phase \in Over
    BY DEF OneLotInTheFinal
  <2>1. Types /\ FinalInOrder(a)
    BY <1>1 DEF Inv, FinalInv
  <2>2. auction[a].completed \subseteq OverLots
    BY <2>1 DEF FinalInOrder
  <2> QED BY <2>1, <2>2, OneComes DEF OverLots
<1> QED BY <1>1, InitFinal, FinalStep, Always, PTL DEF Spec
=============================================================================
