-------------------------------- MODULE Lot --------------------------------
(***************************************************************************)
(* One lot of an auction: the aggregate of lot/Lot.scala behind the        *)
(* event-sourced entity of entity/LotEntity.scala.  Every action is one    *)
(* accepted command with the whole transaction it records: the command's   *)
(* own event, the bid with which the proxy limits answer it and the        *)
(* extension of the deadline.  A refused command records nothing and is no *)
(* step, and so is a command accepted without an event.                    *)
(***************************************************************************)
EXTENDS LotRules

CONSTANTS
  Configs,          \* the LotConfig values an organiser may schedule
  StartingPrices,   \* the starting prices an organiser may schedule
  Deadlines,        \* the deadlines an auction may open a lot with
  OpeningWindows,   \* the sets of step windows an auction may open a lot with
  LaunchedWindows,  \* the step windows an auction may launch while it trades
  PeriodWindows,    \* the windows of happy-hour periods it may set
  BidAmounts,       \* the sums participants bid
  LimitAmounts,     \* the maxima of their proxy limits
  Asks,             \* the prices the auctioneer announces
  MaxSequence,      \* bound: events in the journal of the lot
  MaxTime           \* bound: the last instant of the server's clock

Windows == (UNION OpeningWindows) \cup LaunchedWindows \cup PeriodWindows
NoPeriod == "none"

(* Every price has its step: LotConfig.parse refuses a policy whose first  *)
(* bound is not zero, whose bounds do not ascend or whose steps are not    *)
(* positive.                                                               *)
ASSUME ConfigsAssumption ==
  \A config \in Configs :
    /\ config = [stepPolicy |-> config.stepPolicy, window |-> config.window,
                 extension |-> config.extension, maxExtensions |-> config.maxExtensions,
                 proxyEnabled |-> config.proxyEnabled]
    /\ config.window \in Nat /\ config.extension \in Nat /\ config.maxExtensions \in Nat
    /\ config.proxyEnabled \in BOOLEAN
    /\ \A tier \in config.stepPolicy : tier.bound \in Nat /\ tier.step \in Nat \ {0}
    /\ \A price \in Money :
         \E tier \in config.stepPolicy : Governs(tier, config.stepPolicy, price)

ASSUME WindowsAssumption ==
  \A w \in Windows :
    w.from \in Nat /\ w.until \in Nat /\ w.step \in Nat /\ w.start \in 0 .. MoneyMax

(* Announced and launched windows belong to no period and the announced    *)
(* ones do not overlap (AuctionConfig.windowsInvalid, LotRoster.windowOf); *)
(* a period never moves: its windows begin when it does, whatever the      *)
(* terms of the lot in it become (HappyHourPeriod.windowOf).               *)
ASSUME PeriodsAssumption ==
  /\ \A w \in (UNION OpeningWindows) \cup LaunchedWindows : w.period = NoPeriod
  /\ \A windows \in OpeningWindows :
       \A w \in windows : \A other \in windows \ {w} : ~Overlaps(w, other)
  /\ \A w \in PeriodWindows : w.period # NoPeriod
  /\ \A w, other \in PeriodWindows : w.period = other.period => w.from = other.from

ASSUME SumsAssumption ==
  StartingPrices \cup BidAmounts \cup LimitAmounts \cup Asks \subseteq Money

ASSUME TimeAssumption ==
  /\ Deadlines \subseteq Nat
  /\ MaxTime \in Nat \ {0}
  /\ MaxSequence \in Nat

VARIABLES
  lot,        \* the state folded from the journal
  sequence,   \* the number of the last event in the journal
  now,        \* the server's clock, read once per command
  last        \* the first event of the last transaction: its kind and participant

vars == <<lot, sequence, now, last>>

Terminal == {"Sold", "Unsold", "Withdrawn"}
States   == {"Initial", "Draft", "Scheduled", "Held"} \cup Trading \cup Terminal

NoConfig == [stepPolicy |-> {}, window |-> 0, extension |-> 0,
             maxExtensions |-> 0, proxyEnabled |-> FALSE]

NoCourse == [startingPrice |-> 0, stepWindows |-> {}, online |-> <<>>,
             held |-> <<>>, removed |-> {}, addedWindows |-> {}]

(* A lot without trade: nothing but its state.                             *)
Blank(state) ==
  [state |-> state, config |-> NoConfig, price |-> 0, ask |-> NoAsk,
   leader |-> NoOne, deadline |-> NoDeadline, extensionsUsed |-> 0,
   limits |-> NoLimits, marked |-> FALSE, stepWindows |-> {}, course |-> NoCourse]

Init ==
  /\ lot = Blank("Initial")
  /\ sequence = 0
  /\ now = 1
  /\ last = [command |-> "None", participant |-> NoOne]

One(condition) == IF condition THEN 1 ELSE 0

(* Recording a transaction: all of its events at once, or nothing.         *)
Record(command, p, events, next) ==
  /\ sequence + events <= MaxSequence
  /\ lot' = next
  /\ sequence' = sequence + events
  /\ last' = [command |-> command, participant |-> p]
  /\ now' = now

(* The history of the trade after an input: the online week and the hold   *)
(* keep theirs, the live final keeps none.                                 *)
Entered(traded, p, move, amount) ==
  LET entry == [participant |-> p, move |-> move, amount |-> amount,
                at |-> now, sequence |-> sequence + 1]
  IN  CASE lot.state = "Online" -> [traded EXCEPT !.course.online = Append(@, entry)]
        [] lot.state = "Held" -> [traded EXCEPT !.course.held = Append(@, entry)]
        [] OTHER -> traded

-----------------------------------------------------------------------------
(* From birth to the opening of the trade.                                 *)

DraftLot ==
  /\ lot.state = "Initial"
  /\ Record("DraftLot", NoOne, 1, Blank("Draft"))

ScheduleLot(startingPrice, config) ==
  /\ lot.state \in {"Draft", "Scheduled"}
  /\ Record("ScheduleLot", NoOne, 1,
       [Blank("Scheduled") EXCEPT !.config = config, !.price = startingPrice])

OpenLot(deadline, windows) ==
  /\ lot.state = "Scheduled"
  /\ Record("OpenLot", NoOne, 1,
       [lot EXCEPT !.state = "Online", !.deadline = deadline, !.stepWindows = windows,
          !.course = [NoCourse EXCEPT !.startingPrice = lot.price,
                                      !.stepWindows = windows]])

-----------------------------------------------------------------------------
(* Participants: bids and proxy limits.                                    *)

(* Slip: the minimum is compared in the final only.                        *)
BidAcceptedUnchecked(p, amount, source) ==
  /\ source = "Floor" => lot.state = "Live"
  /\ lot.leader # p
  /\ lot.state = "Live" => amount = MinRequired(lot, now)

BidAccepted(p, amount, source) ==
  LET required == MinRequired(lot, now)
  IN  /\ source = "Floor" => lot.state = "Live"
      /\ lot.leader # p
      /\ amount >= required
      /\ lot.state = "Live" => amount = required
      /\ lot.state = "Online" => amount <= OnlineMaximum(lot, required)

PlaceBid(p, amount, source) ==
  /\ lot.state \in Trading
  /\ p \notin lot.course.removed
  /\ BidAccepted(p, amount, source)
  /\ LET placed   == Entered(Bidden(lot, BidOf(p, amount)), p, "Bid", amount)
         answered == Answered(placed, now)
         extends  == Extends(lot, now)
     IN  Record("PlaceBid", p, 1 + One(Resolve(placed, now) # NoBid) + One(extends),
           IF extends THEN Extended(answered, lot.extensionsUsed + 1) ELSE answered)

(* While the lot is held a limit is recorded and waits for the final.      *)
SetProxyLimit(p, max) ==
  /\ lot.state \in Trading \cup {"Held"}
  /\ p \notin lot.course.removed
  /\ lot.config.proxyEnabled
  /\ max >= IF lot.state = "Held" THEN lot.price ELSE LimitFloor(lot, now)
  /\ LET set     == Entered(Limited(lot, p, max, sequence + 1), p, "LimitSet", max)
         bids    == lot.state # "Held" /\ Resolve(set, now) # NoBid
         extends == bids /\ Extends(lot, now)
         answered == IF bids THEN Answered(set, now) ELSE set
     IN  Record("SetProxyLimit", p, 1 + One(bids) + One(extends),
           IF extends THEN Extended(answered, lot.extensionsUsed + 1) ELSE answered)

WithdrawProxyLimit(p) ==
  /\ lot.state \in Trading \cup {"Held"}
  /\ p \in Active(lot)
  /\ Record("WithdrawProxyLimit", p, 1,
       Entered(Unlimited(lot, p), p, "LimitWithdrawn", NoSum))

-----------------------------------------------------------------------------
(* The end of the trade, and its pause for the final.                      *)

(* Slip: the lot is sold at the announced price nobody has bid.            *)
ClosedAtAsk ==
  IF lot.leader # NoOne
  THEN [Blank("Sold") EXCEPT !.leader = lot.leader, !.price = Floor(lot)]
  ELSE Blank("Unsold")

Closed ==
  IF lot.leader # NoOne
  THEN [Blank("Sold") EXCEPT !.leader = lot.leader, !.price = lot.price]
  ELSE Blank("Unsold")

(* Slip: the hold keeps the deadline that has passed.                      *)
HeldWithDeadline == [lot EXCEPT !.state = "Held", !.ask = NoAsk, !.marked = FALSE]

HeldForFinal ==
  [lot EXCEPT !.state = "Held", !.ask = NoAsk, !.deadline = NoDeadline,
     !.marked = FALSE, !.stepWindows = {}]

(* Whether the deadline has come is the lot's own decision.                *)
CloseByDeadline ==
  /\ lot.state \in Trading
  /\ DeadlinePassed(lot, now)
  /\ Record("CloseLot", NoOne, 1, IF lot.marked THEN HeldForFinal ELSE Closed)

CloseByAuctioneer ==
  /\ lot.state \in Trading \cup {"Held"}
  /\ Record("CloseLot", NoOne, 1, Closed)

MarkForFinal ==
  /\ lot.state = "Online"
  /\ ~lot.marked
  /\ ~DeadlinePassed(lot, now)
  /\ Record("MarkForFinal", NoOne, 1, [lot EXCEPT !.marked = TRUE])

UnmarkForFinal ==
  /\ lot.state = "Online"
  /\ lot.marked
  /\ ~DeadlinePassed(lot, now)
  /\ Record("UnmarkForFinal", NoOne, 1, [lot EXCEPT !.marked = FALSE])

(* The limits recorded while the lot was held answer its return.           *)
ResumeLot ==
  /\ lot.state = "Held"
  /\ LET resumed == [lot EXCEPT !.state = "Live"]
     IN  Record("ResumeLot", NoOne, 1 + One(Resolve(resumed, now) # NoBid),
           Answered(resumed, now))

AdvanceAsk(ask) ==
  /\ lot.state \in Trading
  /\ ask > Floor(lot)
  /\ LET advanced == [lot EXCEPT !.ask = ask]
         bids     == lot.state = "Live" /\ Resolve(advanced, now) # NoBid
     IN  Record("AdvanceAsk", NoOne, 1 + One(bids),
           IF bids THEN Answered(advanced, now) ELSE advanced)

WithdrawLot ==
  /\ lot.state \in {"Draft", "Scheduled", "Held"} \cup Trading
  /\ Record("WithdrawLot", NoOne, 1, Blank("Withdrawn"))

-----------------------------------------------------------------------------
(* Removing a participant: the trade is replayed without the removed, the  *)
(* leader is the replay's and the price the lower of the replay's and the  *)
(* present one.                                                            *)

LotParticipant(p) ==
  \E history \in {lot.course.online, lot.course.held} :
    \E i \in DOMAIN history :
      history[i].participant = p /\ history[i].move \in {"Bid", "LimitSet"}

(* The lot once `result` is what the replay without `gone` has come to.    *)
Reconsidered(p, gone, result) ==
  [Unlimited(lot, p) EXCEPT !.price = Lesser(result.price, lot.price),
     !.leader = result.leader, !.course.removed = gone]

(* Slip: the replay forgets those removed before.                          *)
WithoutTheLast(p) == Reconsidered(p, lot.course.removed \cup {p}, Rerun(lot, {p}))

(* The lot without the participant; the window of the deadline is checked  *)
(* by the caller.                                                          *)
WithoutParticipant(p) ==
  LET gone == lot.course.removed \cup {p}
  IN  Reconsidered(p, gone, Rerun(lot, gone))

(* A removal that changes the outcome near the deadline moves the deadline. *)
RecordRemoval(p, without) ==
  LET changed == without.leader # lot.leader \/ without.price # lot.price
      extends == changed /\ InAntiSnipeWindow(lot, now)
  IN  Record("RemoveParticipant", p, 1 + One(extends),
        IF extends THEN Extended(without, lot.extensionsUsed) ELSE without)

(* Slip: a removal after the deadline, when the scheduler is late.         *)
RemoveParticipantLate(p) ==
  /\ lot.state \in {"Online", "Held"}
  /\ p \notin lot.course.removed
  /\ LotParticipant(p)
  /\ Record("RemoveParticipant", p, 1, WithoutParticipant(p))

RemoveParticipant(p) ==
  /\ lot.state \in {"Online", "Held"}
  /\ ~DeadlinePassed(lot, now)
  /\ p \notin lot.course.removed
  /\ LotParticipant(p)
  /\ RecordRemoval(p, WithoutParticipant(p))

-----------------------------------------------------------------------------
(* Step windows launched or set by a happy-hour period while it trades.    *)

AddStepWindow(window) ==
  /\ lot.state = "Online"
  /\ \A other \in lot.stepWindows : ~Overlaps(other, window)
  /\ Record("AddStepWindow", NoOne, 1,
       [lot EXCEPT !.stepWindows = @ \cup {window},
          !.course.addedWindows = @ \cup {[window |-> window, sequence |-> sequence + 1]}])

OfPeriod(windows, period) == {w \in windows : w.period = period}

(* Slip: the history keeps a window that has been taken back.              *)
WithoutPeriodInTrade(period) == [lot EXCEPT !.stepWindows = @ \ OfPeriod(@, period)]

WithoutPeriod(period) ==
  [lot EXCEPT !.stepWindows = @ \ OfPeriod(@, period),
              !.course.addedWindows = {a \in @ : a.window.period # period}]

(* Slip: the window of a period that has begun is replaced too.            *)
SetPeriodWindowLate(window) ==
  /\ lot.state = "Online"
  /\ window \notin lot.stepWindows
  /\ \A other \in WithoutPeriod(window.period).stepWindows : ~Overlaps(other, window)
  /\ Record("SetPeriodWindow", NoOne, 1,
       [WithoutPeriod(window.period) EXCEPT !.stepWindows = @ \cup {window},
          !.course.addedWindows = @ \cup {[window |-> window, sequence |-> sequence + 1]}])

SetPeriodWindow(window) ==
  /\ lot.state = "Online"
  /\ now < window.from
  /\ window \notin lot.stepWindows
  /\ \A other \in WithoutPeriod(window.period).stepWindows : ~Overlaps(other, window)
  /\ Record("SetPeriodWindow", NoOne, 1,
       [WithoutPeriod(window.period) EXCEPT !.stepWindows = @ \cup {window},
          !.course.addedWindows = @ \cup {[window |-> window, sequence |-> sequence + 1]}])

ClearPeriodWindow(period) ==
  /\ lot.state = "Online"
  /\ \E window \in OfPeriod(lot.stepWindows, period) : now < window.from
  /\ Record("ClearPeriodWindow", NoOne, 1, WithoutPeriod(period))

-----------------------------------------------------------------------------

(* The clock runs while the lot can still read it.                         *)
Tick ==
  /\ lot.state \notin Terminal
  /\ now < MaxTime
  /\ now' = now + 1
  /\ UNCHANGED <<lot, sequence, last>>

Next ==
  \/ DraftLot
  \/ \E price \in StartingPrices, config \in Configs : ScheduleLot(price, config)
  \/ \E deadline \in Deadlines, windows \in OpeningWindows : OpenLot(deadline, windows)
  \/ \E p \in Participants, amount \in BidAmounts, source \in {"Bot", "Floor"} :
       PlaceBid(p, amount, source)
  \/ \E p \in Participants, max \in LimitAmounts : SetProxyLimit(p, max)
  \/ \E p \in Participants : WithdrawProxyLimit(p)
  \/ \E p \in Participants : RemoveParticipant(p)
  \/ CloseByDeadline
  \/ CloseByAuctioneer
  \/ MarkForFinal
  \/ UnmarkForFinal
  \/ ResumeLot
  \/ \E ask \in Asks : AdvanceAsk(ask)
  \/ WithdrawLot
  \/ \E window \in LaunchedWindows : AddStepWindow(window)
  \/ \E window \in PeriodWindows : SetPeriodWindow(window)
  \/ \E window \in PeriodWindows : ClearPeriodWindow(window.period)
  \/ Tick

Spec == Init /\ [][Next]_vars

-----------------------------------------------------------------------------
(* Type correctness.                                                       *)

(* The sums somebody has named, and whatever is below one of them: no      *)
(* price, ask, limit or replay goes above them all.                        *)
Named ==
  {0} \cup StartingPrices \cup BidAmounts \cup LimitAmounts \cup Asks
      \cup {w.start : w \in Windows}

Sums == {sum \in Money : \E named \in Named : sum <= named}

(* Every sum has room for the next step below the edge of the width; past  *)
(* it Money.plus wraps around and the next price lies below all others.    *)
SumsLeaveRoom ==
  \A config \in Configs : \A sum \in Sums :
    sum + PolicyStep(config.stepPolicy, sum) <= MoneyMax

(* The next price climbs with the price.  The code asks only that steps    *)
(* are positive and bounds ascend (StepPolicy.tiered): a step may be lower *)
(* past a bound, by more than the price has gained.                        *)
StepsClimb ==
  \A config \in Configs : \A sum, higher \in Sums :
    sum <= higher =>
      sum + PolicyStep(config.stepPolicy, sum) <= higher + PolicyStep(config.stepPolicy, higher)

Limit == [max : Sums, setSeq : 0 .. MaxSequence]

Entry == [participant : Participants, move : {"Bid", "LimitSet", "LimitWithdrawn"},
          amount : Sums, at : 1 .. MaxTime, sequence : 1 .. MaxSequence]

History ==
  [startingPrice : Sums, stepWindows : SUBSET Windows, online : Seq(Entry),
   held : Seq(Entry), removed : SUBSET Participants,
   addedWindows : SUBSET [window : Windows, sequence : 1 .. MaxSequence]]

LotRecord ==
  [state : States, config : Configs \cup {NoConfig}, price : Sums,
   ask : Sums \cup {NoAsk}, leader : Participants \cup {NoOne}, deadline : Nat,
   extensionsUsed : Nat,
   limits : [Participants -> Limit], marked : BOOLEAN,
   stepWindows : SUBSET Windows, course : History]

Configured == Trading \cup {"Scheduled", "Held"}

(* Every part of a lot has its type, no sum of a lot is above every sum    *)
(* somebody has named, a lot under terms knows them, and a lot that does   *)
(* not trade has neither an ask nor a deadline (lot/LotState.scala, the    *)
(* cases of LotState).                                                     *)
TypeOK ==
  /\ lot \in LotRecord
  /\ lot.state \in Configured => lot.config \in Configs
  /\ lot.state \notin Trading => lot.ask = NoAsk /\ lot.deadline = NoDeadline
  /\ sequence \in 0 .. MaxSequence
  /\ now \in 1 .. MaxTime
  /\ last.participant \in Participants \cup {NoOne}

-----------------------------------------------------------------------------
(* Safety.  The numbers are those of the invariants of RFC-011.            *)

(* In the online week the limits have nothing left to answer: no rival's   *)
(* is above the floor (Lot.rivals: there is never a second one above the   *)
(* price).  It holds until somebody is removed: the leader of the replay   *)
(* may have paid a higher step than those who set their limits later, and  *)
(* then leads at the lower present price, below a limit that is left.      *)
ProxiesSettled ==
  lot.state = "Online" /\ lot.course.removed = {} =>
    \A p \in Active(lot) \ {lot.leader} : lot.limits[p].max <= Floor(lot)

(* In the live final the one answer to a bid, a limit, an ask or the       *)
(* return of the lot settles all the limits that have waited: a second     *)
(* pass finds no bid (Lot.resolveLive, with the runner-up in the target).  *)
OneAnswerSettles ==
  [][lot' # lot /\ lot'.state = "Live" /\ last'.command # "WithdrawProxyLimit"
     => Resolve(lot', now) = NoBid]_vars

(* I-22: whoever was removed has no limit, does not lead, and bids no more *)
(* (removedFrom in the decisions of PlaceBid and SetProxyLimit).           *)
RemovedStayOut ==
  \A p \in lot.course.removed : lot.limits[p] = NoLimit /\ lot.leader # p

(* I-02, the half the replay has to keep: among those not removed somebody *)
(* has put in a bid or a limit during the online week exactly when the lot *)
(* has a leader, however many were removed (Lot.rerun).  It takes windows  *)
(* that leave the starting price alone: a limit set against a bid of such  *)
(* a window may be below the price the replay starts from.                 *)
KeptInputsKeepALeader ==
  lot.state = "Online" /\ (\A w \in lot.stepWindows : w.start = NoSum) =>
    (lot.leader # NoOne <=>
       \E i \in DOMAIN lot.course.online :
         /\ lot.course.online[i].participant \notin lot.course.removed
         /\ lot.course.online[i].move \in {"Bid", "LimitSet"})

(* I-01: while the lot trades its price never falls, except by a removal   *)
(* and, with the first bid, to the start of a window of happy hours.       *)
PriceNeverFalls ==
  [][lot.state \in Trading /\ lot'.state \in Trading \cup {"Held", "Sold"} =>
       \/ last'.command = "RemoveParticipant"
       \/ lot'.price >= IF Opening(lot) THEN OpeningPrice(lot, now) ELSE lot.price]_vars

(* I-06 and I-12: the deadline moves only for a new bid or a removal that  *)
(* changed the outcome, by one extension, inside the anti-snipe window; a  *)
(* bid spends one of K extensions and a removal none (Lot.extended and     *)
(* Lot.extendedByRemoval).                                                 *)
ExtensionsAreEarned ==
  [][lot.state = "Online" /\ lot'.state = "Online" /\ lot'.deadline # lot.deadline =>
       /\ lot'.deadline = lot.deadline + lot.config.extension
       /\ InAntiSnipeWindow(lot, now)
       /\ <<lot'.leader, lot'.price>> # <<lot.leader, lot.price>>
       /\ IF last'.command = "RemoveParticipant"
          THEN lot'.extensionsUsed = lot.extensionsUsed /\ now < lot.deadline
          ELSE /\ lot'.extensionsUsed = lot.extensionsUsed + 1
               /\ lot'.extensionsUsed <= lot.config.maxExtensions]_vars

(* I-13: a price that no manual bid of the new leader explains stays       *)
(* within that leader's own limit in force (Lot.resolve).                  *)
ProxyBidsWithinLimits ==
  [][/\ lot.state \in Trading \cup {"Held"}
     /\ lot'.state \in Trading
     /\ lot'.price > lot.price
     /\ last' # [command |-> "PlaceBid", participant |-> lot'.leader]
     => lot'.price <= lot'.limits[lot'.leader].max]_vars

(* I-21: the history of the trade knows the windows the trade goes by, so  *)
(* that a removal replays every entry at the step it was accepted at, and  *)
(* no two windows overlap (Course.windowsAt, LotState.scala).              *)
HistoryKnowsTheWindows ==
  lot.state = "Online" =>
    /\ WindowsAt(lot.course, sequence + 1) = lot.stepWindows
    /\ \A w \in lot.stepWindows :
         \A other \in lot.stepWindows \ {w} : ~Overlaps(w, other)

(* I-21: a window that has begun stands as it is while the lot trades      *)
(* online, whatever its period's terms become.                             *)
BegunWindowsStand ==
  [][lot.state = "Online" /\ lot'.state = "Online" =>
       \A w \in lot.stepWindows : (w.from <= now => w \in lot'.stepWindows)]_vars

(* I-16: from its deadline on the lot is marked, unmarked or rid of a      *)
(* participant no more, however late the scheduler closes it.              *)
DeadlineFreezesTheLineup ==
  [][DeadlinePassed(lot, now) /\ lot'.state \in Trading =>
       lot'.marked = lot.marked /\ lot'.course.removed = lot.course.removed]_vars

(* I-17: what a lot returns to the final with is decided by the limits it  *)
(* was held with, all of them at once (Lot.resumed): whoever bids has the  *)
(* strongest, the earlier of two equal ones; nobody left behind could      *)
(* still bid, where the next price climbs with the price (StepsClimb); and *)
(* the price is at most one step above the price of the hold or above a    *)
(* limit that is left behind.                                              *)
HeldLimitsDecideTheReturn ==
  [][lot.state = "Held" /\ lot'.state = "Live" =>
       LET behind == Active(lot) \ {lot'.leader}
           bases  == {lot.price} \cup {lot.limits[p].max : p \in behind}
       IN  /\ lot'.limits = lot.limits
           /\ <<lot'.leader, lot'.price>> # <<lot.leader, lot.price>> =>
                /\ lot'.leader \in Active(lot)
                /\ \A p \in behind : Stronger(lot.limits[lot'.leader], lot.limits[p])
           /\ \A p \in behind : lot.limits[p].max < MinRequired(lot', now)
           /\ lot.price <= lot'.price
           /\ \E base \in bases :
                lot'.price <= base + PolicyStep(lot.config.stepPolicy, base)]_vars

(* I-18: in the live final every bid is a point of the grid that starts at *)
(* the floor, the announced ask included, wherever the limits end; also    *)
(* the bid with which the limits answer the return of a held lot.          *)
LiveBidsOnTheGrid ==
  [][/\ lot.state \in {"Live", "Held"} /\ lot'.state = "Live"
     /\ <<lot'.leader, lot'.price>> # <<lot.leader, lot.price>>
     => OnGrid(lot.config.stepPolicy, Floor([lot EXCEPT !.ask = lot'.ask]), lot'.price)]_vars

-----------------------------------------------------------------------------
(* What the lot promises.                                                  *)

Sale == INSTANCE AscendingSale WITH
  stage   <- CASE lot.state \in {"Initial", "Draft", "Scheduled"} -> "Unopened"
               [] lot.state \in Trading -> "Open"
               [] lot.state = "Held" -> "Paused"
               [] OTHER -> lot.state,
  price   <- IF lot.state = "Scheduled" THEN 0 ELSE lot.price,
  leader  <- lot.leader,
  removed <- lot.course.removed,
  Prices  <- Money

(* The lot implements an ascending sale: whatever the limits, deadlines,   *)
(* holds and removals do, a watcher sees the price climb to a sale to the  *)
(* leader at that price, and nothing after it.                             *)
IsAnAscendingSale == Sale!Spec
=============================================================================
