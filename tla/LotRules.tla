------------------------------ MODULE LotRules ------------------------------
(***************************************************************************)
(* The trading rules of one lot: the pure part of lot/Lot.scala and        *)
(* lot/StepPolicy.scala.  A lot is a record; every rule below reads it and *)
(* returns a sum, a bid or the lot after one event.  The state machine     *)
(* that calls the rules is module Lot.                                     *)
(*                                                                         *)
(* Abstracted: the currency (every sum of a lot is in the currency of its  *)
(* config, checked before any comparison), bid identifiers (a leader and   *)
(* its leading bid are set and cleared together), and the list order of    *)
(* step windows (at most one contains an instant).                         *)
(***************************************************************************)
EXTENDS Integers, Sequences

CONSTANTS
  Participants,   \* everybody who may bid on the lot
  NoOne,          \* the empty Option[ParticipantId]
  MoneyMax        \* stands for Long.MaxValue, the largest sum of minor units

ASSUME NoOneAssumption == NoOne \notin Participants
ASSUME MoneyMaxAssumption == MoneyMax \in Nat \ {0}

Money == (-MoneyMax - 1) .. MoneyMax

NoAsk      == -MoneyMax - 2                 \* ask = None, below every sum
NoDeadline == 0                             \* deadline = None
NoSum      == 0                             \* a window without a step or a start
NoLimit    == [max |-> 0, setSeq |-> 0]     \* real limits have setSeq > 0
NoLimits   == [p \in Participants |-> NoLimit]
NoBid      == [participant |-> NoOne, amount |-> 0]

Trading == {"Online", "Live"}               \* LotState.Trading, by its phase

Lesser(a, b)  == IF a < b THEN a ELSE b
Greater(a, b) == IF a > b THEN a ELSE b

-----------------------------------------------------------------------------
(* Sums of a fixed width.                                                  *)

(* Money.plus adds two Longs, and the JVM wraps the sum around.            *)
Plus(price, step) ==
  LET sum == price + step
  IN  IF sum > MoneyMax THEN sum - 2 * (MoneyMax + 1) ELSE sum

(* A price one step up, held at the edge of the width.                     *)
SaturatedPlus(price, step) == Lesser(price + step, MoneyMax)

-----------------------------------------------------------------------------
(* The step policy: a set of tiers [bound, step], the first bound zero;    *)
(* Fixed(step) is the policy of one tier.                                  *)

(* The tier of the highest bound not above the price.                      *)
Governs(tier, policy, price) ==
  LET Reached(t) == t.bound = 0 \/ t.bound <= price
  IN  Reached(tier) /\ \A t \in policy : Reached(t) => t.bound <= tier.bound

PolicyStep(policy, price) ==
  (CHOOSE tier \in policy : Governs(tier, policy, price)).step

(* Whether the sum is one of origin, origin + step(origin), ...            *)
OnGrid(policy, origin, sum) ==
  LET point[n \in Nat] ==
        IF n = 0 THEN origin
        ELSE LET before == point[n - 1] IN before + PolicyStep(policy, before)
  IN  \E n \in 0 .. (sum - origin) : point[n] = sum

Grid(policy, origin, limit) == {sum \in origin .. limit : OnGrid(policy, origin, sum)}

(* Slip: the target is taken as it is, off the grid.                       *)
GridFloorUnrounded(policy, origin, target) == target

(* The largest of those points, or a sum below them if there is none.      *)
GridFloor(policy, origin, target) ==
  LET points  == Grid(policy, origin, target)
      largest == {sum \in points : \A other \in points : other <= sum}
  IN  IF largest = {} THEN origin - 1 ELSE CHOOSE sum \in largest : TRUE

-----------------------------------------------------------------------------
(* The next price and its bounds at the instant `at`.                      *)

BaseStep(lot, price) == PolicyStep(lot.config.stepPolicy, price)

Overlaps(w, other) == w.from < other.until /\ other.from < w.until

ActiveWindows(lot, at) ==
  IF lot.state = "Online"
  THEN {w \in lot.stepWindows : w.from <= at /\ at < w.until}
  ELSE {}

StepAt(lot, price, at) ==
  LET lower == {w.step : w \in {v \in ActiveWindows(lot, at) :
                   v.step # NoSum /\ v.step < BaseStep(lot, price)}}
  IN  IF lower = {} THEN BaseStep(lot, price) ELSE CHOOSE step \in lower : TRUE

(* No leader yet: the next price is the starting one, without a step.      *)
Opening(lot) == lot.leader = NoOne

OpeningPrice(lot, at) ==
  LET lower == {w.start : w \in {v \in ActiveWindows(lot, at) :
                   v.start # NoSum /\ v.start < lot.price}}
  IN  IF lower = {} THEN lot.price ELSE CHOOSE start \in lower : TRUE

AskAbovePrice(lot) == lot.ask # NoAsk /\ lot.ask > lot.price

MinRequired(lot, at) ==
  IF AskAbovePrice(lot) THEN lot.ask
  ELSE IF Opening(lot) THEN OpeningPrice(lot, at)
  ELSE Plus(lot.price, StepAt(lot, lot.price, at))

Floor(lot) == IF AskAbovePrice(lot) THEN lot.ask ELSE lot.price

LimitFloor(lot, at) == IF Opening(lot) THEN MinRequired(lot, at) ELSE Floor(lot)

CeilingReference(lot) ==
  IF AskAbovePrice(lot) THEN lot.ask
  ELSE IF Opening(lot) THEN lot.price
  ELSE SaturatedPlus(lot.price, BaseStep(lot, lot.price))

OnlineBidCeiling == 5

OnlineMaximum(lot, required) ==
  LET scaled == OnlineBidCeiling * CeilingReference(lot)
  IN  Greater(Greater(Lesser(scaled, MoneyMax), -MoneyMax - 1), required)

-----------------------------------------------------------------------------
(* Proxy bidding: the single bid with which the limits answer a command.   *)

Active(lot) == {p \in Participants : lot.limits[p] # NoLimit}

Stronger(limit, other) ==
  \/ limit.max > other.max
  \/ limit.max = other.max /\ limit.setSeq < other.setSeq

(* Whose limit is the strongest of the set's: no two are of one event.     *)
Strongest(lot, set) ==
  LET top == {p \in set : \A q \in set \ {p} : Stronger(lot.limits[p], lot.limits[q])}
  IN  IF top = {} THEN NoOne ELSE CHOOSE p \in top : TRUE

(* The second maximum among the leader's rivals; below any price if none.  *)
RunnerUp(lot) ==
  LET rivals == Active(lot) \ {lot.leader}
      second == Strongest(lot, rivals \ {Strongest(lot, rivals)})
  IN  IF second = NoOne THEN -MoneyMax - 1 ELSE lot.limits[second].max

LeaderMax(lot) ==
  IF lot.leader \in Active(lot) THEN lot.limits[lot.leader].max ELSE -MoneyMax - 1

(* Slip: the leader keeps the lead over an equal limit, also over an earlier. *)
LeaderHoldsTies(lot, rival) ==
  lot.leader \in Active(lot) /\ lot.limits[lot.leader].max >= lot.limits[rival].max

LeaderHolds(lot, rival) ==
  lot.leader \in Active(lot) /\ Stronger(lot.limits[lot.leader], lot.limits[rival])

BidOf(p, amount) == [participant |-> p, amount |-> amount]

(* Whoever of the leader and the rival has the stronger limit takes it.    *)
Winner(lot, rival) == IF LeaderHolds(lot, rival) THEN lot.leader ELSE rival

(* Slip: the winner pays a step over the floor, not over the loser's limit. *)
OnlineTargetOverFloor(lot, at, rival) ==
  Lesser(lot.limits[rival].max, SaturatedPlus(LimitFloor(lot, at), BaseStep(lot, lot.price)))

(* Slip: a step over the loser's limit, whether the winner's reaches it or not. *)
OnlineTargetUncapped(lot, at, rival) ==
  SaturatedPlus(IF LeaderHolds(lot, rival) THEN lot.limits[rival].max
                ELSE Greater(LimitFloor(lot, at), LeaderMax(lot)),
                BaseStep(lot, lot.price))

OnlineTarget(lot, at, rival) ==
  LET f         == LimitFloor(lot, at)
      Above(sum) == SaturatedPlus(sum, StepAt(lot, sum, at))
      c         == lot.limits[rival].max
      second    == RunnerUp(lot)
  IN  IF LeaderHolds(lot, rival) THEN Lesser(LeaderMax(lot), Above(c))
      ELSE IF Opening(lot)
      THEN IF second > f THEN Lesser(c, Above(second)) ELSE f
      ELSE Lesser(c, Above(Greater(Greater(f, LeaderMax(lot)), second)))

ResolveOnline(lot, at) ==
  LET f       == LimitFloor(lot, at)
      rival   == Strongest(lot, Active(lot) \ {lot.leader})
      c       == lot.limits[rival].max
      reaches == rival # NoOne /\ (c > f \/ (Opening(lot) /\ c = f))
      target  == OnlineTarget(lot, at, rival)
  IN  IF ~reaches \/ (~Opening(lot) /\ target <= f) THEN NoBid
      ELSE BidOf(Winner(lot, rival), target)

(* Slip: the limits that have waited behind the winner's are forgotten.    *)
LiveTargetOverPrice(lot, rival) ==
  LET Above(sum) == SaturatedPlus(sum, BaseStep(lot, sum))
      c    == lot.limits[rival].max
      next == IF Opening(lot) THEN lot.price ELSE Above(Greater(lot.price, LeaderMax(lot)))
  IN  IF LeaderHolds(lot, rival) THEN Lesser(LeaderMax(lot), Above(c))
      ELSE Lesser(c, IF AskAbovePrice(lot) THEN Greater(lot.ask, next) ELSE next)

(* In the final the target is cut to the grid, so that a proxy bid is a    *)
(* price the auctioneer could have announced.                              *)
LiveTarget(lot, rival) ==
  LET Above(sum) == SaturatedPlus(sum, BaseStep(lot, sum))
      c      == lot.limits[rival].max
      second == RunnerUp(lot)
      next   == IF Opening(lot)
                THEN IF second > lot.price THEN Above(second) ELSE lot.price
                ELSE Above(Greater(Greater(lot.price, LeaderMax(lot)), second))
  IN  IF LeaderHolds(lot, rival) THEN Lesser(LeaderMax(lot), Above(c))
      ELSE Lesser(c, IF AskAbovePrice(lot) THEN Greater(lot.ask, next) ELSE next)

LiveReaches(lot, sum) ==
  IF AskAbovePrice(lot) THEN sum >= lot.ask
  ELSE sum > lot.price \/ (Opening(lot) /\ sum = lot.price)

ResolveLive(lot) ==
  LET rival == Strongest(lot, Active(lot) \ {lot.leader})
      point == GridFloor(lot.config.stepPolicy, Floor(lot), LiveTarget(lot, rival))
  IN  IF \/ rival = NoOne
         \/ ~LiveReaches(lot, lot.limits[rival].max)
         \/ ~LiveReaches(lot, point)
      THEN NoBid
      ELSE BidOf(Winner(lot, rival), point)

Resolve(lot, at) == IF lot.state = "Online" THEN ResolveOnline(lot, at) ELSE ResolveLive(lot)

-----------------------------------------------------------------------------
(* The lot after one event.                                                *)

Bidden(lot, bid) == [lot EXCEPT !.price = bid.amount, !.leader = bid.participant]

AfterAnswer(lot, bid) == IF bid = NoBid THEN lot ELSE Bidden(lot, bid)

(* The lot after the limits have answered at the instant `at`.             *)
Answered(lot, at) == AfterAnswer(lot, Resolve(lot, at))

Limited(lot, p, max, seq) == [lot EXCEPT !.limits[p] = [max |-> max, setSeq |-> seq]]

Unlimited(lot, p) == [lot EXCEPT !.limits[p] = NoLimit]

DeadlinePassed(lot, now) == lot.deadline # NoDeadline /\ now >= lot.deadline

(* Exactly deadline - window is outside the anti-snipe window.             *)
InAntiSnipeWindow(lot, now) ==
  lot.deadline # NoDeadline /\ now > lot.deadline - lot.config.window

(* Slip: extensions without an end.                                        *)
ExtendsForEver(lot, now) == InAntiSnipeWindow(lot, now)

Extends(lot, now) ==
  InAntiSnipeWindow(lot, now) /\ lot.extensionsUsed < lot.config.maxExtensions

Extended(lot, used) ==
  [lot EXCEPT !.deadline = @ + lot.config.extension, !.extensionsUsed = used]

-----------------------------------------------------------------------------
(* Replaying the online trade without a set of participants.               *)

(* Slip: entries are replayed at today's windows, not at their own.        *)
WindowsAtTheEnd(course, seq) ==
  course.stepWindows \cup {a.window : a \in course.addedWindows}

WindowsAt(course, seq) ==
  course.stepWindows \cup {a.window : a \in {b \in course.addedWindows : b.sequence < seq}}

(* Slip: the limits of the kept do not answer in the replay.               *)
ReplayedUnanswered(lot, course, entry) ==
  CASE entry.move = "Bid" -> Bidden(lot, BidOf(entry.participant, entry.amount))
    [] entry.move = "LimitSet" ->
         Limited(lot, entry.participant, entry.amount, entry.sequence)
    [] OTHER -> Unlimited(lot, entry.participant)

(* What one entry of the online week does to the replayed lot.             *)
Replayed(lot, course, entry) ==
  LET known == [lot EXCEPT !.stepWindows = WindowsAt(course, entry.sequence)]
      p     == entry.participant
  IN  CASE entry.move = "Bid" ->
             Answered(Bidden(known, BidOf(p,
               IF known.leader = p THEN Greater(known.price, entry.amount)
               ELSE entry.amount)), entry.at)
        [] entry.move = "LimitSet" ->
             Answered(Limited(known, p, entry.amount, entry.sequence), entry.at)
        [] entry.move = "LimitWithdrawn" -> Unlimited(known, p)

(* Limits put in while the lot was held are recorded and not answered.     *)
ReplayedHeld(lot, entry) ==
  CASE entry.move = "LimitSet" ->
         Limited(lot, entry.participant, entry.amount, entry.sequence)
    [] entry.move = "LimitWithdrawn" -> Unlimited(lot, entry.participant)
    [] OTHER -> lot

(* The lot at the moment its online week began.                            *)
AtTheStart(lot) ==
  [lot EXCEPT !.state = "Online", !.price = lot.course.startingPrice,
     !.ask = NoAsk, !.leader = NoOne, !.deadline = NoDeadline,
     !.extensionsUsed = 0, !.limits = NoLimits, !.marked = FALSE,
     !.stepWindows = lot.course.stepWindows]

(* The trade without a set of participants, up to now.                     *)
Rerun(lot, without) ==
  LET course == lot.course
      inputs == course.online \o course.held
      after[i \in 0 .. Len(inputs)] ==
        IF i = 0 THEN AtTheStart(lot)
        ELSE IF inputs[i].participant \in without THEN after[i - 1]
        ELSE IF i <= Len(course.online)
        THEN Replayed(after[i - 1], course, inputs[i])
        ELSE ReplayedHeld(after[i - 1], inputs[i])
  IN  after[Len(inputs)]
=============================================================================
