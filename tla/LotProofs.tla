----------------------------- MODULE LotProofs -----------------------------
(***************************************************************************)
(* Theorems about module Lot for every value of its constants.             *)
(***************************************************************************)
EXTENDS Lot, WellFoundedInduction, TLAPS

-----------------------------------------------------------------------------
(* Facts about functions that are defined step by step over 0 .. n, as the *)
(* replay of a history is: they exist, and what holds of the first value   *)
(* and is kept by every step holds of all of them.                         *)

(* Every set of naturals that is not empty has a least member.             *)
LEMMA LeastNatural ==
  ASSUME NEW T, T \subseteq Nat, T # {}
  PROVE  \E m \in T : \A k \in T : m <= k
<1> DEFINE Below == {pair \in Nat \X Nat : pair[1] < pair[2]}
<1>1. IsWellFoundedOn(Below, Nat)
  BY NatLessThanWellFounded DEF OpToRel
<1> HIDE DEF Below
<1>2. PICK m \in T : \A k \in T : <<k, m>> \notin Below
  BY <1>1, WFMin
<1>3. \A k \in T : ~(k < m)
  BY <1>2 DEF Below
<1> QED BY <1>3

(* Induction over the steps of a run, by the set of those it reaches.      *)
LEMMA RunInduction ==
  ASSUME NEW n \in Nat, NEW T, 0 \in T,
         \A i \in 1 .. n : i - 1 \in T => i \in T
  PROVE  0 .. n \subseteq T
<1> DEFINE Missed == {i \in 0 .. n : i \notin T}
<1>1. Missed = {}
  <2> SUFFICES ASSUME Missed # {} PROVE FALSE
    OBVIOUS
  <2>1. Missed \subseteq Nat
    OBVIOUS
  <2>2. PICK m \in Missed : \A k \in Missed : m <= k
    <3> HIDE DEF Missed
    <3> QED BY <2>1, LeastNatural
  <2>3. m \in 1 .. n /\ m \notin T
    BY <2>2
  <2>4. m - 1 \notin Missed
    BY <2>2, <2>3
  <2>5. m - 1 \in T
    BY <2>3, <2>4
  <2> QED BY <2>3, <2>5
<1> QED BY <1>1

(* A run of n steps from a start.                                          *)
IsRun(run, n, start, Step) ==
  /\ run[0] = start
  /\ \A i \in 1 .. n : run[i] = Step[<<i, run[i - 1]>>]

(* There is a run from every start by every step function.                 *)
LEMMA RunExists ==
  ASSUME NEW n \in Nat, NEW V, NEW start \in V,
         NEW Step \in [(1 .. n) \X V -> V]
  PROVE  \E run \in [0 .. n -> V] : IsRun(run, n, start, Step)
<1> DEFINE T == {m \in 0 .. n : \E run \in [0 .. m -> V] : IsRun(run, m, start, Step)}
<1>1. 0 \in T
  <2> DEFINE first == [i \in 0 .. 0 |-> start]
  <2>1. first \in [0 .. 0 -> V]
    OBVIOUS
  <2>2. IsRun(first, 0, start, Step)
    BY DEF IsRun
  <2> HIDE DEF first
  <2> QED BY <2>1, <2>2
<1>2. ASSUME NEW m \in 1 .. n, m - 1 \in T
      PROVE  m \in T
  <2>1. PICK run \in [0 .. (m - 1) -> V] : IsRun(run, m - 1, start, Step)
    BY <1>2
  <2> DEFINE next == [i \in 0 .. m |-> IF i = m THEN Step[<<m, run[m - 1]>>] ELSE run[i]]
  <2>2. run[m - 1] \in V /\ <<m, run[m - 1]>> \in (1 .. n) \X V
    BY <2>1
  <2>3. next \in [0 .. m -> V]
    BY <2>1, <2>2
  <2>4. next[0] = start
    BY <2>1 DEF IsRun
  <2>5. ASSUME NEW i \in 1 .. m
        PROVE  next[i] = Step[<<i, next[i - 1]>>]
    <3>1. CASE i = m
      <4>1. next[m] = Step[<<m, run[m - 1]>>]
        OBVIOUS
      <4>2. m - 1 \in 0 .. m /\ m - 1 # m
        OBVIOUS
      <4>3. next[m - 1] = run[m - 1]
        BY <4>2
      <4> HIDE DEF next
      <4> QED BY <3>1, <4>1, <4>3
    <3>2. CASE i # m
      <4>1. i \in 1 .. (m - 1)
        BY <3>2
      <4>2. next[i] = run[i] /\ next[i - 1] = run[i - 1]
        BY <4>1
      <4> QED BY <4>1, <4>2, <2>1 DEF IsRun
    <3> QED BY <3>1, <3>2
  <2>6. IsRun(next, m, start, Step)
    <3> HIDE DEF next
    <3> QED BY <2>4, <2>5 DEF IsRun
  <2> HIDE DEF next
  <2> QED BY <2>3, <2>6
<1>3. 0 .. n \subseteq T
  <2> HIDE DEF T
  <2> QED BY <1>1, <1>2, RunInduction
<1>4. n \in T
  BY <1>3
<1> QED BY <1>4

-----------------------------------------------------------------------------
(* A lot whose parts have their types and in which nobody of a set takes   *)
(* part: what every rule of LotRules keeps.                                *)
Sound(l, out) ==
  /\ l \in LotRecord
  /\ l.config \in Configs
  /\ l.leader \notin out
  /\ \A p \in out : l.limits[p] = NoLimit

-----------------------------------------------------------------------------
(* Sums.                                                                   *)

LEMMA MoneyFacts ==
  /\ MoneyMax \in Nat \ {0}
  /\ Money \subseteq Int
  /\ 0 \in Money
  /\ -MoneyMax - 1 \in Money
  /\ \A a, b \in Money : Lesser(a, b) \in Money /\ Greater(a, b) \in Money
  /\ \A a \in Money, step \in Nat : SaturatedPlus(a, step) \in Money
BY MoneyMaxAssumption DEF Money, Lesser, Greater, SaturatedPlus

(* Every sum somebody has named is a sum, and what is below one of them is  *)
(* below one of them still.                                                *)
LEMMA SumsFacts ==
  /\ Sums \subseteq Money
  /\ Sums \subseteq Int
  /\ 0 \in Sums
  /\ -MoneyMax - 1 \in Sums
  /\ \A a \in Sums, b \in Money : b <= a => b \in Sums
  /\ \A a \in Sums, b \in Money : Lesser(a, b) \in Sums
  /\ \A a, b \in Sums : Greater(a, b) \in Sums
  /\ StartingPrices \cup BidAmounts \cup LimitAmounts \cup Asks \subseteq Sums
  /\ \A w \in Windows : w.start \in Sums
<1>1. Sums \subseteq Money /\ Sums \subseteq Int
  BY MoneyFacts DEF Sums
<1>2. Named \subseteq Money
  BY SumsAssumption, WindowsAssumption, MoneyMaxAssumption DEF Named, Money
<1>3. Named \subseteq Sums
  BY <1>2, MoneyFacts DEF Sums
<1>4. 0 \in Sums
  BY <1>3 DEF Named
<1>5. \A a \in Sums, b \in Money : b <= a => b \in Sums
  <2> SUFFICES ASSUME NEW a \in Sums, NEW b \in Money, b <= a PROVE b \in Sums
    OBVIOUS
  <2>1. PICK named \in Named : a <= named
    BY DEF Sums
  <2>2. a \in Int /\ b \in Int /\ named \in Int
    BY <1>1, <1>2, MoneyFacts
  <2>3. b <= named
    BY <2>1, <2>2
  <2> QED BY <2>3 DEF Sums
<1>6. -MoneyMax - 1 \in Sums
  BY <1>4, <1>5, MoneyFacts
<1>7. \A a \in Sums, b \in Money : Lesser(a, b) \in Sums
  BY <1>1, <1>5, MoneyFacts DEF Lesser
<1>8. \A a, b \in Sums : Greater(a, b) \in Sums
  BY DEF Greater
<1>9. StartingPrices \cup BidAmounts \cup LimitAmounts \cup Asks \subseteq Sums
      /\ \A w \in Windows : w.start \in Sums
  BY <1>3 DEF Named
<1> QED BY <1>1, <1>4, <1>5, <1>6, <1>7, <1>8, <1>9

(* Every price has a positive step under the terms of a lot.               *)
LEMMA PolicyStepType ==
  ASSUME NEW config \in Configs, NEW price \in Money
  PROVE  PolicyStep(config.stepPolicy, price) \in Nat \ {0}
<1> DEFINE policy == config.stepPolicy
           tier == CHOOSE t \in policy : Governs(t, policy, price)
<1>1. \E t \in policy : Governs(t, policy, price)
  BY ConfigsAssumption
<1>2. tier \in policy
  <2> HIDE DEF policy
  <2> QED BY <1>1
<1>3. \A t \in policy : t.step \in Nat \ {0}
  BY ConfigsAssumption
<1>4. PolicyStep(policy, price) = tier.step
  BY DEF PolicyStep
<1> HIDE DEF policy, tier
<1>5. PolicyStep(policy, price) \in Nat \ {0}
  BY <1>2, <1>3, <1>4
<1> QED BY <1>5 DEF policy

LEMMA StepAtType ==
  ASSUME NEW l \in LotRecord, l.config \in Configs, NEW price \in Money, NEW at
  PROVE  StepAt(l, price, at) \in Nat
<1> DEFINE lower == {w.step : w \in {v \in ActiveWindows(l, at) :
                        v.step # NoSum /\ v.step < BaseStep(l, price)}}
<1>1. BaseStep(l, price) \in Nat
  BY PolicyStepType DEF BaseStep
<1>2. ActiveWindows(l, at) \subseteq Windows
  BY DEF ActiveWindows, LotRecord
<1>3. lower \subseteq Nat
  BY <1>2, WindowsAssumption
<1>4. CASE lower = {}
  BY <1>1, <1>4 DEF StepAt
<1>5. CASE lower # {}
  <2>1. (CHOOSE step \in lower : TRUE) \in lower
    <3> HIDE DEF lower
    <3> QED BY <1>5
  <2>2. StepAt(l, price, at) = CHOOSE step \in lower : TRUE
    BY <1>5 DEF StepAt
  <2> HIDE DEF lower
  <2> QED BY <2>1, <2>2, <1>3
<1> QED BY <1>4, <1>5

LEMMA OpeningPriceType ==
  ASSUME NEW l \in LotRecord, NEW at
  PROVE  OpeningPrice(l, at) \in Sums
<1> DEFINE lower == {w.start : w \in {v \in ActiveWindows(l, at) :
                        v.start # NoSum /\ v.start < l.price}}
<1>1. l.price \in Sums
  BY DEF LotRecord
<1>2. ActiveWindows(l, at) \subseteq Windows
  BY DEF ActiveWindows, LotRecord
<1>3. lower \subseteq Sums
  BY <1>2, SumsFacts
<1>4. CASE lower = {}
  BY <1>1, <1>4 DEF OpeningPrice
<1>5. CASE lower # {}
  <2>1. (CHOOSE start \in lower : TRUE) \in lower
    <3> HIDE DEF lower
    <3> QED BY <1>5
  <2>2. OpeningPrice(l, at) = CHOOSE start \in lower : TRUE
    BY <1>5 DEF OpeningPrice
  <2> HIDE DEF lower
  <2> QED BY <2>1, <2>2, <1>3
<1> QED BY <1>4, <1>5

(* An ask above the price is a sum; the empty one is below all of them.    *)
LEMMA AskType ==
  ASSUME NEW l \in LotRecord
  PROVE  l.ask \in Int /\ l.price \in Int /\ (AskAbovePrice(l) => l.ask \in Sums)
<1>1. l.price \in Sums /\ l.ask \in Sums \cup {NoAsk}
  BY DEF LotRecord
<1>2. NoAsk \in Int
  BY MoneyMaxAssumption DEF NoAsk
<1> QED BY <1>1, <1>2, SumsFacts DEF AskAbovePrice

LEMMA FloorTypes ==
  ASSUME NEW l \in LotRecord, NEW at
  PROVE  Floor(l) \in Sums /\ LimitFloor(l, at) \in Sums
<1>1. l.price \in Sums /\ (AskAbovePrice(l) => l.ask \in Sums)
  BY AskType DEF LotRecord
<1>2. Floor(l) \in Sums
  BY <1>1 DEF Floor
<1>3. Opening(l) => MinRequired(l, at) \in Sums
  BY <1>1, OpeningPriceType DEF MinRequired
<1> QED BY <1>2, <1>3 DEF LimitFloor

-----------------------------------------------------------------------------
(* The answer of the limits.                                               *)

LEMMA StrongestMember ==
  ASSUME NEW l, NEW set
  PROVE  Strongest(l, set) \in set \cup {NoOne}
<1> DEFINE top == {p \in set : \A q \in set \ {p} : Stronger(l.limits[p], l.limits[q])}
<1>1. CASE top = {}
  BY <1>1 DEF Strongest
<1>2. CASE top # {}
  <2>1. (CHOOSE p \in top : TRUE) \in top
    <3> HIDE DEF top
    <3> QED BY <1>2
  <2>2. Strongest(l, set) = CHOOSE p \in top : TRUE
    BY <1>2 DEF Strongest
  <2>3. top \subseteq set
    OBVIOUS
  <2> HIDE DEF top
  <2> QED BY <2>1, <2>2, <2>3
<1> QED BY <1>1, <1>2

(* The maxima the answer is computed from are sums.                        *)
LEMMA MaximaTypes ==
  ASSUME NEW l \in LotRecord
  PROVE  /\ \A p \in Participants : l.limits[p].max \in Sums
         /\ LeaderMax(l) \in Sums
         /\ RunnerUp(l) \in Sums
         /\ Active(l) \subseteq Participants
<1>1. \A p \in Participants : l.limits[p].max \in Sums
  BY DEF LotRecord, Limit
<1>2. Active(l) \subseteq Participants
  BY DEF Active
<1>3. LeaderMax(l) \in Sums
  BY <1>1, <1>2, SumsFacts DEF LeaderMax
<1>4. RunnerUp(l) \in Sums
  <2> DEFINE rivals == Active(l) \ {l.leader}
             second == Strongest(l, rivals \ {Strongest(l, rivals)})
  <2>1. second \in (rivals \ {Strongest(l, rivals)}) \cup {NoOne}
    BY StrongestMember
  <2>2. second # NoOne => second \in Participants
    <3> HIDE DEF second
    <3> QED BY <2>1, <1>2
  <2>3. RunnerUp(l) = IF second = NoOne THEN -MoneyMax - 1 ELSE l.limits[second].max
    BY DEF RunnerUp
  <2> HIDE DEF second
  <2> QED BY <2>2, <2>3, <1>1, SumsFacts
<1> QED BY <1>1, <1>2, <1>3, <1>4

LEMMA OnlineTargetType ==
  ASSUME NEW l \in LotRecord, l.config \in Configs, NEW at,
         NEW rival \in Participants
  PROVE  OnlineTarget(l, at, rival) \in Sums
<1> DEFINE Above(sum) == SaturatedPlus(sum, StepAt(l, sum, at))
           f == LimitFloor(l, at)
           c == l.limits[rival].max
           second == RunnerUp(l)
<1>1. f \in Sums /\ c \in Sums /\ second \in Sums /\ LeaderMax(l) \in Sums
  BY FloorTypes, MaximaTypes
<1>2. \A sum \in Money : Above(sum) \in Money
  BY StepAtType, MoneyFacts
<1>3. OnlineTarget(l, at, rival) =
        IF LeaderHolds(l, rival) THEN Lesser(LeaderMax(l), Above(c))
        ELSE IF Opening(l)
        THEN IF second > f THEN Lesser(c, Above(second)) ELSE f
        ELSE Lesser(c, Above(Greater(Greater(f, LeaderMax(l)), second)))
  BY DEF OnlineTarget
<1>4. Above(c) \in Money /\ Above(second) \in Money
  BY <1>1, <1>2, SumsFacts
<1>5. Greater(Greater(f, LeaderMax(l)), second) \in Sums
  BY <1>1, SumsFacts
<1>6. Above(Greater(Greater(f, LeaderMax(l)), second)) \in Money
  BY <1>5, <1>2, SumsFacts
<1> HIDE DEF Above, f, c, second
<1> QED BY <1>1, <1>3, <1>4, <1>6, SumsFacts

LEMMA LiveTargetType ==
  ASSUME NEW l \in LotRecord, l.config \in Configs,
         NEW rival \in Participants
  PROVE  LiveTarget(l, rival) \in Sums
<1> DEFINE Above(sum) == SaturatedPlus(sum, BaseStep(l, sum))
           c == l.limits[rival].max
           second == RunnerUp(l)
           next == IF Opening(l)
                   THEN IF second > l.price THEN Above(second) ELSE l.price
                   ELSE Above(Greater(Greater(l.price, LeaderMax(l)), second))
<1>1. /\ l.price \in Sums /\ (AskAbovePrice(l) => l.ask \in Sums) /\ c \in Sums
      /\ second \in Sums /\ LeaderMax(l) \in Sums
  BY AskType, MaximaTypes DEF LotRecord
<1>2. \A sum \in Money : Above(sum) \in Money
  BY PolicyStepType, MoneyFacts DEF BaseStep
<1>3. Above(c) \in Money /\ Above(second) \in Money
  BY <1>1, <1>2, SumsFacts
<1>4. Greater(Greater(l.price, LeaderMax(l)), second) \in Money
  BY <1>1, SumsFacts
<1>5. next \in Money
  <2>1. Above(Greater(Greater(l.price, LeaderMax(l)), second)) \in Money
    BY <1>4, <1>2
  <2> HIDE DEF Above, second
  <2> QED BY <2>1, <1>1, <1>3, SumsFacts
<1>6. LiveTarget(l, rival) =
        IF LeaderHolds(l, rival) THEN Lesser(LeaderMax(l), Above(c))
        ELSE Lesser(c, IF AskAbovePrice(l) THEN Greater(l.ask, next) ELSE next)
  BY DEF LiveTarget
<1>7. Lesser(LeaderMax(l), Above(c)) \in Sums
  BY <1>1, <1>3, SumsFacts
<1>8. (IF AskAbovePrice(l) THEN Greater(l.ask, next) ELSE next) \in Money
  <2> HIDE DEF next
  <2> QED BY <1>1, <1>5, MoneyFacts, SumsFacts
<1>9. Lesser(c, IF AskAbovePrice(l) THEN Greater(l.ask, next) ELSE next) \in Sums
  <2> HIDE DEF next, c
  <2> QED BY <1>1, <1>8, SumsFacts
<1> QED BY <1>6, <1>7, <1>9

(* The point a target is cut to lies between the origin and the target, or *)
(* just below the origin.                                                  *)
LEMMA GridFloorRange ==
  ASSUME NEW policy, NEW origin \in Int, NEW target \in Int
  PROVE  GridFloor(policy, origin, target) \in (origin .. target) \cup {origin - 1}
<1> DEFINE points == Grid(policy, origin, target)
           largest == {sum \in points : \A other \in points : other <= sum}
<1>1. points \subseteq origin .. target
  BY DEF Grid
<1>2. CASE largest = {}
  BY <1>2 DEF GridFloor
<1>3. CASE largest # {}
  <2>1. (CHOOSE sum \in largest : TRUE) \in largest
    <3> HIDE DEF largest
    <3> QED BY <1>3
  <2>2. GridFloor(policy, origin, target) = CHOOSE sum \in largest : TRUE
    BY <1>3 DEF GridFloor
  <2>3. largest \subseteq origin .. target
    BY <1>1
  <2> HIDE DEF largest
  <2> QED BY <2>1, <2>2, <2>3
<1> QED BY <1>2, <1>3

(* The answer is no bid, or a sum by a participant whose limit is in force. *)
LEMMA ResolveType ==
  ASSUME NEW l \in LotRecord, l.config \in Configs, NEW at
  PROVE  \/ Resolve(l, at) = NoBid
         \/ \E p \in Active(l), amount \in Sums : Resolve(l, at) = BidOf(p, amount)
<1> DEFINE rival == Strongest(l, Active(l) \ {l.leader})
<1>1. rival \in Active(l) \cup {NoOne}
  BY StrongestMember
<1>2. Active(l) \subseteq Participants /\ NoOne \notin Participants
  BY MaximaTypes, NoOneAssumption
<1>3. rival # NoOne => Winner(l, rival) \in Active(l)
  BY <1>1 DEF Winner, LeaderHolds
<1>4. CASE l.state = "Online"
  <2> DEFINE target == OnlineTarget(l, at, rival)
  <2>1. rival # NoOne => target \in Sums
    BY <1>1, <1>2, OnlineTargetType
  <2>2. \/ ResolveOnline(l, at) = NoBid
        \/ rival # NoOne /\ ResolveOnline(l, at) = BidOf(Winner(l, rival), target)
    BY DEF ResolveOnline
  <2>3. Resolve(l, at) = ResolveOnline(l, at)
    BY <1>4 DEF Resolve
  <2> HIDE DEF rival, target
  <2> QED BY <2>1, <2>2, <2>3, <1>3
<1>5. CASE l.state # "Online"
  <2> DEFINE point == GridFloor(l.config.stepPolicy, Floor(l), LiveTarget(l, rival))
  <2>1. ASSUME rival # NoOne, LiveReaches(l, point)
        PROVE  point \in Sums
    <3>1. LiveTarget(l, rival) \in Sums /\ LiveTarget(l, rival) \in Money
      BY <2>1, <1>1, <1>2, LiveTargetType, SumsFacts
    <3>2. Floor(l) \in Money
      BY FloorTypes, SumsFacts
    <3>3. point \in (Floor(l) .. LiveTarget(l, rival)) \cup {Floor(l) - 1}
      BY <3>1, <3>2, MoneyFacts, GridFloorRange
    <3>4. point # Floor(l) - 1
      <4>1. l.price \in Int /\ l.ask \in Int
        BY AskType
      <4>2. ~ LiveReaches(l, Floor(l) - 1)
        BY <4>1 DEF LiveReaches, Floor
      <4> HIDE DEF point
      <4> QED BY <2>1, <4>2
    <3> HIDE DEF point
    <3>5. point \in Money /\ point <= LiveTarget(l, rival)
      BY <3>1, <3>2, <3>3, <3>4, MoneyMaxAssumption DEF Money
    <3> QED BY <3>1, <3>5, SumsFacts
  <2>2. \/ ResolveLive(l) = NoBid
        \/ /\ rival # NoOne /\ LiveReaches(l, point)
           /\ ResolveLive(l) = BidOf(Winner(l, rival), point)
    BY DEF ResolveLive
  <2>3. Resolve(l, at) = ResolveLive(l)
    BY <1>5 DEF Resolve
  <2> HIDE DEF rival, point
  <2> QED BY <2>1, <2>2, <2>3, <1>3
<1> QED BY <1>4, <1>5

-----------------------------------------------------------------------------
(* What the limits bid.                                                    *)

(* A window only ever lowers the step, and never to nothing.               *)
LEMMA StepAtRange ==
  ASSUME NEW l \in LotRecord, l.config \in Configs, NEW price \in Money, NEW at
  PROVE  /\ BaseStep(l, price) \in Nat \ {0}
         /\ StepAt(l, price, at) \in 1 .. BaseStep(l, price)
<1> DEFINE lower == {w.step : w \in {v \in ActiveWindows(l, at) :
                        v.step # NoSum /\ v.step < BaseStep(l, price)}}
<1>1. BaseStep(l, price) \in Nat \ {0}
  BY PolicyStepType DEF BaseStep
<1>2. ActiveWindows(l, at) \subseteq Windows
  BY DEF ActiveWindows, LotRecord
<1>3. lower \subseteq 1 .. BaseStep(l, price)
  BY <1>1, <1>2, WindowsAssumption DEF NoSum
<1>4. CASE lower = {}
  BY <1>1, <1>4 DEF StepAt
<1>5. CASE lower # {}
  <2>1. (CHOOSE step \in lower : TRUE) \in lower
    <3> HIDE DEF lower
    <3> QED BY <1>5
  <2>2. StepAt(l, price, at) = CHOOSE step \in lower : TRUE
    BY <1>5 DEF StepAt
  <2> HIDE DEF lower
  <2> QED BY <1>1, <2>1, <2>2, <1>3
<1> QED BY <1>1, <1>4, <1>5

(* The first price is the lot's or, in a window, a lower one.              *)
LEMMA OpeningPriceRange ==
  ASSUME NEW l \in LotRecord, NEW at
  PROVE  /\ OpeningPrice(l, at) \in Int
         /\ OpeningPrice(l, at) <= l.price
         /\ l.state # "Online" => OpeningPrice(l, at) = l.price
<1> DEFINE lower == {w.start : w \in {v \in ActiveWindows(l, at) :
                        v.start # NoSum /\ v.start < l.price}}
<1>1. l.price \in Int /\ OpeningPrice(l, at) \in Int
  BY OpeningPriceType, SumsFacts DEF LotRecord
<1>2. l.state # "Online" => lower = {}
  BY DEF ActiveWindows
<1>3. CASE lower = {}
  BY <1>1, <1>3 DEF OpeningPrice
<1>4. CASE lower # {}
  <2>1. (CHOOSE start \in lower : TRUE) \in lower
    <3> HIDE DEF lower
    <3> QED BY <1>4
  <2>2. OpeningPrice(l, at) = CHOOSE start \in lower : TRUE
    BY <1>4 DEF OpeningPrice
  <2>3. \A start \in lower : start < l.price
    OBVIOUS
  <2> HIDE DEF lower
  <2> QED BY <1>1, <1>2, <1>4, <2>1, <2>2, <2>3
<1> QED BY <1>3, <1>4

(* The floor is not below the price, and a limit has to reach it.          *)
LEMMA FloorRange ==
  ASSUME NEW l \in LotRecord, NEW at
  PROVE  /\ l.price \in Int /\ Floor(l) \in Int /\ LimitFloor(l, at) \in Int
         /\ l.price <= Floor(l)
         /\ AskAbovePrice(l) => Floor(l) = l.ask /\ LimitFloor(l, at) = l.ask /\ l.ask > l.price
         /\ ~ AskAbovePrice(l) => Floor(l) = l.price
         /\ ~ Opening(l) => LimitFloor(l, at) = Floor(l)
         /\ Opening(l) /\ ~ AskAbovePrice(l) => LimitFloor(l, at) = OpeningPrice(l, at)
         /\ l.state # "Online" => LimitFloor(l, at) = Floor(l)
         /\ LimitFloor(l, at) >= IF Opening(l) THEN OpeningPrice(l, at) ELSE l.price
<1>1. l.price \in Int /\ l.ask \in Int /\ Floor(l) \in Int /\ LimitFloor(l, at) \in Int
  BY AskType, FloorTypes, SumsFacts
<1>2. OpeningPrice(l, at) \in Int /\ OpeningPrice(l, at) <= l.price
      /\ (l.state # "Online" => OpeningPrice(l, at) = l.price)
  BY OpeningPriceRange
<1> QED BY <1>1, <1>2 DEF Floor, LimitFloor, MinRequired, AskAbovePrice

(* Above an amount that leaves room there is a higher one.                 *)
LEMMA SaturatedRange ==
  ASSUME NEW sum \in Money, NEW step \in Nat \ {0}
  PROVE  /\ SaturatedPlus(sum, step) \in Int
         /\ SaturatedPlus(sum, step) >= sum
         /\ sum < MoneyMax => SaturatedPlus(sum, step) > sum
         /\ SaturatedPlus(sum, step) <= MoneyMax
         /\ SaturatedPlus(sum, step) <= sum + step
BY MoneyMaxAssumption DEF Money, SaturatedPlus, Lesser

(* The strength of limits is a total order once no two are of one event.   *)
LEMMA StrengthOrder ==
  ASSUME NEW x \in Limit, NEW y \in Limit
  PROVE  /\ Stronger(x, y) => x.max >= y.max
         /\ ~ Stronger(x, y) => y.max >= x.max
         /\ x.setSeq # y.setSeq => Stronger(x, y) \/ Stronger(y, x)
         /\ \A z \in Limit : Stronger(x, y) /\ Stronger(y, z) => Stronger(x, z)
<1>1. Sums \subseteq Int
  BY SumsFacts
<1>2. \A z \in Limit : z.max \in Int /\ z.setSeq \in Int
  <2> TAKE z \in Limit
  <2>1. z.max \in Sums /\ z.setSeq \in 0 .. MaxSequence
    BY DEF Limit
  <2>2. z.max \in Int
    BY <1>1, <2>1
  <2>3. z.setSeq \in Int
    BY <2>1, TimeAssumption
  <2> QED BY <2>2, <2>3
<1> QED BY <1>2 DEF Stronger

LEMMA LeaderHoldsFacts ==
  ASSUME NEW l \in LotRecord, NEW rival \in Participants
  PROVE  /\ LeaderHolds(l, rival) =>
              /\ l.leader \in Active(l) /\ ~ Opening(l)
              /\ LeaderMax(l) = l.limits[l.leader].max
              /\ LeaderMax(l) >= l.limits[rival].max
         /\ ~ LeaderHolds(l, rival) => LeaderMax(l) <= l.limits[rival].max
         /\ Opening(l) => LeaderMax(l) = -MoneyMax - 1
<1>1. \A p \in Participants : l.limits[p] \in Limit /\ l.limits[p].max \in Money
  BY SumsFacts DEF LotRecord, Limit
<1>2. Active(l) \subseteq Participants /\ NoOne \notin Active(l)
  BY NoOneAssumption DEF Active
<1>3. CASE l.leader \in Active(l)
  <2>1. LeaderMax(l) = l.limits[l.leader].max /\ l.leader \in Participants /\ ~ Opening(l)
    BY <1>2, <1>3 DEF LeaderMax, Opening
  <2> QED BY <1>1, <1>3, <2>1, StrengthOrder DEF LeaderHolds
<1>4. CASE l.leader \notin Active(l)
  <2>1. LeaderMax(l) = -MoneyMax - 1 /\ ~ LeaderHolds(l, rival)
    BY <1>4 DEF LeaderMax, LeaderHolds
  <2>2. l.limits[rival].max >= -MoneyMax - 1
    BY <1>1, MoneyMaxAssumption DEF Money
  <2> QED BY <2>1, <2>2
<1> QED BY <1>3, <1>4

(* The answer is within the limit of the participant it bids for, reaches  *)
(* what the limits have to reach, and rises above the price of a lot that  *)
(* has a leader.                                                           *)
Answers(l, at, p, amount) ==
  /\ Resolve(l, at) = BidOf(p, amount)
  /\ amount <= l.limits[p].max
  /\ amount >= LimitFloor(l, at)
  /\ ~ Opening(l) => amount > l.price

LEMMA OnlineAnswer ==
  ASSUME NEW l \in LotRecord, l.config \in Configs, NEW at,
         NEW rival \in Participants,
         LET f == LimitFloor(l, at)
             c == l.limits[rival].max
         IN  c > f \/ (Opening(l) /\ c = f)
  PROVE  LET target == OnlineTarget(l, at, rival)
             f      == LimitFloor(l, at)
         IN  /\ target \in Sums /\ target \in Int
             /\ target <= l.limits[Winner(l, rival)].max
             /\ target >= f
             /\ ~ Opening(l) => target > f
             /\ ~ LeaderHolds(l, rival) => target >= RunnerUp(l) \/ RunnerUp(l) > l.limits[rival].max
             /\ ~ LeaderHolds(l, rival) => target >= LeaderMax(l)
             /\ LeaderHolds(l, rival) => target >= l.limits[rival].max
<1> DEFINE Above(sum) == SaturatedPlus(sum, StepAt(l, sum, at))
           f == LimitFloor(l, at)
           c == l.limits[rival].max
           second == RunnerUp(l)
           m == Greater(Greater(f, LeaderMax(l)), second)
           target == OnlineTarget(l, at, rival)
<1>1. f \in Money /\ c \in Money /\ second \in Money /\ LeaderMax(l) \in Money /\ m \in Money
  BY FloorTypes, MaximaTypes, SumsFacts, MoneyFacts
<1>2. \A sum \in Money : /\ Above(sum) \in Int /\ Above(sum) >= sum
                         /\ sum < MoneyMax => Above(sum) > sum
  BY StepAtRange, SaturatedRange
<1>3. target = IF LeaderHolds(l, rival) THEN Lesser(LeaderMax(l), Above(c))
               ELSE IF Opening(l)
               THEN IF second > f THEN Lesser(c, Above(second)) ELSE f
               ELSE Lesser(c, Above(m))
  BY DEF OnlineTarget
<1>4. target \in Sums /\ target \in Int
  BY OnlineTargetType, SumsFacts
<1>5. c > f \/ (Opening(l) /\ c = f)
  OBVIOUS
<1>6. \A sum \in Money : sum \in Int /\ sum <= MoneyMax
  BY MoneyMaxAssumption DEF Money
<1>7. CASE LeaderHolds(l, rival)
  <2>1. LeaderMax(l) = l.limits[Winner(l, rival)].max /\ LeaderMax(l) >= c /\ ~ Opening(l)
    BY <1>7, LeaderHoldsFacts DEF Winner
  <2>2. Above(c) \in Int /\ Above(c) >= c
    BY <1>1, <1>2
  <2>3. target = Lesser(LeaderMax(l), Above(c))
    BY <1>3, <1>7
  <2> HIDE DEF target, Above, c, f
  <2> QED BY <1>1, <1>4, <1>5, <1>6, <1>7, <2>1, <2>2, <2>3 DEF Lesser, c, f, target
<1>8. CASE ~ LeaderHolds(l, rival) /\ Opening(l)
  <2>1. c = l.limits[Winner(l, rival)].max /\ LeaderMax(l) <= c
    BY <1>8, LeaderHoldsFacts DEF Winner
  <2>2. Above(second) \in Int /\ Above(second) >= second
    BY <1>1, <1>2
  <2>3. target = IF second > f THEN Lesser(c, Above(second)) ELSE f
    BY <1>3, <1>8
  <2>4. LeaderMax(l) = -MoneyMax - 1 /\ f >= -MoneyMax - 1 /\ c >= -MoneyMax - 1
    BY <1>1, <1>8, LeaderHoldsFacts, MoneyMaxAssumption DEF Money
  <2>5. target <= c /\ target >= f /\ target >= LeaderMax(l)
        /\ (target >= second \/ second > c)
    <3> HIDE DEF target, Above, c, f, second
    <3> QED BY <1>1, <1>4, <1>5, <1>6, <2>1, <2>2, <2>3, <2>4, MoneyMaxAssumption DEF Lesser
  <2> QED BY <1>4, <1>8, <2>1, <2>5
<1>9. CASE ~ LeaderHolds(l, rival) /\ ~ Opening(l)
  <2>1. c = l.limits[Winner(l, rival)].max /\ LeaderMax(l) <= c
    BY <1>9, LeaderHoldsFacts DEF Winner
  <2>2. m >= f /\ m >= LeaderMax(l) /\ m >= second
    <3> HIDE DEF f, second
    <3> QED BY <1>1, <1>6 DEF Greater
  <2>3. Above(m) \in Int /\ Above(m) >= m /\ (m < MoneyMax => Above(m) > m)
    BY <1>1, <1>2
  <2>4. target = Lesser(c, Above(m))
    BY <1>3, <1>9
  <2>5. target <= c /\ target > f /\ target >= LeaderMax(l)
        /\ (target >= second \/ second > c)
    <3>1. /\ f \in Int /\ c \in Int /\ second \in Int /\ LeaderMax(l) \in Int /\ m \in Int
          /\ c <= MoneyMax /\ m <= MoneyMax /\ MoneyMax \in Int /\ c > f
      BY <1>1, <1>5, <1>6, <1>9, MoneyMaxAssumption
    <3>2. Above(m) > f
      <4> HIDE DEF Above, c, f, second, m
      <4> QED BY <2>2, <2>3, <3>1
    <3> HIDE DEF target, Above, c, f, second, m
    <3> QED BY <2>1, <2>2, <2>3, <2>4, <3>1, <3>2 DEF Lesser
  <2> QED BY <1>1, <1>4, <1>6, <1>9, <2>1, <2>5
<1> QED BY <1>7, <1>8, <1>9

LEMMA LiveTargetRange ==
  ASSUME NEW l \in LotRecord, l.config \in Configs, NEW rival \in Participants
  PROVE  /\ LiveTarget(l, rival) \in Int
         /\ LiveTarget(l, rival) <= l.limits[Winner(l, rival)].max
<1> DEFINE Above(sum) == SaturatedPlus(sum, BaseStep(l, sum))
           c == l.limits[rival].max
           second == RunnerUp(l)
           next == IF Opening(l)
                   THEN IF second > l.price THEN Above(second) ELSE l.price
                   ELSE Above(Greater(Greater(l.price, LeaderMax(l)), second))
           dear == IF AskAbovePrice(l) THEN Greater(l.ask, next) ELSE next
<1>1. LiveTarget(l, rival) = IF LeaderHolds(l, rival) THEN Lesser(LeaderMax(l), Above(c))
                             ELSE Lesser(c, dear)
  BY DEF LiveTarget
<1>2. c \in Int /\ LeaderMax(l) \in Int /\ LiveTarget(l, rival) \in Int
  BY LiveTargetType, MaximaTypes, SumsFacts
<1>3. LeaderHolds(l, rival) => LeaderMax(l) = l.limits[Winner(l, rival)].max
  BY LeaderHoldsFacts DEF Winner
<1>4. ~ LeaderHolds(l, rival) => c = l.limits[Winner(l, rival)].max
  BY DEF Winner
<1> HIDE DEF Above, c, dear
<1> QED BY <1>1, <1>2, <1>3, <1>4 DEF Lesser

LEMMA AnswerFacts ==
  ASSUME NEW l \in LotRecord, l.config \in Configs, NEW at, Resolve(l, at) # NoBid
  PROVE  \E p \in Active(l), amount \in Sums : Answers(l, at, p, amount)
<1> DEFINE rival == Strongest(l, Active(l) \ {l.leader})
<1>1. rival \in Active(l) \cup {NoOne}
  BY StrongestMember
<1>2. Active(l) \subseteq Participants /\ NoOne \notin Participants
  BY MaximaTypes, NoOneAssumption
<1>3. rival # NoOne => rival \in Participants /\ Winner(l, rival) \in Active(l)
  BY <1>1, <1>2 DEF Winner, LeaderHolds
<1>4. CASE l.state = "Online"
  <2> DEFINE target == OnlineTarget(l, at, rival)
             f == LimitFloor(l, at)
             c == l.limits[rival].max
  <2>1. /\ rival # NoOne
        /\ c > f \/ (Opening(l) /\ c = f)
        /\ Resolve(l, at) = BidOf(Winner(l, rival), target)
    BY <1>4 DEF Resolve, ResolveOnline
  <2>2. /\ target \in Sums /\ target \in Int
        /\ target <= l.limits[Winner(l, rival)].max
        /\ target >= f
        /\ ~ Opening(l) => target > f
    BY <1>3, <2>1, OnlineAnswer
  <2>3. ~ Opening(l) => target > l.price
    BY <2>2, FloorRange
  <2> HIDE DEF rival, target, f, c
  <2> QED BY <1>3, <2>1, <2>2, <2>3 DEF Answers, f
<1>5. CASE l.state # "Online"
  <2> DEFINE target == LiveTarget(l, rival)
             point == GridFloor(l.config.stepPolicy, Floor(l), target)
  <2>1. rival # NoOne /\ LiveReaches(l, point) /\ Resolve(l, at) = BidOf(Winner(l, rival), point)
    BY <1>5 DEF Resolve, ResolveLive
  <2>2. target \in Sums /\ target \in Money /\ target \in Int
        /\ target <= l.limits[Winner(l, rival)].max
    BY <1>3, <2>1, LiveTargetType, LiveTargetRange, SumsFacts
  <2>3. Floor(l) \in Money /\ Floor(l) \in Int /\ l.price \in Int /\ l.ask \in Int
    BY AskType, FloorTypes, SumsFacts
  <2>4. point \in (Floor(l) .. target) \cup {Floor(l) - 1}
    BY <2>2, <2>3, GridFloorRange
  <2>5. point # Floor(l) - 1
    <3>1. ~ LiveReaches(l, Floor(l) - 1)
      BY <2>3 DEF LiveReaches, Floor
    <3> HIDE DEF point
    <3> QED BY <2>1, <3>1
  <2>6. point \in Int /\ point >= Floor(l) /\ point <= target
    <3> HIDE DEF point, target
    <3> QED BY <2>2, <2>3, <2>4, <2>5
  <2>7. point \in Sums
    <3>1. point \in Money
      BY <2>2, <2>3, <2>6, MoneyMaxAssumption DEF Money
    <3> QED BY <2>2, <2>6, <3>1, SumsFacts
  <2>8. ~ Opening(l) => point > l.price
    <3> HIDE DEF point
    <3> QED BY <2>1, <2>3, <2>6 DEF LiveReaches, AskAbovePrice
  <2>9. LimitFloor(l, at) = Floor(l)
    BY <1>5, FloorRange
  <2>10. l.limits[Winner(l, rival)].max \in Int
    BY <1>2, <1>3, <2>1, MaximaTypes, SumsFacts
  <2> HIDE DEF rival, point, target
  <2> QED BY <1>3, <2>1, <2>2, <2>6, <2>7, <2>8, <2>9, <2>10 DEF Answers
<1> QED BY <1>4, <1>5

(* What the answer leaves: the price is never lower, and whoever leads by  *)
(* an answer leads within a limit that is in force.                        *)
LEMMA AnsweredRange ==
  ASSUME NEW l \in LotRecord, l.config \in Configs, NEW at
  PROVE  LET answered == Answered(l, at)
         IN  \/ Resolve(l, at) = NoBid /\ answered = l
             \/ /\ Resolve(l, at) # NoBid
                /\ answered.leader \in Active(l)
                /\ answered.price \in Sums
                /\ answered.price <= l.limits[answered.leader].max
                /\ answered.price >= LimitFloor(l, at)
                /\ ~ Opening(l) => answered.price > l.price
                /\ Resolve(l, at) = BidOf(answered.leader, answered.price)
<1>1. CASE Resolve(l, at) = NoBid
  BY <1>1 DEF Answered, AfterAnswer
<1>2. CASE Resolve(l, at) # NoBid
  <2>1. PICK p \in Active(l), amount \in Sums : Answers(l, at, p, amount)
    BY <1>2, AnswerFacts
  <2>2. Answered(l, at) = Bidden(l, BidOf(p, amount))
    BY <1>2, <2>1 DEF Answered, AfterAnswer, Answers
  <2>3. Answered(l, at).leader = p /\ Answered(l, at).price = amount
    BY <2>2 DEF Bidden, BidOf, LotRecord
  <2> QED BY <1>2, <2>1, <2>3 DEF Answers
<1> QED BY <1>1, <1>2

-----------------------------------------------------------------------------
(* The lot after one event.                                                *)

LEMMA BiddenSound ==
  ASSUME NEW l, NEW out, Sound(l, out),
         NEW p \in Participants, p \notin out, NEW amount \in Sums
  PROVE  Sound(Bidden(l, BidOf(p, amount)), out)
BY DEF Sound, Bidden, BidOf, LotRecord

LEMMA LimitedSound ==
  ASSUME NEW l, NEW out, Sound(l, out),
         NEW p \in Participants, p \notin out,
         NEW max \in Sums, NEW seq \in 0 .. MaxSequence
  PROVE  Sound(Limited(l, p, max, seq), out)
<1>1. [max |-> max, setSeq |-> seq] \in Limit
  BY DEF Limit
<1> QED BY <1>1 DEF Sound, Limited, LotRecord

LEMMA NoLimitType == NoLimit \in Limit
BY SumsFacts, TimeAssumption DEF NoLimit, Limit

LEMMA UnlimitedSound ==
  ASSUME NEW l, NEW out, Sound(l, out), NEW p \in Participants
  PROVE  Sound(Unlimited(l, p), out)
BY NoLimitType DEF Sound, Unlimited, LotRecord

LEMMA AnsweredSound ==
  ASSUME NEW l, NEW out, Sound(l, out), NEW at
  PROVE  Sound(Answered(l, at), out)
<1>1. CASE Resolve(l, at) = NoBid
  BY <1>1 DEF Answered, AfterAnswer
<1>2. CASE Resolve(l, at) # NoBid
  <2>1. PICK p \in Active(l), amount \in Sums : Resolve(l, at) = BidOf(p, amount)
    BY <1>2, ResolveType DEF Sound
  <2>2. p \in Participants /\ p \notin out
    BY DEF Active, Sound
  <2>3. Answered(l, at) = Bidden(l, BidOf(p, amount))
    BY <1>2, <2>1 DEF Answered, AfterAnswer
  <2> QED BY <2>2, <2>3, BiddenSound
<1> QED BY <1>1, <1>2

(* Two lots whose trade stands the same.                                   *)
SameTrade(l, k) ==
  /\ k.price = l.price
  /\ k.leader = l.leader
  /\ k.limits = l.limits
  /\ k.deadline = l.deadline
  /\ k.extensionsUsed = l.extensionsUsed

(* What a command of the trade leaves as it is in the history.             *)
SameStart(l, k) ==
  /\ k.course.startingPrice = l.course.startingPrice
  /\ k.course.stepWindows = l.course.stepWindows
  /\ k.course.addedWindows = l.course.addedWindows

(* Two lots under the same terms, with the same people removed.            *)
SameTerms(l, k) ==
  /\ k.state = l.state
  /\ k.config = l.config
  /\ k.ask = l.ask
  /\ k.marked = l.marked
  /\ k.stepWindows = l.stepWindows
  /\ k.course.removed = l.course.removed
  /\ SameStart(l, k)

(* The answer moves the price and the leader and nothing else.             *)
LEMMA AnsweredKeeps ==
  ASSUME NEW l \in LotRecord, NEW at
  PROVE  /\ SameTerms(l, Answered(l, at))
         /\ Answered(l, at).deadline = l.deadline
         /\ Answered(l, at).extensionsUsed = l.extensionsUsed
         /\ Answered(l, at).limits = l.limits
         /\ Answered(l, at).course = l.course
BY DEF Answered, AfterAnswer, Bidden, LotRecord, SameTerms, SameStart

LEMMA ExtendedSound ==
  ASSUME NEW l, NEW out, Sound(l, out), NEW used \in Nat
  PROVE  Sound(Extended(l, used), out) /\ SameTerms(l, Extended(l, used))
<1>1. l.config.extension \in Nat
  BY ConfigsAssumption DEF Sound
<1>2. l.deadline + l.config.extension \in Nat
  BY <1>1 DEF Sound, LotRecord
<1> QED BY <1>2 DEF Sound, Extended, LotRecord, SameTerms, SameStart

-----------------------------------------------------------------------------
(* The replay.                                                             *)

LEMMA ReplayedSound ==
  ASSUME NEW l, NEW out, Sound(l, out), NEW course \in History,
         NEW entry \in Entry, entry.participant \notin out
  PROVE  Sound(Replayed(l, course, entry), out)
<1> DEFINE known == [l EXCEPT !.stepWindows = WindowsAt(course, entry.sequence)]
           p == entry.participant
<1>1. Sound(known, out)
  <2>1. WindowsAt(course, entry.sequence) \subseteq Windows
    BY DEF WindowsAt, History
  <2> QED BY <2>1 DEF Sound, LotRecord
<1>2. /\ p \in Participants /\ entry.amount \in Sums
      /\ entry.sequence \in 0 .. MaxSequence
      /\ entry.move \in {"Bid", "LimitSet", "LimitWithdrawn"}
  BY TimeAssumption DEF Entry
<1>3. CASE entry.move = "Bid"
  <2> DEFINE amount == IF known.leader = p THEN Greater(known.price, entry.amount)
                       ELSE entry.amount
  <2>1. known.price \in Sums
    BY <1>1 DEF Sound, LotRecord
  <2>2. amount \in Sums
    <3> HIDE DEF known
    <3> QED BY <1>2, <2>1, SumsFacts
  <2>3. Replayed(l, course, entry) = Answered(Bidden(known, BidOf(p, amount)), entry.at)
    BY <1>3 DEF Replayed
  <2> HIDE DEF known, amount, p
  <2>4. Sound(Bidden(known, BidOf(p, amount)), out)
    BY <1>1, <1>2, <2>2, BiddenSound DEF p
  <2> QED BY <2>3, <2>4, AnsweredSound
<1>4. CASE entry.move = "LimitSet"
  <2>1. Replayed(l, course, entry) =
          Answered(Limited(known, p, entry.amount, entry.sequence), entry.at)
    BY <1>4 DEF Replayed
  <2> HIDE DEF known
  <2>2. Sound(Limited(known, p, entry.amount, entry.sequence), out)
    BY <1>1, <1>2, LimitedSound
  <2> QED BY <2>1, <2>2, AnsweredSound
<1>5. CASE entry.move = "LimitWithdrawn"
  <2>1. Replayed(l, course, entry) = Unlimited(known, p)
    BY <1>5 DEF Replayed
  <2> HIDE DEF known
  <2> QED BY <2>1, <1>1, <1>2, UnlimitedSound
<1> QED BY <1>2, <1>3, <1>4, <1>5

LEMMA ReplayedHeldSound ==
  ASSUME NEW l, NEW out, Sound(l, out),
         NEW entry \in Entry, entry.participant \notin out
  PROVE  Sound(ReplayedHeld(l, entry), out)
<1>1. /\ entry.participant \in Participants /\ entry.amount \in Sums
      /\ entry.sequence \in 0 .. MaxSequence
  BY TimeAssumption DEF Entry
<1>2. CASE entry.move = "LimitSet"
  BY <1>1, <1>2, LimitedSound DEF ReplayedHeld
<1>3. CASE entry.move = "LimitWithdrawn"
  BY <1>1, <1>3, UnlimitedSound DEF ReplayedHeld
<1>4. CASE entry.move \notin {"LimitSet", "LimitWithdrawn"}
  BY <1>4 DEF ReplayedHeld
<1> QED BY <1>2, <1>3, <1>4

LEMMA AtTheStartSound ==
  ASSUME NEW l \in LotRecord, l.config \in Configs,
         NEW out \in SUBSET Participants
  PROVE  Sound(AtTheStart(l), out)
<1>1. NoLimits \in [Participants -> Limit]
  BY NoLimitType DEF NoLimits
<1>2. \A p \in out : NoLimits[p] = NoLimit
  BY DEF NoLimits
<1>3. l.course \in History /\ l.course.startingPrice \in Sums
      /\ l.course.stepWindows \subseteq Windows
  BY DEF LotRecord, History
<1>4. NoOne \notin out /\ NoDeadline \in Nat /\ "Online" \in States
  BY NoOneAssumption DEF NoDeadline, States, Trading
<1> QED BY <1>1, <1>2, <1>3, <1>4 DEF Sound, AtTheStart, LotRecord

LEMMA HistoryLength ==
  ASSUME NEW l \in LotRecord
  PROVE  LET inputs == l.course.online \o l.course.held
         IN  /\ inputs \in Seq(Entry)
             /\ Len(inputs) \in Nat
             /\ Len(l.course.online) \in 0 .. Len(inputs)
             /\ \A i \in 1 .. Len(l.course.online) : inputs[i] = l.course.online[i]
             /\ \A i \in 1 .. Len(inputs) : inputs[i] \in Entry
             /\ DOMAIN l.course.online = 1 .. Len(l.course.online)
<1> DEFINE online == l.course.online
           held == l.course.held
           inputs == online \o held
<1>1. online \in Seq(Entry) /\ held \in Seq(Entry)
  BY DEF LotRecord, History
<1> HIDE DEF online, held
<1>2. /\ inputs \in Seq(Entry) /\ Len(inputs) = Len(online) + Len(held)
      /\ Len(online) \in Nat /\ Len(held) \in Nat
      /\ \A i \in 1 .. Len(online) : inputs[i] = online[i]
      /\ DOMAIN online = 1 .. Len(online)
  BY <1>1
<1> HIDE DEF inputs
<1>3. \A i \in 1 .. Len(inputs) : inputs[i] \in Entry
  BY <1>2
<1>4. Len(inputs) \in Nat /\ Len(online) \in 0 .. Len(inputs)
  BY <1>2
<1> QED BY <1>2, <1>3, <1>4 DEF inputs, online, held

(* What the i-th input of the history does to the lot it finds.            *)
Retaken(l, out, k, i) ==
  LET inputs == l.course.online \o l.course.held
  IN  IF inputs[i].participant \in out THEN k
      ELSE IF i <= Len(l.course.online) THEN Replayed(k, l.course, inputs[i])
      ELSE ReplayedHeld(k, inputs[i])

(* The lots a replay comes by, from the start of the week to its end.      *)
IsReplay(run, l, out) ==
  LET n == Len(l.course.online \o l.course.held)
  IN  /\ run[0] = AtTheStart(l)
      /\ \A i \in 1 .. n : run[i] = Retaken(l, out, run[i - 1], i)
      /\ \A i \in 0 .. n : Sound(run[i], out)
      /\ Rerun(l, out) = run[n]

(* The replay of a history, however long, goes by sound lots in which      *)
(* nobody of those left out takes part.                                    *)
LEMMA ReplayRuns ==
  ASSUME NEW l \in LotRecord, l.config \in Configs,
         NEW out \in SUBSET Participants
  PROVE  \E run : IsReplay(run, l, out)
<1> DEFINE course == l.course
           inputs == course.online \o course.held
           n == Len(inputs)
           V == {k \in LotRecord : Sound(k, out)}
           Take(k, i) == Retaken(l, out, k, i)
           after[i \in 0 .. n] == IF i = 0 THEN AtTheStart(l) ELSE Take(after[i - 1], i)
<1>1. /\ n \in Nat
      /\ course \in History
      /\ \A i \in 1 .. n : inputs[i] \in Entry
  <2>1. course \in History
    BY DEF LotRecord
  <2>2. course.online \in Seq(Entry) /\ course.held \in Seq(Entry)
    BY <2>1 DEF History
  <2>3. inputs \in Seq(Entry)
    BY <2>2
  <2> HIDE DEF inputs
  <2> QED BY <2>1, <2>3
<1>2. AtTheStart(l) \in V
  BY AtTheStartSound DEF Sound
<1>3. ASSUME NEW k \in V, NEW i \in 1 .. n
      PROVE  Take(k, i) \in V
  <2>1. Sound(k, out) /\ inputs[i] \in Entry
    BY <1>1
  <2> HIDE DEF inputs
  <2>2. Sound(Take(k, i), out)
    BY <1>1, <2>1, ReplayedSound, ReplayedHeldSound DEF Retaken, inputs
  <2> HIDE DEF Take
  <2> QED BY <2>2 DEF Sound
<1>4. after = [i \in 0 .. n |-> IF i = 0 THEN AtTheStart(l) ELSE Take(after[i - 1], i)]
  <2> DEFINE Step == [move \in (1 .. n) \X V |-> Take(move[2], move[1])]
             IsAfter(f) == f = [i \in 0 .. n |-> IF i = 0 THEN AtTheStart(l)
                                                 ELSE Take(f[i - 1], i)]
  <2> HIDE DEF Take, V, n
  <2>1. Step \in [(1 .. n) \X V -> V]
    BY <1>3
  <2>2. PICK run \in [0 .. n -> V] : IsRun(run, n, AtTheStart(l), Step)
    <3> HIDE DEF Step
    <3> QED BY <1>1, <1>2, <2>1, RunExists
  <2>3. ASSUME NEW i \in 1 .. n
        PROVE  run[i] = Take(run[i - 1], i)
    <3>1. run[i - 1] \in V
      BY <1>1
    <3>2. Step[<<i, run[i - 1]>>] = Take(run[i - 1], i)
      BY <3>1
    <3> HIDE DEF Step
    <3> QED BY <2>2, <3>2 DEF IsRun
  <2>4. IsAfter(run)
    <3>1. \A i \in 0 .. n : run[i] = IF i = 0 THEN AtTheStart(l) ELSE Take(run[i - 1], i)
      <4> TAKE i \in 0 .. n
      <4>1. i # 0 => i \in 1 .. n
        BY <1>1
      <4> HIDE DEF Step
      <4> QED BY <2>2, <2>3, <4>1 DEF IsRun
    <3>2. run = [i \in 0 .. n |-> run[i]]
      OBVIOUS
    <3> HIDE DEF Step
    <3> QED BY <3>1, <3>2
  <2>5. IsAfter(CHOOSE f : IsAfter(f))
    <3> HIDE DEF IsAfter
    <3> QED BY <2>4
  <2>6. after = CHOOSE f : IsAfter(f)
    OBVIOUS
  <2> QED BY <2>5, <2>6
<1>5. Rerun(l, out) = after[n]
  BY DEF Rerun, Retaken
<1> DEFINE T == {i \in 0 .. n : after[i] \in V}
<1>6. 0 .. n \subseteq T
  <2> HIDE DEF after, Take, V, n
  <2>1. 0 \in T
    BY <1>1, <1>2, <1>4
  <2>2. ASSUME NEW i \in 1 .. n, i - 1 \in T
        PROVE  i \in T
    <3>1. after[i] = Take(after[i - 1], i)
      BY <1>1, <1>4
    <3> QED BY <2>2, <3>1, <1>3
  <2> HIDE DEF T
  <2> QED BY <1>1, <2>1, <2>2, RunInduction
<1>7. \A i \in 0 .. n : Sound(after[i], out)
  <2> HIDE DEF after, n
  <2> QED BY <1>6
<1>8. \A i \in 1 .. n : after[i] = Retaken(l, out, after[i - 1], i)
  <2> TAKE i \in 1 .. n
  <2> HIDE DEF after, n
  <2>1. i \in 0 .. n /\ i # 0
    BY <1>1
  <2> QED BY <1>4, <2>1 DEF Take
<1>9. after[0] = AtTheStart(l)
  <2> HIDE DEF after, n
  <2>1. 0 \in 0 .. n
    BY <1>1
  <2> QED BY <1>4, <2>1
<1>10. IsReplay(after, l, out)
  <2> HIDE DEF after
  <2> QED BY <1>5, <1>7, <1>8, <1>9 DEF IsReplay
<1> HIDE DEF after
<1> QED BY <1>10

LEMMA RerunSound ==
  ASSUME NEW l \in LotRecord, l.config \in Configs,
         NEW out \in SUBSET Participants
  PROVE  Sound(Rerun(l, out), out)
<1>1. PICK run : IsReplay(run, l, out)
  BY ReplayRuns
<1> DEFINE inputs == l.course.online \o l.course.held
           n == Len(inputs)
<1>2. n \in Nat
  BY HistoryLength
<1>3. \A i \in 0 .. n : Sound(run[i], out)
  BY <1>1 DEF IsReplay
<1>4. Rerun(l, out) = run[n]
  BY <1>1 DEF IsReplay
<1> HIDE DEF n
<1>5. n \in 0 .. n
  BY <1>2
<1> QED BY <1>3, <1>4, <1>5

-----------------------------------------------------------------------------
(* The inductive invariant.                                                *)

LotOK(l) ==
  /\ l \in LotRecord
  /\ l.state \in Configured => l.config \in Configs
  /\ l.state \notin Trading => l.ask = NoAsk /\ l.deadline = NoDeadline
  /\ \A p \in l.course.removed : l.limits[p] = NoLimit /\ l.leader # p

ClockOK ==
  /\ sequence \in 0 .. MaxSequence
  /\ now \in 1 .. MaxTime
  /\ last.participant \in Participants \cup {NoOne}

(* The types and the exclusion of the removed are inductive together: the  *)
(* replay must start from people who are out and types that hold.          *)
IInv == LotOK(lot) /\ ClockOK

LEMMA SoundFromOK ==
  ASSUME NEW l, LotOK(l), l.state \in Configured
  PROVE  /\ Sound(l, l.course.removed)
         /\ l.course \in History
         /\ l.course.removed \in SUBSET Participants
BY DEF LotOK, Sound, LotRecord, History

LEMMA OKFromSound ==
  ASSUME NEW l, Sound(l, l.course.removed),
         l.state \notin Trading => l.ask = NoAsk /\ l.deadline = NoDeadline
  PROVE  LotOK(l)
BY DEF LotOK, Sound

LEMMA NoCourseType == NoCourse \in History /\ NoCourse.removed = {}
BY SumsFacts DEF NoCourse, History

LEMMA BlankOK ==
  ASSUME NEW state \in States \ Configured
  PROVE  LotOK(Blank(state))
<1>1. NoLimits \in [Participants -> Limit]
  BY NoLimitType DEF NoLimits
<1>2. NoCourse \in History
  BY NoCourseType
<1>3. Blank(state) \in LotRecord
  BY <1>1, <1>2, SumsFacts DEF Blank, LotRecord, NoAsk, NoDeadline
<1>4. Blank(state).course.removed = {}
  BY DEF Blank, NoCourse
<1>5. Blank(state).state = state /\ Blank(state).ask = NoAsk
      /\ Blank(state).deadline = NoDeadline
  BY DEF Blank
<1> QED BY <1>3, <1>4, <1>5 DEF LotOK

(* A recorded transaction keeps the invariant if its lot does.             *)
LEMMA RecordKeeps ==
  ASSUME IInv, NEW command, NEW p \in Participants \cup {NoOne},
         NEW events \in Nat, NEW next, Record(command, p, events, next), LotOK(next)
  PROVE  IInv' /\ lot' = next /\ last' = [command |-> command, participant |-> p]
BY DEF IInv, ClockOK, Record, LotOK

LEMMA OneType == ASSUME NEW condition PROVE One(condition) \in {0, 1}
BY DEF One

(* An input entered into the history.                                      *)
LEMMA EnteredSound ==
  ASSUME ClockOK, sequence + 1 <= MaxSequence, NEW l, NEW out, Sound(l, out),
         NEW p \in Participants, NEW move \in {"Bid", "LimitSet", "LimitWithdrawn"},
         NEW amount \in Sums
  PROVE  /\ Sound(Entered(l, p, move, amount), out)
         /\ SameTerms(l, Entered(l, p, move, amount))
         /\ SameTrade(l, Entered(l, p, move, amount))
<1> DEFINE entry == [participant |-> p, move |-> move, amount |-> amount,
                     at |-> now, sequence |-> sequence + 1]
<1>1. entry \in Entry
  BY TimeAssumption DEF ClockOK, Entry
<1> HIDE DEF entry
<1>2. l.course \in History /\ l.course.online \in Seq(Entry) /\ l.course.held \in Seq(Entry)
  BY DEF Sound, LotRecord, History
<1>3. /\ Append(l.course.online, entry) \in Seq(Entry)
      /\ Append(l.course.held, entry) \in Seq(Entry)
  BY <1>1, <1>2
<1>4. /\ [l.course EXCEPT !.online = Append(@, entry)] \in History
      /\ [l.course EXCEPT !.held = Append(@, entry)] \in History
  BY <1>2, <1>3 DEF History
<1>5. Entered(l, p, move, amount) \in
        {[l EXCEPT !.course = [l.course EXCEPT !.online = Append(@, entry)]],
         [l EXCEPT !.course = [l.course EXCEPT !.held = Append(@, entry)]], l}
  BY DEF Entered, entry, Sound, LotRecord
<1> DEFINE Kept(course) ==
             /\ course.removed = l.course.removed
             /\ course.startingPrice = l.course.startingPrice
             /\ course.stepWindows = l.course.stepWindows
             /\ course.addedWindows = l.course.addedWindows
<1>6. /\ Kept([l.course EXCEPT !.online = Append(@, entry)])
      /\ Kept([l.course EXCEPT !.held = Append(@, entry)])
      /\ Kept(l.course)
  BY <1>2 DEF History
<1> QED BY <1>4, <1>5, <1>6 DEF Sound, LotRecord, SameTerms, SameStart, SameTrade

-----------------------------------------------------------------------------
(* One lemma per kind of action.                                           *)

(* The lot after a bid, and after a limit, before the limits answer it.    *)
Tabled(p, amount) == Entered(Bidden(lot, BidOf(p, amount)), p, "Bid", amount)

Put(p, max) == Entered(Limited(lot, p, max, sequence + 1), p, "LimitSet", max)

(* The step from the lot k after a command's own event: the answer of the  *)
(* limits, and perhaps the extension of the deadline.                      *)
AnsweredBy(k) ==
  \/ lot' = Answered(k, now)
  \/ Extends(k, now) /\ lot' = Extended(Answered(k, now), k.extensionsUsed + 1)

LEMMA AnsweredByFacts ==
  ASSUME NEW k, NEW out, Sound(k, out), AnsweredBy(k)
  PROVE  /\ SameTerms(k, lot')
         /\ lot'.price = Answered(k, now).price
         /\ lot'.leader = Answered(k, now).leader
         /\ lot'.limits = k.limits
         /\ lot'.course = k.course
         /\ \/ lot'.deadline = k.deadline /\ lot'.extensionsUsed = k.extensionsUsed
            \/ /\ Extends(k, now)
               /\ lot'.deadline = k.deadline + k.config.extension
               /\ lot'.extensionsUsed = k.extensionsUsed + 1
<1> DEFINE answered == Answered(k, now)
<1>1. /\ SameTerms(k, answered)
      /\ answered.deadline = k.deadline /\ answered.extensionsUsed = k.extensionsUsed
      /\ answered.limits = k.limits /\ answered.course = k.course
      /\ answered \in LotRecord
  BY AnsweredKeeps, AnsweredSound DEF Sound
<1> HIDE DEF answered
<1>2. AnsweredBy(k) <=>
        \/ lot' = answered
        \/ Extends(k, now) /\ lot' = Extended(answered, k.extensionsUsed + 1)
  BY DEF AnsweredBy, answered
<1>3. CASE lot' = answered
  BY <1>1, <1>3 DEF answered
<1>4. CASE Extends(k, now) /\ lot' = Extended(answered, k.extensionsUsed + 1)
  <2>1. /\ lot'.price = answered.price /\ lot'.leader = answered.leader
        /\ lot'.limits = answered.limits /\ lot'.course = answered.course
        /\ lot'.extensionsUsed = k.extensionsUsed + 1
        /\ lot'.deadline = answered.deadline + answered.config.extension
        /\ lot'.state = answered.state /\ lot'.config = answered.config
        /\ lot'.ask = answered.ask /\ lot'.marked = answered.marked
        /\ lot'.stepWindows = answered.stepWindows
    BY <1>1, <1>4 DEF Extended, LotRecord
  <2> QED BY <1>1, <1>4, <2>1 DEF SameTerms, SameStart, answered
<1> QED BY <1>2, <1>3, <1>4

(* Whatever answers and extends a sound trading lot leaves it sound.       *)
LEMMA TradedOK ==
  ASSUME NEW l, l.state \in Trading, Sound(l, l.course.removed), NEW at, NEW used \in Nat
  PROVE  /\ LotOK(l)
         /\ LotOK(Answered(l, at))
         /\ LotOK(Extended(Answered(l, at), used))
<1> DEFINE answered == Answered(l, at)
           extended == Extended(answered, used)
<1>1. Sound(answered, l.course.removed) /\ SameTerms(l, answered)
  BY AnsweredSound, AnsweredKeeps DEF Sound
<1> HIDE DEF answered
<1>2. Sound(extended, l.course.removed) /\ SameTerms(answered, extended)
  BY <1>1, ExtendedSound
<1> HIDE DEF extended
<1>3. LotOK(l)
  BY OKFromSound
<1>4. LotOK(answered)
  BY <1>1, OKFromSound DEF SameTerms
<1>5. LotOK(extended)
  BY <1>1, <1>2, OKFromSound DEF SameTerms
<1> QED BY <1>3, <1>4, <1>5 DEF answered, extended

LEMMA BirthKeeps ==
  ASSUME IInv
  PROVE  /\ DraftLot => IInv'
         /\ \A price \in StartingPrices, config \in Configs :
              ScheduleLot(price, config) => IInv'
         /\ \A deadline \in Deadlines, windows \in OpeningWindows :
              OpenLot(deadline, windows) => IInv'
<1> USE DEF States, Configured, Trading, Terminal
<1>1. ASSUME DraftLot PROVE IInv'
  BY <1>1, BlankOK, RecordKeeps DEF DraftLot
<1>2. ASSUME NEW price \in StartingPrices, NEW config \in Configs,
             ScheduleLot(price, config)
      PROVE  IInv'
  <2> DEFINE next == [Blank("Scheduled") EXCEPT !.config = config, !.price = price]
  <2>1. price \in Sums
    BY SumsFacts
  <2>2. NoLimits \in [Participants -> Limit] /\ NoCourse \in History
        /\ NoCourse.removed = {}
    BY NoLimitType, NoCourseType DEF NoLimits
  <2>3. LotOK(next)
    BY <2>1, <2>2, SumsFacts DEF LotOK, LotRecord, Blank, NoAsk, NoDeadline
  <2>4. Record("ScheduleLot", NoOne, 1, next)
    BY <1>2 DEF ScheduleLot
  <2> HIDE DEF next
  <2> QED BY <2>3, <2>4, RecordKeeps
<1>3. ASSUME NEW deadline \in Deadlines, NEW windows \in OpeningWindows,
             OpenLot(deadline, windows)
      PROVE  IInv'
  <2> DEFINE course == [NoCourse EXCEPT !.startingPrice = lot.price,
                                        !.stepWindows = windows]
             next == [lot EXCEPT !.state = "Online", !.deadline = deadline,
                        !.stepWindows = windows, !.course = course]
  <2>1. lot.state = "Scheduled" /\ lot \in LotRecord /\ lot.config \in Configs
    BY <1>3 DEF OpenLot, IInv, LotOK
  <2>2. deadline \in Nat /\ windows \subseteq Windows
    BY TimeAssumption DEF Windows
  <2>3. course \in History /\ course.removed = {}
    BY <2>1, <2>2, NoCourseType DEF History, LotRecord
  <2>4. LotOK(next)
    <3> HIDE DEF course
    <3> QED BY <2>1, <2>2, <2>3 DEF LotOK, LotRecord
  <2>5. Record("OpenLot", NoOne, 1, next)
    BY <1>3 DEF OpenLot
  <2> HIDE DEF next
  <2> QED BY <2>4, <2>5, RecordKeeps
<1> QED BY <1>1, <1>2, <1>3

LEMMA PlaceBidKeeps ==
  ASSUME IInv, NEW p \in Participants, NEW amount \in BidAmounts, NEW source,
         PlaceBid(p, amount, source)
  PROVE  /\ IInv' /\ SameTerms(lot, lot')
         /\ Sound(Tabled(p, amount), lot.course.removed)
         /\ SameTerms(lot, Tabled(p, amount))
         /\ SameTrade(Bidden(lot, BidOf(p, amount)), Tabled(p, amount))
         /\ AnsweredBy(Tabled(p, amount))
         /\ last' = [command |-> "PlaceBid", participant |-> p]
<1> DEFINE placed == Tabled(p, amount)
           answered == Answered(placed, now)
           extends == Extends(lot, now)
           next == IF extends THEN Extended(answered, lot.extensionsUsed + 1) ELSE answered
           events == 1 + One(Resolve(placed, now) # NoBid) + One(extends)
           out == lot.course.removed
<1>1. lot.state \in Trading /\ p \notin out /\ Record("PlaceBid", p, events, next)
  BY DEF PlaceBid, Tabled
<1>2. Sound(lot, out) /\ lot.extensionsUsed + 1 \in Nat
  BY <1>1, SoundFromOK DEF IInv, Configured, LotOK, LotRecord
<1>3. events \in Nat /\ events >= 1
  BY OneType
<1>4. sequence + 1 <= MaxSequence /\ ClockOK
  BY <1>1, <1>3, TimeAssumption DEF Record, IInv, ClockOK
<1>5. amount \in Sums
  BY SumsFacts
<1> DEFINE bidden == Bidden(lot, BidOf(p, amount))
<1>6. Sound(bidden, out) /\ SameTerms(lot, bidden)
  <2>1. Sound(bidden, out)
    BY <1>1, <1>2, <1>5, BiddenSound
  <2>2. SameTerms(lot, bidden)
    BY <1>2 DEF Bidden, SameTerms, SameStart, Sound, LotRecord
  <2> QED BY <2>1, <2>2
<1> HIDE DEF bidden
<1>7. /\ Sound(placed, out) /\ SameTerms(bidden, placed)
      /\ SameTrade(bidden, placed)
  BY <1>4, <1>5, <1>6, EnteredSound DEF bidden, Tabled
<1> HIDE DEF placed
<1>8. placed.state \in Trading /\ placed.course.removed = out
  BY <1>1, <1>6, <1>7 DEF SameTerms
<1>9. LotOK(next)
  BY <1>2, <1>7, <1>8, TradedOK
<1>10. SameTerms(lot, next)
  <2>1. SameTerms(placed, answered) /\ Sound(answered, out)
    BY <1>7, AnsweredSound, AnsweredKeeps DEF Sound
  <2> HIDE DEF answered
  <2>2. SameTerms(answered, Extended(answered, lot.extensionsUsed + 1))
    BY <1>2, <2>1, ExtendedSound
  <2> QED BY <1>6, <1>7, <2>1, <2>2 DEF SameTerms, SameStart
<1>11. lot' = next => AnsweredBy(placed)
  <2>1. Extends(lot, now) => Extends(placed, now)
        /\ lot.extensionsUsed = placed.extensionsUsed
    BY <1>2, <1>6, <1>7
       DEF Extends, InAntiSnipeWindow, SameTerms, SameTrade, Bidden, bidden, Sound, LotRecord
  <2> QED BY <2>1 DEF AnsweredBy
<1> HIDE DEF next, events
<1>12. IInv' /\ lot' = next /\ last' = [command |-> "PlaceBid", participant |-> p]
  BY <1>1, <1>3, <1>9, RecordKeeps
<1> QED BY <1>6, <1>7, <1>10, <1>11, <1>12 DEF bidden, placed, SameTerms, SameStart

LEMMA SetProxyLimitKeeps ==
  ASSUME IInv, NEW p \in Participants, NEW max \in LimitAmounts, SetProxyLimit(p, max)
  PROVE  /\ IInv' /\ SameTerms(lot, lot')
         /\ Sound(Put(p, max), lot.course.removed)
         /\ SameTerms(lot, Put(p, max))
         /\ SameTrade(Limited(lot, p, max, sequence + 1), Put(p, max))
         /\ IF lot.state = "Held" THEN lot' = Put(p, max) ELSE AnsweredBy(Put(p, max))
         /\ lot.state = "Held" => lot'.price = lot.price /\ lot'.leader = lot.leader
         /\ lot'.deadline # lot.deadline => Resolve(Put(p, max), now) # NoBid
         /\ last' = [command |-> "SetProxyLimit", participant |-> p]
<1> DEFINE limited == Limited(lot, p, max, sequence + 1)
           set == Put(p, max)
           bids == lot.state # "Held" /\ Resolve(set, now) # NoBid
           extends == bids /\ Extends(lot, now)
           answered == IF bids THEN Answered(set, now) ELSE set
           next == IF extends THEN Extended(answered, lot.extensionsUsed + 1) ELSE answered
           events == 1 + One(bids) + One(extends)
           out == lot.course.removed
<1>1. /\ lot.state \in Trading \cup {"Held"}
      /\ p \notin out
      /\ Record("SetProxyLimit", p, events, next)
  BY DEF SetProxyLimit, Put
<1>2. /\ Sound(lot, out) /\ lot.extensionsUsed + 1 \in Nat
      /\ lot.state \notin Trading => lot.ask = NoAsk /\ lot.deadline = NoDeadline
  BY <1>1, SoundFromOK DEF IInv, Configured, LotOK, LotRecord
<1>3. events \in Nat /\ events >= 1
  BY OneType
<1>4. sequence + 1 <= MaxSequence /\ sequence + 1 \in 0 .. MaxSequence /\ ClockOK
  BY <1>1, <1>3, TimeAssumption DEF Record, IInv, ClockOK
<1>5. max \in Sums
  BY SumsFacts
<1>6. /\ Sound(limited, out) /\ SameTerms(lot, limited) /\ limited.deadline = lot.deadline
      /\ limited.price = lot.price /\ limited.leader = lot.leader
      /\ limited.extensionsUsed = lot.extensionsUsed
  BY <1>1, <1>2, <1>4, <1>5, LimitedSound DEF Limited, SameTerms, SameStart, Sound, LotRecord
<1>7. /\ Sound(set, out) /\ SameTerms(limited, set) /\ SameTrade(limited, set)
      /\ set.deadline = limited.deadline
      /\ set.price = limited.price /\ set.leader = limited.leader
  <2>1. set = Entered(limited, p, "LimitSet", max)
    BY DEF Put
  <2> HIDE DEF limited
  <2> QED BY <1>4, <1>5, <1>6, <2>1, EnteredSound DEF SameTrade
<1> HIDE DEF limited
<1> HIDE DEF set
<1>8. set.state = lot.state /\ set.course.removed = out
  BY <1>6, <1>7 DEF SameTerms
<1>9. LotOK(next)
  <2>1. CASE lot.state = "Held"
    <3>1. next = set
      BY <2>1
    <3>2. set.ask = NoAsk /\ set.deadline = NoDeadline
      BY <2>1, <1>2, <1>6, <1>7 DEF SameTerms, Trading
    <3> QED BY <3>1, <3>2, <1>7, <1>8, OKFromSound
  <2>2. CASE lot.state \in Trading
    BY <2>2, <1>2, <1>7, <1>8, TradedOK
  <2> QED BY <1>1, <2>1, <2>2
<1>10. SameTerms(lot, next)
  <2>1. SameTerms(set, answered) /\ Sound(answered, out)
    BY <1>7, AnsweredSound, AnsweredKeeps DEF Sound, SameTerms, SameStart
  <2> HIDE DEF answered
  <2>2. SameTerms(answered, Extended(answered, lot.extensionsUsed + 1))
    BY <1>2, <2>1, ExtendedSound
  <2> QED BY <1>6, <1>7, <2>1, <2>2 DEF SameTerms, SameStart
<1>11. lot.state = "Held" => next.price = lot.price /\ next.leader = lot.leader
  BY <1>6, <1>7
<1>12. lot' = next => IF lot.state = "Held" THEN lot' = set ELSE AnsweredBy(set)
  <2>1. /\ Extends(lot, now) => Extends(set, now)
        /\ lot.extensionsUsed = set.extensionsUsed
    BY <1>6, <1>7 DEF Extends, InAntiSnipeWindow, SameTerms, SameTrade
  <2>2. Resolve(set, now) = NoBid => Answered(set, now) = set
    BY DEF Answered, AfterAnswer
  <2> QED BY <2>1, <2>2 DEF AnsweredBy
<1>15. lot' = next /\ lot'.deadline # lot.deadline => Resolve(set, now) # NoBid
  <2>1. ~ bids => next = set
    OBVIOUS
  <2> HIDE DEF next
  <2> QED BY <1>6, <1>7, <2>1
<1> HIDE DEF next, events
<1>13. IInv' /\ lot' = next /\ last' = [command |-> "SetProxyLimit", participant |-> p]
  BY <1>1, <1>3, <1>9, RecordKeeps
<1>14. SameTerms(lot, set)
  BY <1>6, <1>7 DEF SameTerms, SameStart
<1> QED BY <1>7, <1>10, <1>11, <1>12, <1>13, <1>14, <1>15 DEF limited, set

LEMMA WithdrawProxyLimitKeeps ==
  ASSUME IInv, NEW p \in Participants, WithdrawProxyLimit(p)
  PROVE  /\ IInv' /\ SameTerms(lot, lot')
         /\ SameTrade(Unlimited(lot, p), lot')
         /\ lot'.price = lot.price /\ lot'.leader = lot.leader
         /\ last' = [command |-> "WithdrawProxyLimit", participant |-> p]
<1> DEFINE unlimited == Unlimited(lot, p)
           next == Entered(unlimited, p, "LimitWithdrawn", NoSum)
           out == lot.course.removed
<1>1. lot.state \in Trading \cup {"Held"} /\ Record("WithdrawProxyLimit", p, 1, next)
  BY DEF WithdrawProxyLimit
<1>2. /\ Sound(lot, out)
      /\ lot.state \notin Trading => lot.ask = NoAsk /\ lot.deadline = NoDeadline
  BY <1>1, SoundFromOK DEF IInv, Configured, LotOK
<1>3. sequence + 1 <= MaxSequence /\ ClockOK /\ NoSum \in Sums
  BY <1>1, SumsFacts DEF Record, IInv, NoSum
<1>4. Sound(unlimited, out) /\ SameTerms(lot, unlimited)
      /\ unlimited.deadline = lot.deadline
      /\ unlimited.price = lot.price /\ unlimited.leader = lot.leader
  BY <1>2, UnlimitedSound DEF Unlimited, SameTerms, SameStart, Sound, LotRecord
<1> HIDE DEF unlimited
<1>5. Sound(next, out) /\ SameTerms(unlimited, next) /\ next.deadline = unlimited.deadline
      /\ next.price = unlimited.price /\ next.leader = unlimited.leader
      /\ SameTrade(unlimited, next)
  BY <1>3, <1>4, EnteredSound DEF SameTrade
<1> HIDE DEF next
<1>6. LotOK(next)
  BY <1>2, <1>4, <1>5, OKFromSound DEF SameTerms
<1>7. SameTerms(lot, next) /\ next.price = lot.price /\ next.leader = lot.leader
  BY <1>4, <1>5 DEF SameTerms, SameStart
<1> QED BY <1>1, <1>5, <1>6, <1>7, RecordKeeps DEF unlimited

LEMMA ClosedOK ==
  ASSUME LotOK(lot), lot.state \in Configured
  PROVE  LotOK(Closed)
<1> USE DEF States, Configured, Trading, Terminal
<1>1. LotOK(Blank("Unsold")) /\ LotOK(Blank("Sold"))
  BY BlankOK
<1>2. Blank("Sold").course.removed = {}
  BY NoCourseType DEF Blank
<1>3. lot.leader \in Participants \cup {NoOne} /\ lot.price \in Sums
  BY DEF LotOK, LotRecord
<1>4. LotOK([Blank("Sold") EXCEPT !.leader = lot.leader, !.price = lot.price])
  <2> DEFINE sold == Blank("Sold")
  <2>1. /\ sold.state = "Sold" /\ sold.ask = NoAsk /\ sold.deadline = NoDeadline
        /\ sold \in LotRecord
    BY <1>1 DEF Blank, LotOK
  <2> HIDE DEF sold
  <2>2. [sold EXCEPT !.leader = lot.leader, !.price = lot.price] \in LotRecord
    BY <1>3, <2>1 DEF LotRecord
  <2>3. sold.course.removed = {}
    BY <1>2 DEF sold
  <2>4. LotOK([sold EXCEPT !.leader = lot.leader, !.price = lot.price])
    BY <2>1, <2>2, <2>3 DEF LotOK, LotRecord
  <2> QED BY <2>4 DEF sold
<1> QED BY <1>1, <1>4 DEF Closed

LEMMA EndKeeps ==
  ASSUME IInv
  PROVE  /\ CloseByDeadline => IInv'
         /\ CloseByAuctioneer => IInv'
         /\ WithdrawLot => IInv'
<1>1. ASSUME CloseByDeadline PROVE IInv'
  <2>1. lot.state \in Configured /\ LotOK(lot) /\ lot.state \in Trading
    BY <1>1 DEF CloseByDeadline, Configured, IInv
  <2>2. LotOK(HeldForFinal)
    BY <2>1, SumsFacts
       DEF HeldForFinal, LotOK, LotRecord, NoAsk, NoDeadline, States, Configured, Trading
  <2>3. LotOK(Closed)
    BY <2>1, ClosedOK
  <2> QED BY <1>1, <2>2, <2>3, RecordKeeps DEF CloseByDeadline
<1>2. ASSUME CloseByAuctioneer PROVE IInv'
  <2>1. LotOK(Closed)
    BY <1>2, ClosedOK DEF CloseByAuctioneer, IInv, Configured
  <2> QED BY <1>2, <2>1, RecordKeeps DEF CloseByAuctioneer
<1>3. ASSUME WithdrawLot PROVE IInv'
  BY <1>3, BlankOK, RecordKeeps DEF WithdrawLot, States, Configured, Trading, Terminal
<1> QED BY <1>1, <1>2, <1>3

LEMMA MarkKeeps ==
  ASSUME IInv
  PROVE  (MarkForFinal => IInv') /\ (UnmarkForFinal => IInv')
<1>1. ASSUME NEW marked \in BOOLEAN, lot.state = "Online"
      PROVE  LotOK([lot EXCEPT !.marked = marked])
  BY <1>1 DEF IInv, LotOK, LotRecord
<1> QED BY <1>1, RecordKeeps DEF MarkForFinal, UnmarkForFinal

LEMMA ResumeLotKeeps ==
  ASSUME IInv, ResumeLot
  PROVE  /\ IInv'
         /\ Sound([lot EXCEPT !.state = "Live"], lot.course.removed)
         /\ AnsweredBy([lot EXCEPT !.state = "Live"])
         /\ last'.command = "ResumeLot"
<1> DEFINE resumed == [lot EXCEPT !.state = "Live"]
           next == Answered(resumed, now)
           events == 1 + One(Resolve(resumed, now) # NoBid)
<1>1. lot.state = "Held" /\ Record("ResumeLot", NoOne, events, next)
  BY DEF ResumeLot
<1>2. Sound(lot, lot.course.removed)
  BY <1>1, SoundFromOK DEF IInv, Configured
<1>3. Sound(resumed, lot.course.removed)
  BY <1>2 DEF Sound, LotRecord, States, Trading
<1>4. resumed.state = "Live" /\ resumed.course = lot.course
  BY <1>2 DEF Sound, LotRecord
<1>5. events \in Nat
  BY OneType
<1> HIDE DEF resumed, events
<1>6. LotOK(next)
  BY <1>3, <1>4, TradedOK DEF Trading
<1>7. IInv' /\ lot' = next /\ last'.command = "ResumeLot"
  BY <1>1, <1>5, <1>6, RecordKeeps
<1> QED BY <1>3, <1>7 DEF resumed, AnsweredBy

LEMMA AdvanceAskKeeps ==
  ASSUME IInv, NEW ask \in Asks, AdvanceAsk(ask)
  PROVE  /\ IInv'
         /\ Sound([lot EXCEPT !.ask = ask], lot.course.removed)
         /\ IF lot.state = "Live" THEN AnsweredBy([lot EXCEPT !.ask = ask])
            ELSE lot' = [lot EXCEPT !.ask = ask]
         /\ last'.command = "AdvanceAsk"
<1> DEFINE advanced == [lot EXCEPT !.ask = ask]
           bids == lot.state = "Live" /\ Resolve(advanced, now) # NoBid
           next == IF bids THEN Answered(advanced, now) ELSE advanced
           events == 1 + One(bids)
<1>1. lot.state \in Trading /\ Record("AdvanceAsk", NoOne, events, next)
  BY DEF AdvanceAsk
<1>2. Sound(lot, lot.course.removed)
  BY <1>1, SoundFromOK DEF IInv, Configured
<1>3. ask \in Sums
  BY SumsFacts
<1>4. Sound(advanced, lot.course.removed)
  BY <1>2, <1>3 DEF Sound, LotRecord
<1>5. advanced.state \in Trading /\ advanced.course = lot.course
  BY <1>1, <1>2 DEF Sound, LotRecord
<1>6. events \in Nat
  BY OneType
<1> HIDE DEF advanced
<1>7. LotOK(next)
  BY <1>4, <1>5, TradedOK
<1>8. lot' = next => IF lot.state = "Live" THEN AnsweredBy(advanced) ELSE lot' = advanced
  BY DEF AnsweredBy, Answered, AfterAnswer
<1> HIDE DEF events, next
<1>9. IInv' /\ lot' = next /\ last'.command = "AdvanceAsk"
  BY <1>1, <1>6, <1>7, RecordKeeps
<1> QED BY <1>4, <1>8, <1>9 DEF advanced

(* What a removal does to the lot.                                         *)
Thinned(p) ==
  LET gone   == lot.course.removed \cup {p}
      result == Rerun(lot, gone)
  IN  /\ lot'.state = lot.state
      /\ lot'.config = lot.config
      /\ lot'.ask = lot.ask
      /\ lot'.stepWindows = lot.stepWindows
      /\ lot'.extensionsUsed = lot.extensionsUsed
      /\ lot'.course = [lot.course EXCEPT !.removed = gone]
      /\ lot'.limits = [lot.limits EXCEPT ![p] = NoLimit]
      /\ Sound(result, gone)
      /\ lot'.leader = result.leader
      /\ lot'.price = Lesser(result.price, lot.price)
      /\ \/ lot'.deadline = lot.deadline
         \/ /\ lot'.leader # lot.leader \/ lot'.price # lot.price
            /\ InAntiSnipeWindow(lot, now)
            /\ lot'.deadline = lot.deadline + lot.config.extension

(* The replay without the removed is sound, so is the lot that takes its   *)
(* leader, and the one removed now is out with those removed before.       *)
LEMMA RemoveParticipantKeeps ==
  ASSUME IInv, NEW p \in Participants, RemoveParticipant(p)
  PROVE  /\ IInv' /\ lot'.state = lot.state /\ lot'.price <= lot.price
         /\ ~ DeadlinePassed(lot, now)
         /\ Thinned(p)
         /\ last'.command = "RemoveParticipant"
<1> DEFINE gone == lot.course.removed \cup {p}
           result == Rerun(lot, gone)
           price == Lesser(result.price, lot.price)
           course == [lot.course EXCEPT !.removed = gone]
           without == WithoutParticipant(p)
           changed == without.leader # lot.leader \/ without.price # lot.price
           extends == changed /\ InAntiSnipeWindow(lot, now)
           next == IF extends THEN Extended(without, lot.extensionsUsed) ELSE without
           events == 1 + One(extends)
<1>1. /\ lot.state \in {"Online", "Held"}
      /\ Record("RemoveParticipant", p, events, next)
  BY DEF RemoveParticipant, RecordRemoval
<1>2. /\ Sound(lot, lot.course.removed)
      /\ lot.course \in History
      /\ gone \in SUBSET Participants
      /\ lot.state \notin Trading => lot.ask = NoAsk /\ lot.deadline = NoDeadline
      /\ lot.extensionsUsed \in Nat
  BY <1>1, SoundFromOK DEF IInv, LotOK, LotRecord, Configured, Trading
<1>3. Sound(result, gone)
  BY <1>2, RerunSound DEF Sound
<1>4. result.leader \in Participants \cup {NoOne} /\ result.leader \notin gone
  BY <1>3 DEF Sound, LotRecord
<1>5. price \in Sums /\ price <= lot.price
  <2>1. result.price \in Sums /\ lot.price \in Sums
    BY <1>2, <1>3 DEF Sound, LotRecord
  <2> HIDE DEF result
  <2>2. price \in Sums
    BY <2>1, SumsFacts
  <2>3. price <= lot.price
    <3>1. result.price \in Int /\ lot.price \in Int
      BY <2>1, SumsFacts
    <3> QED BY <3>1 DEF Lesser
  <2> QED BY <2>2, <2>3
<1>6. course \in History /\ course.removed = gone
  BY <1>2 DEF History
<1>7. Sound(Unlimited(lot, p), lot.course.removed)
  BY <1>2, UnlimitedSound
<1>8. without = [Unlimited(lot, p) EXCEPT !.price = price, !.leader = result.leader,
                   !.course = course]
  BY <1>2 DEF WithoutParticipant, Reconsidered, Unlimited, Sound, LotRecord
<1> HIDE DEF result, price, course, without
<1>9. /\ without \in LotRecord
      /\ without.config = lot.config /\ without.state = lot.state
      /\ without.ask = lot.ask /\ without.deadline = lot.deadline
      /\ without.leader = result.leader /\ without.course = course
      /\ without.price = price
      /\ without.limits = [lot.limits EXCEPT ![p] = NoLimit]
  BY <1>4, <1>5, <1>6, <1>7, <1>8, <1>2 DEF Sound, LotRecord, Unlimited
<1>10. \A q \in gone : without.limits[q] = NoLimit
  BY <1>2, <1>9 DEF Sound, LotRecord
<1>11. Sound(without, gone) /\ without.course.removed = gone
  BY <1>2, <1>4, <1>6, <1>9, <1>10 DEF Sound
<1>12. LotOK(without)
  BY <1>2, <1>9, <1>11, OKFromSound
<1>13. ASSUME extends PROVE LotOK(Extended(without, lot.extensionsUsed))
  <2>1. lot.deadline # NoDeadline
    BY <1>13 DEF InAntiSnipeWindow
  <2>2. without.state \in Trading
    BY <2>1, <1>2, <1>9
  <2>3. Sound(Extended(without, lot.extensionsUsed), gone)
        /\ SameTerms(without, Extended(without, lot.extensionsUsed))
    BY <1>2, <1>11, ExtendedSound
  <2> QED BY <2>2, <2>3, <1>11, OKFromSound DEF SameTerms
<1>14. events \in Nat
  BY OneType
<1>15. next.state = lot.state /\ next.price <= lot.price
  BY <1>5, <1>9 DEF Extended, LotRecord
<1>18. lot' = next => Thinned(p)
  <2>1. /\ without.stepWindows = lot.stepWindows
        /\ without.extensionsUsed = lot.extensionsUsed
    BY <1>2, <1>8 DEF Unlimited, Sound, LotRecord
  <2> QED BY <1>3, <1>9, <2>1 DEF Thinned, Extended, LotRecord, result, price, course
<1>16. ~ DeadlinePassed(lot, now)
  BY DEF RemoveParticipant
<1> HIDE DEF events, extends
<1>17. LotOK(next)
  BY <1>12, <1>13
<1> HIDE DEF next
<1> QED BY <1>1, <1>14, <1>15, <1>16, <1>17, <1>18, RecordKeeps

LEMMA WindowsKeep ==
  ASSUME IInv
  PROVE  /\ \A window \in LaunchedWindows : AddStepWindow(window) => IInv'
         /\ \A window \in PeriodWindows : SetPeriodWindow(window) => IInv'
         /\ \A window \in PeriodWindows : ClearPeriodWindow(window.period) => IInv'
<1> DEFINE With(l, window) ==
             [l EXCEPT !.stepWindows = @ \cup {window},
                !.course.addedWindows =
                   @ \cup {[window |-> window, sequence |-> sequence + 1]}]
<1>1. ASSUME NEW l, LotOK(l), l.state = "Online", NEW window \in Windows,
             sequence + 1 \in 1 .. MaxSequence
      PROVE  LotOK(With(l, window))
  <2> DEFINE added == [window |-> window, sequence |-> sequence + 1]
             course == [l.course EXCEPT !.addedWindows = @ \cup {added}]
  <2>1. added \in [window : Windows, sequence : 1 .. MaxSequence]
    BY <1>1
  <2> HIDE DEF added
  <2>2. course \in History /\ course.removed = l.course.removed
    BY <1>1, <2>1 DEF LotOK, LotRecord, History
  <2>3. With(l, window) = [l EXCEPT !.stepWindows = @ \cup {window}, !.course = course]
    BY <1>1 DEF added, LotOK, LotRecord
  <2> HIDE DEF course
  <2> QED BY <1>1, <2>2, <2>3 DEF LotOK, LotRecord, Trading
<1>2. ASSUME NEW period, lot.state = "Online"
      PROVE  LotOK(WithoutPeriod(period)) /\ WithoutPeriod(period).state = "Online"
  <2> DEFINE course == [lot.course EXCEPT !.addedWindows =
                          {a \in @ : a.window.period # period}]
  <2>1. course \in History /\ course.removed = lot.course.removed
    BY DEF IInv, LotOK, LotRecord, History
  <2>2. WithoutPeriod(period) =
          [lot EXCEPT !.stepWindows = @ \ OfPeriod(@, period), !.course = course]
    BY DEF WithoutPeriod, IInv, LotOK, LotRecord
  <2> HIDE DEF course
  <2> QED BY <1>2, <2>1, <2>2 DEF IInv, LotOK, LotRecord, Trading
<1>3. sequence + 1 <= MaxSequence => sequence + 1 \in 1 .. MaxSequence
  BY TimeAssumption DEF IInv, ClockOK
<1>4. LaunchedWindows \subseteq Windows /\ PeriodWindows \subseteq Windows
  BY DEF Windows
<1>5. ASSUME NEW window \in LaunchedWindows, AddStepWindow(window)
      PROVE  IInv'
  <2>1. Record("AddStepWindow", NoOne, 1, With(lot, window)) /\ lot.state = "Online"
    BY <1>5 DEF AddStepWindow
  <2>2. LotOK(With(lot, window))
    BY <2>1, <1>1, <1>3, <1>4 DEF Record, IInv
  <2> HIDE DEF With
  <2> QED BY <2>1, <2>2, RecordKeeps
<1>6. ASSUME NEW window \in PeriodWindows, SetPeriodWindow(window)
      PROVE  IInv'
  <2> DEFINE l == WithoutPeriod(window.period)
  <2>1. Record("SetPeriodWindow", NoOne, 1, With(l, window)) /\ lot.state = "Online"
    BY <1>6 DEF SetPeriodWindow
  <2>2. LotOK(l) /\ l.state = "Online"
    BY <2>1, <1>2
  <2> HIDE DEF l
  <2>3. LotOK(With(l, window))
    BY <2>1, <2>2, <1>1, <1>3, <1>4 DEF Record
  <2> HIDE DEF With
  <2> QED BY <2>1, <2>3, RecordKeeps
<1>7. ASSUME NEW window \in PeriodWindows, ClearPeriodWindow(window.period)
      PROVE  IInv'
  BY <1>7, <1>2, RecordKeeps DEF ClearPeriodWindow
<1> QED BY <1>5, <1>6, <1>7

-----------------------------------------------------------------------------
(* Theorems.                                                               *)

LEMMA InitOK == Init => IInv
<1> SUFFICES ASSUME Init PROVE IInv
  OBVIOUS
<1>1. LotOK(lot)
  BY BlankOK DEF Init, States, Configured, Trading, Terminal
<1>2. ClockOK
  BY TimeAssumption DEF Init, ClockOK
<1> QED BY <1>1, <1>2 DEF IInv

LEMMA NextKeeps == IInv /\ [Next]_vars => IInv'
<1> SUFFICES ASSUME IInv, [Next]_vars PROVE IInv'
  OBVIOUS
<1>1. CASE \/ DraftLot
           \/ \E price \in StartingPrices, config \in Configs : ScheduleLot(price, config)
           \/ \E deadline \in Deadlines, windows \in OpeningWindows :
                OpenLot(deadline, windows)
  BY <1>1, BirthKeeps
<1>2. CASE \E p \in Participants, amount \in BidAmounts, source \in {"Bot", "Floor"} :
             PlaceBid(p, amount, source)
  BY <1>2, PlaceBidKeeps
<1>3. CASE \E p \in Participants, max \in LimitAmounts : SetProxyLimit(p, max)
  BY <1>3, SetProxyLimitKeeps
<1>4. CASE \E p \in Participants : WithdrawProxyLimit(p)
  BY <1>4, WithdrawProxyLimitKeeps
<1>5. CASE \E p \in Participants : RemoveParticipant(p)
  BY <1>5, RemoveParticipantKeeps
<1>6. CASE CloseByDeadline \/ CloseByAuctioneer \/ WithdrawLot
  BY <1>6, EndKeeps
<1>7. CASE MarkForFinal \/ UnmarkForFinal
  BY <1>7, MarkKeeps
<1>8. CASE ResumeLot
  BY <1>8, ResumeLotKeeps
<1>9. CASE \E ask \in Asks : AdvanceAsk(ask)
  BY <1>9, AdvanceAskKeeps
<1>10. CASE \/ \E window \in LaunchedWindows : AddStepWindow(window)
            \/ \E window \in PeriodWindows : SetPeriodWindow(window)
            \/ \E window \in PeriodWindows : ClearPeriodWindow(window.period)
  BY <1>10, WindowsKeep
<1>11. CASE Tick
  BY <1>11, TimeAssumption DEF Tick, IInv, ClockOK, LotOK
<1>12. CASE UNCHANGED vars
  BY <1>12 DEF vars, IInv, ClockOK, LotOK
<1> QED
  BY <1>1, <1>2, <1>3, <1>4, <1>5, <1>6, <1>7, <1>8, <1>9, <1>10, <1>11, <1>12 DEF Next

LEMMA InvariantHolds == Spec => []IInv
BY InitOK, NextKeeps, PTL DEF Spec

(* Every reachable lot is well formed, whatever the participants, sums,    *)
(* windows and terms, and however long its history.                        *)
THEOREM TypeCorrect == Spec => []TypeOK
<1>1. IInv => TypeOK
  BY DEF IInv, LotOK, ClockOK, TypeOK
<1> QED BY <1>1, InvariantHolds, PTL

(* I-22: whoever was removed has no limit and does not lead, after any     *)
(* number of removals, bids and answers of the limits that are left.       *)
THEOREM RemovedNeverReturn == Spec => []RemovedStayOut
<1>1. IInv => RemovedStayOut
  BY DEF IInv, LotOK, RemovedStayOut
<1> QED BY <1>1, InvariantHolds, PTL

-----------------------------------------------------------------------------
(* What a step may do to the lot.                                          *)

Quiet == lot'.marked = lot.marked /\ lot'.course.removed = lot.course.removed

Ended == lot'.state \in Terminal /\ lot'.course = NoCourse

Prepared ==
  /\ lot.state \in {"Initial", "Draft", "Scheduled"}
  /\ lot'.course = NoCourse \/ lot'.price = lot.price
  /\ lot'.state \in Trading => lot.deadline = NoDeadline

Traded == lot.state \in Trading /\ lot'.state = lot.state /\ Quiet

Marked ==
  /\ lot.state \in Trading
  /\ ~ DeadlinePassed(lot, now)
  /\ lot'.course = lot.course

Waited ==
  /\ lot.state = "Held" /\ lot'.state = "Held"
  /\ lot'.price = lot.price /\ lot'.leader = lot.leader
  /\ Quiet

Held ==
  /\ lot.state \in Trading
  /\ lot'.state = "Held"
  /\ lot'.course = lot.course

Resumed ==
  /\ lot.state = "Held" /\ lot'.state = "Live"
  /\ lot'.limits = lot.limits
  /\ lot.deadline = NoDeadline /\ lot'.deadline = NoDeadline
  /\ lot'.course = lot.course

Removed ==
  /\ lot'.state = lot.state
  /\ lot'.price <= lot.price
  /\ ~ DeadlinePassed(lot, now)
  /\ last'.command = "RemoveParticipant"

LEMMA StepShapes ==
  ASSUME IInv, [Next]_vars
  PROVE  \/ Ended \/ Prepared \/ Traded \/ Marked \/ Waited \/ Held
         \/ Resumed \/ Removed \/ lot' = lot
<1> USE DEF Trading, Terminal
<1>1. lot \in LotRecord /\ (lot.state \notin Trading => lot.deadline = NoDeadline)
  BY DEF IInv, LotOK
<1>2. \A state \in States : Blank(state).state = state /\ Blank(state).course = NoCourse
  BY DEF Blank
<1>3. CASE \/ DraftLot
           \/ \E price \in StartingPrices, config \in Configs : ScheduleLot(price, config)
           \/ \E deadline \in Deadlines, windows \in OpeningWindows :
                OpenLot(deadline, windows)
  <2>1. ASSUME DraftLot PROVE Prepared
    BY <2>1 DEF DraftLot, Record, Blank, Prepared
  <2>2. ASSUME NEW price \in StartingPrices, NEW config \in Configs,
               ScheduleLot(price, config)
        PROVE  Prepared
    BY <2>2 DEF ScheduleLot, Record, Blank, Prepared
  <2>3. ASSUME NEW deadline \in Deadlines, NEW windows \in OpeningWindows,
               OpenLot(deadline, windows)
        PROVE  Prepared
    BY <1>1, <2>3 DEF OpenLot, Record, Prepared, LotRecord
  <2> QED BY <1>3, <2>1, <2>2, <2>3
<1>4. CASE \E p \in Participants, amount \in BidAmounts, source \in {"Bot", "Floor"} :
             PlaceBid(p, amount, source)
  BY <1>4, PlaceBidKeeps DEF PlaceBid, SameTerms, Traded, Quiet
<1>5. CASE \/ \E p \in Participants, max \in LimitAmounts : SetProxyLimit(p, max)
           \/ \E p \in Participants : WithdrawProxyLimit(p)
  BY <1>5, SetProxyLimitKeeps, WithdrawProxyLimitKeeps
     DEF SetProxyLimit, WithdrawProxyLimit, SameTerms, Traded, Waited, Quiet
<1>6. CASE \E p \in Participants : RemoveParticipant(p)
  BY <1>6, RemoveParticipantKeeps DEF Removed
<1>7. CASE CloseByDeadline \/ CloseByAuctioneer \/ WithdrawLot
  <2>1. Closed.state \in Terminal /\ Closed.course = NoCourse
    BY DEF Closed, Blank
  <2>2. HeldForFinal.state = "Held" /\ HeldForFinal.course = lot.course
    BY <1>1 DEF HeldForFinal, LotRecord
  <2>3. Blank("Withdrawn").state \in Terminal /\ Blank("Withdrawn").course = NoCourse
    BY DEF Blank
  <2> QED BY <1>7, <2>1, <2>2, <2>3
          DEF CloseByDeadline, CloseByAuctioneer, WithdrawLot, Record, Ended, Held
<1>8. CASE MarkForFinal \/ UnmarkForFinal
  BY <1>1, <1>8 DEF MarkForFinal, UnmarkForFinal, Record, Marked, LotRecord
<1>9. CASE ResumeLot
  <2> DEFINE resumed == [lot EXCEPT !.state = "Live"]
  <2>1. lot.state = "Held" /\ lot' = Answered(resumed, now)
    BY <1>9 DEF ResumeLot, Record
  <2>2. resumed \in LotRecord /\ resumed.state = "Live" /\ resumed.limits = lot.limits
        /\ resumed.deadline = lot.deadline /\ resumed.course = lot.course
    BY <1>1 DEF LotRecord, States
  <2> HIDE DEF resumed
  <2> QED BY <1>1, <2>1, <2>2, AnsweredKeeps DEF Resumed, SameTerms
<1>10. CASE \E ask \in Asks : AdvanceAsk(ask)
  <2>1. PICK ask \in Asks : AdvanceAsk(ask)
    BY <1>10
  <2> DEFINE advanced == [lot EXCEPT !.ask = ask]
  <2>2. lot.state \in Trading /\ lot' \in {advanced, Answered(advanced, now)}
    BY <2>1 DEF AdvanceAsk, Record
  <2>3. advanced \in LotRecord /\ advanced.state = lot.state
        /\ advanced.marked = lot.marked /\ advanced.course = lot.course
    BY <1>1, SumsFacts DEF LotRecord
  <2> HIDE DEF advanced
  <2> QED BY <2>2, <2>3, AnsweredKeeps DEF Traded, Quiet, SameTerms
<1>11. CASE \/ \E window \in LaunchedWindows : AddStepWindow(window)
            \/ \E window \in PeriodWindows : SetPeriodWindow(window)
            \/ \E window \in PeriodWindows : ClearPeriodWindow(window.period)
  <2> DEFINE With(l, window) ==
               [l EXCEPT !.stepWindows = @ \cup {window},
                  !.course.addedWindows =
                     @ \cup {[window |-> window, sequence |-> sequence + 1]}]
             Like(l) == /\ l \in LotRecord /\ l.state = lot.state /\ l.marked = lot.marked
                        /\ l.course.removed = lot.course.removed
  <2>1. ASSUME NEW period PROVE Like(WithoutPeriod(period))
    <3> DEFINE course == [lot.course EXCEPT !.addedWindows =
                            {a \in @ : a.window.period # period}]
    <3>1. course \in History /\ course.removed = lot.course.removed
      BY <1>1 DEF LotRecord, History
    <3>2. WithoutPeriod(period) =
            [lot EXCEPT !.stepWindows = @ \ OfPeriod(@, period), !.course = course]
      BY <1>1 DEF WithoutPeriod, LotRecord
    <3> HIDE DEF course
    <3> QED BY <1>1, <3>1, <3>2 DEF LotRecord
  <2>2. ASSUME NEW l, Like(l), NEW window, lot' = With(l, window), lot.state \in Trading
        PROVE  Traded
    <3> DEFINE course == [l.course EXCEPT !.addedWindows =
                            @ \cup {[window |-> window, sequence |-> sequence + 1]}]
    <3>1. course.removed = lot.course.removed
      BY <2>2 DEF LotRecord, History
    <3>2. lot' = [l EXCEPT !.stepWindows = @ \cup {window}, !.course = course]
      BY <2>2 DEF LotRecord
    <3> HIDE DEF course
    <3> QED BY <2>2, <3>1, <3>2 DEF Traded, Quiet, LotRecord
  <2>3. Like(lot)
    BY <1>1
  <2>4. ASSUME NEW window, AddStepWindow(window) PROVE Traded
    BY <2>2, <2>3, <2>4 DEF AddStepWindow, Record
  <2>5. ASSUME NEW window, SetPeriodWindow(window) PROVE Traded
    <3>1. lot' = With(WithoutPeriod(window.period), window) /\ lot.state \in Trading
      BY <2>5 DEF SetPeriodWindow, Record
    <3> HIDE DEF With, Like
    <3> QED BY <3>1, <2>1, <2>2
  <2>6. ASSUME NEW window, ClearPeriodWindow(window.period) PROVE Traded
    BY <2>1, <2>6 DEF ClearPeriodWindow, Record, Traded, Quiet
  <2> HIDE DEF With, Like
  <2> QED BY <1>11, <2>4, <2>5, <2>6
<1>12. CASE Tick \/ UNCHANGED vars
  BY <1>12 DEF Tick, vars
<1> QED
  BY <1>3, <1>4, <1>5, <1>6, <1>7, <1>8, <1>9, <1>10, <1>11, <1>12 DEF Next

(* I-16: nothing marks, unmarks or thins out a lot whose deadline has      *)
(* passed, as long as it trades.                                           *)
THEOREM LineupIsFrozen == Spec => DeadlineFreezesTheLineup
<1> DEFINE Step == DeadlinePassed(lot, now) /\ lot'.state \in Trading
                   => /\ lot'.marked = lot.marked
                      /\ lot'.course.removed = lot.course.removed
<1>1. IInv /\ [Next]_vars => [Step]_vars
  <2> SUFFICES ASSUME IInv, [Next]_vars, DeadlinePassed(lot, now), lot'.state \in Trading
               PROVE  /\ lot'.marked = lot.marked
                      /\ lot'.course.removed = lot.course.removed
    OBVIOUS
  <2>1. lot.deadline # NoDeadline
    BY DEF DeadlinePassed
  <2> QED BY <2>1, StepShapes DEF Ended, Prepared, Traded, Marked, Waited, Held,
                                  Resumed, Removed, Quiet, Trading, Terminal
<1> QED BY <1>1, InvariantHolds, PTL DEF Spec, DeadlineFreezesTheLineup

-----------------------------------------------------------------------------
(* The windows of happy hours.                                             *)

(* The windows of the trade are those the auction opened the lot with and  *)
(* those the history has, which are of this journal; the first belong to   *)
(* no period, so that a change of a period leaves them alone.              *)
WindowsKnown ==
  lot.state = "Online" =>
    /\ lot.stepWindows = lot.course.stepWindows \cup
                           {added.window : added \in lot.course.addedWindows}
    /\ \A added \in lot.course.addedWindows : added.sequence <= sequence
    /\ \A w \in lot.course.stepWindows : w.period = NoPeriod
    /\ \A w \in lot.stepWindows : \A other \in lot.stepWindows \ {w} : ~Overlaps(w, other)

(* A step that neither opens the lot nor changes its windows.              *)
WindowsStand ==
  /\ lot.state = "Online"
  /\ lot'.stepWindows = lot.stepWindows
  /\ SameStart(lot, lot')
  /\ sequence' >= sequence

(* What the lot has left of the windows of others, without those of a      *)
(* period: the history forgets them with the trade.                        *)
LEMMA WithoutPeriodFacts ==
  ASSUME IInv, WindowsKnown, lot.state = "Online", NEW window \in PeriodWindows
  PROVE  LET kept == WithoutPeriod(window.period)
         IN  /\ kept \in LotRecord /\ kept.state = lot.state
             /\ kept.stepWindows = {w \in lot.stepWindows : w.period # window.period}
             /\ kept.course = [lot.course EXCEPT !.addedWindows =
                                {a \in @ : a.window.period # window.period}]
             /\ kept.course \in History
             /\ kept.stepWindows = kept.course.stepWindows \cup
                           {added.window : added \in kept.course.addedWindows}
             /\ kept.course.stepWindows = lot.course.stepWindows
             /\ kept.course.addedWindows \subseteq lot.course.addedWindows
<1> DEFINE period == window.period
           kept == WithoutPeriod(period)
           left == {a \in lot.course.addedWindows : a.window.period # period}
           course == [lot.course EXCEPT !.addedWindows = left]
<1>1. lot \in LotRecord /\ lot.course \in History
  BY DEF IInv, LotOK, LotRecord
<1>2. course \in History /\ course.stepWindows = lot.course.stepWindows
      /\ course.addedWindows = left
  BY <1>1 DEF History
<1>3. kept = [lot EXCEPT !.stepWindows = @ \ OfPeriod(@, period), !.course = course]
  BY <1>1, <1>2 DEF WithoutPeriod, LotRecord
<1> HIDE DEF course
<1>4. kept \in LotRecord /\ kept.state = lot.state /\ kept.course = course
      /\ kept.stepWindows = lot.stepWindows \ OfPeriod(lot.stepWindows, period)
  BY <1>1, <1>2, <1>3 DEF LotRecord
<1> HIDE DEF kept
<1>5. kept.stepWindows = {w \in lot.stepWindows : w.period # period}
  BY <1>4 DEF OfPeriod
<1>6. period # NoPeriod
  BY PeriodsAssumption
<1>7. kept.stepWindows = lot.course.stepWindows \cup {added.window : added \in left}
  BY <1>5, <1>6 DEF WindowsKnown
<1> QED BY <1>1, <1>2, <1>4, <1>5, <1>7 DEF kept, course

LEMMA WindowSteps ==
  ASSUME IInv, [Next]_vars, lot'.state = "Online"
  PROVE  \/ WindowsStand
         \/ \E deadline \in Deadlines, windows \in OpeningWindows : OpenLot(deadline, windows)
         \/ \E window \in LaunchedWindows : AddStepWindow(window)
         \/ \E window \in PeriodWindows : SetPeriodWindow(window)
         \/ \E window \in PeriodWindows : ClearPeriodWindow(window.period)
<1> USE DEF Trading, Terminal
<1>1. lot \in LotRecord /\ lot.course \in History /\ sequence \in Nat
  BY TimeAssumption DEF IInv, LotOK, ClockOK, LotRecord
<1>2. ASSUME NEW command, NEW p, NEW events \in Nat, NEW next, Record(command, p, events, next)
      PROVE  sequence' >= sequence
  BY <1>1, <1>2 DEF Record
<1>3. SameStart(lot, lot)
  BY DEF SameStart
<1>4. CASE \/ DraftLot
           \/ \E price \in StartingPrices, config \in Configs : ScheduleLot(price, config)
  <2>1. DraftLot => lot'.state = "Draft"
    BY DEF DraftLot, Record, Blank
  <2>2. ASSUME NEW price, NEW config, ScheduleLot(price, config)
        PROVE  lot'.state = "Scheduled"
    BY <2>2 DEF ScheduleLot, Record, Blank
  <2> QED BY <1>4, <2>1, <2>2
<1>5. ASSUME NEW p \in Participants, NEW amount \in BidAmounts, NEW source,
             PlaceBid(p, amount, source)
      PROVE  WindowsStand
  <2>1. sequence' >= sequence
    BY <1>5, <1>2, OneType DEF PlaceBid
  <2> QED BY <2>1, <1>5, PlaceBidKeeps DEF WindowsStand, SameTerms
<1>6. ASSUME NEW p \in Participants, NEW max \in LimitAmounts, SetProxyLimit(p, max)
      PROVE  WindowsStand
  <2>1. sequence' >= sequence
    BY <1>6, <1>2, OneType DEF SetProxyLimit
  <2> QED BY <2>1, <1>6, SetProxyLimitKeeps DEF WindowsStand, SameTerms
<1>7. ASSUME NEW p \in Participants, WithdrawProxyLimit(p)
      PROVE  WindowsStand
  <2>1. sequence' >= sequence
    BY <1>7, <1>2 DEF WithdrawProxyLimit
  <2> QED BY <2>1, <1>7, WithdrawProxyLimitKeeps DEF WindowsStand, SameTerms
<1>8. ASSUME NEW p \in Participants, RemoveParticipant(p)
      PROVE  WindowsStand
  <2>1. sequence' >= sequence
    BY <1>8, <1>2, OneType DEF RemoveParticipant, RecordRemoval
  <2>2. Thinned(p)
    BY <1>8, RemoveParticipantKeeps
  <2>3. lot'.course = [lot.course EXCEPT !.removed = lot.course.removed \cup {p}]
    BY <2>2 DEF Thinned
  <2>4. SameStart(lot, lot')
    BY <1>1, <2>3 DEF SameStart, History
  <2> QED BY <2>1, <2>2, <2>4 DEF WindowsStand, Thinned
<1>9. CASE CloseByDeadline \/ CloseByAuctioneer \/ WithdrawLot
  <2>1. Closed.state # "Online" /\ Blank("Withdrawn").state # "Online"
    BY DEF Closed, Blank
  <2>2. HeldForFinal.state # "Online"
    BY <1>1 DEF HeldForFinal, LotRecord
  <2> QED BY <1>9, <2>1, <2>2 DEF CloseByDeadline, CloseByAuctioneer, WithdrawLot, Record
<1>10. CASE MarkForFinal \/ UnmarkForFinal
  BY <1>1, <1>2, <1>10
     DEF MarkForFinal, UnmarkForFinal, Record, WindowsStand, SameStart, LotRecord
<1>11. CASE ResumeLot
  BY <1>11, ResumeLotKeeps, AnsweredByFacts DEF SameTerms, Sound, LotRecord
<1>12. ASSUME NEW ask \in Asks, AdvanceAsk(ask)
       PROVE  WindowsStand
  <2>1. sequence' >= sequence
    BY <1>12, <1>2, OneType DEF AdvanceAsk
  <2>2. lot' = [lot EXCEPT !.ask = ask]
    <3>1. CASE lot.state = "Live"
      BY <1>12, <3>1, AdvanceAskKeeps, AnsweredByFacts DEF SameTerms, Sound, LotRecord
    <3> QED BY <3>1, <1>12, AdvanceAskKeeps
  <2> QED BY <1>1, <2>1, <2>2 DEF WindowsStand, SameStart, LotRecord
<1>13. CASE Tick \/ UNCHANGED vars
  BY <1>1, <1>3, <1>13 DEF Tick, vars, WindowsStand, SameStart
<1> QED BY <1>4, <1>5, <1>6, <1>7, <1>8, <1>9, <1>10, <1>11, <1>12, <1>13 DEF Next

LEMMA WindowsKnownKept == IInv /\ WindowsKnown /\ [Next]_vars => WindowsKnown'
<1> SUFFICES ASSUME IInv, WindowsKnown, [Next]_vars, lot'.state = "Online"
             PROVE  WindowsKnown'
  BY DEF WindowsKnown
<1>1. lot \in LotRecord /\ lot.course \in History /\ sequence \in Nat
  BY TimeAssumption DEF IInv, LotOK, ClockOK, LotRecord
<1>2. \A added \in lot.course.addedWindows : added.sequence \in Nat
  BY <1>1, TimeAssumption DEF History
<1> DEFINE Apart(windows) ==
             \A w \in windows : \A other \in windows \ {w} : ~Overlaps(w, other)
           With(l, window) ==
             [l EXCEPT !.stepWindows = @ \cup {window},
                !.course.addedWindows =
                   @ \cup {[window |-> window, sequence |-> sequence + 1]}]
           Known(l, to) ==
             /\ l.stepWindows = l.course.stepWindows \cup
                                  {added.window : added \in l.course.addedWindows}
             /\ \A added \in l.course.addedWindows : added.sequence <= to
             /\ \A w \in l.course.stepWindows : w.period = NoPeriod
             /\ Apart(l.stepWindows)
<1>3. Known(lot', sequence') => WindowsKnown'
  BY DEF WindowsKnown
<1>4. lot.state = "Online" => Known(lot, sequence)
  BY DEF WindowsKnown
<1>5. ASSUME NEW l \in LotRecord, l.course \in History, Known(l, sequence), NEW window,
             \A other \in l.stepWindows : ~Overlaps(other, window)
      PROVE  Known(With(l, window), sequence + 1)
  <2> DEFINE added == [window |-> window, sequence |-> sequence + 1]
             course == [l.course EXCEPT !.addedWindows = @ \cup {added}]
  <2>1. course.addedWindows = l.course.addedWindows \cup {added}
        /\ course.stepWindows = l.course.stepWindows
    BY <1>5 DEF History
  <2>2. With(l, window) = [l EXCEPT !.stepWindows = @ \cup {window}, !.course = course]
    BY <1>5 DEF LotRecord
  <2> HIDE DEF course
  <2>3. With(l, window).stepWindows = l.stepWindows \cup {window}
        /\ With(l, window).course = course
    BY <1>5, <2>2 DEF LotRecord
  <2> HIDE DEF With
  <2>4. {a.window : a \in course.addedWindows} =
          {a.window : a \in l.course.addedWindows} \cup {window}
    <3>1. added.window = window
      OBVIOUS
    <3> HIDE DEF added
    <3> QED BY <2>1, <3>1
  <2>5. \A a \in course.addedWindows : a.sequence <= sequence + 1
    <3>1. \A a \in l.course.addedWindows : a.sequence \in Nat
      BY <1>5, TimeAssumption DEF History
    <3> QED BY <1>1, <1>5, <2>1, <3>1
  <2>6. Apart(l.stepWindows \cup {window})
    BY <1>5 DEF Overlaps
  <2> QED BY <1>5, <2>1, <2>3, <2>4, <2>5, <2>6
<1> HIDE DEF Known, With
<1>6. CASE WindowsStand
  <2>1. \A added \in lot.course.addedWindows : added.sequence <= sequence'
    <3>1. sequence' >= sequence /\ sequence' \in Int
      BY <1>6, NextKeeps, TimeAssumption DEF WindowsStand, IInv, ClockOK
    <3> QED BY <1>1, <1>2, <1>6, <3>1 DEF WindowsStand, WindowsKnown
  <2> QED BY <1>3, <1>6, <2>1 DEF WindowsStand, SameStart, WindowsKnown, Known
<1>7. ASSUME NEW deadline \in Deadlines, NEW windows \in OpeningWindows,
             OpenLot(deadline, windows)
      PROVE  WindowsKnown'
  <2>1. lot'.stepWindows = windows /\ lot'.course.stepWindows = windows
        /\ lot'.course.addedWindows = {}
    BY <1>1, <1>7 DEF OpenLot, Record, LotRecord, NoCourse
  <2>2. Apart(windows) /\ \A w \in windows : w.period = NoPeriod
    BY PeriodsAssumption
  <2> QED BY <1>3, <2>1, <2>2 DEF Known
<1>8. ASSUME NEW window \in LaunchedWindows, AddStepWindow(window)
      PROVE  WindowsKnown'
  <2>1. lot.state = "Online" /\ lot' = With(lot, window) /\ sequence' = sequence + 1
        /\ \A other \in lot.stepWindows : ~Overlaps(other, window)
    BY <1>8 DEF AddStepWindow, Record, With
  <2> QED BY <1>1, <1>3, <1>4, <1>5, <2>1
<1>9. ASSUME NEW window \in PeriodWindows, lot.state = "Online"
      PROVE  LET kept == WithoutPeriod(window.period)
             IN  kept \in LotRecord /\ kept.course \in History /\ Known(kept, sequence)
  <2> DEFINE kept == WithoutPeriod(window.period)
  <2>1. /\ kept \in LotRecord /\ kept.course \in History
        /\ kept.stepWindows \subseteq lot.stepWindows
        /\ kept.stepWindows = kept.course.stepWindows \cup
                           {added.window : added \in kept.course.addedWindows}
        /\ kept.course.stepWindows = lot.course.stepWindows
        /\ kept.course.addedWindows \subseteq lot.course.addedWindows
    BY <1>9, WithoutPeriodFacts
  <2> HIDE DEF kept
  <2>2. Known(kept, sequence)
    BY <1>9, <2>1 DEF WindowsKnown, Known
  <2> QED BY <2>1, <2>2 DEF kept
<1>10. ASSUME NEW window \in PeriodWindows, SetPeriodWindow(window)
       PROVE  WindowsKnown'
  <2> DEFINE kept == WithoutPeriod(window.period)
  <2>1. lot.state = "Online" /\ lot' = With(kept, window) /\ sequence' = sequence + 1
        /\ \A other \in kept.stepWindows : ~Overlaps(other, window)
    BY <1>10 DEF SetPeriodWindow, Record, With
  <2>2. kept \in LotRecord /\ kept.course \in History /\ Known(kept, sequence)
    BY <1>9, <2>1
  <2> HIDE DEF kept
  <2> QED BY <1>3, <1>5, <2>1, <2>2
<1>11. ASSUME NEW window \in PeriodWindows, ClearPeriodWindow(window.period)
       PROVE  WindowsKnown'
  <2>1. lot.state = "Online" /\ lot' = WithoutPeriod(window.period)
        /\ sequence' = sequence + 1
    BY <1>11 DEF ClearPeriodWindow, Record
  <2>2. Known(lot', sequence)
    BY <1>9, <2>1
  <2>3. \A added \in lot'.course.addedWindows : added.sequence <= sequence + 1
    <3>1. lot'.course.addedWindows \subseteq lot.course.addedWindows
      BY <2>1, WithoutPeriodFacts
    <3> QED BY <1>1, <1>2, <2>2, <3>1 DEF Known
  <2>4. Known(lot', sequence')
    BY <2>1, <2>2, <2>3 DEF Known
  <2> QED BY <1>3, <2>4
<1> QED BY <1>6, <1>7, <1>8, <1>10, <1>11, WindowSteps

LEMMA WindowsHold == Spec => []WindowsKnown
<1>1. Init => WindowsKnown
  BY DEF Init, Blank, WindowsKnown
<1> QED BY <1>1, WindowsKnownKept, InvariantHolds, PTL DEF Spec

(* I-21: at every moment of the online week the history has the windows    *)
(* the trade goes by, whatever was launched, set, replaced or taken back.  *)
THEOREM HistoryHasTheWindows == Spec => []HistoryKnowsTheWindows
<1>1. IInv /\ WindowsKnown => HistoryKnowsTheWindows
  <2> SUFFICES ASSUME IInv, WindowsKnown, lot.state = "Online"
               PROVE  WindowsAt(lot.course, sequence + 1) = lot.stepWindows
    BY DEF HistoryKnowsTheWindows, WindowsKnown
  <2>1. sequence \in Nat /\ \A added \in lot.course.addedWindows : added.sequence \in Nat
    BY TimeAssumption DEF IInv, ClockOK, LotOK, LotRecord, History
  <2>2. {b \in lot.course.addedWindows : b.sequence < sequence + 1} = lot.course.addedWindows
    BY <2>1 DEF WindowsKnown
  <2> QED BY <2>2 DEF WindowsAt, WindowsKnown
<1> QED BY <1>1, InvariantHolds, WindowsHold, PTL

LEMMA BegunStay ==
  ASSUME IInv, WindowsKnown, [Next]_vars, lot.state = "Online", lot'.state = "Online",
         NEW w \in lot.stepWindows, w.from <= now
  PROVE  w \in lot'.stepWindows
<1>1. lot \in LotRecord /\ now \in Int /\ w \in Windows /\ w.from \in Int
  BY TimeAssumption, WindowsAssumption DEF IInv, LotOK, ClockOK, LotRecord
<1>2. ASSUME NEW window \in PeriodWindows, now < window.from
      PROVE  w.period # window.period
  <2>1. window.period # NoPeriod
    BY PeriodsAssumption
  <2>2. w.period = window.period => w \in PeriodWindows
    BY <1>1, <2>1, PeriodsAssumption DEF Windows
  <2>3. w.period = window.period => w.from = window.from
    BY <2>2, PeriodsAssumption
  <2> QED BY <1>1, <1>2, <2>3
<1>3. CASE WindowsStand
  BY <1>3 DEF WindowsStand
<1>4. CASE \E deadline \in Deadlines, windows \in OpeningWindows : OpenLot(deadline, windows)
  BY <1>4 DEF OpenLot
<1>5. CASE \E window \in LaunchedWindows : AddStepWindow(window)
  BY <1>1, <1>5 DEF AddStepWindow, Record, LotRecord
<1>6. ASSUME NEW window \in PeriodWindows, SetPeriodWindow(window)
      PROVE  w \in lot'.stepWindows
  <2> DEFINE kept == WithoutPeriod(window.period)
  <2>1. now < window.from /\ kept \in LotRecord /\ w.period # window.period
        /\ kept.stepWindows = {v \in lot.stepWindows : v.period # window.period}
    BY <1>2, <1>6, WithoutPeriodFacts DEF SetPeriodWindow
  <2> HIDE DEF kept
  <2>2. lot'.stepWindows = kept.stepWindows \cup {window}
    BY <1>6, <2>1 DEF SetPeriodWindow, Record, kept, LotRecord
  <2> QED BY <2>1, <2>2
<1>7. ASSUME NEW window \in PeriodWindows, ClearPeriodWindow(window.period)
      PROVE  w \in lot'.stepWindows
  <2>1. PICK begun \in OfPeriod(lot.stepWindows, window.period) : now < begun.from
    BY <1>7 DEF ClearPeriodWindow
  <2>2. begun \in PeriodWindows /\ begun.period = window.period
    BY <1>1, PeriodsAssumption DEF OfPeriod, LotRecord, Windows
  <2>3. w.period # window.period
    BY <1>2, <2>1, <2>2
  <2> QED BY <1>7, <2>3, WithoutPeriodFacts DEF ClearPeriodWindow, Record
<1> QED BY <1>3, <1>4, <1>5, <1>6, <1>7, WindowSteps

(* I-21: no window that has begun is moved or taken back.                  *)
THEOREM BegunWindowsStay == Spec => BegunWindowsStand
<1> DEFINE Step == lot.state = "Online" /\ lot'.state = "Online" =>
                     \A w \in lot.stepWindows : (w.from <= now => w \in lot'.stepWindows)
<1>1. IInv /\ WindowsKnown /\ [Next]_vars => [Step]_vars
  BY BegunStay
<1> QED BY <1>1, InvariantHolds, WindowsHold, PTL DEF Spec, BegunWindowsStand

-----------------------------------------------------------------------------
(* What a step may do to the price and the leader.                         *)

Pursued == Trading \cup {"Held"}

(* A step that leaves the trade where it was: at most the lot is held.     *)
Untouched ==
  /\ lot'.state \in {lot.state, "Held"}
  /\ lot'.config = lot.config
  /\ lot'.price = lot.price
  /\ lot'.leader = lot.leader
  /\ lot'.limits = lot.limits
  /\ lot'.extensionsUsed = lot.extensionsUsed
  /\ lot'.course.startingPrice = lot.course.startingPrice
  /\ lot'.course.online = lot.course.online
  /\ lot'.course.held = lot.course.held
  /\ lot'.course.removed = lot.course.removed
  /\ lot'.state = lot.state => lot'.deadline = lot.deadline /\ lot'.ask = lot.ask
  /\ lot'.state = "Live" => lot' = lot

LEMMA UntouchedWindows ==
  ASSUME IInv
  PROVE  /\ \A window : AddStepWindow(window) => Untouched
         /\ \A window : SetPeriodWindow(window) => Untouched
         /\ \A window : ClearPeriodWindow(window.period) => Untouched
<1> DEFINE With(l, window) ==
             [l EXCEPT !.stepWindows = @ \cup {window},
                !.course.addedWindows =
                   @ \cup {[window |-> window, sequence |-> sequence + 1]}]
           Like(l) ==
             /\ l \in LotRecord /\ l.course \in History
             /\ l.state = lot.state /\ l.config = lot.config /\ l.price = lot.price
             /\ l.leader = lot.leader /\ l.limits = lot.limits
             /\ l.extensionsUsed = lot.extensionsUsed
             /\ l.course.startingPrice = lot.course.startingPrice
             /\ l.course.online = lot.course.online /\ l.course.held = lot.course.held
             /\ l.course.removed = lot.course.removed
             /\ l.deadline = lot.deadline /\ l.ask = lot.ask
<1>1. lot \in LotRecord /\ lot.course \in History
  BY DEF IInv, LotOK, LotRecord
<1>2. ASSUME NEW period PROVE Like(WithoutPeriod(period))
  <2> DEFINE course == [lot.course EXCEPT !.addedWindows =
                          {a \in @ : a.window.period # period}]
  <2>1. /\ course \in History /\ course.removed = lot.course.removed
        /\ course.startingPrice = lot.course.startingPrice
        /\ course.online = lot.course.online /\ course.held = lot.course.held
    BY <1>1 DEF History
  <2>2. WithoutPeriod(period) =
          [lot EXCEPT !.stepWindows = @ \ OfPeriod(@, period), !.course = course]
    BY <1>1 DEF WithoutPeriod, LotRecord
  <2> HIDE DEF course
  <2> QED BY <1>1, <2>1, <2>2 DEF LotRecord
<1>3. ASSUME NEW l, Like(l), NEW window, lot' = With(l, window), lot.state = "Online"
      PROVE  Untouched
  <2> DEFINE course == [l.course EXCEPT !.addedWindows =
                          @ \cup {[window |-> window, sequence |-> sequence + 1]}]
  <2>1. /\ course.removed = l.course.removed
        /\ course.startingPrice = l.course.startingPrice
        /\ course.online = l.course.online /\ course.held = l.course.held
    BY <1>3 DEF History
  <2>2. lot' = [l EXCEPT !.stepWindows = @ \cup {window}, !.course = course]
    BY <1>3 DEF LotRecord
  <2> HIDE DEF course
  <2>3. /\ lot'.state = l.state /\ lot'.config = l.config /\ lot'.price = l.price
        /\ lot'.leader = l.leader /\ lot'.limits = l.limits /\ lot'.ask = l.ask
        /\ lot'.extensionsUsed = l.extensionsUsed /\ lot'.deadline = l.deadline
        /\ lot'.course = course
    BY <1>3, <2>2 DEF LotRecord
  <2> QED BY <1>3, <2>1, <2>3 DEF Untouched
<1>4. Like(lot)
  BY <1>1
<1>5. ASSUME NEW window, AddStepWindow(window) PROVE Untouched
  <2>1. lot' = With(lot, window) /\ lot.state = "Online"
    BY <1>5 DEF AddStepWindow, Record
  <2> HIDE DEF With, Like
  <2> QED BY <1>3, <1>4, <2>1
<1>6. ASSUME NEW window, SetPeriodWindow(window) PROVE Untouched
  <2>1. lot' = With(WithoutPeriod(window.period), window) /\ lot.state = "Online"
    BY <1>6 DEF SetPeriodWindow, Record
  <2> HIDE DEF With, Like
  <2> QED BY <1>2, <1>3, <2>1
<1>7. ASSUME NEW window, ClearPeriodWindow(window.period) PROVE Untouched
  BY <1>2, <1>7 DEF ClearPeriodWindow, Record, Untouched
<1> HIDE DEF With, Like
<1> QED BY <1>5, <1>6, <1>7

LEMMA PursuedSteps ==
  ASSUME IInv, [Next]_vars, lot.state \in Pursued, lot'.state \in Pursued
  PROVE  \/ \E p \in Participants, amount \in BidAmounts, source \in {"Bot", "Floor"} :
              PlaceBid(p, amount, source)
         \/ \E p \in Participants, max \in LimitAmounts : SetProxyLimit(p, max)
         \/ \E p \in Participants : WithdrawProxyLimit(p)
         \/ \E p \in Participants : RemoveParticipant(p)
         \/ ResumeLot
         \/ \E ask \in Asks : AdvanceAsk(ask)
         \/ Untouched
<1> USE DEF Trading, Terminal, Pursued
<1>1. lot \in LotRecord /\ lot.course \in History
  BY DEF IInv, LotOK, LotRecord
<1>2. ASSUME \/ DraftLot
             \/ \E price \in StartingPrices, config \in Configs : ScheduleLot(price, config)
             \/ \E deadline \in Deadlines, windows \in OpeningWindows :
                  OpenLot(deadline, windows)
      PROVE  FALSE
  BY <1>2 DEF DraftLot, ScheduleLot, OpenLot
<1>3. ASSUME CloseByDeadline \/ CloseByAuctioneer \/ WithdrawLot
      PROVE  Untouched
  <2>1. Closed.state \notin Pursued /\ Blank("Withdrawn").state \notin Pursued
    BY DEF Closed, Blank
  <2>2. lot' = HeldForFinal /\ lot.state \in Trading
    BY <1>3, <2>1 DEF CloseByDeadline, CloseByAuctioneer, WithdrawLot, Record
  <2> QED BY <1>1, <2>2 DEF HeldForFinal, Untouched, LotRecord
<1>4. CASE MarkForFinal \/ UnmarkForFinal
  BY <1>1, <1>4 DEF MarkForFinal, UnmarkForFinal, Record, Untouched, LotRecord
<1>5. CASE \/ \E window \in LaunchedWindows : AddStepWindow(window)
           \/ \E window \in PeriodWindows : SetPeriodWindow(window)
           \/ \E window \in PeriodWindows : ClearPeriodWindow(window.period)
  BY <1>5, UntouchedWindows
<1>6. CASE Tick \/ UNCHANGED vars
  BY <1>6 DEF Tick, vars, Untouched
<1> QED BY <1>2, <1>3, <1>4, <1>5, <1>6 DEF Next

(* A bid has been placed, by its participant or for its limit.             *)
Raised ==
  /\ lot'.course.removed = lot.course.removed
  /\ lot'.leader \in Participants \ lot.course.removed
  /\ lot'.price \in Sums
  /\ Opening(lot) => lot'.price >= OpeningPrice(lot, now)
  /\ SumsLeaveRoom /\ ~ Opening(lot) => lot'.price > lot.price
  /\ \/ lot'.price <= lot'.limits[lot'.leader].max
     \/ last' = [command |-> "PlaceBid", participant |-> lot'.leader]

Silent == lot'.price = lot.price /\ lot'.leader = lot.leader

(* A bid that leaves room is above the price of a lot that has a leader.   *)
LEMMA RequiredRange ==
  ASSUME NEW l \in LotRecord, l.config \in Configs, NEW at
  PROVE  /\ Opening(l) => MinRequired(l, at) >= OpeningPrice(l, at)
         /\ SumsLeaveRoom /\ ~ Opening(l) => MinRequired(l, at) > l.price
         /\ SumsLeaveRoom /\ ~ Opening(l) /\ ~ AskAbovePrice(l) =>
              MinRequired(l, at) = l.price + StepAt(l, l.price, at)
<1>1. l.price \in Sums /\ l.price \in Money /\ l.price \in Int /\ l.ask \in Int
  BY AskType, SumsFacts DEF LotRecord
<1>2. OpeningPrice(l, at) \in Int /\ OpeningPrice(l, at) <= l.price
  BY OpeningPriceRange
<1>3. CASE AskAbovePrice(l)
  BY <1>1, <1>2, <1>3 DEF MinRequired, AskAbovePrice
<1>4. CASE ~ AskAbovePrice(l) /\ Opening(l)
  BY <1>2, <1>4 DEF MinRequired
<1>5. CASE ~ AskAbovePrice(l) /\ ~ Opening(l)
  <2>1. SUFFICES ASSUME SumsLeaveRoom
                 PROVE  /\ MinRequired(l, at) > l.price
                        /\ MinRequired(l, at) = l.price + StepAt(l, l.price, at)
    BY <1>5
  <2>2. BaseStep(l, l.price) \in Nat \ {0} /\ StepAt(l, l.price, at) \in 1 .. BaseStep(l, l.price)
    BY <1>1, StepAtRange
  <2>3. l.price + BaseStep(l, l.price) <= MoneyMax
    BY <1>1, <2>1 DEF SumsLeaveRoom, BaseStep
  <2>4. MinRequired(l, at) = Plus(l.price, StepAt(l, l.price, at))
    BY <1>5 DEF MinRequired
  <2> QED BY <1>1, <2>2, <2>3, <2>4, MoneyMaxAssumption DEF Plus
<1> QED BY <1>3, <1>4, <1>5

(* What the answer to a command on a lot that was at the same price under  *)
(* the same leader comes to.                                               *)
LEMMA AnsweredRaises ==
  ASSUME IInv, lot.state \in Pursued,
         NEW k, Sound(k, lot.course.removed), AnsweredBy(k),
         k.price = lot.price, k.leader = lot.leader,
         k.course.removed = lot.course.removed,
         LimitFloor(k, now) >= IF Opening(lot) THEN OpeningPrice(lot, now) ELSE lot.price
  PROVE  Silent \/ Raised
<1> DEFINE answered == Answered(k, now)
<1>1. /\ lot'.price = answered.price /\ lot'.leader = answered.leader
      /\ lot'.limits = k.limits /\ lot'.course = k.course
  BY AnsweredByFacts
<1>2. k \in LotRecord /\ k.config \in Configs /\ lot \in LotRecord
  BY DEF Sound, IInv, LotOK
<1>3. CASE Resolve(k, now) = NoBid
  BY <1>1, <1>3 DEF Answered, AfterAnswer, Silent
<1>4. CASE Resolve(k, now) # NoBid
  <2>1. /\ answered.leader \in Active(k)
        /\ answered.price \in Sums
        /\ answered.price <= k.limits[answered.leader].max
        /\ answered.price >= LimitFloor(k, now)
        /\ ~ Opening(k) => answered.price > k.price
    BY <1>2, <1>4, AnsweredRange
  <2>2. answered.leader \in Participants /\ answered.leader \notin lot.course.removed
    BY <2>1 DEF Active, Sound
  <2>3. answered.price \in Int /\ LimitFloor(k, now) \in Int /\ OpeningPrice(lot, now) \in Int
    BY <1>2, <2>1, FloorRange, OpeningPriceRange, SumsFacts
  <2> HIDE DEF answered
  <2> QED BY <1>1, <2>1, <2>2, <2>3 DEF Raised, Opening
<1> QED BY <1>3, <1>4

LEMMA BidRaises ==
  ASSUME IInv, NEW p \in Participants, NEW amount \in BidAmounts, NEW source,
         PlaceBid(p, amount, source)
  PROVE  Raised
<1>0. /\ lot \in LotRecord /\ lot.course \in History /\ lot.config \in Configs
      /\ Sound(lot, lot.course.removed)
  BY SoundFromOK DEF IInv, LotOK, LotRecord, Configured, PlaceBid
<1> DEFINE k == Tabled(p, amount)
           answered == Answered(k, now)
<1>1. /\ Sound(k, lot.course.removed) /\ SameTerms(lot, k)
      /\ SameTrade(Bidden(lot, BidOf(p, amount)), k) /\ AnsweredBy(k)
      /\ last' = [command |-> "PlaceBid", participant |-> p]
  BY PlaceBidKeeps
<1>2. k.price = amount /\ k.leader = p /\ k.limits = lot.limits
  BY <1>0, <1>1 DEF SameTrade, Bidden, BidOf, LotRecord
<1>3. p \notin lot.course.removed /\ amount >= MinRequired(lot, now)
  BY DEF PlaceBid, BidAccepted
<1>4. amount \in Sums /\ amount \in Int
  BY SumsFacts
<1>5. ~ Opening(k)
  BY <1>2, NoOneAssumption DEF Opening
<1> HIDE DEF k
<1>6. /\ lot'.price = answered.price /\ lot'.leader = answered.leader
      /\ lot'.limits = k.limits /\ lot'.course = k.course
  BY <1>1, AnsweredByFacts
<1>7. k \in LotRecord /\ k.config \in Configs /\ k.course.removed = lot.course.removed
  BY <1>1 DEF Sound, SameTerms
<1>8. /\ answered.leader \in Participants \ lot.course.removed
      /\ answered.price \in Sums /\ answered.price \in Int
      /\ answered.price >= amount
      /\ \/ answered.leader = p
         \/ answered.price <= k.limits[answered.leader].max
  <2>1. CASE Resolve(k, now) = NoBid
    <3>1. answered = k
      BY <2>1 DEF Answered, AfterAnswer
    <3> QED BY <1>2, <1>3, <1>4, <3>1
  <2>2. CASE Resolve(k, now) # NoBid
    <3>1. /\ answered.leader \in Active(k)
          /\ answered.price \in Sums
          /\ answered.price <= k.limits[answered.leader].max
          /\ answered.price > k.price
      BY <1>5, <1>7, <2>2, AnsweredRange
    <3>2. answered.leader \in Participants /\ answered.leader \notin lot.course.removed
      BY <1>1, <3>1 DEF Active, Sound
    <3>3. answered.price \in Int
      BY <3>1, SumsFacts
    <3> HIDE DEF answered
    <3> QED BY <1>2, <1>4, <3>1, <3>2, <3>3
  <2> QED BY <2>1, <2>2
<1>9. /\ MinRequired(lot, now) >= OpeningPrice(lot, now) \/ ~ Opening(lot)
      /\ SumsLeaveRoom /\ ~ Opening(lot) => MinRequired(lot, now) > lot.price
  BY <1>0, RequiredRange
<1>10. OpeningPrice(lot, now) \in Int /\ lot.price \in Int /\ MinRequired(lot, now) \in Int
  <2>1. OpeningPrice(lot, now) \in Int /\ lot.price \in Int /\ lot.ask \in Int
        /\ lot.price \in Money
    BY <1>0, AskType, OpeningPriceRange, SumsFacts DEF LotRecord
  <2>2. StepAt(lot, lot.price, now) \in Nat
    BY <1>0, <2>1, StepAtType
  <2> QED BY <2>1, <2>2, MoneyMaxAssumption DEF MinRequired, Plus
<1> HIDE DEF answered
<1> QED BY <1>1, <1>3, <1>4, <1>6, <1>7, <1>8, <1>9, <1>10 DEF Raised

LEMMA RaisingSteps ==
  ASSUME IInv, [Next]_vars, lot.state \in Pursued, lot'.state \in Pursued
  PROVE  \/ \E p \in Participants : RemoveParticipant(p)
         \/ Silent
         \/ Raised
<1> USE DEF Trading, Pursued
<1>1. /\ lot \in LotRecord /\ lot.course \in History /\ lot.config \in Configs
      /\ Sound(lot, lot.course.removed)
  BY SoundFromOK DEF IInv, LotOK, LotRecord, Configured
<1>2. ASSUME NEW p \in Participants, NEW amount \in BidAmounts, NEW source,
             PlaceBid(p, amount, source)
      PROVE  Raised
  BY <1>2, BidRaises
<1>3. ASSUME NEW p \in Participants, NEW max \in LimitAmounts, SetProxyLimit(p, max)
      PROVE  Silent \/ Raised
  <2> DEFINE k == Put(p, max)
  <2>1. /\ Sound(k, lot.course.removed) /\ SameTerms(lot, k)
        /\ SameTrade(Limited(lot, p, max, sequence + 1), k)
        /\ IF lot.state = "Held" THEN lot' = k ELSE AnsweredBy(k)
    BY <1>3, SetProxyLimitKeeps
  <2>2. k.price = lot.price /\ k.leader = lot.leader
    BY <1>1, <2>1 DEF SameTrade, Limited, LotRecord
  <2> HIDE DEF k
  <2>3. k \in LotRecord /\ LimitFloor(k, now) = LimitFloor(lot, now)
        /\ k.course.removed = lot.course.removed
    BY <2>1, <2>2 DEF Sound, SameTerms, LimitFloor, Floor, MinRequired, Opening, OpeningPrice,
                      ActiveWindows, AskAbovePrice, StepAt, BaseStep
  <2>4. LimitFloor(k, now) >= IF Opening(lot) THEN OpeningPrice(lot, now) ELSE lot.price
    BY <1>1, <2>3, FloorRange
  <2>5. CASE lot.state = "Held"
    BY <2>1, <2>2, <2>5 DEF Silent
  <2> QED BY <2>1, <2>2, <2>3, <2>4, <2>5, AnsweredRaises
<1>4. ASSUME NEW p \in Participants, WithdrawProxyLimit(p)
      PROVE  Silent
  BY <1>4, WithdrawProxyLimitKeeps DEF Silent
<1>5. ASSUME ResumeLot
      PROVE  Silent \/ Raised
  <2> DEFINE k == [lot EXCEPT !.state = "Live"]
  <2>1. Sound(k, lot.course.removed) /\ AnsweredBy(k) /\ lot.state = "Held"
    BY <1>5, ResumeLotKeeps DEF ResumeLot
  <2>2. k.price = lot.price /\ k.leader = lot.leader /\ k.course = lot.course /\ k.state = "Live"
    BY <1>1 DEF LotRecord
  <2> HIDE DEF k
  <2>3. LimitFloor(k, now) >= IF Opening(lot) THEN OpeningPrice(lot, now) ELSE lot.price
    <3>1. LimitFloor(k, now) \in Int /\ LimitFloor(k, now) >= k.price
      BY <2>1, <2>2, FloorRange DEF Sound
    <3>2. OpeningPrice(lot, now) <= lot.price /\ OpeningPrice(lot, now) \in Int
          /\ lot.price \in Int
      BY <1>1, OpeningPriceRange, SumsFacts DEF LotRecord
    <3> QED BY <2>2, <3>1, <3>2
  <2> QED BY <2>1, <2>2, <2>3, AnsweredRaises
<1>6. ASSUME NEW ask \in Asks, AdvanceAsk(ask)
      PROVE  Silent \/ Raised
  <2> DEFINE k == [lot EXCEPT !.ask = ask]
  <2>1. /\ Sound(k, lot.course.removed)
        /\ IF lot.state = "Live" THEN AnsweredBy(k) ELSE lot' = k
    BY <1>6, AdvanceAskKeeps
  <2>2. k.price = lot.price /\ k.leader = lot.leader /\ k.course = lot.course
        /\ k.state = lot.state
    BY <1>1 DEF LotRecord
  <2> HIDE DEF k
  <2>3. CASE lot.state # "Live"
    BY <2>1, <2>2, <2>3 DEF Silent
  <2>4. CASE lot.state = "Live"
    <3>1. LimitFloor(k, now) \in Int /\ LimitFloor(k, now) >= k.price
      BY <2>1, <2>2, <2>4, FloorRange DEF Sound
    <3>2. OpeningPrice(lot, now) <= lot.price /\ OpeningPrice(lot, now) \in Int
          /\ lot.price \in Int
      BY <1>1, OpeningPriceRange, SumsFacts DEF LotRecord
    <3> QED BY <2>1, <2>2, <2>4, <3>1, <3>2, AnsweredRaises
  <2> QED BY <2>3, <2>4
<1>7. Untouched => Silent
  BY DEF Untouched, Silent
<1> QED BY <1>2, <1>3, <1>4, <1>5, <1>6, <1>7, PursuedSteps

LEMMA ClosedShape ==
  ASSUME IInv
  PROVE  /\ lot.leader # NoOne =>
              /\ Closed.state = "Sold" /\ Closed.leader = lot.leader
              /\ Closed.price = lot.price /\ Closed.course = NoCourse
         /\ lot.leader = NoOne => Closed = Blank("Unsold")
         /\ \A state : /\ Blank(state).state = state /\ Blank(state).leader = NoOne
                       /\ Blank(state).price = 0 /\ Blank(state).course = NoCourse
<1>1. \A state : /\ Blank(state).state = state /\ Blank(state).leader = NoOne
                 /\ Blank(state).price = 0 /\ Blank(state).course = NoCourse
  BY DEF Blank
<1>2. lot.leader # NoOne => Closed = [Blank("Sold") EXCEPT !.leader = lot.leader,
                                        !.price = lot.price]
  BY DEF Closed
<1>3. [Blank("Sold") EXCEPT !.leader = lot.leader, !.price = lot.price].state = "Sold"
      /\ [Blank("Sold") EXCEPT !.leader = lot.leader, !.price = lot.price].leader = lot.leader
      /\ [Blank("Sold") EXCEPT !.leader = lot.leader, !.price = lot.price].price = lot.price
      /\ [Blank("Sold") EXCEPT !.leader = lot.leader, !.price = lot.price].course = NoCourse
  BY DEF Blank
<1>4. lot.leader = NoOne => Closed = Blank("Unsold")
  BY DEF Closed
<1> QED BY <1>1, <1>2, <1>3, <1>4

LEMMA EndingSteps ==
  ASSUME IInv, [Next]_vars, lot.state \in Pursued, lot'.state \notin Pursued
  PROVE  lot' = Closed \/ lot' = Blank("Withdrawn")
<1> USE DEF Trading, Terminal, Pursued
<1>1. lot \in LotRecord /\ lot.course \in History
  BY DEF IInv, LotOK, LotRecord
<1>2. ASSUME \/ DraftLot
             \/ \E price \in StartingPrices, config \in Configs : ScheduleLot(price, config)
             \/ \E deadline \in Deadlines, windows \in OpeningWindows :
                  OpenLot(deadline, windows)
      PROVE  FALSE
  BY <1>2 DEF DraftLot, ScheduleLot, OpenLot
<1>3. ASSUME NEW p \in Participants, NEW amount \in BidAmounts, NEW source,
             PlaceBid(p, amount, source)
      PROVE  FALSE
  BY <1>3, PlaceBidKeeps DEF SameTerms
<1>4. ASSUME NEW p \in Participants, NEW max \in LimitAmounts, SetProxyLimit(p, max)
      PROVE  FALSE
  BY <1>4, SetProxyLimitKeeps DEF SameTerms
<1>5. ASSUME NEW p \in Participants, WithdrawProxyLimit(p) \/ RemoveParticipant(p)
      PROVE  FALSE
  BY <1>5, WithdrawProxyLimitKeeps, RemoveParticipantKeeps DEF SameTerms
<1>6. ASSUME ResumeLot PROVE FALSE
  BY <1>1, <1>6, ResumeLotKeeps, AnsweredByFacts DEF SameTerms, LotRecord
<1>7. ASSUME NEW ask \in Asks, AdvanceAsk(ask)
      PROVE  FALSE
  <2> DEFINE k == [lot EXCEPT !.ask = ask]
  <2>1. Sound(k, lot.course.removed) /\ (AnsweredBy(k) \/ lot' = k)
    BY <1>7, AdvanceAskKeeps
  <2>2. k.state = lot.state
    BY <1>1 DEF LotRecord
  <2> HIDE DEF k
  <2> QED BY <2>1, <2>2, AnsweredByFacts DEF SameTerms
<1>8. ASSUME \/ \E window \in LaunchedWindows : AddStepWindow(window)
             \/ \E window \in PeriodWindows : SetPeriodWindow(window)
             \/ \E window \in PeriodWindows : ClearPeriodWindow(window.period)
      PROVE  FALSE
  BY <1>8, UntouchedWindows DEF Untouched
<1>9. ASSUME MarkForFinal \/ UnmarkForFinal \/ Tick \/ UNCHANGED vars
      PROVE  FALSE
  BY <1>1, <1>9 DEF MarkForFinal, UnmarkForFinal, Tick, vars, Record, LotRecord
<1>10. CASE CloseByDeadline \/ CloseByAuctioneer \/ WithdrawLot
  <2>1. HeldForFinal.state = "Held"
    BY <1>1 DEF HeldForFinal, LotRecord
  <2> QED BY <1>10, <2>1 DEF CloseByDeadline, CloseByAuctioneer, WithdrawLot, Record
<1> QED BY <1>2, <1>3, <1>4, <1>5, <1>6, <1>7, <1>8, <1>9, <1>10 DEF Next

(* Before the trade a lot is prepared, and after it nothing moves it.      *)
LEMMA OutsideSteps ==
  ASSUME IInv, [Next]_vars, lot.state \notin Pursued
  PROVE  \/ lot' = lot
         \/ DraftLot
         \/ \E price \in StartingPrices, config \in Configs : ScheduleLot(price, config)
         \/ \E deadline \in Deadlines, windows \in OpeningWindows : OpenLot(deadline, windows)
         \/ lot.state \in {"Draft", "Scheduled"} /\ lot' = Blank("Withdrawn")
<1> USE DEF Trading, Terminal, Pursued
<1> QED BY DEF Next, PlaceBid, SetProxyLimit, WithdrawProxyLimit, RemoveParticipant,
               CloseByDeadline, CloseByAuctioneer, MarkForFinal, UnmarkForFinal, ResumeLot,
               AdvanceAsk, WithdrawLot, AddStepWindow, SetPeriodWindow, ClearPeriodWindow,
               Tick, vars, Record

(* I-13: no limit bids for its participant above itself, whichever of the  *)
(* commands it answers and however the ask and the rivals stand.           *)
THEOREM ProxiesStayWithinLimits == Spec => ProxyBidsWithinLimits
<1> DEFINE Step == (/\ lot.state \in Trading \cup {"Held"}
                    /\ lot'.state \in Trading
                    /\ lot'.price > lot.price
                    /\ last' # [command |-> "PlaceBid", participant |-> lot'.leader]
                    => lot'.price <= lot'.limits[lot'.leader].max)
<1>1. IInv /\ [Next]_vars => [Step]_vars
  <2> SUFFICES ASSUME IInv, [Next]_vars, lot.state \in Trading \cup {"Held"},
                      lot'.state \in Trading, lot'.price > lot.price,
                      last' # [command |-> "PlaceBid", participant |-> lot'.leader]
               PROVE  lot'.price <= lot'.limits[lot'.leader].max
    OBVIOUS
  <2>1. lot.price \in Int /\ lot'.price \in Int
    BY NextKeeps, SumsFacts DEF IInv, LotOK, LotRecord
  <2>2. ~ Silent
    BY <2>1 DEF Silent
  <2>3. ASSUME NEW p \in Participants, RemoveParticipant(p) PROVE FALSE
    BY <2>1, <2>3, RemoveParticipantKeeps
  <2> QED BY <2>2, <2>3, RaisingSteps DEF Raised, Pursued
<1> QED BY <1>1, InvariantHolds, PTL DEF Spec, ProxyBidsWithinLimits

(* I-01: where every sum leaves room for a step, the price of a lot in     *)
(* trade falls by nothing but a removal and the first bid in a window.     *)
THEOREM PriceOnlyClimbs ==
  ASSUME SumsLeaveRoom
  PROVE  Spec => PriceNeverFalls
<1> DEFINE Start == IF Opening(lot) THEN OpeningPrice(lot, now) ELSE lot.price
           Step == lot.state \in Trading /\ lot'.state \in Trading \cup {"Held", "Sold"}
                   => last'.command = "RemoveParticipant" \/ lot'.price >= Start
<1>1. IInv /\ [Next]_vars => [Step]_vars
  <2> SUFFICES ASSUME IInv, [Next]_vars, lot.state \in Trading,
                      lot'.state \in Trading \cup {"Held", "Sold"}
               PROVE  last'.command = "RemoveParticipant" \/ lot'.price >= Start
    OBVIOUS
  <2>1. lot \in LotRecord /\ lot.price \in Int /\ lot'.price \in Int
    BY NextKeeps, SumsFacts DEF IInv, LotOK, LotRecord
  <2>2. OpeningPrice(lot, now) \in Int /\ OpeningPrice(lot, now) <= lot.price
    BY <2>1, OpeningPriceRange
  <2>3. lot'.price = lot.price => lot'.price >= Start
    BY <2>1, <2>2
  <2>4. CASE lot'.state = "Sold"
    <3>1. lot.state \in Pursued /\ lot'.state \notin Pursued /\ lot'.state # "Unsold"
          /\ lot'.state # "Withdrawn"
      BY <2>4 DEF Pursued, Trading
    <3>2. lot' = Closed /\ lot.leader # NoOne
      BY <3>1, EndingSteps, ClosedShape
    <3> QED BY <2>3, <3>2, ClosedShape
  <2>5. CASE lot'.state # "Sold"
    <3>1. lot.state \in Pursued /\ lot'.state \in Pursued
      BY <2>5 DEF Pursued
    <3>2. ASSUME NEW p \in Participants, RemoveParticipant(p)
          PROVE  last'.command = "RemoveParticipant"
      BY <3>2, RemoveParticipantKeeps
    <3>3. Raised => lot'.price >= Start
      BY <2>1, <2>2 DEF Raised
    <3> QED BY <2>3, <3>1, <3>2, <3>3, RaisingSteps DEF Silent
  <2> QED BY <2>4, <2>5
<1> QED BY <1>1, InvariantHolds, PTL DEF Spec, PriceNeverFalls

(* I-06 and I-12: the deadline never moves without a new leader, a new     *)
(* price and room in the count of extensions; a removal moves it only for  *)
(* an outcome it has changed, before the deadline, and spends nothing.     *)
THEOREM ExtensionsAreForBids ==
  ASSUME SumsLeaveRoom
  PROVE  Spec => ExtensionsAreEarned
<1> DEFINE Earned ==
             /\ lot'.deadline = lot.deadline + lot.config.extension
             /\ InAntiSnipeWindow(lot, now)
             /\ <<lot'.leader, lot'.price>> # <<lot.leader, lot.price>>
             /\ IF last'.command = "RemoveParticipant"
                THEN lot'.extensionsUsed = lot.extensionsUsed /\ now < lot.deadline
                ELSE /\ lot'.extensionsUsed = lot.extensionsUsed + 1
                     /\ lot'.extensionsUsed <= lot.config.maxExtensions
           Step == lot.state = "Online" /\ lot'.state = "Online"
                   /\ lot'.deadline # lot.deadline => Earned
<1>1. IInv /\ [Next]_vars => [Step]_vars
  <2> SUFFICES ASSUME IInv, [Next]_vars, lot.state = "Online", lot'.state = "Online",
                      lot'.deadline # lot.deadline
               PROVE  Earned
    OBVIOUS
  <2>1. /\ lot \in LotRecord /\ lot.config \in Configs /\ lot.deadline \in Nat
        /\ lot.extensionsUsed \in Nat /\ lot.config.maxExtensions \in Nat
        /\ lot.price \in Int /\ lot'.price \in Int /\ now \in Int
        /\ lot.state \in Pursued /\ lot'.state \in Pursued
    <3>1. lot \in LotRecord /\ lot.config \in Configs /\ now \in 1 .. MaxTime
      BY DEF IInv, LotOK, ClockOK, Configured, Trading
    <3>2. lot.price \in Int /\ lot'.price \in Int
      BY <3>1, NextKeeps, SumsFacts DEF IInv, LotOK, LotRecord
    <3>3. lot.config.maxExtensions \in Nat
      BY <3>1, ConfigsAssumption
    <3>4. lot.deadline \in Nat /\ lot.extensionsUsed \in Nat
      BY <3>1 DEF LotRecord
    <3>5. now \in Int
      BY <3>1, TimeAssumption
    <3>6. lot.state \in Pursued /\ lot'.state \in Pursued
      BY DEF Pursued, Trading
    <3> QED BY <3>1, <3>2, <3>3, <3>4, <3>5, <3>6
  <2>2. ASSUME NEW k, Sound(k, lot.course.removed), SameTerms(lot, k), AnsweredBy(k),
               k.deadline = lot.deadline, k.extensionsUsed = lot.extensionsUsed
        PROVE  /\ lot'.deadline = lot.deadline + lot.config.extension
               /\ InAntiSnipeWindow(lot, now)
               /\ lot'.extensionsUsed = lot.extensionsUsed + 1
               /\ lot'.extensionsUsed <= lot.config.maxExtensions
    <3>1. /\ Extends(k, now)
          /\ lot'.deadline = k.deadline + k.config.extension
          /\ lot'.extensionsUsed = k.extensionsUsed + 1
      BY <2>2, AnsweredByFacts
    <3>2. k.config = lot.config
      BY <2>2 DEF SameTerms
    <3> QED BY <2>1, <2>2, <3>1, <3>2 DEF Extends, InAntiSnipeWindow
  <2>3. ASSUME NEW p \in Participants, NEW amount \in BidAmounts, NEW source \in {"Bot", "Floor"},
               PlaceBid(p, amount, source)
        PROVE  Earned
    <3> DEFINE k == Tabled(p, amount)
    <3>1. /\ Sound(k, lot.course.removed) /\ SameTerms(lot, k)
          /\ SameTrade(Bidden(lot, BidOf(p, amount)), k) /\ AnsweredBy(k)
          /\ last' = [command |-> "PlaceBid", participant |-> p]
      BY <2>3, PlaceBidKeeps
    <3>2. k.deadline = lot.deadline /\ k.extensionsUsed = lot.extensionsUsed
      BY <2>1, <3>1 DEF SameTrade, Bidden, BidOf, LotRecord
    <3>3. <<lot'.leader, lot'.price>> # <<lot.leader, lot.price>>
      <4>1. Raised
        BY <2>3, BidRaises
      <4>2. CASE Opening(lot)
        BY <4>1, <4>2, NoOneAssumption DEF Raised, Opening
      <4>3. CASE ~ Opening(lot)
        <5>1. lot'.price > lot.price
          BY <4>1, <4>3 DEF Raised
        <5> QED BY <2>1, <5>1
      <4> QED BY <4>2, <4>3
    <3> HIDE DEF k
    <3> QED BY <2>2, <3>1, <3>2, <3>3
  <2>4. ASSUME NEW p \in Participants, NEW max \in LimitAmounts, SetProxyLimit(p, max)
        PROVE  Earned
    <3> DEFINE k == Put(p, max)
    <3>1. /\ Sound(k, lot.course.removed) /\ SameTerms(lot, k)
          /\ SameTrade(Limited(lot, p, max, sequence + 1), k) /\ AnsweredBy(k)
          /\ Resolve(k, now) # NoBid
          /\ last' = [command |-> "SetProxyLimit", participant |-> p]
      BY <2>4, SetProxyLimitKeeps
    <3>2. /\ k.deadline = lot.deadline /\ k.extensionsUsed = lot.extensionsUsed
          /\ k.price = lot.price /\ k.leader = lot.leader
      BY <2>1, <3>1 DEF SameTrade, Limited, LotRecord
    <3> HIDE DEF k
    <3>3. <<lot'.leader, lot'.price>> # <<lot.leader, lot.price>>
      <4>1. lot'.leader \in Active(k) /\ (~ Opening(k) => lot'.price > k.price)
        BY <3>1, AnsweredByFacts, AnsweredRange DEF Sound
      <4>2. lot'.leader # NoOne
        BY <4>1, NoOneAssumption DEF Active
      <4>3. CASE Opening(k)
        BY <3>2, <4>2, <4>3 DEF Opening
      <4>4. CASE ~ Opening(k)
        BY <2>1, <3>2, <4>1, <4>4
      <4> QED BY <4>3, <4>4
    <3> QED BY <2>2, <3>1, <3>2, <3>3
  <2>5. ASSUME NEW p \in Participants, RemoveParticipant(p)
        PROVE  Earned
    <3>1. Thinned(p) /\ ~ DeadlinePassed(lot, now) /\ last'.command = "RemoveParticipant"
      BY <2>5, RemoveParticipantKeeps
    <3>2. InAntiSnipeWindow(lot, now) /\ lot.deadline # NoDeadline
      BY <3>1 DEF Thinned, InAntiSnipeWindow
    <3>3. now < lot.deadline
      BY <2>1, <3>1, <3>2 DEF DeadlinePassed
    <3> QED BY <3>1, <3>2, <3>3 DEF Thinned
  <2>6. ASSUME NEW p \in Participants, WithdrawProxyLimit(p) PROVE FALSE
    BY <2>1, <2>6, WithdrawProxyLimitKeeps DEF SameTrade, Unlimited, LotRecord
  <2>7. ~ ResumeLot
    BY DEF ResumeLot
  <2>8. ASSUME NEW ask \in Asks, AdvanceAsk(ask) PROVE FALSE
    BY <2>1, <2>8, AdvanceAskKeeps DEF LotRecord
  <2>9. ~ Untouched
    BY DEF Untouched
  <2> QED BY <2>1, <2>3, <2>4, <2>5, <2>6, <2>7, <2>8, <2>9, PursuedSteps
<1> QED BY <1>1, InvariantHolds, PTL DEF Spec, ExtensionsAreEarned

-----------------------------------------------------------------------------
(* What a watcher sees.                                                    *)

(* A lot that has not been opened knows its terms and nothing else.        *)
Unopened ==
  /\ lot.state \in {"Initial", "Draft"} => lot = Blank(lot.state)
  /\ lot.state = "Scheduled" =>
       lot = [Blank("Scheduled") EXCEPT !.config = lot.config, !.price = lot.price]

LEMMA UnopenedKept == IInv /\ Unopened /\ [Next]_vars => Unopened'
<1> SUFFICES ASSUME IInv, Unopened, [Next]_vars PROVE Unopened'
  OBVIOUS
<1> USE DEF Pursued, Trading
<1>1. \A state : Blank(state).state = state
  BY DEF Blank
<1>2. CASE lot.state \in Pursued
  <2>1. lot'.state \in Pursued \/ lot'.state \in {"Sold", "Unsold", "Withdrawn"}
    BY <1>1, <1>2, EndingSteps, ClosedShape
  <2> QED BY <2>1 DEF Unopened
<1>3. CASE lot.state \notin Pursued
  <2>1. ASSUME DraftLot PROVE Unopened'
    BY <1>1, <2>1 DEF DraftLot, Record, Unopened
  <2>2. ASSUME NEW price \in StartingPrices, NEW config \in Configs,
               ScheduleLot(price, config)
        PROVE  Unopened'
    <3> DEFINE next == [Blank("Scheduled") EXCEPT !.config = config, !.price = price]
    <3>1. lot' = next
      BY <2>2 DEF ScheduleLot, Record
    <3>2. next.state = "Scheduled" /\ next.config = config /\ next.price = price
      BY DEF Blank
    <3>3. next = [Blank("Scheduled") EXCEPT !.config = next.config, !.price = next.price]
      BY <3>2
    <3> HIDE DEF next
    <3> QED BY <3>1, <3>2, <3>3 DEF Unopened
  <2>3. ASSUME NEW deadline \in Deadlines, NEW windows \in OpeningWindows,
               OpenLot(deadline, windows)
        PROVE  Unopened'
    <3>1. lot'.state = "Online"
      BY <2>3 DEF OpenLot, Record, IInv, LotOK, LotRecord
    <3> QED BY <3>1 DEF Unopened
  <2>4. ASSUME lot' = Blank("Withdrawn") PROVE Unopened'
    BY <1>1, <2>4 DEF Unopened
  <2>5. ASSUME lot' = lot PROVE Unopened'
    BY <2>5 DEF Unopened
  <2> QED BY <1>3, <2>1, <2>2, <2>3, <2>4, <2>5, OutsideSteps
<1> QED BY <1>2, <1>3

LEMMA UnopenedHolds == Spec => []Unopened
<1>1. Init => Unopened
  BY DEF Init, Unopened, Blank
<1> QED BY <1>1, UnopenedKept, InvariantHolds, PTL DEF Spec

(* How a step that keeps everybody moves a lot between trade and hold.     *)
LEMMA TradeSteps ==
  ASSUME IInv, [Next]_vars, lot.state \in Pursued, lot'.state \in Pursued,
         \A p \in Participants : ~ RemoveParticipant(p)
  PROVE  /\ lot'.course.removed = lot.course.removed
         /\ \/ lot'.state = lot.state /\ (lot.state = "Held" => Silent)
            \/ lot.state \in Trading /\ lot'.state = "Held" /\ Silent
            \/ lot.state = "Held" /\ lot'.state = "Live"
<1> USE DEF Trading, Pursued
<1>1. lot \in LotRecord
  BY DEF IInv, LotOK
<1>2. ASSUME NEW p \in Participants, NEW amount \in BidAmounts, NEW source,
             PlaceBid(p, amount, source)
      PROVE  lot'.course.removed = lot.course.removed /\ lot'.state = lot.state
             /\ lot.state # "Held"
  BY <1>2, PlaceBidKeeps DEF SameTerms, PlaceBid
<1>3. ASSUME NEW p \in Participants, NEW max \in LimitAmounts, SetProxyLimit(p, max)
      PROVE  lot'.course.removed = lot.course.removed /\ lot'.state = lot.state
             /\ (lot.state = "Held" => Silent)
  BY <1>3, SetProxyLimitKeeps DEF SameTerms, Silent
<1>4. ASSUME NEW p \in Participants, WithdrawProxyLimit(p)
      PROVE  lot'.course.removed = lot.course.removed /\ lot'.state = lot.state /\ Silent
  BY <1>4, WithdrawProxyLimitKeeps DEF SameTerms, Silent
<1>5. ASSUME ResumeLot
      PROVE  lot'.course.removed = lot.course.removed /\ lot.state = "Held"
             /\ lot'.state = "Live"
  <2> DEFINE k == [lot EXCEPT !.state = "Live"]
  <2>1. Sound(k, lot.course.removed) /\ AnsweredBy(k) /\ lot.state = "Held"
    BY <1>5, ResumeLotKeeps DEF ResumeLot
  <2>2. k.course = lot.course /\ k.state = "Live"
    BY <1>1 DEF LotRecord
  <2> HIDE DEF k
  <2> QED BY <2>1, <2>2, AnsweredByFacts DEF SameTerms
<1>6. ASSUME NEW ask \in Asks, AdvanceAsk(ask)
      PROVE  lot'.course.removed = lot.course.removed /\ lot'.state = lot.state
             /\ lot.state # "Held"
  <2> DEFINE k == [lot EXCEPT !.ask = ask]
  <2>1. /\ Sound(k, lot.course.removed) /\ lot.state # "Held"
        /\ AnsweredBy(k) \/ lot' = k
    BY <1>6, AdvanceAskKeeps DEF AdvanceAsk
  <2>2. k.course = lot.course /\ k.state = lot.state
    BY <1>1 DEF LotRecord
  <2> HIDE DEF k
  <2> QED BY <2>1, <2>2, AnsweredByFacts DEF SameTerms
<1>7. ASSUME Untouched
      PROVE  lot'.course.removed = lot.course.removed /\ Silent
             /\ lot'.state \in {lot.state, "Held"}
  BY <1>7 DEF Untouched, Silent
<1> QED BY <1>2, <1>3, <1>4, <1>5, <1>6, <1>7, PursuedSteps

(* The lot implements the sale everybody watches: each of its steps is a   *)
(* step of the sale or one nobody sees.                                    *)
LEMMA SaleSteps ==
  ASSUME SumsLeaveRoom, IInv, IInv', Unopened, [Next]_vars
  PROVE  [Sale!Next]_(Sale!vars)
<1> USE DEF Trading, Pursued
<1>1. /\ lot \in LotRecord /\ lot' \in LotRecord
      /\ lot.price \in Money /\ lot'.price \in Money
      /\ lot.leader \in Participants \cup {NoOne} /\ lot'.leader \in Participants \cup {NoOne}
  BY SumsFacts DEF IInv, LotOK, LotRecord
<1>2. CASE lot.state \notin Pursued
  <2>1. lot.state \in {"Initial", "Draft", "Scheduled"} =>
          /\ lot.leader = NoOne /\ lot.course.removed = {}
          /\ lot.state # "Scheduled" => lot.price = 0
    <3>1. CASE lot.state \in {"Initial", "Draft"}
      <4>1. lot = Blank(lot.state)
        BY <3>1 DEF Unopened
      <4>2. \A state : /\ Blank(state).leader = NoOne /\ Blank(state).course.removed = {}
                       /\ Blank(state).price = 0
        BY DEF Blank, NoCourse
      <4> QED BY <4>1, <4>2
    <3>2. CASE lot.state = "Scheduled"
      <4>1. lot = [Blank("Scheduled") EXCEPT !.config = lot.config, !.price = lot.price]
        BY <3>2 DEF Unopened
      <4>2. \A config, price :
              LET l == [Blank("Scheduled") EXCEPT !.config = config, !.price = price]
              IN  l.leader = NoOne /\ l.course.removed = {}
        BY DEF Blank, NoCourse
      <4> QED BY <3>2, <4>1, <4>2
    <3> QED BY <3>1, <3>2
  <2>2. ASSUME DraftLot PROVE UNCHANGED Sale!vars
    BY <2>1, <2>2 DEF Sale!vars, DraftLot, Record, Blank, NoCourse
  <2>3. ASSUME NEW price \in StartingPrices, NEW config \in Configs,
               ScheduleLot(price, config)
        PROVE  UNCHANGED Sale!vars
    <3>1. /\ lot.state \in {"Draft", "Scheduled"}
          /\ lot'.state = "Scheduled" /\ lot'.leader = NoOne /\ lot'.course.removed = {}
      BY <2>3 DEF ScheduleLot, Record, Blank, NoCourse
    <3> QED BY <2>1, <3>1 DEF Sale!vars
  <2>4. ASSUME NEW deadline \in Deadlines, NEW windows \in OpeningWindows,
               OpenLot(deadline, windows)
        PROVE  Sale!Open
    <3>1. /\ lot.state = "Scheduled" /\ lot'.state = "Online" /\ lot'.price = lot.price
          /\ lot'.leader = lot.leader /\ lot'.course.removed = {}
      BY <1>1, <2>4 DEF OpenLot, Record, LotRecord, NoCourse
    <3> QED BY <1>1, <2>1, <3>1 DEF Sale!Open
  <2>5. ASSUME lot.state \in {"Draft", "Scheduled"}, lot' = Blank("Withdrawn")
        PROVE  Sale!End
    <3>1. /\ lot'.state = "Withdrawn" /\ lot'.leader = NoOne /\ lot'.course.removed = {}
          /\ lot'.price = 0
      BY <2>5 DEF Blank, NoCourse
    <3> QED BY <2>5, <3>1 DEF Sale!End
  <2>6. ASSUME lot' = lot PROVE UNCHANGED Sale!vars
    BY <2>6 DEF Sale!vars
  <2> QED BY <1>2, <2>2, <2>3, <2>4, <2>5, <2>6, OutsideSteps DEF Sale!Next
<1>3. CASE lot.state \in Pursued /\ lot'.state \notin Pursued
  <2>1. CASE lot' = Blank("Withdrawn")
    <3>1. /\ lot'.state = "Withdrawn" /\ lot'.leader = NoOne /\ lot'.course.removed = {}
          /\ lot'.price = 0
      BY <2>1 DEF Blank, NoCourse
    <3>2. Sale!End
      BY <1>3, <3>1 DEF Sale!End
    <3> QED BY <3>2 DEF Sale!Next
  <2>2. CASE lot' = Closed /\ lot.leader # NoOne
    <3>1. /\ lot'.state = "Sold" /\ lot'.leader = lot.leader /\ lot'.course.removed = {}
          /\ lot'.price = lot.price
      BY <2>2, ClosedShape DEF NoCourse
    <3>2. Sale!Sell
      BY <1>3, <2>2, <3>1 DEF Sale!Sell
    <3> QED BY <3>2 DEF Sale!Next
  <2>3. CASE lot' = Closed /\ lot.leader = NoOne
    <3>1. /\ lot'.state = "Unsold" /\ lot'.leader = NoOne /\ lot'.course.removed = {}
          /\ lot'.price = 0
      BY <2>3, ClosedShape DEF NoCourse
    <3>2. Sale!End
      BY <1>3, <2>3, <3>1 DEF Sale!End
    <3> QED BY <3>2 DEF Sale!Next
  <2> QED BY <1>3, <2>1, <2>2, <2>3, EndingSteps
<1>4. CASE lot.state \in Pursued /\ lot'.state \in Pursued
  <2>1. ASSUME NEW p \in Participants, RemoveParticipant(p) PROVE Sale!Remove
    <3>1. /\ Thinned(p) /\ lot'.state = lot.state /\ lot'.price <= lot.price
          /\ p \notin lot.course.removed
      BY <2>1, RemoveParticipantKeeps DEF RemoveParticipant
    <3>2. lot'.course.removed = lot.course.removed \cup {p}
      <4>1. lot.course \in History
        BY <1>1 DEF LotRecord
      <4> QED BY <3>1, <4>1 DEF Thinned, History
    <3>3. lot'.leader \notin lot'.course.removed
      BY <3>1, <3>2 DEF Thinned, Sound
    <3> QED BY <1>1, <1>4, <3>1, <3>2, <3>3 DEF Sale!Remove, Sale!Kept
  <2>2. CASE \A p \in Participants : ~ RemoveParticipant(p)
    <3>1. Silent \/ Raised
      BY <1>4, <2>2, RaisingSteps
    <3>2. Raised =>
            /\ lot'.leader \in Participants \ lot.course.removed
            /\ lot.leader # NoOne => lot'.price > lot.price
      BY DEF Raised, Opening
    <3>3. CASE lot'.state = lot.state /\ lot'.course.removed = lot.course.removed /\ Silent
      BY <1>4, <3>3 DEF Sale!vars, Silent
    <3>4. CASE lot'.state = lot.state /\ lot'.course.removed = lot.course.removed
               /\ lot.state # "Held" /\ Raised
      <4>1. Sale!Bid
        BY <1>1, <1>4, <3>2, <3>4 DEF Sale!Bid, Sale!Kept
      <4> QED BY <4>1 DEF Sale!Next
    <3>5. CASE lot.state \in Trading /\ lot'.state = "Held" /\ Silent
               /\ lot'.course.removed = lot.course.removed
      <4>1. Sale!Pause
        BY <1>4, <3>5 DEF Sale!Pause, Silent
      <4> QED BY <4>1 DEF Sale!Next
    <3>6. CASE lot.state = "Held" /\ lot'.state = "Live"
               /\ lot'.course.removed = lot.course.removed
      <4>1. Sale!Resume
        BY <1>1, <1>4, <3>1, <3>2, <3>6 DEF Sale!Resume, Sale!Kept, Silent
      <4> QED BY <4>1 DEF Sale!Next
    <3> QED BY <1>4, <2>2, <3>1, <3>3, <3>4, <3>5, <3>6, TradeSteps
  <2> QED BY <2>1, <2>2 DEF Sale!Next
<1> QED BY <1>2, <1>3, <1>4

(* What a lot promises to whoever watches it (module AscendingSale), where *)
(* every sum leaves room for a step.                                       *)
THEOREM AnAscendingSale ==
  ASSUME SumsLeaveRoom
  PROVE  Spec => IsAnAscendingSale
<1>1. Init => Sale!Init
  BY DEF Init, Blank, NoCourse, Trading, Sale!Init
<1>2. IInv /\ IInv' /\ Unopened /\ [Next]_vars => [Sale!Next]_(Sale!vars)
  BY SaleSteps
<1> QED BY <1>1, <1>2, InvariantHolds, UnopenedHolds, PTL
       DEF Spec, IsAnAscendingSale, Sale!Spec

-----------------------------------------------------------------------------
(* Whose limit is the strongest.                                           *)

(* No two limits are of one event.                                         *)
Distinct(l) ==
  \A p, q \in Active(l) : p # q => l.limits[p].setSeq # l.limits[q].setSeq

(* No limit is of an event still to come, so that the next is of its own.  *)
SeqsStand == Distinct(lot) /\ \A p \in Participants : lot.limits[p].setSeq <= sequence

LEMMA LimitParts ==
  ASSUME NEW l \in LotRecord, NEW p \in Participants
  PROVE  /\ l.limits[p] \in Limit /\ l.limits[p].max \in Money /\ l.limits[p].max \in Int
         /\ l.limits[p].setSeq \in Nat /\ l.limits[p].setSeq <= MaxSequence
<1>1. l.limits[p] \in Limit
  BY DEF LotRecord
<1>2. l.limits[p].max \in Sums /\ l.limits[p].setSeq \in 0 .. MaxSequence
  BY <1>1 DEF Limit
<1>3. l.limits[p].max \in Money /\ l.limits[p].max \in Int
  BY <1>2, SumsFacts
<1>4. l.limits[p].setSeq \in Nat /\ l.limits[p].setSeq <= MaxSequence
  BY <1>2, TimeAssumption
<1> QED BY <1>1, <1>3, <1>4

(* Of limits of different events one is stronger than all the others: the  *)
(* earliest of the highest.                                                *)
LEMMA StrongestExists ==
  ASSUME NEW l \in LotRecord, Distinct(l), NEW set, set \subseteq Active(l), set # {}
  PROVE  /\ Strongest(l, set) \in set
         /\ \A q \in set \ {Strongest(l, set)} :
              Stronger(l.limits[Strongest(l, set)], l.limits[q])
<1>1. set \subseteq Participants
  BY DEF Active
<1> DEFINE Gap(p) == MoneyMax - l.limits[p].max
           gaps == {Gap(p) : p \in set}
<1>2. \A p \in set : Gap(p) \in Nat
  BY <1>1, LimitParts, MoneyMaxAssumption DEF Money
<1>3. gaps \subseteq Nat /\ gaps # {}
  BY <1>2
<1>4. PICK gap \in gaps : \A other \in gaps : gap <= other
  <2> HIDE DEF gaps
  <2> QED BY <1>3, LeastNatural
<1> DEFINE high == {p \in set : Gap(p) = gap}
           events == {l.limits[p].setSeq : p \in high}
<1>5. high # {} /\ high \subseteq set
  BY <1>4
<1>6. \A p \in high, q \in set : /\ l.limits[p].max >= l.limits[q].max
                                 /\ q \notin high => l.limits[p].max > l.limits[q].max
  <2> TAKE p \in high, q \in set
  <2>1. Gap(p) <= Gap(q) /\ (q \notin high => Gap(p) # Gap(q))
    BY <1>4
  <2>2. l.limits[p].max \in Int /\ l.limits[q].max \in Int /\ MoneyMax \in Int
    BY <1>1, <1>5, LimitParts, MoneyMaxAssumption
  <2>3. MoneyMax - l.limits[p].max <= MoneyMax - l.limits[q].max
        /\ (q \notin high => MoneyMax - l.limits[p].max # MoneyMax - l.limits[q].max)
    BY <2>1
  <2> HIDE DEF high, Gap
  <2> QED BY <2>2, <2>3
<1> HIDE DEF high, Gap, gaps
<1>7. events \subseteq Nat /\ events # {}
  BY <1>1, <1>5, LimitParts
<1>8. PICK event \in events : \A other \in events : event <= other
  <2> HIDE DEF events
  <2> QED BY <1>7, LeastNatural
<1>9. PICK first \in high : l.limits[first].setSeq = event
  BY <1>8
<1>10. ASSUME NEW q \in set \ {first}
       PROVE  Stronger(l.limits[first], l.limits[q])
  <2>1. CASE q \notin high
    BY <1>5, <1>6, <2>1 DEF Stronger
  <2>2. CASE q \in high
    <3>1. l.limits[first].max >= l.limits[q].max /\ l.limits[q].max >= l.limits[first].max
      BY <1>5, <1>6, <2>2
    <3>2. l.limits[first].max \in Int /\ l.limits[q].max \in Int
          /\ l.limits[first].setSeq \in Int /\ l.limits[q].setSeq \in Int
      BY <1>1, <1>5, <2>2, LimitParts
    <3>3. l.limits[first].setSeq <= l.limits[q].setSeq
      BY <1>8, <1>9, <2>2
    <3>4. l.limits[first].setSeq # l.limits[q].setSeq
      BY <1>5 DEF Distinct
    <3> QED BY <3>1, <3>2, <3>3, <3>4 DEF Stronger
  <2> QED BY <2>1, <2>2
<1> DEFINE top == {p \in set : \A q \in set \ {p} : Stronger(l.limits[p], l.limits[q])}
<1>11. first \in top
  BY <1>5, <1>10
<1>12. (CHOOSE p \in top : TRUE) \in top
  <2> HIDE DEF top
  <2> QED BY <1>11
<1>13. Strongest(l, set) \in top
  BY <1>11, <1>12 DEF Strongest
<1> QED BY <1>13

(* The strongest rival, the one behind it, and everybody else below both.  *)
LEMMA RivalFacts ==
  ASSUME NEW l \in LotRecord, Distinct(l),
         NEW rival, rival = Strongest(l, Active(l) \ {l.leader})
  PROVE  /\ rival = NoOne => Active(l) \subseteq {l.leader}
         /\ rival # NoOne =>
              /\ rival \in Active(l) /\ rival # l.leader /\ rival \in Participants
              /\ RunnerUp(l) <= l.limits[rival].max
              /\ \A p \in Active(l) \ {l.leader} : l.limits[p].max <= l.limits[rival].max
              /\ \A p \in Active(l) \ {l.leader, rival} : l.limits[p].max <= RunnerUp(l)
<1> DEFINE rivals == Active(l) \ {l.leader}
           others == rivals \ {rival}
           second == Strongest(l, others)
<1>1. Active(l) \subseteq Participants /\ NoOne \notin Active(l)
  BY NoOneAssumption DEF Active
<1>2. \A p \in Participants : /\ l.limits[p] \in Limit /\ l.limits[p].max \in Int
                              /\ l.limits[p].max >= -MoneyMax - 1
  BY LimitParts, MoneyMaxAssumption DEF Money
<1>3. CASE rivals = {}
  <2>1. rival = NoOne
    BY <1>3, StrongestMember
  <2> QED BY <1>3, <2>1
<1>4. CASE rivals # {}
  <2>1. /\ rival \in rivals
        /\ \A q \in rivals \ {rival} : Stronger(l.limits[rival], l.limits[q])
    <3> HIDE DEF rivals
    <3>1. rivals \subseteq Active(l)
      BY DEF rivals
    <3>2. rival = Strongest(l, rivals)
      BY DEF rivals
    <3> QED BY <1>4, <3>1, <3>2, StrongestExists
  <2>2. rival # NoOne /\ rival \in Participants
    BY <1>1, <2>1
  <2>3. \A p \in rivals : l.limits[p].max <= l.limits[rival].max
    <3> TAKE p \in rivals
    <3>1. p \in Participants
      BY <1>1
    <3>2. CASE p = rival
      BY <1>2, <3>1, <3>2
    <3>3. CASE p # rival
      <4>1. Stronger(l.limits[rival], l.limits[p])
        BY <2>1, <3>3
      <4> QED BY <1>2, <2>2, <3>1, <4>1, StrengthOrder
    <3> QED BY <3>2, <3>3
  <2>4. RunnerUp(l) = IF second = NoOne THEN -MoneyMax - 1 ELSE l.limits[second].max
    BY DEF RunnerUp
  <2>5. CASE others = {}
    <3>1. second = NoOne
      BY <2>5, StrongestMember
    <3>2. RunnerUp(l) = -MoneyMax - 1
      BY <2>4, <3>1
    <3> QED BY <1>2, <2>1, <2>2, <2>3, <2>5, <3>2
  <2>6. CASE others # {}
    <3>1. /\ second \in others
          /\ \A q \in others \ {second} : Stronger(l.limits[second], l.limits[q])
      <4> HIDE DEF others
      <4>1. others \subseteq Active(l)
        BY DEF others
      <4> QED BY <2>6, <4>1, StrongestExists
    <3>2. second # NoOne /\ second \in Participants
      BY <1>1, <3>1
    <3>3. RunnerUp(l) = l.limits[second].max
      BY <2>4, <3>2
    <3>4. \A p \in others : l.limits[p].max <= l.limits[second].max
      <4> TAKE p \in others
      <4>1. p \in Participants
        BY <1>1
      <4>2. CASE p = second
        BY <1>2, <4>1, <4>2
      <4>3. CASE p # second
        <5>1. Stronger(l.limits[second], l.limits[p])
          BY <3>1, <4>3
        <5> QED BY <1>2, <3>2, <4>1, <5>1, StrengthOrder
      <4> QED BY <4>2, <4>3
    <3>5. l.limits[second].max <= l.limits[rival].max
      BY <2>3, <3>1
    <3> HIDE DEF second
    <3> QED BY <2>1, <2>2, <2>3, <3>3, <3>4, <3>5
  <2> QED BY <2>5, <2>6
<1> QED BY <1>3, <1>4

(* The journal only grows, and by an event at least for a limit.           *)
LEMMA JournalGrows ==
  ASSUME IInv, [Next]_vars
  PROVE  /\ sequence \in Nat /\ sequence' \in Nat /\ sequence' >= sequence
         /\ \A p, max : SetProxyLimit(p, max) => sequence' > sequence
<1>1. sequence \in Nat
  BY TimeAssumption DEF IInv, ClockOK
<1>2. \A condition : One(condition) \in Nat
  BY OneType
<1>3. ASSUME NEW p, NEW max, SetProxyLimit(p, max)
      PROVE  sequence' \in Nat /\ sequence' > sequence
  <2>1. \E bids, extends : sequence' = sequence + (1 + One(bids) + One(extends))
    BY <1>3 DEF SetProxyLimit, Record
  <2>2. PICK bids, extends : sequence' = sequence + (1 + One(bids) + One(extends))
    BY <2>1
  <2>3. One(bids) \in Nat /\ One(extends) \in Nat
    BY <1>2
  <2> QED BY <1>1, <2>2, <2>3
<1>4. ASSUME NEW p, NEW amount, NEW source, PlaceBid(p, amount, source)
      PROVE  sequence' \in Nat /\ sequence' >= sequence
  <2>1. \E bids, extends : sequence' = sequence + (1 + One(bids) + One(extends))
    BY <1>4 DEF PlaceBid, Record
  <2>2. PICK bids, extends : sequence' = sequence + (1 + One(bids) + One(extends))
    BY <2>1
  <2>3. One(bids) \in Nat /\ One(extends) \in Nat
    BY <1>2
  <2> QED BY <1>1, <2>2, <2>3
<1>5. ASSUME \/ \E p \in Participants : RemoveParticipant(p)
             \/ ResumeLot
             \/ \E ask \in Asks : AdvanceAsk(ask)
      PROVE  sequence' \in Nat /\ sequence' >= sequence
  <2>1. \E events : sequence' = sequence + (1 + One(events)) 
    BY <1>5 DEF RemoveParticipant, RecordRemoval, ResumeLot, AdvanceAsk, Record
  <2>2. PICK events : sequence' = sequence + (1 + One(events))
    BY <2>1
  <2>3. One(events) \in Nat
    BY <1>2
  <2> QED BY <1>1, <2>2, <2>3
<1>6. ASSUME \/ DraftLot
             \/ \E price \in StartingPrices, config \in Configs : ScheduleLot(price, config)
             \/ \E deadline \in Deadlines, windows \in OpeningWindows :
                  OpenLot(deadline, windows)
             \/ \E p \in Participants : WithdrawProxyLimit(p)
             \/ CloseByDeadline \/ CloseByAuctioneer \/ MarkForFinal \/ UnmarkForFinal
             \/ WithdrawLot
             \/ \E window \in LaunchedWindows : AddStepWindow(window)
             \/ \E window \in PeriodWindows : SetPeriodWindow(window)
             \/ \E window \in PeriodWindows : ClearPeriodWindow(window.period)
      PROVE  sequence' = sequence + 1
  BY <1>6 DEF DraftLot, ScheduleLot, OpenLot, WithdrawProxyLimit, CloseByDeadline,
              CloseByAuctioneer, MarkForFinal, UnmarkForFinal, WithdrawLot, AddStepWindow,
              SetPeriodWindow, ClearPeriodWindow, Record
<1>7. Tick \/ UNCHANGED vars => sequence' = sequence
  BY DEF Tick, vars
<1> QED BY <1>1, <1>3, <1>4, <1>5, <1>6, <1>7 DEF Next

(* What a step may do to the limits.                                       *)
LEMMA LimitsSteps ==
  ASSUME IInv, [Next]_vars
  PROVE  \/ lot'.limits = lot.limits
         \/ lot'.limits = NoLimits
         \/ \E p \in Participants : lot'.limits = [lot.limits EXCEPT ![p] = NoLimit]
         \/ \E p \in Participants, max \in LimitAmounts :
              /\ SetProxyLimit(p, max)
              /\ lot'.limits =
                   [lot.limits EXCEPT ![p] = [max |-> max, setSeq |-> sequence + 1]]
<1> USE DEF Trading, Pursued
<1>1. lot \in LotRecord
  BY DEF IInv, LotOK
<1>2. \A state : Blank(state).limits = NoLimits
  BY DEF Blank
<1>3. CASE lot.state \notin Pursued
  <2>1. ASSUME NEW deadline \in Deadlines, NEW windows \in OpeningWindows,
               OpenLot(deadline, windows)
        PROVE  lot'.limits = lot.limits
    BY <1>1, <2>1 DEF OpenLot, Record, LotRecord
  <2>2. ASSUME NEW price \in StartingPrices, NEW config \in Configs,
               ScheduleLot(price, config)
        PROVE  lot'.limits = NoLimits
    BY <2>2 DEF ScheduleLot, Record, Blank
  <2>3. DraftLot => lot'.limits = NoLimits
    BY <1>2 DEF DraftLot, Record
  <2> QED BY <1>2, <1>3, <2>1, <2>2, <2>3, OutsideSteps
<1>4. CASE lot.state \in Pursued /\ lot'.state \notin Pursued
  <2>1. Closed.limits = NoLimits
    BY DEF Closed, Blank
  <2> QED BY <1>2, <1>4, <2>1, EndingSteps
<1>5. CASE lot.state \in Pursued /\ lot'.state \in Pursued
  <2>1. ASSUME NEW p \in Participants, NEW amount \in BidAmounts, NEW source,
               PlaceBid(p, amount, source)
        PROVE  lot'.limits = lot.limits
    <3> DEFINE k == Tabled(p, amount)
    <3>1. /\ Sound(k, lot.course.removed) /\ AnsweredBy(k)
          /\ SameTrade(Bidden(lot, BidOf(p, amount)), k)
      BY <2>1, PlaceBidKeeps
    <3>2. k.limits = lot.limits
      BY <1>1, <3>1 DEF SameTrade, Bidden, LotRecord
    <3> HIDE DEF k
    <3> QED BY <3>1, <3>2, AnsweredByFacts
  <2>2. ASSUME NEW p \in Participants, NEW max \in LimitAmounts, SetProxyLimit(p, max)
        PROVE  lot'.limits =
                 [lot.limits EXCEPT ![p] = [max |-> max, setSeq |-> sequence + 1]]
    <3> DEFINE k == Put(p, max)
    <3>1. /\ Sound(k, lot.course.removed) /\ (AnsweredBy(k) \/ lot' = k)
          /\ SameTrade(Limited(lot, p, max, sequence + 1), k)
      BY <2>2, SetProxyLimitKeeps
    <3>2. k.limits = [lot.limits EXCEPT ![p] = [max |-> max, setSeq |-> sequence + 1]]
      BY <1>1, <3>1 DEF SameTrade, Limited, LotRecord
    <3> HIDE DEF k
    <3> QED BY <3>1, <3>2, AnsweredByFacts
  <2>3. ASSUME NEW p \in Participants, WithdrawProxyLimit(p)
        PROVE  lot'.limits = [lot.limits EXCEPT ![p] = NoLimit]
    BY <1>1, <2>3, WithdrawProxyLimitKeeps DEF SameTrade, Unlimited, LotRecord
  <2>4. ASSUME NEW p \in Participants, RemoveParticipant(p)
        PROVE  lot'.limits = [lot.limits EXCEPT ![p] = NoLimit]
    BY <2>4, RemoveParticipantKeeps DEF Thinned
  <2>5. ASSUME ResumeLot
        PROVE  lot'.limits = lot.limits
    <3> DEFINE k == [lot EXCEPT !.state = "Live"]
    <3>1. Sound(k, lot.course.removed) /\ AnsweredBy(k)
      BY <2>5, ResumeLotKeeps
    <3>2. k.limits = lot.limits
      BY <1>1 DEF LotRecord
    <3> HIDE DEF k
    <3> QED BY <3>1, <3>2, AnsweredByFacts
  <2>6. ASSUME NEW ask \in Asks, AdvanceAsk(ask)
        PROVE  lot'.limits = lot.limits
    <3> DEFINE k == [lot EXCEPT !.ask = ask]
    <3>1. Sound(k, lot.course.removed) /\ (AnsweredBy(k) \/ lot' = k)
      BY <2>6, AdvanceAskKeeps
    <3>2. k.limits = lot.limits
      BY <1>1 DEF LotRecord
    <3> HIDE DEF k
    <3> QED BY <3>1, <3>2, AnsweredByFacts
  <2>7. Untouched => lot'.limits = lot.limits
    BY DEF Untouched
  <2> QED BY <1>5, <2>1, <2>2, <2>3, <2>4, <2>5, <2>6, <2>7, PursuedSteps
<1> QED BY <1>3, <1>4, <1>5

LEMMA SeqsStandKept == IInv /\ IInv' /\ SeqsStand /\ [Next]_vars => SeqsStand'
<1> SUFFICES ASSUME IInv, IInv', SeqsStand, [Next]_vars PROVE SeqsStand'
  OBVIOUS
<1>1. lot \in LotRecord /\ lot' \in LotRecord
  BY DEF IInv, LotOK
<1>2. \A p \in Participants : lot.limits[p].setSeq \in Nat /\ lot'.limits[p].setSeq \in Nat
  BY <1>1, LimitParts
<1>3. /\ sequence \in Nat /\ sequence' \in Nat /\ sequence' >= sequence
      /\ \A p, max : SetProxyLimit(p, max) => sequence' > sequence
  BY JournalGrows
<1>4. lot.limits \in [Participants -> Limit] /\ NoLimit.setSeq = 0
  BY <1>1 DEF LotRecord, NoLimit
<1>5. CASE lot'.limits = lot.limits
  BY <1>2, <1>3, <1>5 DEF SeqsStand, Distinct, Active
<1>6. CASE lot'.limits = NoLimits
  BY <1>3, <1>4, <1>6 DEF SeqsStand, Distinct, Active, NoLimits
<1>7. ASSUME NEW p \in Participants, lot'.limits = [lot.limits EXCEPT ![p] = NoLimit]
      PROVE  SeqsStand'
  <2>1. \A q \in Participants : lot'.limits[q] = IF q = p THEN NoLimit ELSE lot.limits[q]
    BY <1>4, <1>7
  <2>2. Distinct(lot')
    BY <2>1 DEF SeqsStand, Distinct, Active
  <2>3. \A q \in Participants : lot'.limits[q].setSeq <= sequence'
    BY <1>2, <1>3, <1>4, <2>1 DEF SeqsStand
  <2> QED BY <2>2, <2>3 DEF SeqsStand
<1>8. ASSUME NEW p \in Participants, NEW max \in LimitAmounts, SetProxyLimit(p, max),
             lot'.limits = [lot.limits EXCEPT ![p] = [max |-> max, setSeq |-> sequence + 1]]
      PROVE  SeqsStand'
  <2>1. \A q \in Participants :
          /\ q # p => lot'.limits[q] = lot.limits[q]
          /\ q = p => lot'.limits[q].setSeq = sequence + 1
    BY <1>4, <1>8
  <2>2. sequence' >= sequence + 1
    BY <1>3, <1>8
  <2>3. \A q \in Participants : q # p => lot'.limits[q].setSeq <= sequence
    BY <2>1 DEF SeqsStand
  <2>4. ASSUME NEW q \in Active(lot'), NEW r \in Active(lot'), q # r
        PROVE  lot'.limits[q].setSeq # lot'.limits[r].setSeq
    <3>1. q \in Participants /\ r \in Participants
      BY DEF Active
    <3>2. CASE q # p /\ r # p
      BY <2>1, <2>4, <3>1, <3>2 DEF SeqsStand, Distinct, Active
    <3>3. CASE q = p \/ r = p
      BY <1>2, <1>3, <2>1, <2>3, <2>4, <3>1, <3>3
    <3> QED BY <3>2, <3>3
  <2>5. \A q \in Participants : lot'.limits[q].setSeq <= sequence'
    BY <1>2, <1>3, <2>1, <2>2, <2>3
  <2> QED BY <2>4, <2>5 DEF SeqsStand, Distinct
<1> QED BY <1>5, <1>6, <1>7, <1>8, LimitsSteps

LEMMA SeqsStandHolds == Spec => []SeqsStand
<1>1. Init => SeqsStand
  BY DEF Init, Blank, SeqsStand, Distinct, Active, NoLimits, NoLimit
<1> QED BY <1>1, SeqsStandKept, InvariantHolds, PTL DEF Spec

-----------------------------------------------------------------------------
(* What the answer leaves unanswered.                                      *)

Settled(l) == \A p \in Active(l) \ {l.leader} : l.limits[p].max <= Floor(l)

(* Online one answer is enough: it reaches the second of the rivals it     *)
(* beats, and the one they have all lost to leads.                         *)
LEMMA OnlineAnswerSettles ==
  ASSUME NEW l, NEW out, Sound(l, out), Distinct(l), l.state = "Online", NEW at
  PROVE  Settled(Answered(l, at))
<1> DEFINE rival == Strongest(l, Active(l) \ {l.leader})
           f == LimitFloor(l, at)
           c == l.limits[rival].max
           target == OnlineTarget(l, at, rival)
           reaches == rival # NoOne /\ (c > f \/ (Opening(l) /\ c = f))
           answered == Answered(l, at)
<1>1. l \in LotRecord /\ l.config \in Configs
  BY DEF Sound
<1>2. \A p \in Active(l) : p \in Participants /\ l.limits[p].max \in Int
  BY <1>1, LimitParts DEF Active
<1>3. /\ f \in Int /\ Floor(l) \in Int /\ l.price \in Int /\ l.price <= Floor(l)
      /\ ~ Opening(l) => f = Floor(l)
      /\ f <= Floor(l)
  <2>1. OpeningPrice(l, at) \in Int /\ OpeningPrice(l, at) <= l.price
    BY <1>1, OpeningPriceRange
  <2> QED BY <1>1, <2>1, FloorRange
<1>4. Resolve(l, at) = IF ~ reaches \/ (~ Opening(l) /\ target <= f) THEN NoBid
                       ELSE BidOf(Winner(l, rival), target)
  BY DEF Resolve, ResolveOnline
<1>5. rival = NoOne => Active(l) \subseteq {l.leader}
  BY <1>1, RivalFacts
<1>6. rival # NoOne =>
        /\ rival \in Active(l) /\ rival # l.leader /\ rival \in Participants
        /\ RunnerUp(l) <= c
        /\ \A p \in Active(l) \ {l.leader} : l.limits[p].max <= c
        /\ \A p \in Active(l) \ {l.leader, rival} : l.limits[p].max <= RunnerUp(l)
  BY <1>1, RivalFacts
<1>7. reaches =>
        /\ target \in Int /\ target >= f
        /\ ~ Opening(l) => target > f
        /\ ~ LeaderHolds(l, rival) => target >= RunnerUp(l) \/ RunnerUp(l) > c
        /\ ~ LeaderHolds(l, rival) => target >= LeaderMax(l)
        /\ LeaderHolds(l, rival) => target >= c
  BY <1>1, <1>6, OnlineAnswer
<1>8. RunnerUp(l) \in Int /\ LeaderMax(l) \in Int
  BY <1>1, MaximaTypes, SumsFacts
<1>9. CASE ~ reaches
  <2>1. answered = l
    BY <1>4, <1>9 DEF Answered, AfterAnswer
  <2>2. CASE rival = NoOne
    BY <1>5, <2>1, <2>2 DEF Settled
  <2>3. CASE rival # NoOne /\ c <= f
    <3> HIDE DEF rival, c, f, reaches, answered
    <3>1. \A p \in Active(l) \ {l.leader} : l.limits[p].max <= Floor(l)
      <4>1. c \in Int
        BY <1>2, <1>6, <2>3 DEF c
      <4> QED BY <1>2, <1>3, <1>6, <2>3, <4>1
    <3> QED BY <2>1, <3>1 DEF Settled, answered
  <2>4. rival # NoOne => c \in Int
    BY <1>2, <1>6
  <2> HIDE DEF rival, c, f, answered
  <2> QED BY <1>3, <1>9, <2>2, <2>3, <2>4
<1>10. CASE reaches
  <2>1. Resolve(l, at) = BidOf(Winner(l, rival), target)
    <3> HIDE DEF rival, target, f, reaches
    <3> QED BY <1>3, <1>4, <1>7, <1>10
  <2>2. BidOf(Winner(l, rival), target) # NoBid
    <3>1. Winner(l, rival) # NoOne
      BY <1>6, <1>10, NoOneAssumption DEF Winner, LeaderHolds, Active
    <3> HIDE DEF rival, target
    <3> QED BY <3>1 DEF BidOf, NoBid
  <2>3. answered = Bidden(l, BidOf(Winner(l, rival), target))
    BY <2>1, <2>2 DEF Answered, AfterAnswer
  <2>4. /\ answered.leader = Winner(l, rival) /\ answered.price = target
        /\ answered.limits = l.limits /\ answered.ask = l.ask
    <3> HIDE DEF rival, target, answered
    <3> QED BY <1>1, <2>3 DEF Bidden, BidOf, LotRecord
  <2>5. Floor(answered) \in Int /\ Floor(answered) >= target
    <3>1. l.ask \in Int
      BY <1>1, AskType
    <3> HIDE DEF rival, target, answered
    <3> QED BY <1>7, <1>10, <2>4, <3>1 DEF Floor, AskAbovePrice
  <2>6. \A p \in Active(l) \ {Winner(l, rival)} : l.limits[p].max <= target
    <3> TAKE p \in Active(l) \ {Winner(l, rival)}
    <3>1. l.limits[p].max \in Int /\ c \in Int /\ target \in Int
      BY <1>2, <1>6, <1>7, <1>10
    <3>2. CASE LeaderHolds(l, rival)
      <4>1. p # l.leader
        BY <3>2 DEF Winner
      <4>2. l.limits[p].max <= c /\ target >= c
        BY <1>6, <1>7, <1>10, <3>2, <4>1
      <4> HIDE DEF rival, target, c
      <4> QED BY <3>1, <4>2
    <3>3. CASE ~ LeaderHolds(l, rival) /\ p = l.leader
      <4>1. LeaderMax(l) = l.limits[p].max /\ target >= LeaderMax(l)
        BY <1>7, <1>10, <3>3 DEF LeaderMax
      <4> HIDE DEF rival, target, c
      <4> QED BY <3>1, <4>1
    <3>4. CASE ~ LeaderHolds(l, rival) /\ p # l.leader
      <4>1. p # rival
        BY <3>4 DEF Winner
      <4>2. /\ l.limits[p].max <= RunnerUp(l)
            /\ RunnerUp(l) <= c
            /\ target >= RunnerUp(l) \/ RunnerUp(l) > c
        BY <1>6, <1>7, <1>10, <3>4, <4>1
      <4> HIDE DEF rival, target, c
      <4> QED BY <1>8, <3>1, <4>2
    <3> QED BY <3>2, <3>3, <3>4
  <2>7. target \in Int
    BY <1>7, <1>10
  <2>8. \A p \in Active(l) \ {Winner(l, rival)} : l.limits[p].max <= Floor(answered)
    <3> HIDE DEF rival, target, answered
    <3> QED BY <1>2, <2>5, <2>6, <2>7
  <2>9. Active(answered) = Active(l)
    BY <2>4 DEF Active
  <2> HIDE DEF rival, target, answered
  <2> QED BY <2>4, <2>8, <2>9 DEF Settled, answered
<1> QED BY <1>9, <1>10

(* A second rival above the floor is never left in an online week that     *)
(* nobody was removed from.                                                *)
LEMMA SettledKept ==
  IInv /\ IInv' /\ SeqsStand' /\ Unopened /\ ProxiesSettled /\ [Next]_vars => ProxiesSettled'
<1> SUFFICES ASSUME IInv, IInv', SeqsStand', Unopened, ProxiesSettled, [Next]_vars,
                    lot'.state = "Online", lot'.course.removed = {}
             PROVE  Settled(lot')
  BY DEF ProxiesSettled, Settled
<1> USE DEF Trading, Pursued
<1>1. lot \in LotRecord /\ lot' \in LotRecord /\ lot.course \in History
  BY DEF IInv, LotOK, LotRecord
<1>2. \A p \in Participants : lot.limits[p].max \in Int
  BY <1>1, LimitParts
<1>3. CASE lot.state \notin Pursued
  <2>1. \A state : Blank(state).state = state
    BY DEF Blank
  <2>2. ASSUME NEW price \in StartingPrices, NEW config \in Configs,
               ScheduleLot(price, config)
        PROVE  FALSE
    BY <2>2 DEF ScheduleLot, Record, Blank
  <2>3. DraftLot => FALSE
    BY <2>1 DEF DraftLot, Record
  <2>4. ASSUME NEW deadline \in Deadlines, NEW windows \in OpeningWindows,
               OpenLot(deadline, windows)
        PROVE  lot'.limits = NoLimits
    <3>1. lot.state = "Scheduled" /\ lot'.limits = lot.limits
      BY <1>1, <2>4 DEF OpenLot, Record, LotRecord
    <3>2. \A config, price :
            [Blank("Scheduled") EXCEPT !.config = config, !.price = price].limits = NoLimits
      BY DEF Blank
    <3>3. lot = [Blank("Scheduled") EXCEPT !.config = lot.config, !.price = lot.price]
      BY <3>1 DEF Unopened
    <3>4. lot.limits = NoLimits
      BY <3>2, <3>3
    <3> QED BY <3>1, <3>4
  <2>5. lot'.limits = NoLimits
    BY <1>3, <2>1, <2>2, <2>3, <2>4, OutsideSteps
  <2>6. Active(lot') = {}
    BY <2>5 DEF Active, NoLimits
  <2> QED BY <2>6 DEF Settled
<1>4. ASSUME NEW k, Sound(k, lot.course.removed), k.state = "Online", AnsweredBy(k)
      PROVE  Settled(lot')
  <2>1. /\ lot'.price = Answered(k, now).price /\ lot'.leader = Answered(k, now).leader
        /\ lot'.limits = k.limits /\ lot'.ask = k.ask
    BY <1>4, AnsweredByFacts DEF SameTerms
  <2>2. Answered(k, now).limits = k.limits /\ Answered(k, now).ask = k.ask
    BY <1>4, AnsweredKeeps DEF SameTerms, Sound
  <2>3. Distinct(k)
    BY <2>1 DEF SeqsStand, Distinct, Active
  <2>4. Settled(Answered(k, now))
    BY <1>4, <2>3, OnlineAnswerSettles
  <2> QED BY <2>1, <2>2, <2>4 DEF Settled, Active, Floor, AskAbovePrice
<1>5. ASSUME lot.state = "Online", lot.course.removed = {},
             Floor(lot') >= Floor(lot), lot'.leader = lot.leader,
             \A p \in Participants : lot'.limits[p] \in {lot.limits[p], NoLimit}
      PROVE  Settled(lot')
  <2>1. Floor(lot) \in Int /\ Floor(lot') \in Int
    BY <1>1, FloorRange
  <2>2. ASSUME NEW p \in Active(lot') \ {lot'.leader}
        PROVE  lot'.limits[p].max <= Floor(lot')
    <3>1. p \in Active(lot) \ {lot.leader} /\ lot'.limits[p] = lot.limits[p]
      BY <1>5 DEF Active
    <3>2. lot.limits[p].max <= Floor(lot)
      BY <1>5, <3>1 DEF ProxiesSettled
    <3>3. lot.limits[p].max \in Int
      BY <1>2, <3>1 DEF Active
    <3> QED BY <1>5, <2>1, <3>1, <3>2, <3>3
  <2> QED BY <2>2 DEF Settled
<1>6. CASE lot.state \in Pursued
  <2>1. ASSUME NEW p \in Participants, NEW amount \in BidAmounts, NEW source,
               PlaceBid(p, amount, source)
        PROVE  Settled(lot')
    <3> DEFINE k == Tabled(p, amount)
    <3>1. /\ Sound(k, lot.course.removed) /\ AnsweredBy(k) /\ SameTerms(lot, lot')
          /\ SameTerms(lot, k)
      BY <2>1, PlaceBidKeeps
    <3> HIDE DEF k
    <3> QED BY <1>4, <3>1 DEF SameTerms
  <2>2. ASSUME NEW p \in Participants, NEW max \in LimitAmounts, SetProxyLimit(p, max)
        PROVE  Settled(lot')
    <3> DEFINE k == Put(p, max)
    <3>1. /\ Sound(k, lot.course.removed) /\ SameTerms(lot, lot') /\ SameTerms(lot, k)
          /\ lot.state # "Held" => AnsweredBy(k)
      BY <2>2, SetProxyLimitKeeps
    <3> HIDE DEF k
    <3> QED BY <1>4, <3>1 DEF SameTerms
  <2>3. ASSUME NEW p \in Participants, WithdrawProxyLimit(p)
        PROVE  Settled(lot')
    <3>1. /\ SameTerms(lot, lot') /\ lot'.price = lot.price /\ lot'.leader = lot.leader
          /\ SameTrade(Unlimited(lot, p), lot')
      BY <2>3, WithdrawProxyLimitKeeps
    <3>2. lot'.limits = [lot.limits EXCEPT ![p] = NoLimit]
      BY <1>1, <3>1 DEF SameTrade, Unlimited, LotRecord
    <3>3. Floor(lot') = Floor(lot) /\ Floor(lot) \in Int
      BY <1>1, <3>1, FloorRange DEF SameTerms, Floor, AskAbovePrice
    <3>4. \A q \in Participants : lot'.limits[q] \in {lot.limits[q], NoLimit}
      BY <1>1, <3>2 DEF LotRecord
    <3>5. Floor(lot') >= Floor(lot)
      BY <3>3
    <3> QED BY <1>5, <3>1, <3>4, <3>5 DEF SameTerms
  <2>4. ASSUME NEW p \in Participants, RemoveParticipant(p) PROVE FALSE
    BY <1>1, <2>4, RemoveParticipantKeeps DEF Thinned, History
  <2>5. ASSUME ResumeLot PROVE FALSE
    <3> DEFINE k == [lot EXCEPT !.state = "Live"]
    <3>1. Sound(k, lot.course.removed) /\ AnsweredBy(k)
      BY <2>5, ResumeLotKeeps
    <3>2. k.state = "Live"
      BY <1>1 DEF LotRecord
    <3> HIDE DEF k
    <3> QED BY <3>1, <3>2, AnsweredByFacts DEF SameTerms
  <2>6. ASSUME NEW ask \in Asks, AdvanceAsk(ask)
        PROVE  Settled(lot')
    <3> DEFINE k == [lot EXCEPT !.ask = ask]
    <3>1. /\ k.state = lot.state /\ k.price = lot.price /\ k.leader = lot.leader
          /\ k.limits = lot.limits /\ k.ask = ask /\ k.course = lot.course
      BY <1>1 DEF LotRecord
    <3>2. /\ Sound(k, lot.course.removed) /\ ask > Floor(lot)
          /\ lot.state # "Live" => lot' = k
          /\ AnsweredBy(k) \/ lot' = k
      BY <2>6, AdvanceAskKeeps DEF AdvanceAsk
    <3> HIDE DEF k
    <3>3. lot' = k
      BY <3>1, <3>2, AnsweredByFacts DEF SameTerms
    <3>4. ask \in Int /\ Floor(lot) \in Int /\ Floor(lot') \in Int /\ lot.price \in Int
          /\ lot.price <= Floor(lot)
      BY <1>1, FloorRange, SumsFacts
    <3>5. Floor(lot') >= Floor(lot)
      <4>1. ask # NoAsk
        BY SumsFacts, MoneyMaxAssumption DEF NoAsk, Money
      <4>2. Floor(lot') = ask
        BY <3>1, <3>2, <3>3, <3>4, <4>1 DEF Floor, AskAbovePrice
      <4> QED BY <3>2, <3>4, <4>2
    <3> QED BY <1>5, <3>1, <3>3, <3>5
  <2>7. ASSUME Untouched PROVE Settled(lot')
    <3>1. Floor(lot') = Floor(lot) /\ Floor(lot) \in Int
      BY <1>1, <2>7, FloorRange DEF Untouched, Floor, AskAbovePrice
    <3>2. Floor(lot') >= Floor(lot)
      BY <3>1
    <3> QED BY <1>5, <2>7, <3>2 DEF Untouched
  <2> QED BY <1>6, <2>1, <2>2, <2>3, <2>4, <2>5, <2>6, <2>7, PursuedSteps
<1> QED BY <1>3, <1>6

(* Online no rival is left above the floor while nobody is removed: there  *)
(* is nothing for a second answer to find (Lot.rivals).                    *)
THEOREM LimitsAreSettled == Spec => []ProxiesSettled
<1>1. Init => ProxiesSettled
  BY DEF Init, Blank, ProxiesSettled
<1> QED BY <1>1, SettledKept, InvariantHolds, SeqsStandHolds, UnopenedHolds, PTL DEF Spec

-----------------------------------------------------------------------------
(* The grid of prices.                                                     *)

(* The first n steps of the grid from a price.                             *)
IsWalk(walk, policy, origin, n) ==
  /\ walk[0] = origin
  /\ \A i \in 1 .. n : walk[i] = walk[i - 1] + PolicyStep(policy, walk[i - 1])

LEMMA WalkExists ==
  ASSUME NEW policy, NEW origin, NEW n \in Nat
  PROVE  \E walk : IsWalk(walk, policy, origin, n)
<1> DEFINE T == {m \in 0 .. n : \E walk : IsWalk(walk, policy, origin, m)}
<1>1. 0 \in T
  <2> DEFINE first == [i \in 0 .. 0 |-> origin]
  <2>1. IsWalk(first, policy, origin, 0)
    BY DEF IsWalk
  <2> HIDE DEF first
  <2> QED BY <2>1
<1>2. ASSUME NEW m \in 1 .. n, m - 1 \in T
      PROVE  m \in T
  <2>1. PICK walk : IsWalk(walk, policy, origin, m - 1)
    BY <1>2
  <2> DEFINE end == walk[m - 1] + PolicyStep(policy, walk[m - 1])
             next == [i \in 0 .. m |-> IF i = m THEN end ELSE walk[i]]
  <2>2. next[0] = origin
    BY <2>1 DEF IsWalk
  <2>3. ASSUME NEW i \in 1 .. m
        PROVE  next[i] = next[i - 1] + PolicyStep(policy, next[i - 1])
    <3>1. i - 1 \in 0 .. m /\ i - 1 # m /\ i \in 0 .. m
      OBVIOUS
    <3>2. next[i - 1] = walk[i - 1]
      BY <3>1
    <3>3. CASE i = m
      <4>1. next[i] = end
        BY <3>1, <3>3
      <4> HIDE DEF next
      <4> QED BY <3>2, <3>3, <4>1
    <3>4. CASE i # m
      <4>1. i \in 1 .. (m - 1)
        BY <3>4
      <4>2. next[i] = walk[i]
        BY <3>1, <3>4
      <4>3. walk[i] = walk[i - 1] + PolicyStep(policy, walk[i - 1])
        BY <2>1, <4>1 DEF IsWalk
      <4> HIDE DEF next
      <4> QED BY <3>2, <4>2, <4>3
    <3> QED BY <3>3, <3>4
  <2>4. IsWalk(next, policy, origin, m)
    <3> HIDE DEF next
    <3> QED BY <2>2, <2>3 DEF IsWalk
  <2> HIDE DEF next
  <2> QED BY <2>4
<1>3. 0 .. n \subseteq T
  <2> HIDE DEF T
  <2> QED BY <1>1, <1>2, RunInduction
<1> QED BY <1>3

(* Two walks from the same price agree.                                    *)
LEMMA WalksAgree ==
  ASSUME NEW policy, NEW origin, NEW n \in Nat, NEW walk, NEW other,
         IsWalk(walk, policy, origin, n), IsWalk(other, policy, origin, n)
  PROVE  walk[n] = other[n]
<1> DEFINE T == {i \in 0 .. n : walk[i] = other[i]}
<1>1. 0 \in T
  BY DEF IsWalk
<1>2. ASSUME NEW i \in 1 .. n, i - 1 \in T
      PROVE  i \in T
  BY <1>2 DEF IsWalk
<1>3. 0 .. n \subseteq T
  <2> HIDE DEF T
  <2> QED BY <1>1, <1>2, RunInduction
<1> QED BY <1>3

LEMMA WalkPrefix ==
  ASSUME NEW policy, NEW origin, NEW n \in Nat, NEW walk, NEW m \in 0 .. n,
         IsWalk(walk, policy, origin, n)
  PROVE  IsWalk(walk, policy, origin, m)
<1>1. 1 .. m \subseteq 1 .. n
  OBVIOUS
<1> QED BY <1>1 DEF IsWalk

(* The points of OnGrid are the ends of walks.                             *)
LEMMA GridWalks ==
  ASSUME NEW policy, NEW origin \in Int, NEW sum \in Int
  PROVE  OnGrid(policy, origin, sum) <=>
           \E n \in 0 .. (sum - origin) : \E walk :
             IsWalk(walk, policy, origin, n) /\ walk[n] = sum
<1> DEFINE point[n \in Nat] ==
             IF n = 0 THEN origin
             ELSE LET before == point[n - 1] IN before + PolicyStep(policy, before)
           IsPoint(f) == f = [n \in Nat |-> IF n = 0 THEN origin
                              ELSE LET before == f[n - 1]
                                   IN  before + PolicyStep(policy, before)]
           Walk(n) == CHOOSE walk : IsWalk(walk, policy, origin, n)
           ends == [n \in Nat |-> Walk(n)[n]]
<1>1. \A n \in Nat : IsWalk(Walk(n), policy, origin, n)
  BY WalkExists
<1>2. \A n \in Nat : \A walk : IsWalk(walk, policy, origin, n) => walk[n] = Walk(n)[n]
  <2> TAKE n \in Nat
  <2> HIDE DEF Walk
  <2> TAKE walk
  <2> HAVE IsWalk(walk, policy, origin, n)
  <2> QED BY <1>1, WalksAgree
<1>3. IsPoint(ends)
  <2>1. ASSUME NEW n \in Nat
        PROVE  ends[n] = IF n = 0 THEN origin
                         ELSE LET before == ends[n - 1]
                              IN  before + PolicyStep(policy, before)
    <3> HIDE DEF Walk
    <3>1. CASE n = 0
      BY <1>1, <3>1 DEF IsWalk
    <3>2. CASE n # 0
      <4>1. n - 1 \in Nat /\ n \in 1 .. n /\ n - 1 \in 0 .. n
        BY <3>2
      <4>2. Walk(n)[n] = Walk(n)[n - 1] + PolicyStep(policy, Walk(n)[n - 1])
        BY <1>1, <4>1 DEF IsWalk
      <4>3. IsWalk(Walk(n), policy, origin, n - 1)
        BY <1>1, <4>1, WalkPrefix
      <4>4. Walk(n)[n - 1] = Walk(n - 1)[n - 1]
        BY <1>2, <4>1, <4>3
      <4>5. ends[n] = Walk(n)[n] /\ ends[n - 1] = Walk(n - 1)[n - 1]
        BY <4>1
      <4> HIDE DEF ends
      <4> QED BY <3>2, <4>2, <4>4, <4>5
    <3> QED BY <3>1, <3>2
  <2>2. ends = [n \in Nat |-> ends[n]]
    OBVIOUS
  <2> HIDE DEF ends
  <2> QED BY <2>1, <2>2
<1>4. IsPoint(CHOOSE f : IsPoint(f))
  <2> HIDE DEF IsPoint, ends
  <2> QED BY <1>3
<1>5. point = CHOOSE f : IsPoint(f)
  OBVIOUS
<1>6. IsPoint(point)
  <2> HIDE DEF IsPoint, point
  <2> QED BY <1>4, <1>5
<1>7. \A n \in Nat : IsWalk(point, policy, origin, n)
  <2> HIDE DEF point
  <2>1. \A n \in Nat : point[n] = IF n = 0 THEN origin
                                  ELSE point[n - 1] + PolicyStep(policy, point[n - 1])
    BY <1>6
  <2> QED BY <2>1 DEF IsWalk
<1>8. \A n \in Nat : \A walk : IsWalk(walk, policy, origin, n) => walk[n] = point[n]
  <2> HIDE DEF point, Walk
  <2> QED BY <1>2, <1>7
<1>9. OnGrid(policy, origin, sum) <=> \E n \in 0 .. (sum - origin) : point[n] = sum
  BY DEF OnGrid
<1>10. 0 .. (sum - origin) \subseteq Nat
  OBVIOUS
<1> HIDE DEF point
<1> QED BY <1>7, <1>8, <1>9, <1>10

(* The grid starts at its origin, goes on by the step of each of its       *)
(* points, and the grid from a point of it is a part of it.                *)
LEMMA GridFirst ==
  ASSUME NEW policy, NEW origin \in Int
  PROVE  OnGrid(policy, origin, origin)
<1>1. PICK walk : IsWalk(walk, policy, origin, 0)
  BY WalkExists, 0 \in Nat
<1>2. walk[0] = origin /\ 0 \in 0 .. (origin - origin)
  BY <1>1 DEF IsWalk
<1> QED BY <1>1, <1>2, GridWalks

LEMMA GridJoins ==
  ASSUME NEW policy, NEW origin \in Int, NEW between \in Int, NEW sum \in Int,
         OnGrid(policy, origin, between), OnGrid(policy, between, sum)
  PROVE  OnGrid(policy, origin, sum)
<1>1. PICK n \in 0 .. (between - origin) :
        \E walk : IsWalk(walk, policy, origin, n) /\ walk[n] = between
  BY GridWalks
<1>2. PICK m \in 0 .. (sum - between) :
        \E walk : IsWalk(walk, policy, between, m) /\ walk[m] = sum
  BY GridWalks
<1>3. n \in Nat /\ m \in Nat /\ n + m \in 0 .. (sum - origin) /\ n \in 0 .. (n + m)
  OBVIOUS
<1>4. PICK long : IsWalk(long, policy, origin, n + m)
  BY <1>3, WalkExists
<1>5. IsWalk(long, policy, origin, n)
  BY <1>3, <1>4, WalkPrefix
<1>6. long[n] = between
  BY <1>1, <1>3, <1>5, WalksAgree
<1> DEFINE tail == [j \in 0 .. m |-> long[n + j]]
<1>7. tail[0] = between /\ tail[m] = long[n + m]
  BY <1>3, <1>6
<1>8. ASSUME NEW j \in 1 .. m
      PROVE  tail[j] = tail[j - 1] + PolicyStep(policy, tail[j - 1])
  <2>1. n + j \in 1 .. (n + m) /\ (n + j) - 1 = n + (j - 1) /\ j - 1 \in 0 .. m
        /\ j \in 0 .. m
    BY <1>3
  <2>2. long[n + j] = long[n + (j - 1)] + PolicyStep(policy, long[n + (j - 1)])
    BY <1>4, <2>1 DEF IsWalk
  <2>3. tail[j] = long[n + j] /\ tail[j - 1] = long[n + (j - 1)]
    BY <2>1
  <2> HIDE DEF tail
  <2> QED BY <2>2, <2>3
<1>9. IsWalk(tail, policy, between, m)
  <2> HIDE DEF tail
  <2> QED BY <1>7, <1>8 DEF IsWalk
<1> HIDE DEF tail
<1>10. long[n + m] = sum
  BY <1>2, <1>3, <1>7, <1>9, WalksAgree
<1> QED BY <1>3, <1>4, <1>10, GridWalks

LEMMA GridNext ==
  ASSUME NEW policy, NEW origin \in Int, PolicyStep(policy, origin) \in Nat \ {0}
  PROVE  OnGrid(policy, origin, origin + PolicyStep(policy, origin))
<1>1. PICK walk : IsWalk(walk, policy, origin, 1)
  BY WalkExists, 1 \in Nat
<1>2. walk[0] = origin
  BY <1>1 DEF IsWalk
<1>3. walk[1] = walk[1 - 1] + PolicyStep(policy, walk[1 - 1])
  BY <1>1, 1 \in 1 .. 1 DEF IsWalk
<1>4. walk[1] = origin + PolicyStep(policy, origin)
  BY <1>2, <1>3
<1>5. 1 \in 0 .. ((origin + PolicyStep(policy, origin)) - origin)
  OBVIOUS
<1> QED BY <1>1, <1>4, <1>5, GridWalks

(* A target that is not below the origin is cut to the last point the grid *)
(* has up to it.                                                           *)
LEMMA GridFloorFacts ==
  ASSUME NEW policy, NEW origin \in Int, NEW target \in Int, target >= origin
  PROVE  LET point == GridFloor(policy, origin, target)
         IN  /\ point \in origin .. target
             /\ OnGrid(policy, origin, point)
             /\ \A other \in origin .. target :
                  OnGrid(policy, origin, other) => other <= point
<1> DEFINE points == Grid(policy, origin, target)
           largest == {sum \in points : \A other \in points : other <= sum}
           gaps == {target - sum : sum \in points}
<1>1. points \subseteq origin .. target /\ origin \in points
  BY GridFirst DEF Grid
<1>2. gaps \subseteq Nat /\ gaps # {}
  <2> HIDE DEF points
  <2> QED BY <1>1
<1>3. PICK gap \in gaps : \A other \in gaps : gap <= other
  <2> HIDE DEF gaps
  <2> QED BY <1>2, LeastNatural
<1>4. PICK sum \in points : gap = target - sum
  BY <1>3
<1>5. \A other \in points : other <= sum
  <2> HIDE DEF points
  <2> TAKE other \in points
  <2>1. target - sum <= target - other
    BY <1>3, <1>4
  <2> QED BY <1>1, <2>1
<1>6. sum \in largest
  BY <1>5
<1>7. (CHOOSE s \in largest : TRUE) \in largest
  <2> HIDE DEF largest
  <2> QED BY <1>6
<1>8. GridFloor(policy, origin, target) \in largest
  BY <1>6, <1>7 DEF GridFloor
<1> QED BY <1>1, <1>8 DEF Grid

(* The answer in the final is the last point of the grid up to the target. *)
LEMMA LiveAnswer ==
  ASSUME NEW l \in LotRecord, l.config \in Configs, l.state # "Online", NEW at,
         NEW rival, rival = Strongest(l, Active(l) \ {l.leader}),
         NEW point, point = GridFloor(l.config.stepPolicy, Floor(l), LiveTarget(l, rival)),
         Resolve(l, at) # NoBid
  PROVE  /\ rival # NoOne /\ rival \in Participants
         /\ Resolve(l, at) = BidOf(Winner(l, rival), point)
         /\ Answered(l, at) = Bidden(l, BidOf(Winner(l, rival), point))
         /\ LiveReaches(l, point)
         /\ LiveTarget(l, rival) \in Int
         /\ point \in Floor(l) .. LiveTarget(l, rival)
         /\ OnGrid(l.config.stepPolicy, Floor(l), point)
         /\ \A other \in Floor(l) .. LiveTarget(l, rival) :
              OnGrid(l.config.stepPolicy, Floor(l), other) => other <= point
<1>1. rival # NoOne /\ LiveReaches(l, point) /\ Resolve(l, at) = BidOf(Winner(l, rival), point)
  BY DEF Resolve, ResolveLive
<1>2. rival \in Participants
  BY <1>1, StrongestMember DEF Active
<1>3. LiveTarget(l, rival) \in Int
  BY <1>2, LiveTargetRange
<1>4. Floor(l) \in Int /\ l.price \in Int /\ l.ask \in Int
  BY AskType, FloorRange
<1>5. point \in (Floor(l) .. LiveTarget(l, rival)) \cup {Floor(l) - 1}
  BY <1>3, <1>4, GridFloorRange
<1>6. point # Floor(l) - 1
  <2>1. ~ LiveReaches(l, Floor(l) - 1)
    BY <1>4 DEF LiveReaches, Floor
  <2> QED BY <1>1, <2>1
<1>7. point \in Floor(l) .. LiveTarget(l, rival) /\ LiveTarget(l, rival) >= Floor(l)
  BY <1>3, <1>4, <1>5, <1>6
<1>8. /\ OnGrid(l.config.stepPolicy, Floor(l), point)
      /\ \A other \in Floor(l) .. LiveTarget(l, rival) :
           OnGrid(l.config.stepPolicy, Floor(l), other) => other <= point
  BY <1>3, <1>4, <1>7, GridFloorFacts
<1>9. Answered(l, at) = Bidden(l, BidOf(Winner(l, rival), point))
  BY <1>1 DEF Answered, AfterAnswer
<1> QED BY <1>1, <1>2, <1>3, <1>7, <1>8, <1>9

(* Whatever the limits answer in the final stays on the grid of the floor. *)
LEMMA LiveAnswerOnGrid ==
  ASSUME NEW l \in LotRecord, l.config \in Configs, l.state # "Online", NEW at,
         Resolve(l, at) # NoBid
  PROVE  /\ OnGrid(l.config.stepPolicy, Floor(l), Answered(l, at).price)
         /\ Answered(l, at).price \in Int /\ Answered(l, at).price >= Floor(l)
<1> DEFINE rival == Strongest(l, Active(l) \ {l.leader})
           point == GridFloor(l.config.stepPolicy, Floor(l), LiveTarget(l, rival))
<1>1. Floor(l) \in Int
  BY FloorRange
<1>2. /\ Answered(l, at) = Bidden(l, BidOf(Winner(l, rival), point))
      /\ LiveTarget(l, rival) \in Int
      /\ point \in Floor(l) .. LiveTarget(l, rival)
      /\ OnGrid(l.config.stepPolicy, Floor(l), point)
  BY LiveAnswer
<1> HIDE DEF rival, point
<1>3. Answered(l, at).price = point
  BY <1>2 DEF Bidden, BidOf, LotRecord
<1> QED BY <1>1, <1>2, <1>3

(* A manual bid in the final is the first price allowed: the announced one *)
(* or a step of the grid above the price.                                  *)
LEMMA LiveBidOnGrid ==
  ASSUME SumsLeaveRoom, NEW l \in LotRecord, l.config \in Configs, l.state = "Live", NEW at
  PROVE  /\ OnGrid(l.config.stepPolicy, Floor(l), MinRequired(l, at))
         /\ MinRequired(l, at) \in Int /\ MinRequired(l, at) >= Floor(l)
<1>1. /\ Floor(l) \in Int /\ l.price \in Int /\ l.price \in Money
      /\ AskAbovePrice(l) => Floor(l) = l.ask
      /\ ~ AskAbovePrice(l) => Floor(l) = l.price
  BY FloorRange, SumsFacts DEF LotRecord
<1>2. CASE AskAbovePrice(l)
  BY <1>1, <1>2, GridFirst DEF MinRequired
<1>3. CASE ~ AskAbovePrice(l) /\ Opening(l)
  <2>1. MinRequired(l, at) = l.price
    BY <1>3, OpeningPriceRange DEF MinRequired
  <2> QED BY <1>1, <1>3, <2>1, GridFirst
<1>4. CASE ~ AskAbovePrice(l) /\ ~ Opening(l)
  <2>1. MinRequired(l, at) = l.price + StepAt(l, l.price, at)
    BY <1>4, RequiredRange
  <2>2. ActiveWindows(l, at) = {}
    BY DEF ActiveWindows
  <2>3. StepAt(l, l.price, at) = PolicyStep(l.config.stepPolicy, l.price)
    BY <2>2 DEF StepAt, BaseStep
  <2>4. PolicyStep(l.config.stepPolicy, l.price) \in Nat \ {0}
    BY <1>1, PolicyStepType
  <2>5. OnGrid(l.config.stepPolicy, l.price, l.price + PolicyStep(l.config.stepPolicy, l.price))
    BY <1>1, <2>4, GridNext
  <2> QED BY <1>1, <1>4, <2>1, <2>3, <2>4, <2>5
<1> QED BY <1>2, <1>3, <1>4

(* I-18: every price of the final is one the auctioneer could have called, *)
(* the one with which the lot comes back from the hold included.           *)
THEOREM LivePricesOnTheGrid ==
  ASSUME SumsLeaveRoom
  PROVE  Spec => LiveBidsOnTheGrid
<1> DEFINE origin == Floor([lot EXCEPT !.ask = lot'.ask])
           Step == /\ lot.state \in {"Live", "Held"} /\ lot'.state = "Live"
                   /\ <<lot'.leader, lot'.price>> # <<lot.leader, lot.price>>
                   => OnGrid(lot.config.stepPolicy, origin, lot'.price)
<1>1. IInv /\ IInv' /\ [Next]_vars => [Step]_vars
  <2> SUFFICES ASSUME IInv, IInv', [Next]_vars, lot.state \in {"Live", "Held"},
                      lot'.state = "Live",
                      <<lot'.leader, lot'.price>> # <<lot.leader, lot.price>>
               PROVE  OnGrid(lot.config.stepPolicy, origin, lot'.price)
    OBVIOUS
  <2> USE DEF Trading, Pursued
  <2>1. /\ lot \in LotRecord /\ lot' \in LotRecord /\ lot.config \in Configs
        /\ lot.price \in Int /\ lot'.price \in Int /\ Floor(lot) \in Int
    BY FloorRange DEF IInv, LotOK, Configured
  <2>2. lot'.ask = lot.ask => origin = Floor(lot)
    BY <2>1 DEF Floor, AskAbovePrice, LotRecord
  <2>3. ASSUME NEW k, Sound(k, lot.course.removed), k.state = "Live", k.config = lot.config,
               AnsweredBy(k),
               <<k.leader, k.price>> = <<lot.leader, lot.price>>, Floor(k) = origin
        PROVE  OnGrid(lot.config.stepPolicy, origin, lot'.price)
    <3>1. lot'.price = Answered(k, now).price /\ lot'.leader = Answered(k, now).leader
      BY <2>3, AnsweredByFacts
    <3>2. Resolve(k, now) # NoBid
      BY <2>3, <3>1 DEF Answered, AfterAnswer
    <3> QED BY <2>3, <3>1, <3>2, LiveAnswerOnGrid DEF Sound
  <2>4. ASSUME NEW p \in Participants, NEW amount \in BidAmounts, NEW source,
               PlaceBid(p, amount, source)
        PROVE  OnGrid(lot.config.stepPolicy, origin, lot'.price)
    <3> DEFINE k == Tabled(p, amount)
    <3>1. /\ Sound(k, lot.course.removed) /\ SameTerms(lot, k) /\ SameTerms(lot, lot')
          /\ SameTrade(Bidden(lot, BidOf(p, amount)), k) /\ AnsweredBy(k)
      BY <2>4, PlaceBidKeeps
    <3>2. k.price = amount /\ k.leader = p
      BY <2>1, <3>1 DEF SameTrade, Bidden, BidOf, LotRecord
    <3> HIDE DEF k
    <3>3. amount = MinRequired(lot, now) /\ lot.state = "Live"
      BY <2>4 DEF PlaceBid, BidAccepted
    <3>4. /\ OnGrid(lot.config.stepPolicy, origin, amount)
          /\ amount \in Int /\ amount >= Floor(lot) /\ origin = Floor(lot)
      BY <2>1, <2>2, <3>1, <3>3, LiveBidOnGrid DEF SameTerms
    <3>5. /\ k.state = "Live" /\ k.config = lot.config /\ k.ask = lot.ask
          /\ k \in LotRecord /\ k.config \in Configs
      BY <3>1 DEF SameTerms, Sound
    <3>6. Floor(k) = amount
      <4>1. lot.ask \in Int
        BY <2>1, AskType
      <4> HIDE DEF origin
      <4> QED BY <2>1, <3>2, <3>4, <3>5, <4>1 DEF Floor, AskAbovePrice
    <3>7. lot'.price = Answered(k, now).price
      BY <3>1, AnsweredByFacts
    <3>8. CASE Resolve(k, now) = NoBid
      <4>1. lot'.price = amount
        BY <3>2, <3>7, <3>8 DEF Answered, AfterAnswer
      <4> QED BY <3>4, <4>1
    <3>9. CASE Resolve(k, now) # NoBid
      <4>1. OnGrid(lot.config.stepPolicy, amount, lot'.price)
        BY <3>5, <3>6, <3>7, <3>9, LiveAnswerOnGrid
      <4> HIDE DEF origin
      <4> QED BY <2>1, <3>4, <4>1, GridJoins
    <3> QED BY <3>8, <3>9
  <2>5. ASSUME NEW p \in Participants, NEW max \in LimitAmounts, SetProxyLimit(p, max)
        PROVE  OnGrid(lot.config.stepPolicy, origin, lot'.price)
    <3> DEFINE k == Put(p, max)
    <3>1. /\ Sound(k, lot.course.removed) /\ SameTerms(lot, k) /\ SameTerms(lot, lot')
          /\ SameTrade(Limited(lot, p, max, sequence + 1), k)
          /\ lot.state # "Held" => AnsweredBy(k)
      BY <2>5, SetProxyLimitKeeps
    <3>2. k.price = lot.price /\ k.leader = lot.leader
      BY <2>1, <3>1 DEF SameTrade, Limited, LotRecord
    <3> HIDE DEF k
    <3>3. Floor(k) = origin
      BY <2>2, <3>1, <3>2 DEF SameTerms, Floor, AskAbovePrice
    <3> HIDE DEF origin
    <3> QED BY <2>3, <3>1, <3>2, <3>3 DEF SameTerms
  <2>6. ASSUME NEW ask \in Asks, AdvanceAsk(ask)
        PROVE  OnGrid(lot.config.stepPolicy, origin, lot'.price)
    <3> DEFINE k == [lot EXCEPT !.ask = ask]
    <3>1. lot.state = "Live"
      BY <2>6 DEF AdvanceAsk
    <3>5. Sound(k, lot.course.removed) /\ AnsweredBy(k)
      BY <2>6, <3>1, AdvanceAskKeeps
    <3>2. /\ k.price = lot.price /\ k.leader = lot.leader /\ k.config = lot.config
          /\ k.state = lot.state /\ k.ask = ask
      BY <2>1 DEF LotRecord
    <3>3. lot'.ask = ask
      <4> HIDE DEF k
      <4> QED BY <3>2, <3>5, AnsweredByFacts DEF SameTerms
    <3>4. Floor(k) = origin
      BY <3>3
    <3> HIDE DEF k, origin
    <3> QED BY <2>3, <3>1, <3>2, <3>4, <3>5
  <2>7. ASSUME \/ \E p \in Participants : WithdrawProxyLimit(p)
               \/ \E p \in Participants : RemoveParticipant(p)
        PROVE  FALSE
    <3>1. \A p \in Participants : ~ WithdrawProxyLimit(p)
      BY WithdrawProxyLimitKeeps
    <3>2. \A p \in Participants : ~ RemoveParticipant(p)
      BY RemoveParticipantKeeps DEF RemoveParticipant
    <3> QED BY <2>7, <3>1, <3>2
  <2>8. ~ Untouched
    BY DEF Untouched
  <2>9. ASSUME ResumeLot PROVE OnGrid(lot.config.stepPolicy, origin, lot'.price)
    <3> DEFINE k == [lot EXCEPT !.state = "Live"]
    <3>1. Sound(k, lot.course.removed) /\ AnsweredBy(k)
      BY <2>9, ResumeLotKeeps
    <3>2. /\ k.price = lot.price /\ k.leader = lot.leader /\ k.config = lot.config
          /\ k.state = "Live" /\ k.ask = lot.ask
      BY <2>1 DEF LotRecord
    <3> HIDE DEF k
    <3>3. lot'.ask = lot.ask
      BY <3>1, <3>2, AnsweredByFacts DEF SameTerms
    <3>4. Floor(k) = origin
      BY <2>2, <3>2, <3>3 DEF Floor, AskAbovePrice
    <3> HIDE DEF origin
    <3> QED BY <2>3, <3>1, <3>2, <3>4
  <2> QED BY <2>4, <2>5, <2>6, <2>7, <2>8, <2>9, PursuedSteps
<1> QED BY <1>1, InvariantHolds, PTL DEF Spec, LiveBidsOnTheGrid

-----------------------------------------------------------------------------
(* A second answer in the final.                                           *)

(* Once the answer has been given, the highest limit behind the winner's   *)
(* is the highest the winner has beaten.                                   *)
LEMMA BeatenFacts ==
  ASSUME NEW l \in LotRecord, Distinct(l),
         NEW rival, rival = Strongest(l, Active(l) \ {l.leader}), rival # NoOne,
         ~ LeaderHolds(l, rival),
         NEW k \in LotRecord, k.limits = l.limits, k.leader = rival,
         NEW next, next = Strongest(k, Active(k) \ {rival}), next # NoOne
  PROVE  LET beaten == l.limits[next].max
         IN  /\ next \in Participants /\ next \in Active(l) /\ next # rival
             /\ LeaderHolds(k, next) /\ LeaderMax(k) = l.limits[rival].max
             /\ beaten >= LeaderMax(l) /\ beaten >= RunnerUp(l)
             /\ beaten = LeaderMax(l) \/ beaten = RunnerUp(l)
             /\ Opening(l) => beaten = RunnerUp(l)
<1> DEFINE beaten == l.limits[next].max
           second == Strongest(l, (Active(l) \ {l.leader}) \ {rival})
<1>1. Active(k) = Active(l) /\ Distinct(k) /\ Active(l) \subseteq Participants
  BY DEF Active, Distinct
<1>2. /\ next \in Active(l) /\ next # rival /\ next \in Participants
      /\ \A p \in Active(l) \ {rival} : l.limits[p].max <= beaten
  BY <1>1, RivalFacts
<1>3. /\ rival \in Active(l) /\ rival # l.leader /\ rival \in Participants
      /\ \A p \in Active(l) \ {l.leader, rival} : l.limits[p].max <= RunnerUp(l)
  BY RivalFacts
<1>4. \A p \in Participants : /\ l.limits[p] \in Limit /\ l.limits[p].max \in Int
                              /\ l.limits[p].max >= -MoneyMax - 1
  BY LimitParts, MoneyMaxAssumption DEF Money
<1>5. RunnerUp(l) \in Int /\ LeaderMax(l) \in Int
  BY MaximaTypes, SumsFacts
<1>6. LeaderHolds(k, next)
  <2>1. Stronger(l.limits[rival], l.limits[next])
    <3>1. CASE next = l.leader
      <4>1. ~ Stronger(l.limits[next], l.limits[rival])
        BY <1>2, <3>1 DEF LeaderHolds
      <4>2. l.limits[next].setSeq # l.limits[rival].setSeq
        BY <1>2, <1>3 DEF Distinct
      <4> QED BY <1>2, <1>3, <1>4, <4>1, <4>2, StrengthOrder
    <3>2. CASE next # l.leader
      <4>1. next \in (Active(l) \ {l.leader}) \ {rival}
        BY <1>2, <3>2
      <4> QED BY <1>3, <4>1, StrongestExists
    <3> QED BY <3>1, <3>2
  <2> QED BY <1>1, <1>3, <2>1 DEF LeaderHolds
<1>7. LeaderMax(k) = l.limits[rival].max
  BY <1>1, <1>3 DEF LeaderMax
<1>8. beaten >= LeaderMax(l)
  <2>1. CASE l.leader \in Active(l)
    BY <1>2, <1>3, <2>1 DEF LeaderMax
  <2>2. CASE l.leader \notin Active(l)
    BY <1>2, <1>4, <2>2 DEF LeaderMax
  <2> QED BY <2>1, <2>2
<1>9. beaten >= RunnerUp(l)
  <2>1. RunnerUp(l) = IF second = NoOne THEN -MoneyMax - 1 ELSE l.limits[second].max
    BY DEF RunnerUp
  <2>2. second \in ((Active(l) \ {l.leader}) \ {rival}) \cup {NoOne}
    BY StrongestMember
  <2> HIDE DEF second
  <2> QED BY <1>2, <1>4, <2>1, <2>2
<1>10. beaten = LeaderMax(l) \/ beaten = RunnerUp(l)
  <2>1. CASE next = l.leader
    BY <1>2, <2>1 DEF LeaderMax
  <2>2. CASE next # l.leader
    <3>1. beaten <= RunnerUp(l)
      BY <1>2, <1>3, <2>2
    <3> QED BY <1>2, <1>4, <1>5, <1>9, <3>1
  <2> QED BY <2>1, <2>2
<1>11. Opening(l) => beaten = RunnerUp(l)
  <2> SUFFICES ASSUME Opening(l) PROVE beaten = RunnerUp(l)
    OBVIOUS
  <2>1. next # l.leader
    BY <1>2, NoOneAssumption DEF Opening
  <2>2. beaten <= RunnerUp(l)
    BY <1>2, <1>3, <2>1
  <2> QED BY <1>2, <1>4, <1>5, <1>9, <2>2
<1> QED BY <1>2, <1>6, <1>7, <1>8, <1>9, <1>10, <1>11

(* Whatever is still above the price of the answer, its target is not      *)
(* above the target of the answer.                                         *)
LEMMA TargetFalls ==
  ASSUME NEW l \in LotRecord, l.config \in Configs, Distinct(l),
         NEW rival, rival = Strongest(l, Active(l) \ {l.leader}), rival # NoOne,
         NEW k \in LotRecord, k.config = l.config, k.limits = l.limits,
         k.leader = Winner(l, rival), k.price >= l.price,
         NEW next, next = Strongest(k, Active(k) \ {k.leader}), next # NoOne,
         l.limits[next].max > k.price
  PROVE  LiveTarget(k, next) <= LiveTarget(l, rival)
<1>1. Active(k) = Active(l)
  BY DEF Active
<1>2. LiveTarget(l, rival) \in Int
  BY LiveTargetRange, RivalFacts
<1>3. CASE LeaderHolds(l, rival)
  <2>1. k.leader = l.leader
    BY <1>3 DEF Winner
  <2>2. next = rival
    BY <1>1, <2>1 DEF Strongest
  <2>3. LeaderHolds(k, next) /\ LeaderMax(k) = LeaderMax(l)
    BY <1>1, <1>3, <2>1, <2>2 DEF LeaderHolds, LeaderMax
  <2>4. LiveTarget(k, next) = LiveTarget(l, rival)
    BY <1>3, <2>2, <2>3 DEF LiveTarget, BaseStep
  <2> QED BY <1>2, <2>4
<1>4. CASE ~ LeaderHolds(l, rival)
  <2> DEFINE Above(sum) == SaturatedPlus(sum, BaseStep(l, sum))
             beaten == l.limits[next].max
             c == l.limits[rival].max
             second == RunnerUp(l)
             step == IF Opening(l)
                     THEN IF second > l.price THEN Above(second) ELSE l.price
                     ELSE Above(Greater(Greater(l.price, LeaderMax(l)), second))
             dear == IF AskAbovePrice(l) THEN Greater(l.ask, step) ELSE step
  <2>1. k.leader = rival
    BY <1>4 DEF Winner
  <2>2. /\ next \in Participants /\ LeaderHolds(k, next) /\ LeaderMax(k) = c
        /\ beaten >= LeaderMax(l) /\ beaten >= second
        /\ beaten = LeaderMax(l) \/ beaten = second
        /\ Opening(l) => beaten = second
    BY <1>4, <2>1, BeatenFacts
  <2>3. /\ beaten \in Int /\ beaten \in Money /\ c \in Int /\ second \in Int
        /\ LeaderMax(l) \in Int /\ l.price \in Int /\ l.ask \in Int /\ k.price \in Int
    BY <2>2, AskType, LimitParts, MaximaTypes, RivalFacts, SumsFacts
  <2>4. beaten > l.price
    <3> HIDE DEF beaten
    <3>1. beaten > k.price
      BY DEF beaten
    <3> QED BY <2>3, <3>1
  <2>5. Above(beaten) \in Int
    BY <2>3, StepAtRange, SaturatedRange
  <2>6. step = Above(beaten)
    <3>1. CASE Opening(l)
      BY <2>2, <2>4, <3>1
    <3>2. CASE ~ Opening(l)
      <4>1. Greater(Greater(l.price, LeaderMax(l)), second) = beaten
        <5> HIDE DEF beaten, second
        <5> QED BY <2>2, <2>3, <2>4 DEF Greater
      <4> QED BY <3>2, <4>1
    <3> QED BY <3>1, <3>2
  <2>7. LiveTarget(k, next) = Lesser(c, Above(beaten))
    BY <2>2 DEF LiveTarget, BaseStep
  <2>8. LiveTarget(l, rival) = Lesser(c, dear)
    BY <1>4 DEF LiveTarget
  <2>9. dear \in Int /\ dear >= Above(beaten)
    <3> HIDE DEF step, Above, beaten
    <3> QED BY <2>3, <2>5, <2>6 DEF Greater
  <2> HIDE DEF dear, Above, beaten, c
  <2> QED BY <2>3, <2>5, <2>7, <2>8, <2>9 DEF Lesser
<1> QED BY <1>3, <1>4

(* One answer in the final leaves no bid for another.                      *)
LEMMA LiveAnswerSettles ==
  ASSUME NEW l \in LotRecord, l.config \in Configs, Distinct(l), l.state = "Live", NEW at,
         NEW k \in LotRecord, k.state = "Live", k.config = l.config, k.limits = l.limits,
         k.ask = l.ask, k.leader = Answered(l, at).leader, k.price = Answered(l, at).price,
         NEW later
  PROVE  Resolve(k, later) = NoBid
<1> DEFINE rival == Strongest(l, Active(l) \ {l.leader})
           policy == l.config.stepPolicy
           point == GridFloor(policy, Floor(l), LiveTarget(l, rival))
           next == Strongest(k, Active(k) \ {k.leader})
           again == GridFloor(policy, Floor(k), LiveTarget(k, next))
<1>1. Active(k) = Active(l)
  BY DEF Active
<1>2. CASE Resolve(l, at) = NoBid
  <2>1. k.leader = l.leader /\ k.price = l.price
    BY <1>2 DEF Answered, AfterAnswer
  <2>2. /\ Floor(k) = Floor(l) /\ AskAbovePrice(k) = AskAbovePrice(l)
        /\ Opening(k) = Opening(l) /\ LeaderMax(k) = LeaderMax(l) /\ next = rival
    BY <1>1, <2>1 DEF Floor, AskAbovePrice, Opening, LeaderMax, Strongest
  <2>3. RunnerUp(k) = RunnerUp(l)
    BY <1>1, <2>1 DEF RunnerUp, Strongest
  <2>4. \A p : LeaderHolds(k, p) = LeaderHolds(l, p)
    BY <1>1, <2>1 DEF LeaderHolds
  <2>5. LiveTarget(k, rival) = LiveTarget(l, rival)
    BY <2>1, <2>2, <2>3, <2>4 DEF LiveTarget, BaseStep
  <2>6. \A sum : LiveReaches(k, sum) = LiveReaches(l, sum)
    BY <2>1, <2>2 DEF LiveReaches
  <2>7. Resolve(l, at) = NoBid <=>
          \/ rival = NoOne
          \/ ~ LiveReaches(l, l.limits[rival].max)
          \/ ~ LiveReaches(l, point)
          \/ BidOf(Winner(l, rival), point) = NoBid
    BY DEF Resolve, ResolveLive
  <2>8. Resolve(k, later) = NoBid <=>
          \/ next = NoOne
          \/ ~ LiveReaches(k, k.limits[next].max)
          \/ ~ LiveReaches(k, again)
          \/ BidOf(Winner(k, next), again) = NoBid
    BY DEF Resolve, ResolveLive
  <2>9. again = point /\ Winner(k, next) = Winner(l, rival)
    BY <2>1, <2>2, <2>4, <2>5 DEF Winner
  <2> HIDE DEF rival, next, point, again
  <2> QED BY <1>2, <2>2, <2>6, <2>7, <2>8, <2>9
<1>3. CASE Resolve(l, at) # NoBid
  <2>1. /\ rival # NoOne /\ rival \in Participants
        /\ Answered(l, at) = Bidden(l, BidOf(Winner(l, rival), point))
        /\ LiveReaches(l, point)
        /\ LiveTarget(l, rival) \in Int
        /\ point \in Floor(l) .. LiveTarget(l, rival)
        /\ OnGrid(policy, Floor(l), point)
        /\ \A other \in Floor(l) .. LiveTarget(l, rival) :
             OnGrid(policy, Floor(l), other) => other <= point
    BY <1>3, LiveAnswer
  <2>2. k.leader = Winner(l, rival) /\ k.price = point
    <3> HIDE DEF rival, point
    <3> QED BY <2>1 DEF Bidden, BidOf, LotRecord
  <2>3. /\ Floor(l) \in Int /\ l.price \in Int /\ l.ask \in Int /\ l.price <= Floor(l)
        /\ point \in Int /\ point >= Floor(l) /\ point <= LiveTarget(l, rival)
    BY <2>1, AskType, FloorRange
  <2>4. k.leader # NoOne
    BY <2>1, <2>2, NoOneAssumption DEF Winner, LeaderHolds, Active
  <2>5. ~ AskAbovePrice(k) /\ Floor(k) = point /\ ~ Opening(k)
    <3>1. l.ask # NoAsk => l.ask <= point
      <4> HIDE DEF point
      <4> QED BY <2>1, <2>3 DEF LiveReaches, AskAbovePrice
    <3> HIDE DEF point
    <3> QED BY <2>2, <2>3, <2>4, <3>1 DEF AskAbovePrice, Floor, Opening
  <2>6. \A sum : LiveReaches(k, sum) <=> sum > point
    BY <2>2, <2>5 DEF LiveReaches
  <2>7. SUFFICES ASSUME Resolve(k, later) # NoBid PROVE FALSE
    OBVIOUS
  <2>8. next # NoOne /\ LiveReaches(k, k.limits[next].max)
    BY <2>7 DEF Resolve, ResolveLive
  <2>9. /\ LiveReaches(k, again)
        /\ LiveTarget(k, next) \in Int
        /\ again \in Floor(k) .. LiveTarget(k, next)
        /\ OnGrid(policy, Floor(k), again)
    BY <2>7, LiveAnswer
  <2>10. LiveTarget(k, next) <= LiveTarget(l, rival)
    <3>1. l.limits[next].max > k.price /\ k.price >= l.price
      BY <2>2, <2>3, <2>6, <2>8
    <3> HIDE DEF point, again, rival, next
    <3> QED BY <2>1, <2>2, <2>8, <3>1, TargetFalls DEF rival, next
  <2>11. again \in Int /\ again > point /\ again \in Floor(l) .. LiveTarget(l, rival)
    <3>1. again > point
      BY <2>6, <2>9
    <3> HIDE DEF point, again, rival, next
    <3> QED BY <2>1, <2>3, <2>5, <2>9, <2>10, <3>1
  <2>12. OnGrid(policy, Floor(l), again)
    <3> HIDE DEF point, again, rival, next, policy
    <3> QED BY <2>1, <2>3, <2>5, <2>9, <2>11, GridJoins
  <2> HIDE DEF point, again, rival, next
  <2> QED BY <2>1, <2>3, <2>11, <2>12
<1> QED BY <1>2, <1>3

(* In the final nothing is left to answer after any command but the        *)
(* withdrawal of a limit, whose answer is somebody's next command.         *)
THEOREM OneAnswerIsEnough == Spec => OneAnswerSettles
<1> DEFINE Step == lot' # lot /\ lot'.state = "Live" /\ last'.command # "WithdrawProxyLimit"
                   => Resolve(lot', now) = NoBid
<1>1. IInv /\ IInv' /\ SeqsStand' /\ [Next]_vars => [Step]_vars
  <2> SUFFICES ASSUME IInv, IInv', SeqsStand', [Next]_vars, lot' # lot, lot'.state = "Live",
                      last'.command # "WithdrawProxyLimit"
               PROVE  Resolve(lot', now) = NoBid
    OBVIOUS
  <2> USE DEF Trading, Pursued
  <2>1. lot \in LotRecord /\ lot' \in LotRecord
    BY DEF IInv, LotOK
  <2>2. ASSUME NEW k, Sound(k, lot.course.removed), AnsweredBy(k)
        PROVE  Resolve(lot', now) = NoBid
    <3>1. /\ SameTerms(k, lot') /\ lot'.limits = k.limits
          /\ lot'.price = Answered(k, now).price /\ lot'.leader = Answered(k, now).leader
      BY <2>2, AnsweredByFacts
    <3>2. Distinct(k)
      BY <3>1 DEF SeqsStand, Distinct, Active
    <3>3. k \in LotRecord /\ k.config \in Configs
      BY <2>2 DEF Sound
    <3>4. /\ k.state = "Live" /\ lot'.config = k.config /\ lot'.ask = k.ask
      BY <3>1 DEF SameTerms
    <3> QED BY <2>1, <3>1, <3>2, <3>3, <3>4, LiveAnswerSettles
  <2>3. CASE lot.state \notin Pursued
    <3>1. \A state : Blank(state).state = state
      BY DEF Blank
    <3>2. ASSUME NEW price \in StartingPrices, NEW config \in Configs,
                 ScheduleLot(price, config)
          PROVE  FALSE
      BY <3>2 DEF ScheduleLot, Record, Blank
    <3>3. ~ DraftLot
      BY <3>1 DEF DraftLot, Record
    <3>4. ASSUME NEW deadline \in Deadlines, NEW windows \in OpeningWindows,
                 OpenLot(deadline, windows)
          PROVE  FALSE
      BY <2>1, <3>4 DEF OpenLot, Record, LotRecord
    <3> QED BY <2>3, <3>1, <3>2, <3>3, <3>4, OutsideSteps
  <2>4. CASE lot.state \in Pursued
    <3>1. ASSUME NEW p \in Participants, NEW amount \in BidAmounts, NEW source,
                 PlaceBid(p, amount, source)
          PROVE  Resolve(lot', now) = NoBid
      BY <2>2, <3>1, PlaceBidKeeps
    <3>2. ASSUME NEW p \in Participants, NEW max \in LimitAmounts, SetProxyLimit(p, max)
          PROVE  Resolve(lot', now) = NoBid
      <4>1. lot.state # "Held"
        BY <3>2, SetProxyLimitKeeps DEF SameTerms
      <4> QED BY <2>2, <3>2, <4>1, SetProxyLimitKeeps
    <3>3. ASSUME NEW p \in Participants, WithdrawProxyLimit(p) PROVE FALSE
      BY <3>3, WithdrawProxyLimitKeeps
    <3>4. ASSUME NEW p \in Participants, RemoveParticipant(p) PROVE FALSE
      BY <3>4, RemoveParticipantKeeps DEF RemoveParticipant
    <3>5. ASSUME ResumeLot PROVE Resolve(lot', now) = NoBid
      BY <2>2, <3>5, ResumeLotKeeps
    <3>6. ASSUME NEW ask \in Asks, AdvanceAsk(ask)
          PROVE  Resolve(lot', now) = NoBid
      <4>1. CASE lot.state = "Live"
        BY <2>2, <3>6, <4>1, AdvanceAskKeeps
      <4>2. CASE lot.state # "Live"
        BY <2>1, <3>6, <4>2, AdvanceAskKeeps DEF LotRecord
      <4> QED BY <4>1, <4>2
    <3>7. ~ Untouched
      BY DEF Untouched
    <3> QED BY <2>4, <3>1, <3>2, <3>3, <3>4, <3>5, <3>6, <3>7, PursuedSteps
  <2> QED BY <2>3, <2>4
<1> QED BY <1>1, InvariantHolds, SeqsStandHolds, PTL DEF Spec, OneAnswerSettles

-----------------------------------------------------------------------------
(* The return of a held lot.                                               *)

(* The price a new winner has to outbid: the highest of the price of the   *)
(* lot and the limits left behind.                                         *)
Outbid(l) == Greater(Greater(l.price, LeaderMax(l)), RunnerUp(l))

LEMMA OutbidFacts ==
  ASSUME NEW l \in LotRecord, Distinct(l),
         NEW rival, rival = Strongest(l, Active(l) \ {l.leader}), rival # NoOne,
         ~ LeaderHolds(l, rival)
  PROVE  /\ Outbid(l) \in {l.price} \cup {l.limits[p].max : p \in Active(l) \ {rival}}
         /\ Outbid(l) \in Sums /\ Outbid(l) \in Int /\ l.price \in Int /\ l.price <= Outbid(l)
         /\ \A p \in Active(l) \ {rival} : l.limits[p].max <= Outbid(l)
         /\ Opening(l) => Outbid(l) = Greater(l.price, RunnerUp(l))
<1> DEFINE second == Strongest(l, (Active(l) \ {l.leader}) \ {rival})
<1>1. \A p \in Participants : /\ l.limits[p].max \in Sums /\ l.limits[p].max \in Int
                              /\ l.limits[p].max >= -MoneyMax - 1
  BY LimitParts, MoneyMaxAssumption DEF Money, Limit
<1>2. /\ l.price \in Sums /\ l.price \in Int /\ l.price >= -MoneyMax - 1
  <2>1. l.price \in Sums /\ l.price \in Money
    BY SumsFacts DEF LotRecord
  <2> QED BY <2>1, SumsFacts, MoneyMaxAssumption DEF Money
<1>3. Active(l) \subseteq Participants /\ NoOne \notin Active(l)
  BY NoOneAssumption DEF Active
<1>4. /\ rival \in Active(l) /\ rival # l.leader
      /\ \A p \in Active(l) \ {l.leader, rival} : l.limits[p].max <= RunnerUp(l)
  BY RivalFacts
<1>5. RunnerUp(l) \in Int /\ LeaderMax(l) \in Int
  BY MaximaTypes, SumsFacts
<1>6. \/ RunnerUp(l) = -MoneyMax - 1
      \/ \E p \in Active(l) \ {rival} : RunnerUp(l) = l.limits[p].max
  <2>1. RunnerUp(l) = IF second = NoOne THEN -MoneyMax - 1 ELSE l.limits[second].max
    BY DEF RunnerUp
  <2>2. second \in ((Active(l) \ {l.leader}) \ {rival}) \cup {NoOne}
    BY StrongestMember
  <2> HIDE DEF second
  <2> QED BY <2>1, <2>2
<1>7. \/ LeaderMax(l) = -MoneyMax - 1 /\ l.leader \notin Active(l)
      \/ l.leader \in Active(l) \ {rival} /\ LeaderMax(l) = l.limits[l.leader].max
  BY <1>4 DEF LeaderMax
<1>8. /\ Outbid(l) \in {l.price, LeaderMax(l), RunnerUp(l)} /\ Outbid(l) \in Int
      /\ l.price <= Outbid(l) /\ LeaderMax(l) <= Outbid(l) /\ RunnerUp(l) <= Outbid(l)
  BY <1>2, <1>5 DEF Outbid, Greater
<1>9. Outbid(l) \in {l.price} \cup {l.limits[p].max : p \in Active(l) \ {rival}}
  <2>1. CASE Outbid(l) = -MoneyMax - 1
    BY <1>2, <1>8, <2>1, MoneyMaxAssumption
  <2>2. CASE Outbid(l) # -MoneyMax - 1
    BY <1>6, <1>7, <1>8, <2>2
  <2> QED BY <2>1, <2>2
<1>10. Outbid(l) \in Sums
  BY <1>1, <1>2, <1>3, <1>9
<1>11. ASSUME NEW p \in Active(l) \ {rival} PROVE l.limits[p].max <= Outbid(l)
  <2>1. l.limits[p].max \in Int
    BY <1>1, <1>3
  <2>2. CASE p = l.leader
    BY <1>7, <1>8, <2>2
  <2>3. CASE p # l.leader
    <3>1. l.limits[p].max <= RunnerUp(l)
      BY <1>4, <2>3
    <3> QED BY <1>5, <1>8, <2>1, <3>1
  <2> QED BY <2>2, <2>3
<1>12. Opening(l) => Outbid(l) = Greater(l.price, RunnerUp(l))
  <2>1. Opening(l) => LeaderMax(l) = -MoneyMax - 1
    BY <1>3, <1>7 DEF Opening
  <2> QED BY <1>2, <1>5, <2>1, MoneyMaxAssumption DEF Outbid, Greater
<1> QED BY <1>2, <1>8, <1>9, <1>10, <1>11, <1>12

(* What the target of the answer is at most and at least, in a lot that    *)
(* has come back without an ask; `left` are the limits left behind.        *)
LEMMA ReturnTarget ==
  ASSUME NEW l \in LotRecord, l.config \in Configs, Distinct(l), l.state = "Live",
         l.ask = NoAsk,
         NEW rival, rival = Strongest(l, Active(l) \ {l.leader}), rival # NoOne,
         NEW left, left = Active(l) \ {Winner(l, rival)}
  PROVE  /\ LiveTarget(l, rival) \in Int
         /\ \A p \in left : l.limits[p].max \in Int /\ l.limits[p].max <= LiveTarget(l, rival)
         /\ \E base \in {l.price} \cup {l.limits[p].max : p \in left} :
              /\ base \in Int
              /\ LiveTarget(l, rival) <= base + PolicyStep(l.config.stepPolicy, base)
         /\ SumsLeaveRoom /\ StepsClimb /\ ~ Opening(l) =>
              \/ LiveTarget(l, rival) >= l.limits[rival].max
              \/ LiveTarget(l, rival) >= l.price + PolicyStep(l.config.stepPolicy, l.price)
<1> DEFINE c == l.limits[rival].max
           Step(sum) == PolicyStep(l.config.stepPolicy, sum)
           Above(sum) == SaturatedPlus(sum, BaseStep(l, sum))
           target == LiveTarget(l, rival)
<1>1. /\ rival \in Active(l) /\ rival # l.leader /\ rival \in Participants
      /\ RunnerUp(l) <= c
      /\ \A p \in Active(l) \ {l.leader} : l.limits[p].max <= c
  BY RivalFacts
<1>2. \A p \in Participants : /\ l.limits[p].max \in Sums /\ l.limits[p].max \in Int
                              /\ l.limits[p].max \in Money
  BY LimitParts DEF Limit
<1>3. target \in Int
  BY <1>1, LiveTargetRange
<1>4. Active(l) \subseteq Participants /\ l.price \in Sums /\ l.price \in Int /\ ~ AskAbovePrice(l)
  BY SumsFacts DEF Active, LotRecord, AskAbovePrice
<1>5. ASSUME NEW sum \in Sums
      PROVE  /\ sum \in Int /\ Step(sum) \in Nat \ {0} /\ Above(sum) \in Int
             /\ sum <= Above(sum) /\ Above(sum) <= sum + Step(sum)
             /\ SumsLeaveRoom => Above(sum) = sum + Step(sum)
  <2>1. sum \in Int /\ sum \in Money /\ sum <= MoneyMax /\ MoneyMax \in Int
    BY SumsFacts, MoneyMaxAssumption DEF Money
  <2>2. Step(sum) \in Nat \ {0}
    BY <2>1, PolicyStepType
  <2>3. SumsLeaveRoom => sum + Step(sum) <= MoneyMax
    BY DEF SumsLeaveRoom
  <2>4. Above(sum) = Lesser(sum + Step(sum), MoneyMax)
    BY DEF SaturatedPlus, BaseStep
  <2> HIDE DEF Step, Above
  <2> QED BY <2>1, <2>2, <2>3, <2>4 DEF Lesser
<1>6. CASE LeaderHolds(l, rival)
  <2>1. /\ left = Active(l) \ {l.leader} /\ rival \in left
        /\ LeaderMax(l) >= c /\ LeaderMax(l) \in Int
    BY <1>1, <1>6, LeaderHoldsFacts, MaximaTypes, SumsFacts DEF Winner
  <2>2. target = Lesser(LeaderMax(l), Above(c))
    BY <1>6 DEF LiveTarget
  <2>3. c \in Sums /\ c \in Int
    BY <1>1, <1>2
  <2> HIDE DEF c, target, Above, Step
  <2>4. /\ Above(c) \in Int /\ c <= Above(c) /\ Above(c) <= c + Step(c)
    BY <1>5, <2>3
  <2>5. target >= c /\ target <= c + Step(c)
    <3>1. Step(c) \in Nat
      BY <1>5, <2>3
    <3> QED BY <2>1, <2>2, <2>3, <2>4, <3>1 DEF Lesser
  <2>6. \A p \in left : l.limits[p].max \in Int /\ l.limits[p].max <= target
    <3> TAKE p \in left
    <3>1. l.limits[p].max \in Int /\ l.limits[p].max <= c
      BY <1>1, <1>2, <1>4, <2>1
    <3> QED BY <1>3, <2>3, <2>5, <3>1
  <2> QED BY <1>3, <2>1, <2>3, <2>5, <2>6 DEF c, target, Step
<1>7. CASE ~ LeaderHolds(l, rival)
  <2> DEFINE base == Outbid(l)
             step == IF Opening(l)
                     THEN IF RunnerUp(l) > l.price THEN Above(RunnerUp(l)) ELSE l.price
                     ELSE Above(base)
  <2>1. left = Active(l) \ {rival}
    BY <1>7 DEF Winner
  <2>2. /\ base \in {l.price} \cup {l.limits[p].max : p \in left}
        /\ base \in Sums /\ base \in Int /\ l.price <= base
        /\ \A p \in left : l.limits[p].max <= base
        /\ Opening(l) => base = Greater(l.price, RunnerUp(l))
    BY <1>7, <2>1, OutbidFacts
  <2>3. target = Lesser(c, step)
    BY <1>4, <1>7 DEF LiveTarget, Outbid
  <2>4. c \in Int /\ RunnerUp(l) \in Int /\ \A p \in left : l.limits[p].max <= c
    <3>1. \A p \in left : l.limits[p].max <= c
      <4> TAKE p \in left
      <4>1. CASE p # l.leader
        BY <1>1, <2>1, <4>1
      <4>2. CASE p = l.leader
        BY <1>1, <1>7, <2>1, <4>2, LeaderHoldsFacts DEF LeaderMax
      <4> QED BY <4>1, <4>2
    <3> QED BY <1>1, <1>2, <3>1, MaximaTypes, SumsFacts
  <2>5. /\ step \in Int /\ base <= step /\ step <= base + Step(base)
        /\ ~ Opening(l) => step = Above(base)
    <3>1. /\ Above(base) \in Int /\ base <= Above(base) /\ Above(base) <= base + Step(base)
          /\ Step(base) \in Nat
      BY <1>5, <2>2
    <3>2. CASE ~ Opening(l)
      BY <3>1, <3>2
    <3>3. CASE Opening(l) /\ RunnerUp(l) > l.price
      <4>1. base = RunnerUp(l)
        <5> HIDE DEF base
        <5> QED BY <1>4, <2>2, <2>4, <3>3 DEF Greater
      <4>2. step = Above(base)
        BY <3>3, <4>1
      <4> QED BY <3>1, <3>3, <4>2
    <3>4. CASE Opening(l) /\ ~ (RunnerUp(l) > l.price)
      <4>1. base = l.price /\ step = l.price
        <5>1. step = l.price
          BY <3>4
        <5> HIDE DEF base, step
        <5> QED BY <1>4, <2>2, <2>4, <3>4, <5>1 DEF Greater
      <4> HIDE DEF base, step, Step, Above
      <4> QED BY <1>4, <3>1, <3>4, <4>1
    <3> QED BY <3>2, <3>3, <3>4
  <2>6. SumsLeaveRoom /\ StepsClimb => Above(base) >= l.price + Step(l.price)
    <3> SUFFICES ASSUME SumsLeaveRoom, StepsClimb PROVE Above(base) >= l.price + Step(l.price)
      OBVIOUS
    <3>1. Above(base) = base + Step(base)
      BY <1>5, <2>2
    <3>2. l.price + Step(l.price) <= base + Step(base)
      BY <1>4, <2>2 DEF StepsClimb
    <3>3. Step(base) \in Nat /\ Step(l.price) \in Nat
      BY <1>4, <1>5, <2>2
    <3> HIDE DEF base, Step, Above
    <3> QED BY <1>4, <2>2, <3>1, <3>2, <3>3
  <2> HIDE DEF base, step, c, target, Above, Step
  <2>7. target <= base + Step(base) /\ (target >= c \/ target = step)
    <3>1. Step(base) \in Nat
      BY <1>5, <2>2
    <3> QED BY <2>2, <2>3, <2>4, <2>5, <3>1 DEF Lesser
  <2>8. \A p \in left : l.limits[p].max \in Int /\ l.limits[p].max <= target
    <3> TAKE p \in left
    <3>1. l.limits[p].max \in Int /\ l.limits[p].max <= c /\ l.limits[p].max <= base
      BY <1>2, <1>4, <2>1, <2>2, <2>4
    <3> QED BY <2>2, <2>3, <2>4, <2>5, <3>1 DEF Lesser
  <2>9. SumsLeaveRoom /\ StepsClimb /\ ~ Opening(l) =>
          target >= c \/ target >= l.price + Step(l.price)
    BY <2>5, <2>6, <2>7
  <2> QED BY <1>3, <2>2, <2>7, <2>8, <2>9 DEF c, target, Step
<1> QED BY <1>6, <1>7

(* While nobody leads, the strongest limit bids the price at least.        *)
LEMMA OpeningTarget ==
  ASSUME NEW l \in LotRecord, l.config \in Configs, l.ask = NoAsk, Opening(l),
         NEW rival \in Participants, l.limits[rival].max >= l.price
  PROVE  LiveTarget(l, rival) >= l.price
<1> DEFINE second == RunnerUp(l)
           Above(sum) == SaturatedPlus(sum, BaseStep(l, sum))
           next == IF second > l.price THEN Above(second) ELSE l.price
<1>1. l.price \in Int /\ second \in Int /\ second \in Money /\ l.limits[rival].max \in Int
  BY LimitParts, MaximaTypes, SumsFacts DEF LotRecord
<1>2. ~ LeaderHolds(l, rival) /\ ~ AskAbovePrice(l)
  BY NoOneAssumption DEF LeaderHolds, Opening, Active, AskAbovePrice
<1>3. LiveTarget(l, rival) = Lesser(l.limits[rival].max, next)
  BY <1>2 DEF LiveTarget
<1>4. Above(second) \in Int /\ Above(second) >= second
  BY <1>1, StepAtRange, SaturatedRange
<1> HIDE DEF second, Above
<1> QED BY <1>1, <1>3, <1>4 DEF Lesser

(* Nothing but the auctioneer's command brings a held lot back.            *)
LEMMA ReturnsByResume ==
  ASSUME IInv, [Next]_vars, lot.state = "Held", lot'.state = "Live"
  PROVE  ResumeLot
<1> USE DEF Trading, Pursued
<1>1. ASSUME NEW p \in Participants, NEW amount \in BidAmounts, NEW source,
             PlaceBid(p, amount, source)
      PROVE  FALSE
  BY <1>1 DEF PlaceBid
<1>2. ASSUME NEW p \in Participants, NEW max \in LimitAmounts, SetProxyLimit(p, max)
      PROVE  FALSE
  BY <1>2, SetProxyLimitKeeps DEF SameTerms
<1>3. ASSUME NEW p \in Participants, WithdrawProxyLimit(p) PROVE FALSE
  BY <1>3, WithdrawProxyLimitKeeps DEF SameTerms
<1>4. ASSUME NEW p \in Participants, RemoveParticipant(p) PROVE FALSE
  BY <1>4, RemoveParticipantKeeps DEF RemoveParticipant
<1>5. ASSUME NEW ask \in Asks, AdvanceAsk(ask) PROVE FALSE
  BY <1>5 DEF AdvanceAsk
<1>6. ~ Untouched
  BY DEF Untouched
<1> QED BY <1>1, <1>2, <1>3, <1>4, <1>5, <1>6, PursuedSteps

(* The answer to the return: the strongest limit takes the lot, nobody     *)
(* left behind could go on, at a step over what the winner had to outbid.  *)
ReturnDecided(l, k, at) ==
  LET behind == Active(l) \ {k.leader}
      bases  == {l.price} \cup {l.limits[p].max : p \in behind}
  IN  /\ <<k.leader, k.price>> # <<l.leader, l.price>> =>
           /\ k.leader \in Active(l)
           /\ \A p \in behind : Stronger(l.limits[k.leader], l.limits[p])
      /\ \A p \in behind : l.limits[p].max < MinRequired(k, at)
      /\ l.price <= k.price
      /\ \E base \in bases : k.price <= base + PolicyStep(l.config.stepPolicy, base)

LEMMA RequiredOnReturn ==
  ASSUME SumsLeaveRoom, NEW k \in LotRecord, k.config \in Configs, k.state = "Live",
         k.ask = NoAsk, NEW at
  PROVE  /\ k.price \in Int /\ Floor(k) = k.price
         /\ PolicyStep(k.config.stepPolicy, k.price) \in Nat \ {0}
         /\ Opening(k) => MinRequired(k, at) = k.price
         /\ ~ Opening(k) =>
              MinRequired(k, at) = k.price + PolicyStep(k.config.stepPolicy, k.price)
<1>1. k.price \in Money /\ k.price \in Int /\ ~ AskAbovePrice(k)
  BY SumsFacts DEF LotRecord, AskAbovePrice
<1>2. ActiveWindows(k, at) = {}
  BY DEF ActiveWindows
<1>3. StepAt(k, k.price, at) = PolicyStep(k.config.stepPolicy, k.price)
  BY <1>2 DEF StepAt, BaseStep
<1>4. PolicyStep(k.config.stepPolicy, k.price) \in Nat \ {0}
  BY <1>1, PolicyStepType
<1>5. Opening(k) => MinRequired(k, at) = k.price
  <2>1. OpeningPrice(k, at) = k.price
    BY <1>2 DEF OpeningPrice
  <2> QED BY <1>1, <2>1 DEF MinRequired
<1> QED BY <1>1, <1>3, <1>4, <1>5, RequiredRange DEF Floor

(* The strongest rival is stronger than all but the leader who is stronger *)
(* still; whoever of the two bids is so than all the others.               *)
LEMMA WinnerIsStrongest ==
  ASSUME NEW l \in LotRecord, Distinct(l),
         NEW rival, rival = Strongest(l, Active(l) \ {l.leader}), rival # NoOne
  PROVE  /\ Winner(l, rival) \in Active(l)
         /\ \A p \in Active(l) \ {Winner(l, rival)} :
              Stronger(l.limits[Winner(l, rival)], l.limits[p])
<1>1. rival \in Active(l) \ {l.leader}
  BY RivalFacts
<1>2. \A p \in (Active(l) \ {l.leader}) \ {rival} : Stronger(l.limits[rival], l.limits[p])
  BY <1>1, StrongestExists
<1>3. \A p \in Active(l) : l.limits[p] \in Limit
  BY LimitParts DEF Active
<1>4. CASE LeaderHolds(l, rival)
  <2>1. Winner(l, rival) = l.leader /\ l.leader \in Active(l)
        /\ Stronger(l.limits[l.leader], l.limits[rival])
    BY <1>4 DEF Winner, LeaderHolds
  <2>2. ASSUME NEW p \in Active(l) \ {l.leader}
        PROVE  Stronger(l.limits[l.leader], l.limits[p])
    <3>1. CASE p = rival
      BY <2>1, <3>1
    <3>2. CASE p # rival
      <4>1. Stronger(l.limits[rival], l.limits[p])
        BY <1>2, <3>2
      <4> QED BY <1>1, <1>3, <2>1, <4>1, StrengthOrder
    <3> QED BY <3>1, <3>2
  <2> QED BY <2>1, <2>2
<1>5. CASE ~ LeaderHolds(l, rival)
  <2>1. Winner(l, rival) = rival
    BY <1>5 DEF Winner
  <2>2. ASSUME NEW p \in Active(l) \ {rival}
        PROVE  Stronger(l.limits[rival], l.limits[p])
    <3>1. CASE p = l.leader
      <4>1. ~ Stronger(l.limits[p], l.limits[rival])
        BY <1>5, <3>1 DEF LeaderHolds
      <4>2. l.limits[p].setSeq # l.limits[rival].setSeq
        BY <1>1 DEF Distinct
      <4> QED BY <1>1, <1>3, <4>1, <4>2, StrengthOrder
    <3>2. CASE p # l.leader
      BY <1>2, <3>2
    <3> QED BY <3>1, <3>2
  <2> QED BY <1>1, <2>1, <2>2
<1> QED BY <1>4, <1>5

LEMMA ReturnIsDecided ==
  ASSUME SumsLeaveRoom, StepsClimb, NEW l, NEW out, Sound(l, out), Distinct(l),
         l.state = "Live", l.ask = NoAsk, NEW at
  PROVE  ReturnDecided(l, Answered(l, at), at)
<1> DEFINE rival == Strongest(l, Active(l) \ {l.leader})
           policy == l.config.stepPolicy
           c == l.limits[rival].max
           target == LiveTarget(l, rival)
           point == GridFloor(policy, Floor(l), target)
           k == Answered(l, at)
           Step(sum) == PolicyStep(policy, sum)
           behind == Active(l) \ {k.leader}
           bases == {l.price} \cup {l.limits[p].max : p \in behind}
           required == MinRequired(k, at)
<1>1. /\ l \in LotRecord /\ l.config \in Configs
      /\ k \in LotRecord /\ k.config = l.config /\ k.state = "Live" /\ k.ask = NoAsk
  BY AnsweredKeeps, AnsweredSound DEF Sound, SameTerms
<1>2. /\ l.price \in Int /\ Floor(l) = l.price /\ Step(l.price) \in Nat \ {0}
      /\ k.price \in Int /\ Step(k.price) \in Nat \ {0}
      /\ Opening(k) => required = k.price
      /\ ~ Opening(k) => required = k.price + Step(k.price)
  BY <1>1, RequiredOnReturn
<1>3. \A p \in Active(l) : p \in Participants /\ l.limits[p].max \in Int
  BY <1>1, LimitParts DEF Active
<1>4. rival # NoOne =>
        /\ rival \in Participants /\ c \in Int
        /\ \A p \in Active(l) \ {l.leader} : l.limits[p].max <= c
  BY <1>1, <1>3, RivalFacts
<1>5. rival # NoOne =>
        /\ target \in Int
        /\ \A p \in Active(l) \ {Winner(l, rival)} : l.limits[p].max <= target
        /\ \E base \in {l.price} \cup {l.limits[p].max : p \in Active(l) \ {Winner(l, rival)}} :
             base \in Int /\ target <= base + Step(base)
        /\ ~ Opening(l) => target >= c \/ target >= l.price + Step(l.price)
  BY <1>1, ReturnTarget
<1>6. CASE Resolve(l, at) = NoBid
  <2>1. k = l
    BY <1>6 DEF Answered, AfterAnswer
  <2>2. \E base \in bases : k.price <= base + Step(base)
    <3>1. l.price \in bases /\ k.price <= l.price + Step(l.price)
      BY <1>2, <2>1
    <3> HIDE DEF k, bases, Step
    <3> QED BY <3>1
  <2>3. ASSUME NEW p \in behind PROVE l.limits[p].max < required
    <3>1. rival # NoOne
      BY <1>1, <2>1, RivalFacts
    <3>2. l.limits[p].max \in Int /\ l.limits[p].max <= c /\ c \in Int
      BY <1>3, <1>4, <2>1, <3>1
    <3>3. LiveReaches(l, c) <=> c > l.price \/ (Opening(l) /\ c = l.price)
      BY <1>1 DEF LiveReaches, AskAbovePrice
    <3>4. CASE ~ LiveReaches(l, c)
      <4> HIDE DEF c, k, required, Step
      <4> QED BY <1>2, <2>1, <3>2, <3>3, <3>4
    <3>5. CASE LiveReaches(l, c)
      <4>1. Winner(l, rival) # NoOne
        BY <3>1, NoOneAssumption DEF Winner, LeaderHolds, Active
      <4>2. ~ LiveReaches(l, point)
        <5>1. BidOf(Winner(l, rival), point) # NoBid
          <6> HIDE DEF rival, point
          <6> QED BY <4>1 DEF BidOf, NoBid
        <5> QED BY <1>6, <3>1, <3>5, <5>1 DEF Resolve, ResolveLive
      <4>3. LiveReaches(l, point) <=> point > l.price \/ (Opening(l) /\ point = l.price)
        BY <1>1 DEF LiveReaches, AskAbovePrice
      <4>4. target >= l.price
        <5>1. CASE Opening(l)
          BY <1>1, <1>2, <3>1, <3>2, <3>3, <3>5, <5>1, RivalFacts, OpeningTarget
        <5>2. CASE ~ Opening(l)
          <6> HIDE DEF c, target, Step
          <6> QED BY <1>2, <1>5, <3>1, <3>2, <3>3, <3>5, <5>2
        <5> QED BY <5>1, <5>2
      <4>5. /\ point \in l.price .. target
            /\ \A other \in l.price .. target : OnGrid(policy, l.price, other) => other <= point
        BY <1>2, <1>5, <3>1, <4>4, GridFloorFacts
      <4>6. point = l.price /\ ~ Opening(l)
        <5> HIDE DEF point, target
        <5> QED BY <1>2, <1>5, <3>1, <4>2, <4>3, <4>5
      <4>7. required = l.price + Step(l.price)
        BY <1>2, <2>1, <4>6
      <4>8. OnGrid(policy, l.price, l.price + Step(l.price))
        BY <1>2, GridNext
      <4>9. ~ (l.price + Step(l.price) \in l.price .. target)
        <5> HIDE DEF point, target, Step
        <5> QED BY <1>2, <4>5, <4>6, <4>8
      <4> HIDE DEF c, target, Step, required, k
      <4> QED BY <1>2, <1>5, <3>1, <3>2, <4>6, <4>7, <4>9
    <3> QED BY <3>4, <3>5
  <2>4. l.price <= k.price /\ <<k.leader, k.price>> = <<l.leader, l.price>>
    <3> HIDE DEF k
    <3> QED BY <1>2, <2>1
  <2> HIDE DEF k, Step, required
  <2> QED BY <2>2, <2>3, <2>4 DEF ReturnDecided, k, Step, required
<1>7. CASE Resolve(l, at) # NoBid
  <2>1. /\ rival # NoOne
        /\ k = Bidden(l, BidOf(Winner(l, rival), point))
        /\ point \in l.price .. target
        /\ OnGrid(policy, l.price, point)
        /\ \A other \in l.price .. target : OnGrid(policy, l.price, other) => other <= point
    BY <1>1, <1>2, <1>7, LiveAnswer
  <2>2. k.leader = Winner(l, rival) /\ k.price = point
    <3> HIDE DEF rival, point
    <3> QED BY <1>1, <2>1 DEF Bidden, BidOf, LotRecord
  <2>3. ~ Opening(k)
    <3>1. Winner(l, rival) # NoOne
      BY <1>4, <2>1, NoOneAssumption DEF Winner, LeaderHolds, Active
    <3> QED BY <2>2, <3>1 DEF Opening
  <2>4. /\ k.leader \in Active(l)
        /\ \A p \in behind : Stronger(l.limits[k.leader], l.limits[p])
    BY <1>1, <2>1, <2>2, WinnerIsStrongest
  <2>5. required = point + Step(point) /\ Step(point) \in Nat \ {0}
    BY <1>2, <2>2, <2>3
  <2>6. OnGrid(policy, l.price, point + Step(point))
    <3>1. OnGrid(policy, point, point + Step(point))
      BY <1>2, <2>2, GridNext
    <3> HIDE DEF policy, point
    <3> QED BY <1>2, <2>1, <2>2, <2>5, <3>1, GridJoins
  <2>7. target < required /\ target \in Int /\ point \in Int /\ point <= target
        /\ l.price <= point
    <3>1. target \in Int
      BY <1>5, <2>1
    <3> HIDE DEF point, target, Step, required
    <3> QED BY <1>2, <2>1, <2>5, <2>6, <3>1
  <2>8. ASSUME NEW p \in behind PROVE l.limits[p].max < required
    <3>1. l.limits[p].max \in Int /\ l.limits[p].max <= target
      BY <1>3, <1>5, <2>1, <2>2
    <3> HIDE DEF point, target, Step, required
    <3> QED BY <2>5, <2>7, <3>1
  <2>9. \E base \in bases : k.price <= base + Step(base)
    <3>1. PICK base \in bases : base \in Int /\ target <= base + Step(base)
      BY <1>5, <2>1, <2>2
    <3>2. Step(base) \in Int
      <4>1. base \in Money
        BY <1>1, <3>1, LimitParts, SumsFacts DEF LotRecord, Active
      <4> QED BY <1>1, <4>1, PolicyStepType
    <3> HIDE DEF k, point, target, Step, bases
    <3> QED BY <2>2, <2>7, <3>1, <3>2
  <2>10. l.price <= k.price
    BY <2>2, <2>7
  <2> HIDE DEF k, Step, required
  <2> QED BY <2>4, <2>8, <2>9, <2>10 DEF ReturnDecided, k, Step, required
<1> QED BY <1>6, <1>7

(* I-17: the limits gathered while the lot was held decide its return.     *)
THEOREM ReturnIsForTheStrongest ==
  ASSUME SumsLeaveRoom, StepsClimb
  PROVE  Spec => HeldLimitsDecideTheReturn
<1> DEFINE behind == Active(lot) \ {lot'.leader}
           Step ==
             lot.state = "Held" /\ lot'.state = "Live" =>
               /\ lot'.limits = lot.limits
               /\ <<lot'.leader, lot'.price>> # <<lot.leader, lot.price>> =>
                    /\ lot'.leader \in Active(lot)
                    /\ \A p \in behind : Stronger(lot.limits[lot'.leader], lot.limits[p])
               /\ \A p \in behind : lot.limits[p].max < MinRequired(lot', now)
               /\ lot.price <= lot'.price
               /\ \E base \in {lot.price} \cup {lot.limits[p].max : p \in behind} :
                    lot'.price <= base + PolicyStep(lot.config.stepPolicy, base)
<1>1. IInv /\ SeqsStand /\ [Next]_vars => [Step]_vars
  <2> SUFFICES ASSUME IInv, SeqsStand, [Next]_vars, lot.state = "Held", lot'.state = "Live"
               PROVE  Step
    OBVIOUS
  <2>1. ResumeLot
    BY ReturnsByResume
  <2> DEFINE l == [lot EXCEPT !.state = "Live"]
  <2>2. Sound(l, lot.course.removed) /\ lot' = Answered(l, now)
    BY <2>1, ResumeLotKeeps DEF ResumeLot, Record
  <2>3. lot \in LotRecord /\ lot.ask = NoAsk
    BY DEF IInv, LotOK, Trading
  <2>4. /\ l.state = "Live" /\ l.ask = NoAsk /\ l.limits = lot.limits
        /\ l.price = lot.price /\ l.leader = lot.leader /\ l.config = lot.config
    BY <2>3 DEF LotRecord
  <2>5. Active(l) = Active(lot) /\ Distinct(l)
    BY <2>4 DEF Active, Distinct, SeqsStand
  <2> HIDE DEF l
  <2>6. ReturnDecided(l, lot', now)
    BY <2>2, <2>4, <2>5, ReturnIsDecided
  <2>7. lot'.limits = lot.limits
    BY <2>2, <2>4, AnsweredKeeps DEF Sound
  <2> QED BY <2>4, <2>5, <2>6, <2>7 DEF ReturnDecided
<1> QED BY <1>1, InvariantHolds, SeqsStandHolds, PTL DEF Spec, HeldLimitsDecideTheReturn

-----------------------------------------------------------------------------
(* Whose inputs are left.                                                  *)

Inputs == {"Bid", "LimitSet"}

(* No window that has begun lowers the starting price.                     *)
Calm == \A w \in lot.stepWindows : w.from <= now => w.start = NoSum

LEMMA CalmOpening ==
  ASSUME NEW l \in LotRecord, NEW at, \A w \in ActiveWindows(l, at) : w.start = NoSum
  PROVE  OpeningPrice(l, at) = l.price
<1> DEFINE lower == {w.start : w \in {v \in ActiveWindows(l, at) :
                        v.start # NoSum /\ v.start < l.price}}
<1>1. lower = {}
  OBVIOUS
<1> QED BY <1>1 DEF OpeningPrice

(* While nobody leads, a limit that reaches the first price is answered.   *)
LEMMA LimitOpens ==
  ASSUME NEW l \in LotRecord, Distinct(l), NEW at, l.state = "Online", Opening(l),
         NEW p \in Active(l), l.limits[p].max >= LimitFloor(l, at)
  PROVE  Resolve(l, at) # NoBid
<1> DEFINE rival == Strongest(l, Active(l) \ {l.leader})
           f == LimitFloor(l, at)
           c == l.limits[rival].max
           target == OnlineTarget(l, at, rival)
           reaches == rival # NoOne /\ (c > f \/ (Opening(l) /\ c = f))
<1>1. p \in Participants /\ p # NoOne /\ l.leader = NoOne /\ NoOne \notin Active(l)
  BY NoOneAssumption DEF Active, Opening
<1>2. /\ rival = NoOne => Active(l) \subseteq {l.leader}
      /\ rival # NoOne => /\ rival \in Participants
                          /\ \A q \in Active(l) \ {l.leader} : l.limits[q].max <= c
  BY RivalFacts
<1>3. rival # NoOne /\ rival \in Participants /\ l.limits[p].max <= c
  BY <1>1, <1>2
<1>4. f \in Int /\ c \in Int /\ l.limits[p].max \in Int
  BY <1>1, <1>3, FloorRange, LimitParts
<1>5. reaches
  <2> HIDE DEF rival, f, c
  <2> QED BY <1>3, <1>4 DEF f
<1>6. Resolve(l, at) = IF ~ reaches \/ (~ Opening(l) /\ target <= f) THEN NoBid
                       ELSE BidOf(Winner(l, rival), target)
  BY DEF Resolve, ResolveOnline
<1>7. Winner(l, rival) = rival
  BY <1>1 DEF Winner, LeaderHolds
<1> HIDE DEF rival, f, c, target, reaches
<1> QED BY <1>3, <1>5, <1>6, <1>7 DEF BidOf, NoBid

(* The lot of a replay never falls below the starting price, and while     *)
(* nobody leads it is as it was at the start.                              *)
Leading(l, start) ==
  /\ l.state = "Online" /\ l.ask = NoAsk
  /\ l.price >= start
  /\ l.leader = NoOne => l.price = start /\ l.limits = NoLimits

LEMMA AnsweredLeads ==
  ASSUME NEW l, NEW out, Sound(l, out), NEW at, NEW start \in Int,
         l.state = "Online", l.ask = NoAsk, l.price >= start,
         \A w \in ActiveWindows(l, at) : w.start = NoSum
  PROVE  LET answered == Answered(l, at)
         IN  /\ answered.state = "Online" /\ answered.ask = NoAsk
             /\ answered.price >= start
             /\ l.leader # NoOne \/ Resolve(l, at) # NoBid => answered.leader # NoOne
<1> DEFINE answered == Answered(l, at)
<1>1. l \in LotRecord /\ l.config \in Configs /\ l.price \in Int
  BY SumsFacts DEF Sound, LotRecord
<1>2. answered.state = "Online" /\ answered.ask = NoAsk
  BY <1>1, AnsweredKeeps DEF SameTerms
<1>3. LimitFloor(l, at) \in Int /\ LimitFloor(l, at) >= l.price
  BY <1>1, FloorRange, CalmOpening
<1>4. CASE Resolve(l, at) = NoBid
  BY <1>2, <1>4 DEF Answered, AfterAnswer
<1>5. CASE Resolve(l, at) # NoBid
  <2>1. /\ answered.leader \in Active(l)
        /\ answered.price \in Sums
        /\ answered.price >= LimitFloor(l, at)
    BY <1>1, <1>5, AnsweredRange
  <2>2. answered.leader # NoOne /\ answered.price \in Int
    BY <2>1, NoOneAssumption, SumsFacts DEF Active
  <2>3. answered.price >= start
    <3> HIDE DEF answered
    <3> QED BY <1>1, <1>3, <2>1, <2>2
  <2> QED BY <1>2, <2>2, <2>3
<1> QED BY <1>4, <1>5

LEMMA ReplayedLeads ==
  ASSUME NEW l, NEW out, Sound(l, out), NEW course \in History,
         NEW entry \in Entry, entry.participant \notin out,
         NEW start \in Int, Leading(l, start),
         entry.move \in Inputs => entry.amount >= start,
         \A w \in WindowsAt(course, entry.sequence) : w.from <= entry.at => w.start = NoSum
  PROVE  LET next == Replayed(l, course, entry)
         IN  /\ Leading(next, start)
             /\ entry.move \in Inputs => next.leader # NoOne
             /\ l.leader # NoOne => next.leader # NoOne
             /\ entry.move \notin Inputs => next.leader = l.leader
<1> DEFINE known == [l EXCEPT !.stepWindows = WindowsAt(course, entry.sequence)]
           p == entry.participant
           at == entry.at
<1>1. /\ p \in Participants /\ p # NoOne /\ entry.amount \in Sums /\ entry.amount \in Int
      /\ entry.sequence \in 0 .. MaxSequence /\ entry.sequence # 0
      /\ entry.move \in {"Bid", "LimitSet", "LimitWithdrawn"}
  <2>1. p \in Participants /\ entry.amount \in Sums /\ entry.sequence \in 1 .. MaxSequence
        /\ entry.move \in {"Bid", "LimitSet", "LimitWithdrawn"}
    BY DEF Entry
  <2>2. entry.sequence \in 0 .. MaxSequence /\ entry.sequence # 0
    BY <2>1, TimeAssumption
  <2>3. entry.amount \in Int
    BY <2>1, SumsFacts
  <2>4. p # NoOne
    BY <2>1, NoOneAssumption
  <2> QED BY <2>1, <2>2, <2>3, <2>4
<1>2. /\ Sound(known, out) /\ known.state = "Online" /\ known.ask = NoAsk
      /\ known.price = l.price /\ known.leader = l.leader /\ known.limits = l.limits
      /\ known.stepWindows = WindowsAt(course, entry.sequence)
  <2>1. WindowsAt(course, entry.sequence) \subseteq Windows
    BY DEF WindowsAt, History
  <2> QED BY <2>1 DEF Sound, LotRecord, Leading
<1>3. ASSUME NEW k, k.stepWindows = known.stepWindows
      PROVE  \A w \in ActiveWindows(k, at) : w.start = NoSum
  BY <1>2, <1>3 DEF ActiveWindows
<1>4. known \in LotRecord /\ l.price \in Int
  BY <1>2, SumsFacts DEF Sound, LotRecord, Leading
<1> HIDE DEF known, p, at
<1>5. CASE entry.move = "Bid"
  <2> DEFINE amount == IF known.leader = p THEN Greater(known.price, entry.amount)
                       ELSE entry.amount
             k == Bidden(known, BidOf(p, amount))
  <2>1. Replayed(l, course, entry) = Answered(k, at)
    BY <1>5 DEF Replayed, known, p, at
  <2>2. amount \in Sums /\ amount >= start
    <3>1. known.price \in Sums /\ known.price \in Int
      BY <1>4, SumsFacts DEF LotRecord
    <3>2. entry.amount >= start /\ known.price >= start
      BY <1>2, <1>5 DEF Inputs, Leading
    <3>3. Greater(known.price, entry.amount) \in Sums
      BY <1>1, <3>1, SumsFacts
    <3> QED BY <1>1, <3>1, <3>2, <3>3 DEF Greater
  <2> HIDE DEF amount
  <2>3. Sound(k, out)
    BY <1>1, <1>2, <2>2, BiddenSound DEF p
  <2>4. /\ k.state = "Online" /\ k.ask = NoAsk /\ k.price = amount /\ k.leader = p
        /\ k.stepWindows = known.stepWindows
    BY <1>2, <1>4 DEF Bidden, BidOf, LotRecord
  <2> HIDE DEF k
  <2>5. /\ Answered(k, at).state = "Online" /\ Answered(k, at).ask = NoAsk
        /\ Answered(k, at).price >= start /\ Answered(k, at).leader # NoOne
    BY <1>1, <1>3, <2>2, <2>3, <2>4, AnsweredLeads
  <2> QED BY <1>5, <2>1, <2>5 DEF Leading, Inputs
<1>6. CASE entry.move = "LimitSet"
  <2> DEFINE limit == [max |-> entry.amount, setSeq |-> entry.sequence]
             k == Limited(known, p, entry.amount, entry.sequence)
  <2>1. Replayed(l, course, entry) = Answered(k, at)
    BY <1>6 DEF Replayed, known, p, at
  <2>2. Sound(k, out)
    BY <1>1, <1>2, LimitedSound DEF p
  <2>3. /\ k.state = "Online" /\ k.ask = NoAsk /\ k.price = l.price /\ k.leader = l.leader
        /\ k.stepWindows = known.stepWindows
        /\ k.limits = [l.limits EXCEPT ![p] = limit]
    BY <1>2, <1>4 DEF Limited, LotRecord
  <2> HIDE DEF k
  <2>4. k \in LotRecord /\ k.price >= start
    BY <2>2, <2>3 DEF Sound, Leading
  <2>5. ASSUME l.leader = NoOne
        PROVE  Resolve(k, at) # NoBid
    <3>1. l.price = start /\ l.limits = NoLimits
      BY <2>5 DEF Leading
    <3>2. \A q \in Participants : k.limits[q] = IF q = p THEN limit ELSE NoLimit
      BY <2>3, <3>1 DEF NoLimits
    <3>3. limit # NoLimit /\ limit.max = entry.amount
      BY <1>1 DEF NoLimit
    <3>4. Active(k) = {p}
      BY <1>1, <3>2, <3>3 DEF Active
    <3>5. Distinct(k)
      BY <3>4 DEF Distinct
    <3>6. LimitFloor(k, at) = OpeningPrice(k, at) /\ OpeningPrice(k, at) = k.price
      <4>1. OpeningPrice(k, at) = k.price
        BY <1>3, <2>3, <2>4, CalmOpening
      <4>2. Opening(k) /\ k.price >= start
        BY <2>3, <2>4, <2>5 DEF Opening
      <4>3. ~ AskAbovePrice(k)
        BY <2>3 DEF AskAbovePrice
      <4> QED BY <2>4, <4>1, <4>2, <4>3, FloorRange
    <3>7. k.limits[p].max >= LimitFloor(k, at)
      BY <1>1, <1>6, <2>3, <3>1, <3>2, <3>3, <3>6 DEF Inputs
    <3>8. Opening(k)
      BY <2>3, <2>5 DEF Opening
    <3> QED BY <2>3, <2>4, <3>4, <3>5, <3>7, <3>8, LimitOpens
  <2>6. /\ Answered(k, at).state = "Online" /\ Answered(k, at).ask = NoAsk
        /\ Answered(k, at).price >= start /\ Answered(k, at).leader # NoOne
    BY <1>3, <2>2, <2>3, <2>4, <2>5, AnsweredLeads
  <2> QED BY <1>6, <2>1, <2>6 DEF Leading, Inputs
<1>7. CASE entry.move = "LimitWithdrawn"
  <2>1. Replayed(l, course, entry) = Unlimited(known, p)
    BY <1>7 DEF Replayed, known, p
  <2>2. /\ Unlimited(known, p).state = "Online" /\ Unlimited(known, p).ask = NoAsk
        /\ Unlimited(known, p).price = l.price /\ Unlimited(known, p).leader = l.leader
        /\ Unlimited(known, p).limits = [l.limits EXCEPT ![p] = NoLimit]
    BY <1>2, <1>4 DEF Unlimited, LotRecord
  <2>3. [NoLimits EXCEPT ![p] = NoLimit] = NoLimits
    BY DEF NoLimits
  <2> QED BY <1>7, <2>1, <2>2, <2>3 DEF Leading, Inputs
<1> QED BY <1>1, <1>5, <1>6, <1>7

(* The inputs of the online week are of the past, none is below the        *)
(* starting price, and the lot has a leader when one of them is kept.      *)
InputsStand ==
  lot.state = "Online" =>
    LET history == lot.course.online
    IN  /\ \A i \in DOMAIN history : history[i].at <= now
        /\ Calm =>
             /\ lot.price >= lot.course.startingPrice
             /\ \A i \in DOMAIN history :
                  history[i].move \in Inputs => history[i].amount >= lot.course.startingPrice
             /\ lot.leader # NoOne <=>
                  \E i \in DOMAIN history :
                    /\ history[i].participant \notin lot.course.removed
                    /\ history[i].move \in Inputs

(* The replay ends with a leader when an input of those left in is in it.  *)
LEMMA RerunLeads ==
  ASSUME IInv, WindowsKnown, InputsStand, lot.state = "Online", Calm,
         NEW out \in SUBSET Participants
  PROVE  /\ Rerun(lot, out).price >= lot.course.startingPrice
         /\ Rerun(lot, out).leader # NoOne <=>
              \E i \in DOMAIN lot.course.online :
                /\ lot.course.online[i].participant \notin out
                /\ lot.course.online[i].move \in Inputs
<1> DEFINE start == lot.course.startingPrice
           online == lot.course.online
           inputs == online \o lot.course.held
           m == Len(online)
           n == Len(inputs)
           Has(i) == \E j \in 1 .. i : online[j].participant \notin out /\ online[j].move \in Inputs
<1>1. /\ lot \in LotRecord /\ lot.config \in Configs /\ lot.course \in History
      /\ lot.course.stepWindows \subseteq lot.stepWindows
      /\ start \in Sums /\ start \in Int /\ now \in Int
  <2>1. lot \in LotRecord /\ lot.config \in Configs /\ lot.course \in History
    BY DEF IInv, LotOK, Configured, LotRecord, Trading
  <2>2. start \in Sums
    BY <2>1 DEF History
  <2>3. start \in Int
    BY <2>2, SumsFacts
  <2>4. now \in Int
    BY TimeAssumption DEF IInv, ClockOK
  <2> QED BY <2>1, <2>2, <2>3, <2>4 DEF WindowsKnown
<1>2. /\ n \in Nat /\ m \in 0 .. n /\ DOMAIN online = 1 .. m
      /\ \A i \in 1 .. m : inputs[i] = online[i]
      /\ \A i \in 1 .. n : inputs[i] \in Entry
  BY <1>1, HistoryLength
<1> HIDE DEF n
<1>0. n \in Nat /\ m \in Nat /\ m <= n
  BY <1>2
<1> USE DEF n
<1>3. PICK run : IsReplay(run, lot, out)
  BY <1>1, ReplayRuns
<1>4. /\ run[0] = AtTheStart(lot) /\ Rerun(lot, out) = run[n]
      /\ \A i \in 1 .. n : run[i] = Retaken(lot, out, run[i - 1], i)
      /\ \A i \in 0 .. n : Sound(run[i], out)
  BY <1>3 DEF IsReplay
<1>5. ASSUME NEW i \in 1 .. m
      PROVE  /\ online[i].move \in Inputs => online[i].amount >= start
             /\ \A w \in WindowsAt(lot.course, online[i].sequence) :
                  w.from <= online[i].at => w.start = NoSum
  <2>1. /\ online[i].at <= now
        /\ online[i].move \in Inputs => online[i].amount >= start
    BY <1>2 DEF InputsStand
  <2>2. WindowsAt(lot.course, online[i].sequence) \subseteq lot.stepWindows
    BY DEF WindowsAt, WindowsKnown
  <2>3. online[i].at \in Int
    <3>1. i \in 1 .. n
      <4> HIDE DEF m, n
      <4> QED BY <1>0
    <3>2. online[i] \in Entry
      <4> HIDE DEF m, n, inputs, online
      <4> QED BY <1>2, <3>1
    <3> QED BY <3>2, TimeAssumption DEF Entry
  <2>4. ASSUME NEW w \in WindowsAt(lot.course, online[i].sequence), w.from <= online[i].at
        PROVE  w.start = NoSum
    <3>1. w \in lot.stepWindows /\ w.from \in Int
      BY <1>1, <2>2, WindowsAssumption DEF LotRecord
    <3>2. w.from <= now
      BY <1>1, <2>1, <2>3, <2>4, <3>1
    <3> QED BY <3>1, <3>2 DEF Calm
  <2> QED BY <2>1, <2>4
<1> DEFINE T == {i \in 0 .. m : Leading(run[i], start) /\ (run[i].leader # NoOne <=> Has(i))}
<1>6. 0 \in T
  <2>1. /\ AtTheStart(lot).state = "Online" /\ AtTheStart(lot).ask = NoAsk
        /\ AtTheStart(lot).price = start /\ AtTheStart(lot).leader = NoOne
        /\ AtTheStart(lot).limits = NoLimits
    BY <1>1 DEF AtTheStart, LotRecord
  <2>2. ~ Has(0)
    OBVIOUS
  <2>3. Leading(run[0], start) /\ run[0].leader = NoOne
    BY <1>1, <1>4, <2>1 DEF Leading
  <2>4. 0 \in 0 .. m
    BY <1>2
  <2> HIDE DEF Has, m, start
  <2> QED BY <2>2, <2>3, <2>4
<1>7. ASSUME NEW i \in 1 .. m, i - 1 \in T
      PROVE  i \in T
  <2> DEFINE before == run[i - 1]
  <2>1. i \in 1 .. n /\ i - 1 \in 0 .. n /\ i \in 0 .. m /\ inputs[i] = online[i]
        /\ online[i] \in Entry
    <3>1. i \in 1 .. n /\ i - 1 \in 0 .. n /\ i \in 0 .. m
      <4> HIDE DEF m, n
      <4> QED BY <1>0
    <3> QED BY <1>2, <3>1
  <2>2. Sound(before, out) /\ Leading(before, start) /\ (before.leader # NoOne <=> Has(i - 1))
    <3> HIDE DEF Has, n, start
    <3> QED BY <1>4, <1>7, <2>1
  <2>3. run[i] = IF online[i].participant \in out THEN before
                 ELSE Replayed(before, lot.course, online[i])
    <3>1. i <= Len(lot.course.online)
      BY <2>1, <1>2
    <3> QED BY <1>4, <2>1, <3>1 DEF Retaken
  <2>4. Has(i) <=> \/ Has(i - 1)
                   \/ online[i].participant \notin out /\ online[i].move \in Inputs
    <3>1. 1 .. i = (1 .. (i - 1)) \cup {i}
      <4>1. i \in Nat /\ i >= 1
        BY <2>1, <1>2
      <4> QED BY <4>1
    <3> QED BY <3>1
  <2>5. CASE online[i].participant \in out
    <3> HIDE DEF Has, start, before
    <3> QED BY <2>1, <2>2, <2>3, <2>4, <2>5
  <2>6. CASE online[i].participant \notin out
    <3> DEFINE next == Replayed(before, lot.course, online[i])
    <3>1. /\ Leading(next, start)
          /\ online[i].move \in Inputs => next.leader # NoOne
          /\ before.leader # NoOne => next.leader # NoOne
          /\ online[i].move \notin Inputs => next.leader = before.leader
      <4> HIDE DEF before
      <4> QED BY <1>1, <1>5, <2>1, <2>2, <2>6, ReplayedLeads
    <3> HIDE DEF Has, start, before, next
    <3>2. run[i] = next
      BY <2>3, <2>6 DEF next
    <3> QED BY <2>1, <2>2, <2>4, <2>6, <3>1, <3>2
  <2> QED BY <2>5, <2>6
<1>8. Leading(run[m], start) /\ (run[m].leader # NoOne <=> Has(m))
  <2>1. m \in Nat /\ m \in 0 .. m
    BY <1>2
  <2>2. 0 .. m \subseteq T
    <3> HIDE DEF T, m
    <3> QED BY <1>6, <1>7, <2>1, RunInduction
  <2> HIDE DEF m, Has, start
  <2> QED BY <2>1, <2>2
<1> DEFINE U == {i \in 0 .. n : i >= m => /\ run[i].price = run[m].price
                                          /\ run[i].leader = run[m].leader}
<1>9. 0 .. n \subseteq U
  <2>1. 0 \in U
    <3>1. m \in Nat /\ 0 \in 0 .. n
      <4> HIDE DEF m, n
      <4> QED BY <1>0
    <3>2. 0 >= m => m = 0
      BY <3>1
    <3> HIDE DEF m, n
    <3> QED BY <3>1, <3>2
  <2>2. ASSUME NEW i \in 1 .. n, i - 1 \in U
        PROVE  i \in U
    <3>1. i \in 0 .. n /\ i - 1 \in 0 .. n /\ m \in Nat /\ i \in Nat
      <4> HIDE DEF m, n
      <4> QED BY <1>0
    <3>2. CASE i <= m
      <4>1. i >= m => i = m
        <5> HIDE DEF m, n
        <5> QED BY <3>1, <3>2
      <4> HIDE DEF m, n
      <4> QED BY <3>1, <4>1
    <3>3. CASE ~ (i <= m)
      <4>1. i - 1 >= m
        <5> HIDE DEF m, n
        <5> QED BY <3>1, <3>3
      <4>2. run[i - 1].price = run[m].price /\ run[i - 1].leader = run[m].leader
        <5> HIDE DEF m, n
        <5> QED BY <2>2, <4>1
      <4>3. run[i] = IF inputs[i].participant \in out THEN run[i - 1]
                     ELSE ReplayedHeld(run[i - 1], inputs[i])
        BY <1>4, <3>3 DEF Retaken
      <4>4. run[i - 1] \in LotRecord
        <5> HIDE DEF m, n
        <5> QED BY <1>4, <3>1 DEF Sound
      <4>5. /\ ReplayedHeld(run[i - 1], inputs[i]).price = run[i - 1].price
            /\ ReplayedHeld(run[i - 1], inputs[i]).leader = run[i - 1].leader
        BY <4>4 DEF ReplayedHeld, Limited, Unlimited, LotRecord
      <4>6. run[i].price = run[m].price /\ run[i].leader = run[m].leader
        BY <4>2, <4>3, <4>5
      <4> HIDE DEF m, n
      <4> QED BY <3>1, <4>6
    <3> QED BY <3>2, <3>3
  <2>3. n \in Nat
    BY <1>2
  <2> HIDE DEF U, n
  <2> QED BY <2>1, <2>2, <2>3, RunInduction
<1>10. run[n].price = run[m].price /\ run[n].leader = run[m].leader
  <2>1. n \in 0 .. n /\ n >= m
    <3> HIDE DEF m, n
    <3> QED BY <1>2
  <2> HIDE DEF m, n
  <2> QED BY <1>9, <2>1
<1> HIDE DEF m, n
<1> QED BY <1>2, <1>4, <1>8, <1>10 DEF Leading

(* An input of the online week, entered at the end of its history.         *)
LEMMA EnteredStands ==
  ASSUME IInv, InputsStand, lot.state = "Online", now' = now, Calm' => Calm,
         NEW p \in Participants, NEW move \in {"Bid", "LimitSet", "LimitWithdrawn"},
         NEW amount \in Sums, NEW k, k \in LotRecord, k.course = lot.course,
         lot'.course = Entered(k, p, move, amount).course,
         lot'.price \in Int,
         move \in Inputs => p \notin lot.course.removed,
         Calm => /\ lot'.price >= lot.course.startingPrice
                 /\ move \in Inputs => amount >= lot.course.startingPrice
                                       /\ lot'.leader # NoOne
                 /\ lot.leader # NoOne => lot'.leader # NoOne
                 /\ move \notin Inputs => lot'.leader = lot.leader
  PROVE  InputsStand'
<1> DEFINE online == lot.course.online
           later == lot'.course.online
           m == Len(online)
           entry == [participant |-> p, move |-> move, amount |-> amount,
                     at |-> now, sequence |-> sequence + 1]
           Kept(e) == e.participant \notin lot.course.removed /\ e.move \in Inputs
<1>1. lot.course \in History /\ online \in Seq(Entry) /\ now \in Int
  BY TimeAssumption DEF IInv, LotOK, ClockOK, LotRecord, History
<1>2. lot'.course = [lot.course EXCEPT !.online = Append(online, entry)]
  BY DEF Entered, LotRecord
<1> HIDE DEF entry
<1>3. /\ later = Append(online, entry) /\ lot'.course.removed = lot.course.removed
      /\ lot'.course.startingPrice = lot.course.startingPrice
  BY <1>1, <1>2 DEF History
<1>4. /\ m \in Nat /\ DOMAIN online = 1 .. m /\ DOMAIN later = 1 .. (m + 1)
      /\ later[m + 1] = entry /\ \A i \in 1 .. m : later[i] = online[i]
  <2> HIDE DEF online, entry
  <2> QED BY <1>1, <1>3
<1>5. /\ entry.participant = p /\ entry.move = move /\ entry.amount = amount
      /\ entry.at = now
  BY DEF entry
<1>6. \A i \in DOMAIN later : i \in DOMAIN online \/ later[i] = entry
  BY <1>4
<1>7. \A i \in DOMAIN online : i \in DOMAIN later /\ later[i] = online[i]
  BY <1>4
<1>8. m + 1 \in DOMAIN later /\ later[m + 1] = entry
  BY <1>4
<1>9. \A i \in DOMAIN later : later[i].at <= now'
  BY <1>1, <1>5, <1>6, <1>7 DEF InputsStand
<1>10. ASSUME Calm'
       PROVE  /\ \A i \in DOMAIN later :
                   later[i].move \in Inputs => later[i].amount >= lot.course.startingPrice
              /\ lot'.leader # NoOne <=> \E i \in DOMAIN later : Kept(later[i])
  <2>1. \A i \in DOMAIN online :
          online[i].move \in Inputs => online[i].amount >= lot.course.startingPrice
    BY <1>10 DEF InputsStand
  <2>2. lot.leader # NoOne <=> \E i \in DOMAIN online : Kept(online[i])
    BY <1>10 DEF InputsStand
  <2> HIDE DEF online, later
  <2>3. \A i \in DOMAIN later :
          later[i].move \in Inputs => later[i].amount >= lot.course.startingPrice
    BY <1>5, <1>6, <1>7, <1>10, <2>1
  <2>4. CASE move \in Inputs
    BY <1>5, <1>8, <1>10, <2>3, <2>4
  <2>5. CASE move \notin Inputs
    <3>1. (\E i \in DOMAIN later : Kept(later[i])) <=> \E i \in DOMAIN online : Kept(online[i])
      BY <1>5, <1>6, <1>7, <2>5
    <3> HIDE DEF Kept
    <3> QED BY <1>10, <2>2, <2>3, <2>5, <3>1
  <2> QED BY <2>4, <2>5
<1> QED BY <1>3, <1>9, <1>10 DEF InputsStand

LEMMA ClockRuns ==
  ASSUME IInv, [Next]_vars
  PROVE  /\ now \in Int /\ now' \in Int /\ now' >= now
         /\ \/ now' = now
            \/ lot' = lot
<1>1. now \in Int
  BY TimeAssumption DEF IInv, ClockOK
<1>2. CASE Tick \/ UNCHANGED vars
  BY <1>1, <1>2 DEF Tick, vars
<1>3. CASE ~ Tick /\ Next
  <2>1. now' = now
    BY <1>3 DEF Next, Record, DraftLot, ScheduleLot, OpenLot, PlaceBid, SetProxyLimit,
                WithdrawProxyLimit, RemoveParticipant, RecordRemoval, CloseByDeadline,
                CloseByAuctioneer, MarkForFinal, UnmarkForFinal, ResumeLot, AdvanceAsk,
                WithdrawLot, AddStepWindow, SetPeriodWindow, ClearPeriodWindow
  <2> QED BY <1>1, <2>1
<1> QED BY <1>2, <1>3

LEMMA InputsStandKept ==
  ASSUME SumsLeaveRoom
  PROVE  IInv /\ IInv' /\ WindowsKnown /\ SeqsStand' /\ Unopened /\ InputsStand /\ [Next]_vars
           => InputsStand'
<1> SUFFICES ASSUME IInv, IInv', WindowsKnown, SeqsStand', Unopened, InputsStand, [Next]_vars,
                    lot'.state = "Online"
             PROVE  InputsStand'
  BY DEF InputsStand
<1>1. /\ lot \in LotRecord /\ lot' \in LotRecord /\ lot.course \in History
      /\ now \in Int /\ now' \in Int /\ now' >= now /\ (now' = now \/ lot' = lot)
  BY ClockRuns DEF IInv, LotOK, LotRecord
<1>2. CASE lot.state # "Online"
  <2>1. PICK deadline \in Deadlines, windows \in OpeningWindows : OpenLot(deadline, windows)
    BY <1>2, WindowSteps DEF WindowsStand, AddStepWindow, SetPeriodWindow, ClearPeriodWindow
  <2> DEFINE course == [NoCourse EXCEPT !.startingPrice = lot.price, !.stepWindows = windows]
  <2>2. lot' = [lot EXCEPT !.state = "Online", !.deadline = deadline,
                  !.stepWindows = windows, !.course = course]
    BY <2>1 DEF OpenLot, Record
  <2>3. lot'.course = course /\ lot'.price = lot.price /\ lot'.leader = lot.leader
    <3> HIDE DEF course
    <3> QED BY <1>1, <2>2 DEF LotRecord
  <2>4. course.online = <<>> /\ course.startingPrice = lot.price
    BY DEF NoCourse
  <2>5. lot.leader = NoOne
    BY <2>1 DEF OpenLot, Unopened, Blank
  <2>6. lot.price \in Int
    BY <1>1, SumsFacts DEF LotRecord
  <2>7. DOMAIN lot'.course.online = {}
    BY <2>3, <2>4
  <2> HIDE DEF course
  <2> QED BY <2>3, <2>4, <2>5, <2>6, <2>7 DEF InputsStand
<1>3. CASE lot.state = "Online"
  <2>1. Calm' => Calm
    <3> SUFFICES ASSUME Calm', NEW w \in lot.stepWindows, w.from <= now
                 PROVE  w.start = NoSum
      BY DEF Calm
    <3>1. w \in lot'.stepWindows
      BY <1>3, BegunStay
    <3>2. w.from \in Int
      BY <1>1, WindowsAssumption DEF LotRecord
    <3>3. w.from <= now'
      BY <1>1, <3>2
    <3> QED BY <3>1, <3>3 DEF Calm
  <2>2. Calm => OpeningPrice(lot, now) = lot.price
    <3>1. Calm => \A w \in ActiveWindows(lot, now) : w.start = NoSum
      BY DEF Calm, ActiveWindows
    <3> QED BY <1>1, <3>1, CalmOpening
  <2>3. /\ lot.price \in Int /\ lot'.price \in Int /\ lot.course.startingPrice \in Int
        /\ lot.config \in Configs
    <3>1. lot.price \in Sums /\ lot'.price \in Sums /\ lot.course.startingPrice \in Sums
      BY <1>1 DEF LotRecord, History
    <3> QED BY <1>3, <3>1, SumsFacts DEF IInv, LotOK, Configured, Trading
  <2>4. Calm => lot.price >= lot.course.startingPrice
    BY <1>3 DEF InputsStand
  <2>5. ASSUME Silent \/ Raised, Calm
        PROVE  /\ lot'.price >= lot.price
               /\ lot.leader # NoOne => lot'.leader # NoOne
    <3>1. Raised => lot'.leader # NoOne
      BY NoOneAssumption DEF Raised
    <3>2. Raised => lot'.price >= lot.price
      BY <2>2, <2>3, <2>5 DEF Raised, Opening
    <3>3. Silent => lot'.price >= lot.price
      BY <2>3 DEF Silent
    <3> QED BY <2>5, <3>1, <3>2, <3>3 DEF Silent
  <2>6. ASSUME NEW p \in Participants, NEW amount \in BidAmounts, NEW source,
               PlaceBid(p, amount, source)
        PROVE  InputsStand'
    <3> DEFINE k == Bidden(lot, BidOf(p, amount))
    <3>1. /\ Sound(Tabled(p, amount), lot.course.removed) /\ AnsweredBy(Tabled(p, amount))
          /\ now' = now /\ p \notin lot.course.removed /\ amount >= MinRequired(lot, now)
      BY <2>6, PlaceBidKeeps DEF PlaceBid, BidAccepted, Record
    <3>2. lot'.course = Entered(k, p, "Bid", amount).course
      BY <3>1, AnsweredByFacts DEF Tabled
    <3>3. k \in LotRecord /\ k.course = lot.course /\ amount \in Sums /\ amount \in Int
      <4>1. amount \in Sums /\ amount \in Int
        BY SumsFacts
      <4>2. p \in Participants \cup {NoOne}
        OBVIOUS
      <4> QED BY <1>1, <4>1, <4>2 DEF Bidden, BidOf, LotRecord
    <3>4. Raised
      BY <2>6, BidRaises
    <3>5. Calm => amount >= lot.course.startingPrice
      <4>1. /\ Opening(lot) => MinRequired(lot, now) >= OpeningPrice(lot, now)
            /\ ~ Opening(lot) => MinRequired(lot, now) > lot.price
        BY <1>1, <2>3, RequiredRange
      <4>2. MinRequired(lot, now) \in Int
        <5>1. OpeningPrice(lot, now) \in Int /\ lot.ask \in Int /\ lot.price \in Money
          BY <1>1, AskType, OpeningPriceRange, SumsFacts DEF LotRecord
        <5>2. StepAt(lot, lot.price, now) \in Nat
          BY <1>1, <2>3, <5>1, StepAtType
        <5> QED BY <2>3, <5>1, <5>2, MoneyMaxAssumption DEF MinRequired, Plus
      <4> QED BY <2>2, <2>3, <2>4, <3>1, <3>3, <4>1, <4>2
    <3>6. lot'.leader # NoOne
      BY <3>4, NoOneAssumption DEF Raised
    <3>7. Calm => lot'.price >= lot.course.startingPrice
      BY <2>3, <2>4, <2>5, <3>4
    <3> HIDE DEF k
    <3> QED BY <1>3, <2>1, <2>3, <3>1, <3>2, <3>3, <3>5, <3>6, <3>7, EnteredStands DEF Inputs
  <2>7. ASSUME NEW p \in Participants, NEW max \in LimitAmounts, SetProxyLimit(p, max)
        PROVE  InputsStand'
    <3> DEFINE k == Limited(lot, p, max, sequence + 1)
               set == Put(p, max)
    <3>1. /\ Sound(set, lot.course.removed) /\ AnsweredBy(set) /\ SameTerms(lot, set)
          /\ SameTrade(k, set)
          /\ now' = now /\ p \notin lot.course.removed /\ max >= LimitFloor(lot, now)
      BY <1>3, <2>7, SetProxyLimitKeeps DEF SetProxyLimit, Record
    <3>2. lot'.course = Entered(k, p, "LimitSet", max).course
      BY <3>1, AnsweredByFacts DEF Put
    <3>3. max \in Sums /\ max \in Int
      BY SumsFacts
    <3>4. k.course = lot.course /\ k.price = lot.price /\ k.leader = lot.leader
          /\ k.limits = [lot.limits EXCEPT ![p] = [max |-> max, setSeq |-> sequence + 1]]
      BY <1>1 DEF Limited, LotRecord
    <3>5. k \in LotRecord
      <4>1. set \in LotRecord
        BY <3>1 DEF Sound
      <4>2. k.limits \in [Participants -> Limit]
        BY <3>1, <4>1 DEF SameTrade, LotRecord
      <4> QED BY <1>1, <4>2 DEF Limited, LotRecord
    <3> HIDE DEF k, set
    <3>6. Silent \/ Raised
      <4>1. \A q : ~ RemoveParticipant(q)
        BY <2>7 DEF RemoveParticipant, RecordRemoval, SetProxyLimit, Record
      <4> QED BY <1>3, <4>1, RaisingSteps DEF Pursued, Trading
    <3>7. LimitFloor(lot, now) \in Int
          /\ LimitFloor(lot, now) >= IF Opening(lot) THEN OpeningPrice(lot, now) ELSE lot.price
      BY <1>1, FloorRange
    <3>8. Calm => max >= lot.course.startingPrice
      BY <2>2, <2>3, <2>4, <3>1, <3>3, <3>7
    <3>9. Calm => lot'.price >= lot.course.startingPrice
      BY <2>3, <2>4, <2>5, <3>6
    <3>10. Calm => lot'.leader # NoOne
      <4>1. CASE lot.leader # NoOne
        BY <2>5, <3>6, <4>1
      <4>2. CASE lot.leader = NoOne
        <5>1. /\ set \in LotRecord /\ set.config \in Configs
              /\ set.state = "Online" /\ set.leader = NoOne /\ set.limits = k.limits
          BY <1>3, <3>1, <3>4, <4>2 DEF Sound, SameTerms, SameTrade
        <5>2. lot'.limits = set.limits /\ lot'.leader = Answered(set, now).leader
          BY <3>1, AnsweredByFacts
        <5>3. Distinct(set)
          BY <5>2 DEF SeqsStand, Distinct, Active
        <5>4. LimitFloor(set, now) = LimitFloor(lot, now)
          BY <3>1, <3>4 DEF SameTerms, SameTrade, LimitFloor, Floor, MinRequired, Opening,
                            OpeningPrice, ActiveWindows, AskAbovePrice, StepAt, BaseStep
        <5>5. set.limits[p] = [max |-> max, setSeq |-> sequence + 1]
          BY <1>1, <3>4, <5>1 DEF LotRecord
        <5>6. p \in Active(set) /\ set.limits[p].max >= LimitFloor(set, now)
          <6>1. sequence + 1 # 0
            BY TimeAssumption DEF IInv, ClockOK
          <6> QED BY <3>1, <5>4, <5>5, <6>1 DEF Active, NoLimit
        <5>7. Resolve(set, now) # NoBid
          BY <5>1, <5>3, <5>6, LimitOpens DEF Opening
        <5>8. Answered(set, now).leader \in Active(set)
          BY <5>1, <5>7, AnsweredRange
        <5> QED BY <5>2, <5>8, NoOneAssumption DEF Active
      <4> QED BY <4>1, <4>2
    <3> QED BY <1>3, <2>1, <2>3, <3>1, <3>2, <3>3, <3>4, <3>5, <3>8, <3>9, <3>10, EnteredStands
            DEF Inputs
  <2>8. ASSUME NEW p \in Participants, WithdrawProxyLimit(p)
        PROVE  InputsStand'
    <3> DEFINE k == Unlimited(lot, p)
    <3>1. /\ lot' = Entered(k, p, "LimitWithdrawn", NoSum) /\ now' = now
          /\ lot'.price = lot.price /\ lot'.leader = lot.leader
      BY <2>8, WithdrawProxyLimitKeeps DEF WithdrawProxyLimit, Record
    <3>2. k \in LotRecord /\ k.course = lot.course
      BY <1>1, NoLimitType DEF Unlimited, LotRecord
    <3>3. NoSum \in Sums
      BY SumsFacts DEF NoSum
    <3> HIDE DEF k
    <3> QED BY <1>3, <2>1, <2>3, <2>4, <3>1, <3>2, <3>3, EnteredStands DEF Inputs
  <2>9. ASSUME NEW p \in Participants, RemoveParticipant(p)
        PROVE  InputsStand'
    <3> DEFINE gone == lot.course.removed \cup {p}
               result == Rerun(lot, gone)
    <3>1. /\ now' = now /\ lot'.stepWindows = lot.stepWindows
          /\ lot'.course = [lot.course EXCEPT !.removed = gone]
          /\ Sound(result, gone)
          /\ lot'.leader = result.leader /\ lot'.price = Lesser(result.price, lot.price)
      BY <2>9, RemoveParticipantKeeps DEF Thinned, RemoveParticipant, RecordRemoval, Record
    <3>2. /\ lot'.course.online = lot.course.online /\ lot'.course.removed = gone
          /\ lot'.course.startingPrice = lot.course.startingPrice
          /\ gone \in SUBSET Participants
      BY <1>1, <3>1 DEF History
    <3>3. Calm' => /\ result.price >= lot.course.startingPrice
                   /\ result.leader # NoOne <=>
                        \E i \in DOMAIN lot.course.online :
                          /\ lot.course.online[i].participant \notin gone
                          /\ lot.course.online[i].move \in Inputs
      BY <1>3, <2>1, <3>2, RerunLeads
    <3>4. result.price \in Int
      BY <3>1, SumsFacts DEF Sound, LotRecord
    <3> HIDE DEF gone, result
    <3>5. Calm' => lot'.price >= lot.course.startingPrice
      BY <2>1, <2>3, <2>4, <3>1, <3>3, <3>4 DEF Lesser
    <3> QED BY <1>3, <2>1, <3>1, <3>2, <3>3, <3>5 DEF InputsStand
  <2>10. ASSUME \/ \E ask \in Asks : AdvanceAsk(ask)
                \/ Untouched
         PROVE  InputsStand'
    <3>1. /\ lot'.course.online = lot.course.online
          /\ lot'.course.removed = lot.course.removed
          /\ lot'.course.startingPrice = lot.course.startingPrice
          /\ lot'.price = lot.price /\ lot'.leader = lot.leader
      <4>1. ASSUME NEW ask \in Asks, AdvanceAsk(ask)
            PROVE  lot' = [lot EXCEPT !.ask = ask]
        BY <1>3, <4>1 DEF AdvanceAsk, Record
      <4>2. ASSUME NEW ask, lot' = [lot EXCEPT !.ask = ask]
            PROVE  lot'.course = lot.course /\ lot'.price = lot.price
                   /\ lot'.leader = lot.leader
        BY <1>1, <4>2 DEF LotRecord
      <4> QED BY <2>10, <4>1, <4>2 DEF Untouched
    <3>2. \A i \in DOMAIN lot.course.online : lot.course.online[i].at \in Int
      <4>1. lot.course.online \in Seq(Entry)
        BY <1>1 DEF History
      <4>2. \A i \in DOMAIN lot.course.online : lot.course.online[i] \in Entry
        BY <4>1
      <4> QED BY <4>2, TimeAssumption DEF Entry
    <3>3. \A i \in DOMAIN lot.course.online : lot.course.online[i].at <= now'
      BY <1>1, <1>3, <3>2 DEF InputsStand
    <3> QED BY <1>3, <2>1, <3>1, <3>3 DEF InputsStand
  <2>11. ~ ResumeLot
    BY <1>3 DEF ResumeLot
  <2> QED BY <1>3, <2>6, <2>7, <2>8, <2>9, <2>10, <2>11, PursuedSteps DEF Pursued, Trading
<1> QED BY <1>2, <1>3

(* I-02, the half the replay keeps: in weeks of calm windows the lot has a *)
(* leader when somebody who is not removed has put in a bid or a limit,    *)
(* and has none when nobody has.                                           *)
THEOREM SomebodyKeptLeads ==
  ASSUME SumsLeaveRoom
  PROVE  Spec => []KeptInputsKeepALeader
<1>1. Init => InputsStand
  BY DEF Init, Blank, InputsStand
<1>2. InputsStand => KeptInputsKeepALeader
  BY DEF InputsStand, KeptInputsKeepALeader, Calm, Inputs
<1> QED BY <1>1, <1>2, InputsStandKept, InvariantHolds, WindowsHold, SeqsStandHolds,
           UnopenedHolds, PTL DEF Spec
=============================================================================
