-------------------------- MODULE LotWithoutProofs --------------------------
(***************************************************************************)
(* Proof that a removal undoes the participant (module LotWithout).  The   *)
(* replay of the first lot's history without the intruder is, all the      *)
(* while, a lot like the second: their limits were set in the same order,  *)
(* under other numbers, and everything the rules read of them is the same. *)
(***************************************************************************)
EXTENDS LotWithout, LotProofs

-----------------------------------------------------------------------------
(* Lots alike.                                                             *)

(* A lot as a record, with limits of the right kind.                       *)
Shaped(k) ==
  k \in [state : {k.state}, config : {k.config}, price : {k.price}, ask : {k.ask},
          leader : {k.leader}, deadline : {k.deadline}, extensionsUsed : {k.extensionsUsed},
          limits : [Participants -> [max : Sums, setSeq : Nat]], marked : {k.marked},
          stepWindows : {k.stepWindows}, course : {k.course}]

(* Limits of the same maxima, set in the same order.                       *)
AlikeLimits(k, w) ==
  /\ \A p \in Participants : k.limits[p].max = w.limits[p].max
  /\ Active(k) = Active(w)
  /\ \A p, q \in Active(k) :
       k.limits[p].setSeq < k.limits[q].setSeq <=> w.limits[p].setSeq < w.limits[q].setSeq

Alike(k, w) ==
  /\ k.state = w.state /\ k.config = w.config
  /\ k.price = w.price /\ k.ask = w.ask /\ k.leader = w.leader
  /\ AlikeLimits(k, w)

LEMMA StrongestAlike ==
  ASSUME NEW k, NEW w, AlikeLimits(k, w), NEW set, set \subseteq Active(k)
  PROVE  Strongest(k, set) = Strongest(w, set)
<1> DEFINE Top(l) == {p \in set : \A q \in set \ {p} : Stronger(l.limits[p], l.limits[q])}
<1>1. \A p, q \in set : Stronger(k.limits[p], k.limits[q]) <=> Stronger(w.limits[p], w.limits[q])
  <2> TAKE p, q \in set
  <2>1. p \in Active(k) /\ q \in Active(k) /\ p \in Participants /\ q \in Participants
    BY DEF Active
  <2>2. k.limits[p].max = w.limits[p].max /\ k.limits[q].max = w.limits[q].max
    BY <2>1 DEF AlikeLimits
  <2>3. k.limits[p].setSeq < k.limits[q].setSeq <=> w.limits[p].setSeq < w.limits[q].setSeq
    BY <2>1 DEF AlikeLimits
  <2> QED BY <2>2, <2>3 DEF Stronger
<1>2. Top(k) = Top(w)
  BY <1>1
<1>3. \A l : Strongest(l, set) = IF Top(l) = {} THEN NoOne ELSE CHOOSE p \in Top(l) : TRUE
  BY DEF Strongest
<1> HIDE DEF Top
<1> QED BY <1>2, <1>3

(* What the rules read of two lots alike is the same at any instant at     *)
(* which the same windows are active.                                      *)
LEMMA ResolveAlike ==
  ASSUME NEW k, NEW w, Alike(k, w), k.state = "Online", NEW at,
         ActiveWindows(k, at) = ActiveWindows(w, at)
  PROVE  Resolve(k, at) = Resolve(w, at)
<1>1. /\ k.config = w.config /\ k.price = w.price /\ k.ask = w.ask /\ k.leader = w.leader
      /\ w.state = "Online"
      /\ Active(k) = Active(w)
      /\ \A p \in Participants : k.limits[p].max = w.limits[p].max
  BY DEF Alike, AlikeLimits
<1>2. \A sum : BaseStep(k, sum) = BaseStep(w, sum)
  BY <1>1 DEF BaseStep
<1>3. \A sum : StepAt(k, sum, at) = StepAt(w, sum, at)
  <2> TAKE sum
  <2> DEFINE lower(l) == {v.step : v \in {x \in ActiveWindows(l, at) :
                            x.step # NoSum /\ x.step < BaseStep(l, sum)}}
  <2>1. lower(k) = lower(w)
    BY <1>2
  <2>2. \A l : StepAt(l, sum, at) = IF lower(l) = {} THEN BaseStep(l, sum)
                                   ELSE CHOOSE step \in lower(l) : TRUE
    BY DEF StepAt
  <2> HIDE DEF lower
  <2> QED BY <1>2, <2>1, <2>2
<1>4. /\ Opening(k) = Opening(w)
      /\ AskAbovePrice(k) = AskAbovePrice(w)
      /\ Floor(k) = Floor(w)
  BY <1>1 DEF Opening, AskAbovePrice, Floor
<1>5. OpeningPrice(k, at) = OpeningPrice(w, at)
  BY <1>1 DEF OpeningPrice
<1>6. MinRequired(k, at) = MinRequired(w, at)
  BY <1>1, <1>3, <1>4, <1>5 DEF MinRequired
<1>7. LimitFloor(k, at) = LimitFloor(w, at)
  BY <1>4, <1>6 DEF LimitFloor
<1> DEFINE rivals == Active(k) \ {k.leader}
           rival == Strongest(k, rivals)
           second == Strongest(k, rivals \ {rival})
<1>8. /\ rival = Strongest(w, rivals) /\ second = Strongest(w, rivals \ {rival})
      /\ rivals = Active(w) \ {w.leader}
  BY <1>1, StrongestAlike DEF Alike
<1>9. /\ rival \in Participants \cup {NoOne} /\ second \in Participants \cup {NoOne}
      /\ rival # NoOne => rival \in Active(k)
  BY StrongestMember DEF Active
<1>10. RunnerUp(k) = RunnerUp(w)
  <2>1. RunnerUp(k) = IF second = NoOne THEN -MoneyMax - 1 ELSE k.limits[second].max
    BY DEF RunnerUp
  <2>2. RunnerUp(w) = IF second = NoOne THEN -MoneyMax - 1 ELSE w.limits[second].max
    BY <1>8 DEF RunnerUp
  <2> HIDE DEF second, rival
  <2> QED BY <1>1, <1>9, <2>1, <2>2
<1>11. LeaderMax(k) = LeaderMax(w)
  BY <1>1 DEF LeaderMax, Active
<1>12. CASE rival = NoOne
  BY <1>1, <1>8, <1>12 DEF Resolve, ResolveOnline
<1>13. CASE rival # NoOne
  <2>1. rival \in Active(k) /\ rival \in Participants
    BY <1>9, <1>13 DEF Active
  <2>2. k.limits[rival].max = w.limits[rival].max
    BY <1>1, <2>1
  <2> HIDE DEF rival
  <2>3. LeaderHolds(k, rival) = LeaderHolds(w, rival)
    <3>1. CASE k.leader \in Active(k)
      <4>1. k.limits[k.leader].max = w.limits[k.leader].max
        BY <1>1, <3>1 DEF Active
      <4>2. k.limits[k.leader].setSeq < k.limits[rival].setSeq
              <=> w.limits[k.leader].setSeq < w.limits[rival].setSeq
        BY <2>1, <3>1 DEF Alike, AlikeLimits
      <4> QED BY <1>1, <2>2, <3>1, <4>1, <4>2 DEF LeaderHolds, Stronger
    <3>2. CASE k.leader \notin Active(k)
      BY <1>1, <3>2 DEF LeaderHolds
    <3> QED BY <3>1, <3>2
  <2>4. OnlineTarget(k, at, rival) = OnlineTarget(w, at, rival)
    BY <1>3, <1>4, <1>7, <1>10, <1>11, <2>2, <2>3 DEF OnlineTarget
  <2>5. Winner(k, rival) = Winner(w, rival)
    BY <1>1, <2>3 DEF Winner
  <2>6. ResolveOnline(k, at) =
          LET f == LimitFloor(k, at)
              c == k.limits[rival].max
              target == OnlineTarget(k, at, rival)
          IN  IF \/ ~ (c > f \/ (Opening(k) /\ c = f))
                 \/ ~ Opening(k) /\ target <= f
              THEN NoBid ELSE BidOf(Winner(k, rival), target)
    BY <1>13 DEF ResolveOnline, rival
  <2>7. ResolveOnline(w, at) =
          LET f == LimitFloor(w, at)
              c == w.limits[rival].max
              target == OnlineTarget(w, at, rival)
          IN  IF \/ ~ (c > f \/ (Opening(w) /\ c = f))
                 \/ ~ Opening(w) /\ target <= f
              THEN NoBid ELSE BidOf(Winner(w, rival), target)
    BY <1>8, <1>13 DEF ResolveOnline
  <2>8. ResolveOnline(k, at) = ResolveOnline(w, at)
    BY <1>4, <1>7, <2>2, <2>4, <2>5, <2>6, <2>7
  <2> QED BY <1>1, <2>8 DEF Resolve
<1> QED BY <1>12, <1>13

(* A lot of the model is shaped so.                                        *)
LEMMA BiddenShape ==
  ASSUME NEW l, Shaped(l), NEW bid
  PROVE  LET n == Bidden(l, bid)
         IN  /\ Shaped(n)
             /\ n.state = l.state /\ n.config = l.config /\ n.ask = l.ask
             /\ n.limits = l.limits /\ n.stepWindows = l.stepWindows
             /\ n.price = bid.amount /\ n.leader = bid.participant
             /\ n.course = l.course
BY DEF Bidden, Shaped

LEMMA LotShaped ==
  ASSUME NEW k \in LotRecord
  PROVE  Shaped(k)
<1>1. \A max, seq : seq \in 0 .. MaxSequence => seq \in Nat
  BY TimeAssumption
<1>2. Limit \subseteq [max : Sums, setSeq : Nat]
  BY <1>1 DEF Limit
<1> QED BY <1>2 DEF Shaped, LotRecord

(* The answers of two lots alike leave them alike.                         *)
LEMMA AnsweredAlike ==
  ASSUME NEW k, NEW w, Shaped(k), Shaped(w), Alike(k, w), k.state = "Online", NEW at,
         ActiveWindows(k, at) = ActiveWindows(w, at)
  PROVE  /\ Shaped(Answered(k, at)) /\ Shaped(Answered(w, at))
         /\ Alike(Answered(k, at), Answered(w, at))
         /\ Answered(k, at).state = "Online"
         /\ Answered(k, at).limits = k.limits
         /\ Answered(w, at).limits = w.limits
         /\ Answered(w, at).stepWindows = w.stepWindows
<1> DEFINE bid == Resolve(k, at)
<1>1. Resolve(w, at) = bid
  BY ResolveAlike
<1> HIDE DEF bid
<1>2. CASE bid = NoBid
  BY <1>1, <1>2 DEF Answered, AfterAnswer, bid
<1>3. CASE bid # NoBid
  <2>1. Answered(k, at) = Bidden(k, bid) /\ Answered(w, at) = Bidden(w, bid)
    BY <1>1, <1>3 DEF Answered, AfterAnswer, bid
  <2> DEFINE k2 == Bidden(k, bid)
             w2 == Bidden(w, bid)
  <2>2. /\ Shaped(k2) /\ k2.state = k.state /\ k2.config = k.config /\ k2.ask = k.ask
        /\ k2.limits = k.limits /\ k2.price = bid.amount /\ k2.leader = bid.participant
    BY BiddenShape
  <2>3. /\ Shaped(w2) /\ w2.state = w.state /\ w2.config = w.config /\ w2.ask = w.ask
        /\ w2.limits = w.limits /\ w2.price = bid.amount /\ w2.leader = bid.participant
        /\ w2.stepWindows = w.stepWindows
    BY BiddenShape
  <2> HIDE DEF k2, w2
  <2>4. Active(k2) = Active(k) /\ Active(w2) = Active(w)
    BY <2>2, <2>3 DEF Active
  <2>5. Alike(k2, w2)
    BY <2>2, <2>3, <2>4 DEF Alike, AlikeLimits
  <2> QED BY <2>1, <2>2, <2>3, <2>5 DEF k2, w2
<1> QED BY <1>2, <1>3

(* The lot that takes the entry, before its limits answer it.              *)
TakesBid(w, p, amount, taken) ==
  /\ Shaped(taken) /\ taken.stepWindows = w.stepWindows
  /\ taken.state = w.state /\ taken.config = w.config /\ taken.ask = w.ask
  /\ taken.limits = w.limits /\ taken.price = amount /\ taken.leader = p

TakesLimit(w, p, limit, taken) ==
  /\ Shaped(taken) /\ taken.stepWindows = w.stepWindows
  /\ taken.state = w.state /\ taken.config = w.config /\ taken.ask = w.ask
  /\ taken.price = w.price /\ taken.leader = w.leader
  /\ taken.limits = [w.limits EXCEPT ![p] = limit]

(* A limit set last in both, or withdrawn from both, leaves them alike.    *)
LEMMA LimitAlike ==
  ASSUME NEW k, NEW w, Alike(k, w), NEW p \in Participants, NEW x, NEW y,
         k.limits \in [Participants -> [max : Sums, setSeq : Nat]],
         w.limits \in [Participants -> [max : Sums, setSeq : Nat]],
         \/ x = NoLimit /\ y = NoLimit
         \/ /\ x.max = y.max /\ x.setSeq \in Nat /\ y.setSeq \in Nat
            /\ \A q \in Participants : k.limits[q].setSeq < x.setSeq
            /\ \A q \in Participants : w.limits[q].setSeq < y.setSeq,
         NEW k2, NEW w2, TakesLimit(k, p, x, k2), TakesLimit(w, p, y, w2)
  PROVE  Alike(k2, w2)
<1>1. /\ \A q \in Participants : k2.limits[q] = IF q = p THEN x ELSE k.limits[q]
      /\ \A q \in Participants : w2.limits[q] = IF q = p THEN y ELSE w.limits[q]
  BY DEF TakesLimit
<1>2. /\ \A q \in Participants : k.limits[q].setSeq \in Nat
      /\ \A q \in Participants : w.limits[q].setSeq \in Nat
  OBVIOUS
<1>3. /\ \A q \in Participants : k.limits[q].max = w.limits[q].max
      /\ \A q \in Participants : k.limits[q] # NoLimit <=> w.limits[q] # NoLimit
  BY DEF Alike, AlikeLimits, Active
<1>4. \A q, r \in Participants : k.limits[q] # NoLimit /\ k.limits[r] # NoLimit =>
        (k.limits[q].setSeq < k.limits[r].setSeq <=> w.limits[q].setSeq < w.limits[r].setSeq)
  BY DEF Alike, AlikeLimits, Active
<1>5. x # NoLimit <=> y # NoLimit
  BY <1>2 DEF NoLimit
<1>6. x.max = y.max
  OBVIOUS
<1>7. \A q \in Participants : k2.limits[q].max = w2.limits[q].max
  BY <1>1, <1>3, <1>6
<1>8. \A q \in Participants : k2.limits[q] # NoLimit <=> w2.limits[q] # NoLimit
  BY <1>1, <1>3, <1>5
<1>9. Active(k2) = Active(w2)
  BY <1>8 DEF Active
<1>10. ASSUME NEW q \in Active(k2), NEW r \in Active(k2)
       PROVE  k2.limits[q].setSeq < k2.limits[r].setSeq
                <=> w2.limits[q].setSeq < w2.limits[r].setSeq
  <2>1. q \in Participants /\ r \in Participants
        /\ k2.limits[q] # NoLimit /\ k2.limits[r] # NoLimit
    BY DEF Active
  <2>2. CASE q # p /\ r # p
    BY <1>1, <1>4, <2>1, <2>2
  <2>3. CASE q = p /\ r # p
    BY <1>1, <1>2, <2>1, <2>3
  <2>4. CASE q # p /\ r = p
    BY <1>1, <1>2, <2>1, <2>4
  <2>5. CASE q = p /\ r = p
    <3>1. x.setSeq \in Nat /\ y.setSeq \in Nat
      BY DEF NoLimit
    <3> QED BY <1>1, <2>1, <2>5, <3>1
  <2> QED BY <2>2, <2>3, <2>4, <2>5
<1> QED BY <1>7, <1>9, <1>10 DEF Alike, AlikeLimits, TakesLimit

-----------------------------------------------------------------------------
(* Replays of a history that differ in nothing the rules read.             *)

SameBook(k, m) == Alike(k, m) /\ k.limits = m.limits

(* The windows a replay knows at an entry that are active when it is made. *)
WindowsFor(course, entry) ==
  {w \in WindowsAt(course, entry.sequence) : w.from <= entry.at /\ entry.at < w.until}

LEMMA ReplayedSame ==
  ASSUME NEW k \in LotRecord, NEW m \in LotRecord, SameBook(m, k), k.state = "Online",
         NEW entry \in Entry, NEW course, NEW other,
         WindowsFor(other, entry) = WindowsFor(course, entry)
  PROVE  /\ SameBook(Replayed(m, other, entry), Replayed(k, course, entry))
         /\ Replayed(k, course, entry).state = "Online"
<1> DEFINE known == [k EXCEPT !.stepWindows = WindowsAt(course, entry.sequence)]
           knownToo == [m EXCEPT !.stepWindows = WindowsAt(other, entry.sequence)]
           p == entry.participant
           amount == IF known.leader = p THEN Greater(known.price, entry.amount)
                     ELSE entry.amount
<1>1. /\ Shaped(known) /\ Shaped(knownToo) /\ SameBook(knownToo, known)
      /\ known.state = "Online" /\ knownToo.state = "Online"
      /\ known.stepWindows = WindowsAt(course, entry.sequence)
      /\ knownToo.stepWindows = WindowsAt(other, entry.sequence)
      /\ known.leader = knownToo.leader /\ known.price = knownToo.price
  <2>1. Shaped(k) /\ Shaped(m)
    BY LotShaped
  <2>2. Shaped(known) /\ Shaped(knownToo)
    BY <2>1 DEF Shaped
  <2>3. /\ known.state = k.state /\ known.config = k.config /\ known.price = k.price
        /\ known.ask = k.ask /\ known.leader = k.leader /\ known.limits = k.limits
        /\ known.stepWindows = WindowsAt(course, entry.sequence)
    BY DEF LotRecord
  <2>4. /\ knownToo.state = m.state /\ knownToo.config = m.config
        /\ knownToo.price = m.price /\ knownToo.ask = m.ask
        /\ knownToo.leader = m.leader /\ knownToo.limits = m.limits
        /\ knownToo.stepWindows = WindowsAt(other, entry.sequence)
    BY DEF LotRecord
  <2> HIDE DEF known, knownToo
  <2> QED BY <2>2, <2>3, <2>4 DEF SameBook, Alike, AlikeLimits, Active
<1>2. /\ Replayed(k, course, entry) =
           CASE entry.move = "Bid" -> Answered(Bidden(known, BidOf(p, amount)), entry.at)
             [] entry.move = "LimitSet" ->
                  Answered(Limited(known, p, entry.amount, entry.sequence), entry.at)
             [] entry.move = "LimitWithdrawn" -> Unlimited(known, p)
      /\ Replayed(m, other, entry) =
           CASE entry.move = "Bid" -> Answered(Bidden(knownToo, BidOf(p, amount)), entry.at)
             [] entry.move = "LimitSet" ->
                  Answered(Limited(knownToo, p, entry.amount, entry.sequence), entry.at)
             [] entry.move = "LimitWithdrawn" -> Unlimited(knownToo, p)
  <2> DEFINE bids == IF knownToo.leader = p THEN Greater(knownToo.price, entry.amount)
                     ELSE entry.amount
  <2>1. bids = amount
    <3>1. knownToo.leader = known.leader /\ knownToo.price = known.price
      BY <1>1
    <3> HIDE DEF known, knownToo
    <3> QED BY <3>1
  <2>2. Replayed(m, other, entry) =
           CASE entry.move = "Bid" -> Answered(Bidden(knownToo, BidOf(p, bids)), entry.at)
             [] entry.move = "LimitSet" ->
                  Answered(Limited(knownToo, p, entry.amount, entry.sequence), entry.at)
             [] entry.move = "LimitWithdrawn" -> Unlimited(knownToo, p)
    BY DEF Replayed
  <2>3. Replayed(k, course, entry) =
           CASE entry.move = "Bid" -> Answered(Bidden(known, BidOf(p, amount)), entry.at)
             [] entry.move = "LimitSet" ->
                  Answered(Limited(known, p, entry.amount, entry.sequence), entry.at)
             [] entry.move = "LimitWithdrawn" -> Unlimited(known, p)
    BY DEF Replayed
  <2> HIDE DEF known, knownToo, amount, bids
  <2> QED BY <2>1, <2>2, <2>3
<1> HIDE DEF known, knownToo, amount
<1>3. /\ p \in Participants /\ entry.amount \in Sums /\ entry.sequence \in Nat
      /\ entry.move \in {"Bid", "LimitSet", "LimitWithdrawn"}
  BY TimeAssumption DEF Entry
<1>4. ASSUME NEW l, NEW l2, l.state = "Online", l2.state = "Online",
             l.stepWindows = known.stepWindows, l2.stepWindows = knownToo.stepWindows
      PROVE  ActiveWindows(l2, entry.at) = ActiveWindows(l, entry.at)
  BY <1>1, <1>4 DEF ActiveWindows, WindowsFor
<1>5. ASSUME NEW l, NEW l2, Shaped(l), Shaped(l2), SameBook(l2, l), l.state = "Online",
             l.stepWindows = known.stepWindows, l2.stepWindows = knownToo.stepWindows
      PROVE  /\ SameBook(Answered(l2, entry.at), Answered(l, entry.at))
             /\ Answered(l, entry.at).state = "Online"
  <2>1. Alike(l2, l) /\ l2.state = "Online" /\ l2.limits = l.limits
    BY <1>5 DEF SameBook, Alike
  <2>2. ActiveWindows(l2, entry.at) = ActiveWindows(l, entry.at)
    BY <1>4, <1>5, <2>1
  <2>3. /\ Alike(Answered(l2, entry.at), Answered(l, entry.at))
        /\ Answered(l2, entry.at).limits = l2.limits
        /\ Answered(l, entry.at).limits = l.limits
        /\ Answered(l2, entry.at).state = "Online"
    BY <1>5, <2>1, <2>2, AnsweredAlike
  <2> QED BY <2>1, <2>3 DEF SameBook, Alike
<1>6. CASE entry.move = "Bid"
  <2> DEFINE bid == BidOf(p, amount)
             l == Bidden(known, bid)
             l2 == Bidden(knownToo, bid)
  <2>0. bid.amount = amount /\ bid.participant = p
    BY DEF BidOf
  <2> HIDE DEF bid
  <2>1. Shaped(known) /\ Shaped(knownToo)
    BY <1>1
  <2>2. /\ Shaped(l) /\ l.state = known.state /\ l.config = known.config
        /\ l.ask = known.ask /\ l.limits = known.limits
        /\ l.stepWindows = known.stepWindows
        /\ l.price = amount /\ l.leader = p
    BY <2>1, <2>0, BiddenShape
  <2>3. /\ Shaped(l2) /\ l2.state = knownToo.state /\ l2.config = knownToo.config
        /\ l2.ask = knownToo.ask /\ l2.limits = knownToo.limits
        /\ l2.stepWindows = knownToo.stepWindows
        /\ l2.price = amount /\ l2.leader = p
    BY <2>1, <2>0, BiddenShape
  <2> HIDE DEF l, l2
  <2>4. SameBook(l2, l)
    BY <1>1, <2>2, <2>3 DEF SameBook, Alike, AlikeLimits, Active
  <2> QED BY <1>1, <1>2, <1>5, <1>6, <2>2, <2>3, <2>4 DEF l, l2, bid
<1>7. ASSUME NEW x \in [max : Sums, setSeq : Nat], NEW l, NEW l2,
             l = [known EXCEPT !.limits[p] = x], l2 = [knownToo EXCEPT !.limits[p] = x]
      PROVE  /\ Shaped(l) /\ Shaped(l2) /\ SameBook(l2, l) /\ l.state = "Online"
             /\ l.stepWindows = known.stepWindows /\ l2.stepWindows = knownToo.stepWindows
  <2>1. /\ Shaped(l) /\ l.state = known.state /\ l.config = known.config
        /\ l.ask = known.ask /\ l.limits = [known.limits EXCEPT ![p] = x]
        /\ l.stepWindows = known.stepWindows
        /\ l.price = known.price /\ l.leader = known.leader
    BY <1>1, <1>3, <1>7 DEF Shaped
  <2>2. /\ Shaped(l2) /\ l2.state = knownToo.state /\ l2.config = knownToo.config
        /\ l2.ask = knownToo.ask /\ l2.limits = [knownToo.limits EXCEPT ![p] = x]
        /\ l2.stepWindows = knownToo.stepWindows
        /\ l2.price = knownToo.price /\ l2.leader = knownToo.leader
    BY <1>1, <1>3, <1>7 DEF Shaped
  <2> QED BY <1>1, <2>1, <2>2 DEF SameBook, Alike, AlikeLimits, Active
<1>8. CASE entry.move = "LimitSet"
  <2> DEFINE x == [max |-> entry.amount, setSeq |-> entry.sequence]
             l == Limited(known, p, entry.amount, entry.sequence)
             l2 == Limited(knownToo, p, entry.amount, entry.sequence)
  <2>1. x \in [max : Sums, setSeq : Nat]
    BY <1>3
  <2>2. l = [known EXCEPT !.limits[p] = x] /\ l2 = [knownToo EXCEPT !.limits[p] = x]
    BY DEF Limited
  <2> HIDE DEF x, l, l2
  <2>3. /\ Shaped(l) /\ Shaped(l2) /\ SameBook(l2, l) /\ l.state = "Online"
        /\ l.stepWindows = known.stepWindows /\ l2.stepWindows = knownToo.stepWindows
    BY <1>7, <2>1, <2>2
  <2> QED BY <1>2, <1>5, <1>8, <2>3 DEF l, l2
<1>9. CASE entry.move = "LimitWithdrawn"
  <2>1. NoLimit \in [max : Sums, setSeq : Nat]
    BY SumsFacts DEF NoLimit
  <2>2. /\ Unlimited(known, p) = [known EXCEPT !.limits[p] = NoLimit]
        /\ Unlimited(knownToo, p) = [knownToo EXCEPT !.limits[p] = NoLimit]
    BY DEF Unlimited
  <2> QED BY <1>2, <1>7, <1>9, <2>1, <2>2
<1> QED BY <1>3, <1>6, <1>8, <1>9

(* The replay of a history that has grown by an entry, or whose windows    *)
(* have changed where no entry reads them, comes by the same lots as the   *)
(* replay of the history before.                                           *)
LEMMA RerunGrows ==
  ASSUME NEW l \in LotRecord, NEW m \in LotRecord, l.config \in Configs,
         m.config = l.config, m.course.startingPrice = l.course.startingPrice,
         l.course.held = <<>>, m.course.held = <<>>,
         NEW out \in SUBSET Participants, NEW entry \in Entry,
         \A i \in DOMAIN l.course.online :
           WindowsFor(m.course, l.course.online[i]) = WindowsFor(l.course, l.course.online[i]),
         \/ m.course.online = l.course.online
         \/ m.course.online = Append(l.course.online, entry)
  PROVE  \E k \in LotRecord :
           /\ SameBook(k, Rerun(l, out)) /\ k.state = "Online"
           /\ Rerun(l, out).state = "Online"
           /\ Rerun(m, out) = IF m.course.online = l.course.online \/ entry.participant \in out
                              THEN k ELSE Replayed(k, m.course, entry)
<1> DEFINE online == l.course.online
           later == m.course.online
           inputs == online \o l.course.held
           inputsToo == later \o m.course.held
           n == Len(inputs)
           n2 == Len(inputsToo)
<1>1. /\ online \in Seq(Entry) /\ later \in Seq(Entry)
      /\ inputs = online /\ inputsToo = later
  BY DEF LotRecord, History
<1>2. /\ n \in Nat /\ DOMAIN online = 1 .. n /\ n = Len(online)
      /\ \A i \in 1 .. n : online[i] \in Entry
      /\ n2 = Len(later)
  <2> HIDE DEF online, later, inputs, inputsToo
  <2> QED BY <1>1
<1>3. PICK run : IsReplay(run, l, out)
  BY ReplayRuns
<1>4. PICK runToo : IsReplay(runToo, m, out)
  BY ReplayRuns
<1>5. /\ run[0] = AtTheStart(l) /\ Rerun(l, out) = run[n]
      /\ \A i \in 1 .. n : run[i] = Retaken(l, out, run[i - 1], i)
      /\ \A i \in 0 .. n : run[i] \in LotRecord
  BY <1>3 DEF IsReplay, Sound
<1>6. /\ runToo[0] = AtTheStart(m) /\ Rerun(m, out) = runToo[n2]
      /\ \A i \in 1 .. n2 : runToo[i] = Retaken(m, out, runToo[i - 1], i)
      /\ \A i \in 0 .. n2 : runToo[i] \in LotRecord
  BY <1>4 DEF IsReplay, Sound
<1>7. /\ n2 \in {n, n + 1}
      /\ \A i \in 1 .. n : later[i] = online[i]
      /\ later = online => n2 = n
      /\ later # online => n2 = n + 1 /\ later[n + 1] = entry
  <2> HIDE DEF online, later, inputs, inputsToo, n2
  <2>1. CASE later = online
    BY <1>2, <2>1
  <2>2. CASE later # online
    <3>1. later = Append(online, entry)
      BY <2>2 DEF online, later
    <3>2. Len(later) = Len(online) + 1 /\ later[Len(online) + 1] = entry
      BY <1>1, <3>1
    <3>3. \A i \in 1 .. Len(online) : later[i] = online[i]
      BY <1>1, <3>1
    <3> HIDE DEF n
    <3> QED BY <1>2, <2>2, <3>2, <3>3
  <2> QED BY <2>1, <2>2
<1>8. ASSUME NEW i \in 1 .. n, NEW k
      PROVE  /\ Retaken(l, out, k, i) = IF online[i].participant \in out THEN k
                                        ELSE Replayed(k, l.course, online[i])
             /\ Retaken(m, out, k, i) = IF online[i].participant \in out THEN k
                                        ELSE Replayed(k, m.course, online[i])
  <2>1. i <= Len(l.course.online) /\ i <= Len(m.course.online)
    <3>1. n = Len(l.course.online) /\ n2 = Len(m.course.online)
      BY <1>2
    <3> HIDE DEF n, n2
    <3> QED BY <1>2, <1>7, <3>1
  <2>2. inputs[i] = online[i] /\ inputsToo[i] = online[i]
    BY <1>1, <1>7
  <2> QED BY <2>1, <2>2 DEF Retaken
<1> DEFINE T == {i \in 0 .. n : SameBook(runToo[i], run[i]) /\ run[i].state = "Online"}
<1>9. 0 \in T
  <2>1. /\ AtTheStart(l).state = "Online" /\ AtTheStart(l).config = l.config
        /\ AtTheStart(l).price = l.course.startingPrice /\ AtTheStart(l).ask = NoAsk
        /\ AtTheStart(l).leader = NoOne /\ AtTheStart(l).limits = NoLimits
    BY DEF AtTheStart, LotRecord
  <2>2. /\ AtTheStart(m).state = "Online" /\ AtTheStart(m).config = m.config
        /\ AtTheStart(m).price = m.course.startingPrice /\ AtTheStart(m).ask = NoAsk
        /\ AtTheStart(m).leader = NoOne /\ AtTheStart(m).limits = NoLimits
    BY DEF AtTheStart, LotRecord
  <2>3. SameBook(AtTheStart(m), AtTheStart(l))
    BY <2>1, <2>2 DEF SameBook, Alike, AlikeLimits, Active
  <2>4. 0 \in 0 .. n
    BY <1>2
  <2> HIDE DEF n, n2
  <2> QED BY <1>5, <1>6, <2>1, <2>3, <2>4
<1>10. ASSUME NEW i \in 1 .. n, i - 1 \in T
       PROVE  i \in T
  <2>1. i \in 0 .. n /\ i - 1 \in 0 .. n /\ i - 1 \in 0 .. n2 /\ i \in 1 .. n2
    <3> HIDE DEF n, n2
    <3> QED BY <1>2, <1>7
  <2> DEFINE before == run[i - 1]
             beforeToo == runToo[i - 1]
  <2>2. /\ before \in LotRecord /\ beforeToo \in LotRecord
        /\ SameBook(beforeToo, before) /\ before.state = "Online"
    <3> HIDE DEF n, n2
    <3> QED BY <1>5, <1>6, <1>10, <2>1
  <2>3. /\ run[i] = IF online[i].participant \in out THEN before
                    ELSE Replayed(before, l.course, online[i])
        /\ runToo[i] = IF online[i].participant \in out THEN beforeToo
                       ELSE Replayed(beforeToo, m.course, online[i])
    <3> HIDE DEF n, n2, online
    <3> QED BY <1>5, <1>6, <1>8, <2>1
  <2>4. /\ online[i] \in Entry
        /\ WindowsFor(m.course, online[i]) = WindowsFor(l.course, online[i])
    <3>1. i \in DOMAIN online
      BY <1>2
    <3> HIDE DEF n
    <3> QED BY <1>2, <3>1
  <2> HIDE DEF before, beforeToo, online, n
  <2>5. SameBook(runToo[i], run[i]) /\ run[i].state = "Online"
    BY <2>2, <2>3, <2>4, ReplayedSame
  <2> QED BY <2>1, <2>5
<1>11. SameBook(runToo[n], run[n]) /\ run[n].state = "Online"
  <2>1. 0 .. n \subseteq T
    <3> HIDE DEF T, n
    <3> QED BY <1>2, <1>9, <1>10, RunInduction
  <2> HIDE DEF n
  <2>2. n \in 0 .. n
    BY <1>2
  <2> QED BY <2>1, <2>2
<1>12. runToo[n] \in LotRecord
  <2> HIDE DEF n, n2
  <2>1. n \in 0 .. n2
    BY <1>2, <1>7
  <2> QED BY <1>6, <2>1
<1>13. Rerun(m, out) = IF later = online \/ entry.participant \in out THEN runToo[n]
                       ELSE Replayed(runToo[n], m.course, entry)
  <2>1. CASE later = online
    <3>1. n2 = n
      BY <1>7, <2>1
    <3> HIDE DEF n, n2, later, online
    <3> QED BY <1>6, <2>1, <3>1
  <2>2. CASE later # online
    <3>1. n2 = n + 1 /\ later[n + 1] = entry
      BY <1>7, <2>2
    <3>2. /\ n + 1 \in 1 .. n2 /\ (n + 1) - 1 = n
      <4> HIDE DEF n, n2
      <4> QED BY <1>2, <3>1
    <3>3. runToo[n + 1] = Retaken(m, out, runToo[n], n + 1)
      <4> HIDE DEF n, n2
      <4> QED BY <1>6, <3>2
    <3>4. inputsToo[n + 1] = entry /\ n + 1 <= Len(m.course.online)
      <4>1. inputsToo[n + 1] = entry /\ n2 = Len(m.course.online)
        BY <1>1, <1>2, <3>1
      <4> HIDE DEF n, n2, inputsToo
      <4> QED BY <3>1, <4>1, <1>2
    <3>5. runToo[n + 1] = IF entry.participant \in out THEN runToo[n]
                          ELSE Replayed(runToo[n], m.course, entry)
      <4> HIDE DEF n
      <4> QED BY <3>3, <3>4 DEF Retaken
    <3> HIDE DEF n, n2, later, online
    <3> QED BY <1>6, <2>2, <3>1, <3>5
  <2> QED BY <2>1, <2>2
<1> HIDE DEF n
<1> QED BY <1>5, <1>11, <1>12, <1>13 DEF SameBook, Alike

-----------------------------------------------------------------------------
(* One input, entered in both lots.                                        *)

LEMMA BookAlike ==
  ASSUME NEW k, NEW m, NEW w, SameBook(k, m), Alike(m, w)
  PROVE  Alike(k, w)
BY DEF SameBook, Alike, AlikeLimits, Active

(* A replay and a lot alike before an entry that is the latest of both.    *)
Abreast(k, w, entry, course, seq) ==
  /\ Shaped(k) /\ Shaped(w) /\ Alike(k, w) /\ k.state = "Online"
  /\ WindowsAt(course, entry.sequence) = w.stepWindows
  /\ \A p \in Participants : k.limits[p].setSeq < entry.sequence
  /\ \A p \in Participants : w.limits[p].setSeq < seq

(* The second lot takes the entry, and its limits answer it.               *)
TakesToo(w, entry, seq, taken) ==
  \/ /\ entry.move = "Bid" /\ w.leader # entry.participant
     /\ TakesBid(w, entry.participant, entry.amount, taken)
  \/ /\ entry.move = "LimitSet"
     /\ TakesLimit(w, entry.participant, [max |-> entry.amount, setSeq |-> seq], taken)

AnswersToo(next, w, entry, taken) ==
  /\ Alike(next, Answered(taken, entry.at))
  /\ Shaped(Answered(taken, entry.at))
  /\ Answered(taken, entry.at).stepWindows = w.stepWindows
  /\ Answered(taken, entry.at).limits = taken.limits

LEMMA InBoth ==
  ASSUME NEW k, NEW w, NEW entry \in Entry, NEW course, NEW seq \in Nat,
         Abreast(k, w, entry, course, seq), NEW taken
  PROVE  LET p    == entry.participant
             next == Replayed(k, course, entry)
         IN  /\ \A q \in Participants : next.limits[q].setSeq <= entry.sequence
             /\ TakesToo(w, entry, seq, taken) => AnswersToo(next, w, entry, taken)
             /\ entry.move = "LimitWithdrawn" /\ TakesLimit(w, p, NoLimit, taken)
                => Alike(next, taken)
<1> DEFINE known == [k EXCEPT !.stepWindows = WindowsAt(course, entry.sequence)]
           p == entry.participant
           at == entry.at
           next == Replayed(k, course, entry)
           amount == IF known.leader = p THEN Greater(known.price, entry.amount)
                     ELSE entry.amount
           limit == [max |-> entry.amount, setSeq |-> entry.sequence]
<1>0. /\ Shaped(k) /\ Shaped(w) /\ Alike(k, w) /\ k.state = "Online"
      /\ WindowsAt(course, entry.sequence) = w.stepWindows
      /\ \A q \in Participants : k.limits[q].setSeq < entry.sequence
      /\ \A q \in Participants : w.limits[q].setSeq < seq
  BY DEF Abreast
<1>1. /\ Shaped(known) /\ Alike(known, w) /\ known.state = "Online"
      /\ known.stepWindows = w.stepWindows /\ known.leader = w.leader
      /\ known.limits = k.limits
  <2>1. Shaped(known)
    BY <1>0 DEF Shaped
  <2>2. /\ known.state = k.state /\ known.config = k.config /\ known.price = k.price
        /\ known.ask = k.ask /\ known.leader = k.leader /\ known.limits = k.limits
        /\ known.stepWindows = WindowsAt(course, entry.sequence)
    BY <1>0 DEF Shaped
  <2> HIDE DEF known
  <2> QED BY <1>0, <2>1, <2>2 DEF Alike, AlikeLimits, Active
<1>2. next = CASE entry.move = "Bid" -> Answered(Bidden(known, BidOf(p, amount)), at)
               [] entry.move = "LimitSet" ->
                    Answered(Limited(known, p, entry.amount, entry.sequence), at)
               [] entry.move = "LimitWithdrawn" -> Unlimited(known, p)
  BY DEF Replayed
<1>3. /\ p \in Participants /\ entry.amount \in Sums
      /\ entry.sequence \in Nat /\ limit \in [max : Sums, setSeq : Nat]
      /\ entry.move \in {"Bid", "LimitSet", "LimitWithdrawn"}
  <2>1. p \in Participants /\ entry.amount \in Sums /\ entry.sequence \in Nat
        /\ entry.move \in {"Bid", "LimitSet", "LimitWithdrawn"}
    BY TimeAssumption DEF Entry
  <2> QED BY <2>1
<1> HIDE DEF known, amount, limit, next
<1>4. /\ k.limits \in [Participants -> [max : Sums, setSeq : Nat]]
      /\ w.limits \in [Participants -> [max : Sums, setSeq : Nat]]
  BY <1>0 DEF Shaped
<1>5. ASSUME NEW a, NEW b, Shaped(a), Shaped(b), Alike(a, b), a.state = "Online",
             a.stepWindows = known.stepWindows, b.stepWindows = w.stepWindows
      PROVE  /\ Alike(Answered(a, at), Answered(b, at))
             /\ Shaped(Answered(b, at))
             /\ Answered(b, at).stepWindows = w.stepWindows
             /\ Answered(a, at).limits = a.limits
             /\ Answered(b, at).limits = b.limits
  <2>1. b.state = "Online"
    BY <1>5 DEF Alike
  <2>2. ActiveWindows(a, at) = ActiveWindows(b, at)
    BY <1>0, <1>1, <1>5, <2>1 DEF ActiveWindows
  <2> QED BY <1>5, <2>2, AnsweredAlike
<1>6. ASSUME NEW l, Shaped(l), NEW x \in [max : Sums, setSeq : Nat]
      PROVE  TakesLimit(l, p, x, [l EXCEPT !.limits[p] = x])
  BY <1>3, <1>6 DEF Shaped, TakesLimit
<1>7. CASE entry.move = "Bid"
  <2> DEFINE bid == BidOf(p, amount)
             a == Bidden(known, bid)
  <2>0. bid.amount = amount /\ bid.participant = p
    BY DEF BidOf
  <2>1. TakesBid(known, p, amount, a)
    <3>1. /\ Shaped(a) /\ a.state = known.state /\ a.config = known.config
          /\ a.ask = known.ask /\ a.limits = known.limits
          /\ a.stepWindows = known.stepWindows
          /\ a.price = amount /\ a.leader = p
      <4>1. Shaped(known)
        BY <1>1
      <4> HIDE DEF bid
      <4> QED BY <4>1, <2>0, BiddenShape
    <3> HIDE DEF a
    <3> QED BY <3>1 DEF TakesBid
  <2>2. next = Answered(a, at)
    BY <1>2, <1>7
  <2> HIDE DEF a
  <2>3. ASSUME w.leader # p, TakesBid(w, p, entry.amount, taken)
        PROVE  Alike(a, taken)
    <3>1. amount = entry.amount
      BY <1>0, <1>1, <2>3 DEF amount
    <3>2. Active(a) = Active(known) /\ Active(taken) = Active(w)
      BY <2>1, <2>3 DEF TakesBid, Active
    <3> QED BY <1>0, <1>1, <2>1, <2>3, <3>1, <3>2 DEF TakesBid, Alike, AlikeLimits
  <2>4. /\ Shaped(a) /\ a.state = "Online" /\ a.stepWindows = known.stepWindows
        /\ a.limits = k.limits
    BY <1>0, <1>1, <2>1 DEF TakesBid
  <2>5. Answered(a, at).limits = a.limits
    <3>1. Alike(a, a)
      BY DEF Alike, AlikeLimits
    <3> QED BY <2>4, <3>1, AnsweredAlike
  <2>6. \A q \in Participants : next.limits[q].setSeq <= entry.sequence
    <3> TAKE q \in Participants
    <3>1. next.limits[q] = k.limits[q]
      BY <2>2, <2>4, <2>5
    <3>2. k.limits[q].setSeq \in Nat
      BY <1>4
    <3>3. k.limits[q].setSeq < entry.sequence
      BY <1>0
    <3> QED BY <1>3, <3>1, <3>2, <3>3
  <2>7. ASSUME TakesToo(w, entry, seq, taken) PROVE AnswersToo(next, w, entry, taken)
    <3>1. w.leader # p /\ TakesBid(w, p, entry.amount, taken)
      BY <1>7, <2>7 DEF TakesToo
    <3>2. Shaped(taken) /\ taken.stepWindows = w.stepWindows
      BY <3>1 DEF TakesBid
    <3> QED BY <1>5, <2>2, <2>3, <2>4, <3>1, <3>2 DEF AnswersToo
  <2> QED BY <1>7, <2>6, <2>7 DEF next
<1>8. ASSUME NEW x \in [max : Sums, setSeq : Nat], NEW y \in [max : Sums, setSeq : Nat],
             x.max = y.max,
             \/ x = NoLimit /\ y = NoLimit
             \/ x.setSeq = entry.sequence /\ y.setSeq = seq,
             NEW a, a = [known EXCEPT !.limits[p] = x]
      PROVE  /\ TakesLimit(w, p, y, taken) => Alike(a, taken)
             /\ Shaped(a) /\ a.state = "Online" /\ a.stepWindows = known.stepWindows
             /\ \A q \in Participants : a.limits[q].setSeq <= entry.sequence
  <2>1. TakesLimit(known, p, x, a)
    BY <1>0, <1>1, <1>6, <1>8
  <2>2. ASSUME TakesLimit(w, p, y, taken) PROVE Alike(a, taken)
    <3>1. known.limits = k.limits /\ Alike(known, w) /\ p \in Participants
      BY <1>1, <1>3
    <3>2. /\ \A q \in Participants : known.limits[q].setSeq < entry.sequence
          /\ \A q \in Participants : w.limits[q].setSeq < seq
      BY <1>0, <3>1
    <3>3. x.setSeq \in Nat /\ y.setSeq \in Nat
      BY <1>8
    <3>4. /\ known.limits \in [Participants -> [max : Sums, setSeq : Nat]]
          /\ w.limits \in [Participants -> [max : Sums, setSeq : Nat]]
      BY <1>4, <3>1
    <3>5. \/ x = NoLimit /\ y = NoLimit
          \/ /\ x.max = y.max /\ x.setSeq \in Nat /\ y.setSeq \in Nat
             /\ \A q \in Participants : known.limits[q].setSeq < x.setSeq
             /\ \A q \in Participants : w.limits[q].setSeq < y.setSeq
      <4>1. CASE x = NoLimit /\ y = NoLimit
        BY <4>1
      <4>2. CASE x.setSeq = entry.sequence /\ y.setSeq = seq
        BY <1>8, <3>2, <3>3, <4>2
      <4> QED BY <1>8, <4>1, <4>2
    <3> QED BY <2>1, <2>2, <3>1, <3>4, <3>5, LimitAlike
  <2>3. \A q \in Participants : a.limits[q] = IF q = p THEN x ELSE k.limits[q]
    BY <1>0, <1>1, <1>4, <2>1 DEF TakesLimit
  <2>4. \A q \in Participants : a.limits[q].setSeq <= entry.sequence
    <3>1. x.setSeq <= entry.sequence
      BY <1>3, <1>8 DEF NoLimit
    <3>2. \A q \in Participants : k.limits[q].setSeq <= entry.sequence
      <4> TAKE q \in Participants
      <4>1. k.limits[q].setSeq \in Nat /\ k.limits[q].setSeq < entry.sequence
        BY <1>0, <1>4
      <4> QED BY <1>3, <4>1
    <3> QED BY <2>3, <3>1, <3>2
  <2> QED BY <1>0, <1>1, <2>1, <2>2, <2>4 DEF TakesLimit
<1>9. CASE entry.move = "LimitSet"
  <2> DEFINE a == Limited(known, p, entry.amount, entry.sequence)
             y == [max |-> entry.amount, setSeq |-> seq]
  <2>1. a = [known EXCEPT !.limits[p] = limit]
    BY DEF Limited, limit
  <2>2. /\ y \in [max : Sums, setSeq : Nat] /\ y.max = limit.max
        /\ limit.setSeq = entry.sequence /\ y.setSeq = seq
    BY <1>3 DEF limit
  <2>3. next = Answered(a, at)
    BY <1>2, <1>9
  <2> HIDE DEF a, y
  <2>4. /\ TakesLimit(w, p, y, taken) => Alike(a, taken)
        /\ Shaped(a) /\ a.state = "Online" /\ a.stepWindows = known.stepWindows
        /\ \A q \in Participants : a.limits[q].setSeq <= entry.sequence
    BY <1>3, <1>8, <2>1, <2>2
  <2>5. Answered(a, at).limits = a.limits
    <3>1. Alike(a, a)
      BY DEF Alike, AlikeLimits
    <3> QED BY <2>4, <3>1, AnsweredAlike
  <2>6. ASSUME TakesToo(w, entry, seq, taken) PROVE AnswersToo(next, w, entry, taken)
    <3>1. TakesLimit(w, p, y, taken)
      BY <1>9, <2>6 DEF TakesToo, y
    <3>2. Shaped(taken) /\ taken.stepWindows = w.stepWindows
      BY <3>1 DEF TakesLimit
    <3> QED BY <1>5, <2>3, <2>4, <3>1, <3>2 DEF AnswersToo
  <2> QED BY <1>9, <2>3, <2>4, <2>5, <2>6 DEF next
<1>10. CASE entry.move = "LimitWithdrawn"
  <2>1. NoLimit \in [max : Sums, setSeq : Nat]
    BY SumsFacts DEF NoLimit
  <2>2. next = [known EXCEPT !.limits[p] = NoLimit]
    BY <1>2, <1>10 DEF Unlimited
  <2>3. /\ TakesLimit(w, p, NoLimit, taken) => Alike(next, taken)
        /\ \A q \in Participants : next.limits[q].setSeq <= entry.sequence
    BY <1>8, <2>1, <2>2
  <2>4. ~TakesToo(w, entry, seq, taken)
    BY <1>10 DEF TakesToo
  <2> QED BY <1>10, <2>3, <2>4 DEF next
<1> QED BY <1>3, <1>7, <1>9, <1>10

-----------------------------------------------------------------------------
(* The rules of the second lot are the rules of the first.                 *)

LEMMA SameConstants ==
  /\ World!NoLimit = NoLimit /\ World!NoLimits = NoLimits /\ World!NoBid = NoBid
  /\ World!NoAsk = NoAsk /\ World!NoSum = NoSum
  /\ World!NoCourse = NoCourse /\ World!NoPeriod = NoPeriod /\ World!Trading = Trading
  /\ \A state : World!Blank(state) = Blank(state)
BY DEF World!NoLimit, NoLimit, World!NoLimits, NoLimits, World!NoBid, NoBid, World!NoAsk,
       NoAsk, World!NoDeadline, NoDeadline, World!NoSum, NoSum, World!NoCourse, NoCourse,
       World!NoConfig, NoConfig, World!NoPeriod, NoPeriod, World!Trading, Trading,
       World!Blank, Blank

LEMMA SameLots ==
  /\ \A p, amount : World!BidOf(p, amount) = BidOf(p, amount)
  /\ \A l, bid : World!Bidden(l, bid) = Bidden(l, bid)
  /\ \A l, p, max, seq : World!Limited(l, p, max, seq) = Limited(l, p, max, seq)
  /\ \A l, p : World!Unlimited(l, p) = Unlimited(l, p)
  /\ \A l : World!Active(l) = Active(l)
  /\ \A l, used : World!Extended(l, used) = Extended(l, used)
  /\ \A windows, period : World!OfPeriod(windows, period) = OfPeriod(windows, period)
BY SameConstants
   DEF World!BidOf, BidOf, World!Bidden, Bidden, World!Limited, Limited,
       World!Unlimited, Unlimited, World!Active, Active, World!Extended, Extended,
       World!OfPeriod, OfPeriod

LEMMA SameSums ==
  /\ \A a, b : World!Lesser(a, b) = Lesser(a, b) /\ World!Greater(a, b) = Greater(a, b)
  /\ \A a, b : World!Plus(a, b) = Plus(a, b) /\ World!SaturatedPlus(a, b) = SaturatedPlus(a, b)
  /\ \A policy, price : World!PolicyStep(policy, price) = PolicyStep(policy, price)
  /\ \A l, at : World!ActiveWindows(l, at) = ActiveWindows(l, at)
<1>1. \A a, b : World!Lesser(a, b) = Lesser(a, b) /\ World!Greater(a, b) = Greater(a, b)
  BY DEF World!Lesser, Lesser, World!Greater, Greater
<1>2. \A a, b : World!Plus(a, b) = Plus(a, b) /\ World!SaturatedPlus(a, b) = SaturatedPlus(a, b)
  BY <1>1 DEF World!Plus, Plus, World!SaturatedPlus, SaturatedPlus
<1>3. \A policy, price : World!PolicyStep(policy, price) = PolicyStep(policy, price)
  BY DEF World!PolicyStep, PolicyStep, World!Governs, Governs
<1>4. \A l, at : World!ActiveWindows(l, at) = ActiveWindows(l, at)
  BY DEF World!ActiveWindows, ActiveWindows
<1> QED BY <1>1, <1>2, <1>3, <1>4

LEMMA SameFloors ==
  /\ \A l, price : World!BaseStep(l, price) = BaseStep(l, price)
  /\ \A l, price, at : World!StepAt(l, price, at) = StepAt(l, price, at)
  /\ \A l, at : World!LimitFloor(l, at) = LimitFloor(l, at)
  /\ \A l : World!Opening(l) = Opening(l)
<1>1. \A l, price : World!BaseStep(l, price) = BaseStep(l, price)
  BY SameSums DEF World!BaseStep, BaseStep
<1>2. \A l, price, at : World!StepAt(l, price, at) = StepAt(l, price, at)
  BY <1>1, SameConstants, SameSums DEF World!StepAt, StepAt
<1>3. \A l : World!Opening(l) = Opening(l)
  BY DEF World!Opening, Opening
<1>4. \A l, at : World!OpeningPrice(l, at) = OpeningPrice(l, at)
  BY SameConstants, SameSums DEF World!OpeningPrice, OpeningPrice
<1>5. \A l : World!AskAbovePrice(l) = AskAbovePrice(l) /\ World!Floor(l) = Floor(l)
  BY SameConstants DEF World!AskAbovePrice, AskAbovePrice, World!Floor, Floor
<1>6. \A l, at : World!MinRequired(l, at) = MinRequired(l, at)
  BY <1>2, <1>3, <1>4, <1>5, SameSums DEF World!MinRequired, MinRequired
<1>7. \A l, at : World!LimitFloor(l, at) = LimitFloor(l, at)
  BY <1>3, <1>5, <1>6 DEF World!LimitFloor, LimitFloor
<1> QED BY <1>1, <1>2, <1>3, <1>7

LEMMA SameAnswers ==
  ASSUME NEW l, l.state = "Online", NEW at
  PROVE  World!Resolve(l, at) = Resolve(l, at) /\ World!Answered(l, at) = Answered(l, at)
<1>1. \A a, b : World!Stronger(a, b) = Stronger(a, b)
  BY DEF World!Stronger, Stronger
<1>2. \A k, set : World!Strongest(k, set) = Strongest(k, set)
  <2> TAKE k, set
  <2> DEFINE top == {p \in set : \A q \in set \ {p} : Stronger(k.limits[p], k.limits[q])}
             topToo == {p \in set : \A q \in set \ {p} : World!Stronger(k.limits[p], k.limits[q])}
  <2>1. topToo = top
    BY <1>1
  <2>2. /\ Strongest(k, set) = IF top = {} THEN NoOne ELSE CHOOSE p \in top : TRUE
        /\ World!Strongest(k, set) = IF topToo = {} THEN NoOne ELSE CHOOSE p \in topToo : TRUE
    BY DEF World!Strongest, Strongest
  <2> HIDE DEF top, topToo
  <2> QED BY <2>1, <2>2
<1>3. \A k : World!RunnerUp(k) = RunnerUp(k) /\ World!LeaderMax(k) = LeaderMax(k)
  BY <1>2, SameLots DEF World!RunnerUp, RunnerUp, World!LeaderMax, LeaderMax
<1>4. \A k, rival : World!LeaderHolds(k, rival) = LeaderHolds(k, rival)
                    /\ World!Winner(k, rival) = Winner(k, rival)
  BY <1>1, SameLots DEF World!LeaderHolds, LeaderHolds, World!Winner, Winner
<1>5. \A k, t, rival : World!OnlineTarget(k, t, rival) = OnlineTarget(k, t, rival)
  BY <1>3, <1>4, SameFloors, SameSums DEF World!OnlineTarget, OnlineTarget
<1>6. \A k, t : World!ResolveOnline(k, t) = ResolveOnline(k, t)
  BY <1>2, <1>4, <1>5, SameFloors, SameConstants, SameLots
     DEF World!ResolveOnline, ResolveOnline
<1>7. World!Resolve(l, at) = Resolve(l, at)
  BY <1>6 DEF World!Resolve, Resolve
<1> QED BY <1>7, SameConstants, SameLots DEF World!Answered, Answered, World!AfterAnswer, AfterAnswer

-----------------------------------------------------------------------------
(* The steps of the second lot.                                            *)

(* The second lot takes an entry and its limits answer.                    *)
WorldAnswers(taken) ==
  \/ world' = Answered(taken, now)
  \/ \E used : world' = Extended(Answered(taken, now), used)

WorldOnline == Shaped(world) /\ world.state = "Online" /\ worldSequence \in Nat

LEMMA WorldRecords ==
  ASSUME worldSequence \in Nat, NEW command, NEW p, NEW events \in Nat, NEW next,
         World!Record(command, p, events, next)
  PROVE  /\ world' = next /\ worldSequence' = worldSequence + events
         /\ worldSequence' \in Nat
BY DEF World!Record

LEMMA WorldOne == \A condition : World!One(condition) \in {0, 1}
BY DEF World!One

LEMMA WorldEnters ==
  ASSUME WorldOnline, NEW l, Shaped(l), NEW p, NEW move, NEW amount
  PROVE  LET entered == World!Entered(l, p, move, amount)
         IN  /\ Shaped(entered)
             /\ entered.state = l.state /\ entered.config = l.config
             /\ entered.price = l.price /\ entered.ask = l.ask
             /\ entered.leader = l.leader /\ entered.limits = l.limits
             /\ entered.stepWindows = l.stepWindows
<1> DEFINE entry == [participant |-> p, move |-> move, amount |-> amount,
                     at |-> now, sequence |-> worldSequence + 1]
           course == [l.course EXCEPT !.online = Append(@, entry)]
<1>1. World!Entered(l, p, move, amount) = [l EXCEPT !.course = course]
  <2>1. World!Entered(l, p, move, amount) = [l EXCEPT !.course.online = Append(@, entry)]
    BY DEF World!Entered, WorldOnline
  <2> HIDE DEF entry
  <2> QED BY <2>1 DEF Shaped
<1> HIDE DEF course
<1> QED BY <1>1 DEF Shaped

LEMMA WorldBids ==
  ASSUME WorldOnline, NEW p \in Participants, NEW amount, World!PlaceBid(p, amount, "Bot")
  PROVE  /\ worldSequence' \in Nat /\ worldSequence' > worldSequence
         /\ world.leader # p
         /\ \E taken : TakesBid(world, p, amount, taken) /\ WorldAnswers(taken)
<1> DEFINE bid == BidOf(p, amount)
           bidden == Bidden(world, bid)
           taken == World!Entered(bidden, p, "Bid", amount)
           extends == World!Extends(world, now)
           answered == World!Answered(taken, now)
           next == IF extends THEN World!Extended(answered, world.extensionsUsed + 1)
                   ELSE answered
           events == 1 + World!One(World!Resolve(taken, now) # World!NoBid)
                       + World!One(extends)
<1>1. World!Record("PlaceBid", p, events, next) /\ world.leader # p
  BY SameLots DEF World!PlaceBid, World!BidAccepted
<1>2. events \in Nat /\ events > 0
  BY WorldOne
<1>3. /\ Shaped(bidden) /\ bidden.state = world.state /\ bidden.config = world.config
      /\ bidden.ask = world.ask /\ bidden.limits = world.limits
      /\ bidden.stepWindows = world.stepWindows
      /\ bidden.price = amount /\ bidden.leader = p
  <2>1. Shaped(world)
    BY DEF WorldOnline
  <2>2. bid.amount = amount /\ bid.participant = p
    BY DEF BidOf
  <2> HIDE DEF bid
  <2> QED BY <2>1, <2>2, BiddenShape
<1> HIDE DEF bidden
<1>4. TakesBid(world, p, amount, taken)
  <2>1. /\ Shaped(taken)
        /\ taken.state = bidden.state /\ taken.config = bidden.config
        /\ taken.price = bidden.price /\ taken.ask = bidden.ask
        /\ taken.leader = bidden.leader /\ taken.limits = bidden.limits
        /\ taken.stepWindows = bidden.stepWindows
    BY <1>3, WorldEnters
  <2> HIDE DEF taken
  <2> QED BY <1>3, <2>1 DEF TakesBid
<1>5. taken.state = "Online"
  BY <1>4 DEF TakesBid, WorldOnline
<1> HIDE DEF taken
<1>6. answered = Answered(taken, now)
  BY <1>5, SameAnswers
<1> HIDE DEF events, extends, answered
<1>7. world' = next /\ worldSequence' = worldSequence + events
  BY <1>1, <1>2, WorldRecords DEF WorldOnline
<1>8. WorldAnswers(taken)
  BY <1>6, <1>7, SameLots DEF WorldAnswers
<1> HIDE DEF next
<1>9. worldSequence' \in Nat /\ worldSequence' > worldSequence
  BY <1>2, <1>7 DEF WorldOnline
<1> QED BY <1>1, <1>4, <1>8, <1>9

LEMMA WorldSetsLimit ==
  ASSUME WorldOnline, NEW p \in Participants, NEW max \in Sums, World!SetProxyLimit(p, max)
  PROVE  /\ worldSequence' \in Nat /\ worldSequence' > worldSequence
         /\ \E taken :
              /\ TakesLimit(world, p, [max |-> max, setSeq |-> worldSequence + 1], taken)
              /\ WorldAnswers(taken)
<1> DEFINE limit == [max |-> max, setSeq |-> worldSequence + 1]
           limited == Limited(world, p, max, worldSequence + 1)
           taken == World!Entered(limited, p, "LimitSet", max)
           bids == world.state # "Held" /\ World!Resolve(taken, now) # World!NoBid
           extends == bids /\ World!Extends(world, now)
           answered == IF bids THEN World!Answered(taken, now) ELSE taken
           next == IF extends THEN World!Extended(answered, world.extensionsUsed + 1)
                   ELSE answered
           events == 1 + World!One(bids) + World!One(extends)
<1>1. World!Record("SetProxyLimit", p, events, next)
  BY SameLots DEF World!SetProxyLimit
<1>2. events \in Nat /\ events > 0
  BY WorldOne
<1>3. TakesLimit(world, p, limit, limited)
  <2>1. limit \in [max : Sums, setSeq : Nat]
    BY DEF WorldOnline
  <2>2. limited = [world EXCEPT !.limits[p] = limit]
    BY DEF Limited
  <2> HIDE DEF limit, limited
  <2> QED BY <2>1, <2>2 DEF WorldOnline, Shaped, TakesLimit
<1> HIDE DEF limited, limit
<1>4. TakesLimit(world, p, limit, taken)
  <2>1. Shaped(limited)
    BY <1>3 DEF TakesLimit
  <2>2. /\ Shaped(taken)
        /\ taken.state = limited.state /\ taken.config = limited.config
        /\ taken.price = limited.price /\ taken.ask = limited.ask
        /\ taken.leader = limited.leader /\ taken.limits = limited.limits
        /\ taken.stepWindows = limited.stepWindows
    BY <2>1, WorldEnters
  <2> HIDE DEF taken
  <2> QED BY <1>3, <2>2 DEF TakesLimit
<1>5. taken.state = "Online" /\ world.state # "Held"
  BY <1>4 DEF TakesLimit, WorldOnline
<1> HIDE DEF taken
<1>6. answered = Answered(taken, now)
  BY <1>5, SameAnswers, SameConstants DEF Answered, AfterAnswer
<1> HIDE DEF bids, extends, answered, events
<1>7. world' = next /\ worldSequence' = worldSequence + events
  BY <1>1, <1>2, WorldRecords DEF WorldOnline
<1>8. WorldAnswers(taken)
  BY <1>6, <1>7, SameLots DEF WorldAnswers
<1> HIDE DEF next
<1>9. worldSequence' \in Nat /\ worldSequence' > worldSequence
  BY <1>2, <1>7 DEF WorldOnline
<1> QED BY <1>4, <1>8, <1>9 DEF limit

LEMMA WorldWithdraws ==
  ASSUME WorldOnline, NEW p \in Participants, World!WithdrawProxyLimit(p)
  PROVE  /\ worldSequence' \in Nat /\ worldSequence' > worldSequence
         /\ TakesLimit(world, p, NoLimit, world')
<1> DEFINE limited == Unlimited(world, p)
           taken == World!Entered(limited, p, "LimitWithdrawn", World!NoSum)
<1>1. World!Record("WithdrawProxyLimit", p, 1, taken)
  BY SameLots DEF World!WithdrawProxyLimit
<1>2. TakesLimit(world, p, NoLimit, limited)
  <2>1. NoLimit \in [max : Sums, setSeq : Nat]
    BY SumsFacts DEF NoLimit
  <2>2. limited = [world EXCEPT !.limits[p] = NoLimit]
    BY DEF Unlimited
  <2> HIDE DEF limited
  <2> QED BY <2>1, <2>2 DEF WorldOnline, Shaped, TakesLimit
<1> HIDE DEF limited
<1>3. TakesLimit(world, p, NoLimit, taken)
  <2>1. Shaped(limited)
    BY <1>2 DEF TakesLimit
  <2>2. /\ Shaped(taken)
        /\ taken.state = limited.state /\ taken.config = limited.config
        /\ taken.price = limited.price /\ taken.ask = limited.ask
        /\ taken.leader = limited.leader /\ taken.limits = limited.limits
        /\ taken.stepWindows = limited.stepWindows
    BY <2>1, WorldEnters
  <2> HIDE DEF taken
  <2> QED BY <1>2, <2>2 DEF TakesLimit
<1> HIDE DEF taken
<1>4. world' = taken /\ worldSequence' = worldSequence + 1
  BY <1>1, WorldRecords DEF WorldOnline
<1> QED BY <1>3, <1>4 DEF WorldOnline

-----------------------------------------------------------------------------
(* The invariant: what the replay without the intruder and the second lot  *)
(* have in common while both trade.                                        *)

Together ==
  LET replay == Rerun(lot, {Intruder})
  IN  /\ lot.course.held = <<>>
      /\ \A i \in DOMAIN lot.course.online :
           lot.course.online[i].at <= now /\ lot.course.online[i].sequence <= sequence
      /\ WorldOnline /\ world.stepWindows = lot.stepWindows
      /\ Alike(replay, world)
      /\ \A p \in Participants : replay.limits[p].setSeq <= sequence
      /\ \A p \in Participants : world.limits[p].setSeq <= worldSequence

(* Until they trade the two lots are one.                                  *)
InStep ==
  /\ lot.course.removed = {} /\ worldSequence \in Nat
  /\ \/ lot.state \in {"Initial", "Draft", "Scheduled"} /\ world = lot
     \/ lot.state = "Online" /\ Together

(* The removal ends the histories.                                         *)
Parallel == Intruder \notin lot.course.removed => InStep

-----------------------------------------------------------------------------
(* An input of the online week.                                            *)

(* The first lot takes the entry into its history.                         *)
Enters(entry) ==
  /\ lot'.course = [lot.course EXCEPT !.online = Append(@, entry)]
  /\ lot'.state = "Online" /\ lot'.config = lot.config
  /\ lot'.stepWindows = lot.stepWindows
  /\ entry.sequence = sequence + 1 /\ entry.at = now /\ now' = now
  /\ sequence \in Nat /\ sequence' \in Nat /\ sequence' > sequence

EntryOf(p, move, amount) ==
  [participant |-> p, move |-> move, amount |-> amount, at |-> now, sequence |-> sequence + 1]

LEMMA InputEnters ==
  ASSUME IInv, IInv', lot.state = "Online", NEW p \in Participants, NEW move, NEW amount,
         \/ move = "Bid" /\ amount \in BidAmounts /\ PlaceBid(p, amount, "Bot")
         \/ move = "LimitSet" /\ amount \in LimitAmounts /\ SetProxyLimit(p, amount)
         \/ move = "LimitWithdrawn" /\ amount = NoSum /\ WithdrawProxyLimit(p)
  PROVE  Enters(EntryOf(p, move, amount)) /\ EntryOf(p, move, amount) \in Entry
<1> DEFINE entry == EntryOf(p, move, amount)
<1>1. /\ lot \in LotRecord /\ lot.course \in History /\ sequence \in Nat /\ sequence' \in Nat
      /\ amount \in Sums
  BY TimeAssumption, SumsFacts DEF IInv, LotOK, ClockOK, LotRecord, NoSum
<1>2. ASSUME NEW l, l \in LotRecord, l.course = lot.course
      PROVE  Entered(l, p, move, amount).course = [lot.course EXCEPT !.online = Append(@, entry)]
  <2>1. Entered(l, p, move, amount) = [l EXCEPT !.course.online = Append(@, entry)]
    BY DEF Entered, EntryOf
  <2> HIDE DEF entry
  <2> QED BY <1>1, <1>2, <2>1 DEF LotRecord
<1>3. CASE move = "Bid" /\ amount \in BidAmounts /\ PlaceBid(p, amount, "Bot")
  <2> DEFINE l == Bidden(lot, BidOf(p, amount))
  <2>1. /\ SameTerms(lot, lot') /\ Sound(Tabled(p, amount), lot.course.removed)
        /\ AnsweredBy(Tabled(p, amount))
    BY <1>3, PlaceBidKeeps
  <2>2. lot'.course = Entered(l, p, move, amount).course
    BY <1>3, <2>1, AnsweredByFacts DEF Tabled
  <2>3. l \in LotRecord /\ l.course = lot.course
    <3>1. p \in Participants \cup {NoOne}
      OBVIOUS
    <3> QED BY <1>1, <3>1 DEF Bidden, BidOf, LotRecord
  <2> HIDE DEF l
  <2>4. \E bids, extends : sequence' = sequence + (1 + One(bids) + One(extends))
    BY <1>3 DEF PlaceBid, Record
  <2>5. PICK bids, extends : sequence' = sequence + (1 + One(bids) + One(extends))
    BY <2>4
  <2>6. One(bids) \in {0, 1} /\ One(extends) \in {0, 1}
    BY OneType
  <2>7. sequence' > sequence
    BY <1>1, <2>5, <2>6
  <2>8. now' = now
    BY <1>3 DEF PlaceBid, Record
  <2>9. lot'.course = [lot.course EXCEPT !.online = Append(@, entry)]
    BY <1>2, <2>2, <2>3
  <2>10. Enters(entry)
    BY <1>1, <2>1, <2>7, <2>8, <2>9 DEF Enters, EntryOf, SameTerms
  <2>11. entry \in Entry
    <3>1. sequence + 1 \in 1 .. MaxSequence
      BY <1>1, <2>7, TimeAssumption DEF IInv, ClockOK
    <3> QED BY <1>1, <1>3, <3>1 DEF IInv, ClockOK, Entry, EntryOf
  <2> QED BY <2>10, <2>11
<1>4. CASE move = "LimitSet" /\ amount \in LimitAmounts /\ SetProxyLimit(p, amount)
  <2> DEFINE l == Limited(lot, p, amount, sequence + 1)
  <2>1. /\ SameTerms(lot, lot') /\ Sound(Put(p, amount), lot.course.removed)
        /\ AnsweredBy(Put(p, amount))
    BY <1>4, SetProxyLimitKeeps
  <2>2. lot'.course = Entered(l, p, move, amount).course
    BY <1>4, <2>1, AnsweredByFacts DEF Put
  <2>4. sequence' > sequence
    BY <1>4, JournalGrows DEF Next
  <2>5. sequence + 1 \in 1 .. MaxSequence
    BY <1>1, <2>4, TimeAssumption DEF IInv, ClockOK
  <2>3. l \in LotRecord /\ l.course = lot.course
    <3>1. sequence + 1 \in 0 .. MaxSequence
      BY <2>5
    <3>2. [max |-> amount, setSeq |-> sequence + 1] \in Limit
      BY <1>1, <3>1 DEF Limit
    <3> QED BY <1>1, <3>2 DEF Limited, LotRecord
  <2> HIDE DEF l
  <2>8. now' = now
    BY <1>4 DEF SetProxyLimit, Record
  <2>9. lot'.course = [lot.course EXCEPT !.online = Append(@, entry)]
    BY <1>2, <2>2, <2>3
  <2>10. Enters(entry)
    BY <1>1, <2>1, <2>4, <2>8, <2>9 DEF Enters, EntryOf, SameTerms
  <2>11. entry \in Entry
    BY <1>1, <1>4, <2>5 DEF IInv, ClockOK, Entry, EntryOf
  <2> QED BY <2>10, <2>11
<1>5. CASE move = "LimitWithdrawn" /\ amount = NoSum /\ WithdrawProxyLimit(p)
  <2> DEFINE l == Unlimited(lot, p)
  <2>1. /\ SameTerms(lot, lot') /\ sequence' = sequence + 1 /\ now' = now
        /\ lot'.course = Entered(l, p, move, amount).course
    BY <1>5, WithdrawProxyLimitKeeps DEF WithdrawProxyLimit, Record
  <2>3. l \in LotRecord /\ l.course = lot.course
    BY <1>1, NoLimitType DEF Unlimited, LotRecord
  <2> HIDE DEF l
  <2>5. sequence + 1 \in 1 .. MaxSequence /\ sequence' > sequence
    BY <1>1, <2>1, TimeAssumption DEF IInv, ClockOK
  <2>9. lot'.course = [lot.course EXCEPT !.online = Append(@, entry)]
    BY <1>2, <2>1, <2>3
  <2>10. Enters(entry)
    BY <1>1, <2>1, <2>5, <2>9 DEF Enters, EntryOf, SameTerms
  <2>11. entry \in Entry
    BY <1>1, <1>5, <2>5 DEF IInv, ClockOK, Entry, EntryOf
  <2> QED BY <2>10, <2>11
<1> QED BY <1>3, <1>4, <1>5

(* What the entry makes of the replay.                                     *)
LEMMA EntryReplayed ==
  ASSUME IInv, IInv', lot.state = "Online", HistoryKnowsTheWindows, Together,
         NEW entry \in Entry, Enters(entry)
  PROVE  /\ lot'.course.held = <<>>
         /\ \A i \in DOMAIN lot'.course.online :
              lot'.course.online[i].at <= now' /\ lot'.course.online[i].sequence <= sequence'
         /\ WindowsAt(lot'.course, entry.sequence) = lot.stepWindows
         /\ \E k \in LotRecord :
              /\ Alike(k, world) /\ k.state = "Online"
              /\ \A p \in Participants : k.limits[p].setSeq <= sequence
              /\ Rerun(lot', {Intruder}) = IF entry.participant = Intruder THEN k
                                           ELSE Replayed(k, lot'.course, entry)
<1> DEFINE online == lot.course.online
           later == lot'.course.online
<1>1. /\ lot \in LotRecord /\ lot' \in LotRecord /\ lot.course \in History
      /\ lot.config \in Configs /\ now \in Int /\ sequence \in Nat /\ sequence' \in Nat
      /\ {Intruder} \in SUBSET Participants
  BY TimeAssumption, IntruderAssumption
     DEF IInv, LotOK, ClockOK, LotRecord, Configured, Trading, Enters
<1>2. /\ later = Append(online, entry) /\ lot'.course.held = lot.course.held
      /\ lot'.course.startingPrice = lot.course.startingPrice
      /\ lot'.course.stepWindows = lot.course.stepWindows
      /\ lot'.course.addedWindows = lot.course.addedWindows
  BY <1>1 DEF Enters, History
<1>3. online \in Seq(Entry)
  BY <1>1 DEF History
<1>4. \A seq : WindowsAt(lot'.course, seq) = WindowsAt(lot.course, seq)
  BY <1>2 DEF WindowsAt
<1>5. WindowsAt(lot'.course, entry.sequence) = lot.stepWindows
  BY <1>4 DEF HistoryKnowsTheWindows, Enters
<1>6. \A e : WindowsFor(lot'.course, e) = WindowsFor(lot.course, e)
  BY <1>4 DEF WindowsFor
<1>7. later # online
  <2>1. Len(later) = Len(online) + 1 /\ Len(online) \in Nat
    BY <1>2, <1>3
  <2> QED BY <2>1
<1>8. \A i \in DOMAIN later : later[i].at <= now' /\ later[i].sequence <= sequence'
  <2>1. \A i \in DOMAIN later : (i \in DOMAIN online /\ later[i] = online[i]) \/ later[i] = entry
    <3> HIDE DEF online, later
    <3> QED BY <1>2, <1>3
  <2>2. \A i \in DOMAIN online : online[i] \in Entry
    BY <1>3
  <2>3. ASSUME NEW i \in DOMAIN online
        PROVE  online[i].at <= now' /\ online[i].sequence <= sequence'
    <3>1. online[i].sequence \in Int
      BY <2>2, TimeAssumption DEF Entry
    <3>2. online[i].at <= now /\ online[i].sequence <= sequence
      BY DEF Together
    <3> QED BY <1>1, <3>1, <3>2 DEF Enters
  <2>4. entry.at <= now' /\ entry.sequence <= sequence'
    BY <1>1 DEF Enters
  <2> QED BY <2>1, <2>3, <2>4
<1>9. PICK k \in LotRecord :
        /\ SameBook(k, Rerun(lot, {Intruder})) /\ k.state = "Online"
        /\ Rerun(lot', {Intruder}) = IF later = online \/ entry.participant \in {Intruder}
                                     THEN k ELSE Replayed(k, lot'.course, entry)
  <2>1. /\ lot.course.held = <<>> /\ lot'.course.held = <<>> /\ lot'.config = lot.config
    BY <1>2 DEF Together, Enters
  <2> QED BY <1>1, <1>2, <1>6, <2>1, RerunGrows
<1>10. Alike(k, world) /\ \A p \in Participants : k.limits[p].setSeq <= sequence
  BY <1>9, BookAlike DEF Together, SameBook
<1> HIDE DEF online, later
<1>11. lot'.course.held = <<>>
  BY <1>2 DEF Together
<1> QED BY <1>5, <1>7, <1>8, <1>9, <1>10, <1>11 DEF later

(* An input of the intruder leaves the replay, and the second lot, alone.  *)
LEMMA IntruderEnters ==
  ASSUME IInv, IInv', lot.state = "Online", HistoryKnowsTheWindows, Together,
         NEW entry \in Entry, Enters(entry), entry.participant = Intruder,
         UNCHANGED worldVars
  PROVE  Together'
<1>1. PICK k \in LotRecord :
        /\ Alike(k, world) /\ k.state = "Online"
        /\ \A p \in Participants : k.limits[p].setSeq <= sequence
        /\ Rerun(lot', {Intruder}) = k
  BY EntryReplayed
<1>2. \A p \in Participants : k.limits[p].setSeq <= sequence'
  <2> TAKE p \in Participants
  <2>1. k.limits[p].setSeq \in Nat
    BY LotShaped DEF Shaped
  <2> QED BY <1>1, <2>1 DEF Enters
<1>3. /\ world' = world /\ worldSequence' = worldSequence
  BY DEF worldVars
<1>4. /\ lot'.course.held = <<>>
      /\ \A i \in DOMAIN lot'.course.online :
           lot'.course.online[i].at <= now' /\ lot'.course.online[i].sequence <= sequence'
  BY EntryReplayed
<1>5. lot'.stepWindows = lot.stepWindows
  BY DEF Enters
<1> QED BY <1>1, <1>2, <1>3, <1>4, <1>5 DEF Together, WorldOnline

(* The second lot after its answer.                                        *)
LEMMA WorldAnswered ==
  ASSUME NEW a, Shaped(a), \/ world' = a \/ \E used : world' = Extended(a, used)
  PROVE  /\ Shaped(world') /\ world'.stepWindows = a.stepWindows
         /\ world'.limits = a.limits /\ world'.state = a.state
         /\ \A k : Alike(k, a) => Alike(k, world')
<1>1. /\ Shaped(world') /\ world'.stepWindows = a.stepWindows
      /\ world'.limits = a.limits /\ world'.state = a.state /\ world'.config = a.config
      /\ world'.price = a.price /\ world'.ask = a.ask /\ world'.leader = a.leader
  <2>1. CASE world' = a
    BY <2>1
  <2>2. CASE \E used : world' = Extended(a, used)
    <3>1. PICK used : world' = Extended(a, used)
      BY <2>2
    <3>2. world' = [a EXCEPT !.deadline = a.deadline + a.config.extension,
                             !.extensionsUsed = used]
      BY <3>1 DEF Extended, Shaped
    <3> DEFINE deadline == a.deadline + a.config.extension
    <3> HIDE DEF deadline
    <3>3. world' = [a EXCEPT !.deadline = deadline, !.extensionsUsed = used]
      BY <3>2 DEF deadline
    <3> QED BY <3>3 DEF Shaped
  <2> QED BY <2>1, <2>2
<1> QED BY <1>1 DEF Alike, AlikeLimits, Active

(* The second lot's own step with the entry.                               *)
WorldTakes(entry) ==
  \/ /\ entry.move = "Bid" /\ world.leader # entry.participant
     /\ \E taken : /\ TakesBid(world, entry.participant, entry.amount, taken)
                   /\ WorldAnswers(taken)
  \/ /\ entry.move = "LimitSet"
     /\ \E taken : /\ TakesLimit(world, entry.participant,
                        [max |-> entry.amount, setSeq |-> worldSequence + 1], taken)
                   /\ WorldAnswers(taken)
  \/ entry.move = "LimitWithdrawn" /\ TakesLimit(world, entry.participant, NoLimit, world')

(* An input of another, entered in both lots.                              *)
LEMMA OthersEnter ==
  ASSUME IInv, IInv', lot.state = "Online", HistoryKnowsTheWindows, Together,
         NEW entry \in Entry, Enters(entry), entry.participant # Intruder,
         worldSequence' \in Nat, worldSequence' > worldSequence,
         WorldTakes(entry)
  PROVE  Together'
<1> DEFINE p == entry.participant
           next == Rerun(lot', {Intruder})
           seq == worldSequence + 1
           limit == [max |-> entry.amount, setSeq |-> seq]
<1>1. PICK k \in LotRecord :
        /\ Alike(k, world) /\ k.state = "Online"
        /\ \A q \in Participants : k.limits[q].setSeq <= sequence
        /\ next = Replayed(k, lot'.course, entry)
  BY EntryReplayed
<1>2. /\ lot'.course.held = <<>>
      /\ \A i \in DOMAIN lot'.course.online :
           lot'.course.online[i].at <= now' /\ lot'.course.online[i].sequence <= sequence'
      /\ WindowsAt(lot'.course, entry.sequence) = world.stepWindows
      /\ lot'.stepWindows = world.stepWindows
  BY EntryReplayed DEF Together, Enters
<1>3. /\ Shaped(k) /\ Shaped(world) /\ world.state = "Online" /\ seq \in Nat
      /\ p \in Participants /\ entry.amount \in Sums
      /\ entry.move \in {"Bid", "LimitSet", "LimitWithdrawn"}
  BY LotShaped DEF Together, WorldOnline, Entry
<1> HIDE DEF next
<1>4. \A q \in Participants : k.limits[q].setSeq < entry.sequence
  <2> TAKE q \in Participants
  <2>1. k.limits[q].setSeq \in Nat
    BY <1>3 DEF Shaped
  <2> QED BY <1>1, <2>1 DEF Enters
<1>5. /\ \A q \in Participants : world.limits[q].setSeq <= worldSequence
      /\ \A q \in Participants : world.limits[q].setSeq < seq
  <2> SUFFICES ASSUME NEW q \in Participants
               PROVE  /\ world.limits[q].setSeq <= worldSequence
                      /\ world.limits[q].setSeq < seq
    OBVIOUS
  <2>1. world.limits[q].setSeq \in Nat
    BY <1>3 DEF Shaped
  <2> QED BY <2>1 DEF Together, WorldOnline
<1> HIDE DEF seq
<1>13. Abreast(k, world, entry, lot'.course, seq)
  BY <1>1, <1>2, <1>3, <1>4, <1>5 DEF Abreast
<1>6. \A q \in Participants : next.limits[q].setSeq <= entry.sequence
  BY <1>1, <1>3, <1>13, InBoth
<1>12. ASSUME NEW taken,
              \/ entry.move = "Bid" /\ world.leader # p /\ TakesBid(world, p, entry.amount, taken)
              \/ entry.move = "LimitSet" /\ TakesLimit(world, p, limit, taken)
       PROVE  /\ Alike(next, Answered(taken, entry.at))
              /\ Shaped(Answered(taken, entry.at))
              /\ Answered(taken, entry.at).stepWindows = world.stepWindows
              /\ Answered(taken, entry.at).limits = taken.limits
  <2>0. next = Replayed(k, lot'.course, entry) /\ seq \in Nat
    BY <1>1, <1>3
  <2>1. TakesToo(world, entry, seq, taken)
    BY <1>12 DEF TakesToo
  <2>2. AnswersToo(next, world, entry, taken)
    BY <1>13, <2>0, <2>1, InBoth
  <2> QED BY <2>2 DEF AnswersToo
<1>7. ASSUME NEW taken, WorldAnswers(taken),
             \/ entry.move = "Bid" /\ world.leader # p /\ TakesBid(world, p, entry.amount, taken)
             \/ entry.move = "LimitSet" /\ TakesLimit(world, p, limit, taken)
      PROVE  /\ Shaped(world') /\ world'.stepWindows = world.stepWindows
             /\ world'.limits = taken.limits
             /\ Alike(next, world')
  <2> DEFINE a == Answered(taken, now)
  <2>1. /\ Alike(next, a) /\ Shaped(a) /\ a.stepWindows = world.stepWindows
        /\ a.limits = taken.limits
    <3>1. entry.at = now
      BY DEF Enters
    <3> QED BY <1>7, <1>12, <3>1
  <2>2. \/ world' = a \/ \E used : world' = Extended(a, used)
    BY <1>7 DEF WorldAnswers
  <2> HIDE DEF a
  <2> QED BY <2>1, <2>2, WorldAnswered
<1>8. /\ Shaped(world') /\ world'.stepWindows = world.stepWindows /\ Alike(next, world')
      /\ \/ world'.limits = world.limits
         \/ \E x : /\ x \in {limit, NoLimit}
                   /\ world'.limits = [world.limits EXCEPT ![p] = x]
  <2>1. CASE entry.move = "Bid"
    <3>1. PICK taken : TakesBid(world, p, entry.amount, taken) /\ WorldAnswers(taken)
      BY <2>1 DEF WorldTakes
    <3>2. taken.limits = world.limits
      BY <3>1 DEF TakesBid
    <3>3. world.leader # p
      BY <2>1 DEF WorldTakes
    <3> QED BY <1>7, <2>1, <3>1, <3>2, <3>3
  <2>2. CASE entry.move = "LimitSet"
    <3>1. PICK taken : TakesLimit(world, p, limit, taken) /\ WorldAnswers(taken)
      BY <2>2 DEF seq, WorldTakes
    <3>2. taken.limits = [world.limits EXCEPT ![p] = limit]
      BY <3>1 DEF TakesLimit
    <3> HIDE DEF limit
    <3> QED BY <1>7, <2>2, <3>1, <3>2
  <2>3. CASE entry.move = "LimitWithdrawn"
    <3>1. TakesLimit(world, p, NoLimit, world')
      BY <2>3 DEF WorldTakes
    <3>2. Alike(next, world')
      BY <1>1, <1>3, <1>13, <2>3, <3>1, InBoth
    <3> QED BY <3>1, <3>2 DEF TakesLimit
  <2> QED BY <1>3, <2>1, <2>2, <2>3
<1>9. \A q \in Participants : world'.limits[q].setSeq <= worldSequence'
  <2> TAKE q \in Participants
  <2>1. world.limits \in [Participants -> [max : Sums, setSeq : Nat]]
        /\ world.limits[q].setSeq \in Nat /\ worldSequence \in Nat
    BY <1>3 DEF Shaped, Together, WorldOnline
  <2>2. world.limits[q].setSeq <= worldSequence'
    BY <1>5, <2>1
  <2>3. limit.setSeq <= worldSequence' /\ NoLimit.setSeq <= worldSequence'
    BY <2>1 DEF NoLimit, seq
  <2> HIDE DEF limit
  <2> QED BY <1>8, <2>1, <2>2, <2>3
<1>10. world'.state = "Online"
  <2>1. next.state = "Online"
    <3>1. SameBook(k, k)
      BY DEF SameBook, Alike, AlikeLimits
    <3> QED BY <1>1, <3>1, ReplayedSame
  <2> QED BY <1>8, <2>1 DEF Alike
<1>11. \A q \in Participants : next.limits[q].setSeq <= sequence'
  <2> TAKE q \in Participants
  <2>1. IF FALSE THEN TRUE ELSE next.limits[q].setSeq <= sequence + 1
    BY <1>6 DEF Enters
  <2>2. next.limits[q].setSeq \in Nat
    <3>1. Sound(next, {Intruder})
      <4>1. lot' \in LotRecord /\ lot'.config \in Configs
        BY DEF IInv, LotOK, Enters, Configured, Trading
      <4> QED BY <4>1, IntruderAssumption, RerunSound DEF next
    <3> QED BY <3>1, LotShaped DEF Sound, Shaped
  <2> QED BY <2>1, <2>2 DEF Enters
<1> QED BY <1>2, <1>8, <1>9, <1>10, <1>11 DEF Together, WorldOnline, next

-----------------------------------------------------------------------------
(* A step window launched, set or cleared.                                 *)

LotTurns(windows, added) ==
  /\ lot' = [lot EXCEPT !.stepWindows = windows,
                        !.course = [lot.course EXCEPT !.addedWindows = added]]
  /\ now' = now /\ sequence' = sequence + 1

WorldTurns(windows) ==
  /\ \E course : world' = [world EXCEPT !.stepWindows = windows, !.course = course]
  /\ worldSequence' = worldSequence + 1

(* The inputs of the past are replayed with the windows they had.          *)
PastStands ==
  \A entry \in Entry : entry.at <= now /\ entry.sequence <= sequence =>
    WindowsFor(lot'.course, entry) = WindowsFor(lot.course, entry)

LEMMA WindowsTurn ==
  ASSUME IInv, IInv', lot.state = "Online", Together, NEW windows, NEW added,
         LotTurns(windows, added), WorldTurns(windows), PastStands
  PROVE  Together' /\ lot'.state = "Online" /\ lot'.course.removed = lot.course.removed
<1>1. /\ lot \in LotRecord /\ lot' \in LotRecord /\ lot.course \in History
      /\ lot.config \in Configs /\ now \in 1 .. MaxTime /\ sequence \in Nat
      /\ {Intruder} \in SUBSET Participants
  BY TimeAssumption, IntruderAssumption
     DEF IInv, LotOK, ClockOK, LotRecord, Configured, Trading
<1> DEFINE course == [lot.course EXCEPT !.addedWindows = added]
<1>2. /\ course.online = lot.course.online /\ course.held = lot.course.held
      /\ course.startingPrice = lot.course.startingPrice
  BY <1>1 DEF History
<1>3. lot' = [lot EXCEPT !.stepWindows = windows, !.course = course]
  BY DEF LotTurns
<1> HIDE DEF course
<1>4. lot'.course = course /\ lot'.config = lot.config /\ lot'.stepWindows = windows
  BY <1>1, <1>3 DEF LotRecord
<1>5. EntryOf(Intruder, "Bid", 0) \in Entry
  <2>1. sequence + 1 \in 1 .. MaxSequence
    BY <1>1, TimeAssumption DEF IInv, ClockOK, LotTurns
  <2> QED BY <1>1, <2>1, IntruderAssumption, SumsFacts DEF Entry, EntryOf
<1>6. ASSUME NEW i \in DOMAIN lot.course.online
      PROVE  WindowsFor(lot'.course, lot.course.online[i])
               = WindowsFor(lot.course, lot.course.online[i])
  <2>1. lot.course.online[i] \in Entry
    BY <1>1 DEF History
  <2> QED BY <2>1 DEF Together, PastStands
<1>7. PICK k \in LotRecord :
        SameBook(k, Rerun(lot, {Intruder})) /\ Rerun(lot', {Intruder}) = k
  <2>1. /\ lot'.course.online = lot.course.online /\ lot.course.held = <<>>
        /\ lot'.course.held = <<>> /\ lot'.course.startingPrice = lot.course.startingPrice
    BY <1>2, <1>4 DEF Together
  <2> QED BY <1>1, <1>4, <1>5, <1>6, <2>1, RerunGrows
<1>8. /\ Shaped(world') /\ world'.stepWindows = windows
      /\ world'.limits = world.limits /\ world'.state = world.state
      /\ world'.config = world.config /\ world'.price = world.price
      /\ world'.ask = world.ask /\ world'.leader = world.leader
  BY DEF WorldTurns, Together, WorldOnline, Shaped
<1>9. Alike(k, world')
  <2>1. Alike(k, world)
    BY <1>7, BookAlike DEF Together
  <2> QED BY <1>8, <2>1 DEF Alike, AlikeLimits, Active
<1>10. \A p \in Participants : k.limits[p].setSeq <= sequence'
  <2> TAKE p \in Participants
  <2>1. k.limits[p].setSeq \in Nat
    BY LotShaped DEF Shaped
  <2>2. k.limits[p].setSeq <= sequence
    BY <1>7 DEF Together, SameBook
  <2> QED BY <1>1, <2>1, <2>2 DEF LotTurns
<1>11. \A p \in Participants : world'.limits[p].setSeq <= worldSequence'
  <2> TAKE p \in Participants
  <2>1. world.limits[p].setSeq \in Nat /\ world.limits[p].setSeq <= worldSequence
        /\ worldSequence \in Nat
    BY DEF Together, WorldOnline, Shaped
  <2> QED BY <1>8, <2>1 DEF WorldTurns
<1>12. \A i \in DOMAIN lot'.course.online :
         lot'.course.online[i].at <= now' /\ lot'.course.online[i].sequence <= sequence'
  <2> SUFFICES ASSUME NEW i \in DOMAIN lot.course.online
               PROVE  /\ lot.course.online[i].at <= now'
                      /\ lot.course.online[i].sequence <= sequence'
    BY <1>2, <1>4
  <2>0. lot.course.online[i] \in Entry
    BY <1>1 DEF History
  <2>1. lot.course.online[i].sequence \in Nat
    BY <2>0, TimeAssumption DEF Entry
  <2> QED BY <1>1, <2>1 DEF Together, LotTurns
<1>13. worldSequence' \in Nat /\ lot'.course.held = <<>> /\ world.state = "Online"
  BY <1>2, <1>4 DEF Together, WorldOnline, WorldTurns
<1>14. lot'.state = "Online" /\ lot'.course.removed = lot.course.removed
  <2>1. course.removed = lot.course.removed
    BY <1>1 DEF History, course
  <2> QED BY <1>1, <1>3, <1>4, <2>1 DEF LotRecord
<1> QED BY <1>4, <1>7, <1>8, <1>9, <1>10, <1>11, <1>12, <1>13, <1>14
        DEF Together, WorldOnline

LEMMA WorldWindows ==
  ASSUME WorldOnline, NEW window
  PROVE  /\ World!AddStepWindow(window) => WorldTurns(world.stepWindows \cup {window})
         /\ World!SetPeriodWindow(window) =>
              WorldTurns((world.stepWindows \ OfPeriod(world.stepWindows, window.period))
                           \cup {window})
         /\ World!ClearPeriodWindow(window.period) =>
              WorldTurns(world.stepWindows \ OfPeriod(world.stepWindows, window.period))
<1> DEFINE With(l) == [l EXCEPT !.stepWindows = @ \cup {window},
                         !.course.addedWindows =
                            @ \cup {[window |-> window, sequence |-> worldSequence + 1]}]
           windows == world.stepWindows \ OfPeriod(world.stepWindows, window.period)
           kept == World!WithoutPeriod(window.period)
<1>1. Shaped(world) /\ worldSequence \in Nat
  BY DEF WorldOnline
<1>2. ASSUME NEW l, Shaped(l)
      PROVE  \E course : With(l) = [l EXCEPT !.stepWindows = l.stepWindows \cup {window},
                                             !.course = course]
  <2> DEFINE course == [l.course EXCEPT !.addedWindows =
                          @ \cup {[window |-> window, sequence |-> worldSequence + 1]}]
  <2>1. With(l) = [l EXCEPT !.stepWindows = l.stepWindows \cup {window}, !.course = course]
    BY <1>2 DEF Shaped
  <2> QED BY <2>1
<1>3. \E course : kept = [world EXCEPT !.stepWindows = windows, !.course = course]
  <2> DEFINE course == [world.course EXCEPT !.addedWindows =
                          {a \in @ : a.window.period # window.period}]
  <2>1. kept = [world EXCEPT !.stepWindows = windows, !.course = course]
    BY <1>1, SameLots DEF World!WithoutPeriod, Shaped
  <2> QED BY <2>1
<1>4. ASSUME World!AddStepWindow(window)
      PROVE  WorldTurns(world.stepWindows \cup {window})
  <2>1. World!Record("AddStepWindow", NoOne, 1, With(world))
    BY <1>4 DEF World!AddStepWindow
  <2> HIDE DEF With
  <2>2. world' = With(world) /\ worldSequence' = worldSequence + 1
    BY <1>1, <2>1, WorldRecords
  <2> QED BY <1>1, <1>2, <2>2 DEF WorldTurns
<1>5. ASSUME World!SetPeriodWindow(window)
      PROVE  WorldTurns(windows \cup {window})
  <2>1. World!Record("SetPeriodWindow", NoOne, 1, With(kept))
    BY <1>5 DEF World!SetPeriodWindow
  <2> HIDE DEF kept
  <2>2. PICK c : kept = [world EXCEPT !.stepWindows = windows, !.course = c]
    BY <1>3
  <2>3. Shaped(kept) /\ kept.stepWindows = windows
    BY <1>1, <2>2 DEF Shaped
  <2>4. PICK d : With(kept) = [kept EXCEPT !.stepWindows = kept.stepWindows \cup {window},
                                           !.course = d]
    BY <1>2, <2>3
  <2> HIDE DEF With, windows
  <2>5. With(kept) = [world EXCEPT !.stepWindows = windows \cup {window}, !.course = d]
    BY <1>1, <2>2, <2>3, <2>4 DEF Shaped
  <2> QED BY <1>1, <2>1, <2>5, WorldRecords DEF WorldTurns
<1>6. ASSUME World!ClearPeriodWindow(window.period)
      PROVE  WorldTurns(windows)
  <2>1. World!Record("ClearPeriodWindow", NoOne, 1, kept)
    BY <1>6 DEF World!ClearPeriodWindow
  <2> HIDE DEF kept, windows
  <2> QED BY <1>1, <1>3, <2>1, WorldRecords DEF WorldTurns
<1> QED BY <1>4, <1>5, <1>6

LEMMA PastOf ==
  ASSUME IInv, NEW windows, NEW added, LotTurns(windows, added), NEW window,
         \A a \in added :
           a \in lot.course.addedWindows \/ a = [window |-> window, sequence |-> sequence + 1],
         \A a \in lot.course.addedWindows \ added : now < a.window.from
  PROVE  PastStands
<1>1. /\ lot \in LotRecord /\ lot.course \in History /\ now \in Int /\ sequence \in Nat
  BY TimeAssumption DEF IInv, LotOK, ClockOK, LotRecord
<1>2. lot'.course = [lot.course EXCEPT !.addedWindows = added]
  BY <1>1 DEF LotTurns, LotRecord
<1>3. lot'.course.stepWindows = lot.course.stepWindows /\ lot'.course.addedWindows = added
  BY <1>1, <1>2 DEF History
<1>4. \A a \in lot.course.addedWindows : a.sequence \in Int /\ a.window.from \in Int
  <2> TAKE a \in lot.course.addedWindows
  <2>1. a \in [window : Windows, sequence : 1 .. MaxSequence]
    BY <1>1 DEF History
  <2>2. a.window \in Windows /\ a.sequence \in Int
    BY <2>1
  <2> QED BY <2>2, WindowsAssumption
<1> SUFFICES ASSUME NEW entry \in Entry, entry.at <= now, entry.sequence <= sequence
             PROVE  WindowsFor(lot'.course, entry) = WindowsFor(lot.course, entry)
  BY DEF PastStands
<1>5. entry.at \in Int /\ entry.sequence \in Int
  BY TimeAssumption DEF Entry
<1> DEFINE Read(b) == b.sequence < entry.sequence
                      /\ b.window.from <= entry.at /\ entry.at < b.window.until
<1>6. ASSUME NEW a, Read(a)
      PROVE  a \in added <=> a \in lot.course.addedWindows
  <2>1. CASE a \in added
    <3>1. a # [window |-> window, sequence |-> sequence + 1]
      BY <1>1, <1>5, <1>6
    <3> QED BY <2>1, <3>1
  <2>2. CASE a \in lot.course.addedWindows \ added
    <3>1. now < a.window.from /\ a.window.from \in Int /\ a.window.from <= entry.at
      BY <1>4, <1>6, <2>2
    <3> QED BY <1>1, <1>5, <3>1
  <2> QED BY <2>1, <2>2
<1>7. \A course : WindowsFor(course, entry) =
         {w \in course.stepWindows : w.from <= entry.at /\ entry.at < w.until}
           \cup {b.window : b \in {a \in course.addedWindows : Read(a)}}
  BY DEF WindowsFor, WindowsAt
<1>8. {a \in added : Read(a)} = {a \in lot.course.addedWindows : Read(a)}
  <2> HIDE DEF Read
  <2> QED BY <1>6
<1> HIDE DEF Read
<1> QED BY <1>3, <1>7, <1>8

LEMMA WindowsTogether ==
  ASSUME IInv, IInv', lot.state = "Online", Together,
         \/ \E window \in LaunchedWindows : AddStepWindow(window) /\ World!AddStepWindow(window)
         \/ \E window \in PeriodWindows : SetPeriodWindow(window) /\ World!SetPeriodWindow(window)
         \/ \E window \in PeriodWindows :
              ClearPeriodWindow(window.period) /\ World!ClearPeriodWindow(window.period)
  PROVE  Together' /\ lot'.state = "Online" /\ lot'.course.removed = lot.course.removed
<1>1. /\ lot \in LotRecord /\ lot.course \in History
      /\ WorldOnline /\ world.stepWindows = lot.stepWindows
  BY DEF IInv, LotOK, LotRecord, Together
<1> DEFINE new(window) == [window |-> window, sequence |-> sequence + 1]
           left(window) == {a \in lot.course.addedWindows : a.window.period # window.period}
           windows(window) == lot.stepWindows \ OfPeriod(lot.stepWindows, window.period)
<1>2. ASSUME NEW window \in PeriodWindows
      PROVE  WithoutPeriod(window.period) =
               [lot EXCEPT !.stepWindows = windows(window),
                           !.course = [lot.course EXCEPT !.addedWindows = left(window)]]
  <2> DEFINE course == [lot.course EXCEPT !.addedWindows = left(window)]
  <2>1. course = [lot.course EXCEPT !.addedWindows =
                    {a \in @ : a.window.period # window.period}]
    BY <1>1 DEF History
  <2> HIDE DEF course
  <2> QED BY <1>1, <2>1 DEF WithoutPeriod, LotRecord, course
<1>3. ASSUME NEW window \in PeriodWindows, NEW a \in lot.course.addedWindows,
             a \notin left(window)
      PROVE  a.window.from = window.from
  <2>1. a \in [window : Windows, sequence : 1 .. MaxSequence]
    BY <1>1 DEF History
  <2>2. a.window \in Windows /\ a.window.period = window.period
    BY <1>3, <2>1
  <2> QED BY <2>2, PeriodsAssumption DEF Windows
<1>4. ASSUME NEW window \in LaunchedWindows, AddStepWindow(window), World!AddStepWindow(window)
      PROVE  Together' /\ lot'.state = "Online" /\ lot'.course.removed = lot.course.removed
  <2> DEFINE added == lot.course.addedWindows \cup {new(window)}
  <2>1. LotTurns(lot.stepWindows \cup {window}, added)
    <3>1. /\ lot' = [lot EXCEPT !.stepWindows = @ \cup {window},
                                !.course.addedWindows = @ \cup {new(window)}]
          /\ now' = now /\ sequence' = sequence + 1
      BY <1>4 DEF AddStepWindow, Record
    <3> HIDE DEF new
    <3> QED BY <1>1, <3>1 DEF LotTurns, LotRecord, History
  <2>2. PastStands
    BY <2>1, PastOf
  <2>3. WorldTurns(lot.stepWindows \cup {window})
    BY <1>1, <1>4, WorldWindows
  <2> QED BY <2>1, <2>2, <2>3, WindowsTurn
<1>5. ASSUME NEW window \in PeriodWindows, SetPeriodWindow(window), World!SetPeriodWindow(window)
      PROVE  Together' /\ lot'.state = "Online" /\ lot'.course.removed = lot.course.removed
  <2> DEFINE added == left(window) \cup {new(window)}
             kept == WithoutPeriod(window.period)
  <2>1. LotTurns(windows(window) \cup {window}, added)
    <3>1. /\ lot' = [kept EXCEPT !.stepWindows = @ \cup {window},
                                 !.course.addedWindows = @ \cup {new(window)}]
          /\ now' = now /\ sequence' = sequence + 1
      BY <1>5 DEF SetPeriodWindow, Record
    <3>2. kept = [lot EXCEPT !.stepWindows = windows(window),
                             !.course = [lot.course EXCEPT !.addedWindows = left(window)]]
      BY <1>2
    <3> HIDE DEF new, left, windows, kept
    <3>3. /\ kept.stepWindows = windows(window)
          /\ kept.course = [lot.course EXCEPT !.addedWindows = left(window)]
      BY <1>1, <3>2 DEF LotRecord
    <3>4. kept.course.addedWindows = left(window)
      BY <1>1, <3>3 DEF History
    <3>5. [kept.course EXCEPT !.addedWindows = @ \cup {new(window)}]
            = [lot.course EXCEPT !.addedWindows = added]
      BY <1>1, <3>3, <3>4 DEF History
    <3>6. lot' = [kept EXCEPT !.stepWindows = windows(window) \cup {window},
                   !.course = [kept.course EXCEPT !.addedWindows = @ \cup {new(window)}]]
      BY <1>1, <3>1, <3>2, <3>3 DEF LotRecord
    <3> HIDE DEF added
    <3> DEFINE before == [lot.course EXCEPT !.addedWindows = left(window)]
               after == [lot.course EXCEPT !.addedWindows = added]
               more == windows(window) \cup {window}
    <3>7. lot' = [kept EXCEPT !.stepWindows = more, !.course = after]
      BY <3>5, <3>6
    <3>8. kept = [lot EXCEPT !.stepWindows = windows(window), !.course = before]
      BY <3>2
    <3> HIDE DEF before, after, more
    <3>9. lot' = [lot EXCEPT !.stepWindows = more, !.course = after]
      BY <1>1, <3>7, <3>8 DEF LotRecord
    <3> QED BY <3>1, <3>9 DEF LotTurns, after, more
  <2>2. now < window.from
    BY <1>5 DEF SetPeriodWindow
  <2>3. \A a \in lot.course.addedWindows \ added : now < a.window.from
    BY <1>3, <2>2
  <2>4. PastStands
    BY <2>1, <2>3, PastOf
  <2>5. WorldTurns(windows(window) \cup {window})
    BY <1>1, <1>5, WorldWindows
  <2> QED BY <2>1, <2>4, <2>5, WindowsTurn
<1>6. ASSUME NEW window \in PeriodWindows, ClearPeriodWindow(window.period),
             World!ClearPeriodWindow(window.period)
      PROVE  Together' /\ lot'.state = "Online" /\ lot'.course.removed = lot.course.removed
  <2>1. LotTurns(windows(window), left(window))
    BY <1>2, <1>6 DEF ClearPeriodWindow, Record, LotTurns
  <2>2. PICK other \in OfPeriod(lot.stepWindows, window.period) : now < other.from
    BY <1>6 DEF ClearPeriodWindow
  <2>3. other \in Windows /\ other.period = window.period
    BY <1>1 DEF OfPeriod, LotRecord
  <2>4. now < window.from
    BY <2>2, <2>3, PeriodsAssumption DEF Windows
  <2>5. \A a \in lot.course.addedWindows \ left(window) : now < a.window.from
    BY <1>3, <2>4
  <2>6. PastStands
    BY <2>1, <2>5, PastOf
  <2>7. WorldTurns(windows(window))
    BY <1>1, <1>6, WorldWindows
  <2> QED BY <2>1, <2>6, <2>7, WindowsTurn
<1> QED BY <1>4, <1>5, <1>6

-----------------------------------------------------------------------------
(* Up to the opening of the trade the two lots are one.                    *)

LEMMA BothPrepare ==
  ASSUME IInv, IInv', Unopened, lot.state \in {"Initial", "Draft", "Scheduled"},
         world = lot, worldSequence \in Nat, Prepare
  PROVE  /\ worldSequence' \in Nat /\ lot'.course.removed = {}
         /\ \/ lot'.state \in {"Initial", "Draft", "Scheduled"} /\ world' = lot'
            \/ lot'.state = "Online" /\ Together'
<1>1. /\ lot \in LotRecord /\ lot' \in LotRecord /\ sequence \in Nat /\ sequence' \in Nat
      /\ now' \in 1 .. MaxTime
  BY TimeAssumption DEF IInv, LotOK, ClockOK
<1>2. CASE DraftLot /\ World!DraftLot
  <2>1. lot' = Blank("Draft") /\ world' = Blank("Draft") /\ worldSequence' = worldSequence + 1
    BY <1>2, SameConstants DEF DraftLot, Record, World!DraftLot, World!Record
  <2>2. Blank("Draft").state = "Draft" /\ Blank("Draft").course.removed = {}
    BY DEF Blank, NoCourse
  <2> QED BY <2>1, <2>2
<1>3. ASSUME NEW price \in StartingPrices, NEW config \in Configs,
             ScheduleLot(price, config), World!ScheduleLot(price, config)
      PROVE  /\ worldSequence' = worldSequence + 1 /\ world' = lot'
             /\ lot'.state = "Scheduled" /\ lot'.course.removed = {}
  <2> DEFINE next == [Blank("Scheduled") EXCEPT !.config = config, !.price = price]
  <2>1. lot' = next /\ world' = next /\ worldSequence' = worldSequence + 1
    BY <1>3, SameConstants DEF ScheduleLot, Record, World!ScheduleLot, World!Record
  <2>2. next.state = "Scheduled" /\ next.course.removed = {}
    BY DEF Blank, NoCourse
  <2> QED BY <2>1, <2>2
<1>4. ASSUME NEW deadline \in Deadlines, NEW windows \in OpeningWindows,
             OpenLot(deadline, windows), World!OpenLot(deadline, windows)
      PROVE  /\ worldSequence' = worldSequence + 1
             /\ lot'.state = "Online" /\ lot'.course.removed = {} /\ Together'
  <2> DEFINE course == [NoCourse EXCEPT !.startingPrice = lot.price, !.stepWindows = windows]
             next == [lot EXCEPT !.state = "Online", !.deadline = deadline,
                        !.stepWindows = windows, !.course = course]
  <2>1. lot' = next /\ world' = next /\ worldSequence' = worldSequence + 1
        /\ lot.state = "Scheduled"
    BY <1>4, SameConstants DEF OpenLot, Record, World!OpenLot, World!Record
  <2>2. /\ course.online = <<>> /\ course.held = <<>> /\ course.removed = {}
        /\ course.startingPrice = lot.price /\ course.stepWindows = windows
    BY DEF NoCourse
  <2>3. /\ lot.ask = NoAsk /\ lot.leader = NoOne /\ lot.limits = NoLimits
    BY <2>1 DEF Unopened, Blank
  <2> HIDE DEF course
  <2>4. /\ next.state = "Online" /\ next.config = lot.config /\ next.price = lot.price
        /\ next.ask = NoAsk /\ next.leader = NoOne /\ next.limits = NoLimits
        /\ next.stepWindows = windows /\ next.course = course
    BY <1>1, <2>3 DEF LotRecord
  <2> HIDE DEF next
  <2>5. Rerun(lot', {Intruder}) = AtTheStart(lot')
    <3>1. lot'.config \in Configs /\ {Intruder} \in SUBSET Participants
      BY <2>1, <2>4, IntruderAssumption DEF IInv, LotOK, Configured, Trading
    <3>2. PICK run : IsReplay(run, lot', {Intruder})
      BY <1>1, <3>1, ReplayRuns
    <3>3. Len(lot'.course.online \o lot'.course.held) = 0
      <4>1. lot'.course.online = <<>> /\ lot'.course.held = <<>>
        BY <2>1, <2>2, <2>4
      <4>2. Len(<<>> \o <<>>) = 0
        OBVIOUS
      <4> QED BY <4>1, <4>2
    <3> QED BY <3>2, <3>3 DEF IsReplay
  <2> DEFINE start == AtTheStart(lot')
  <2>6. /\ start.state = "Online" /\ start.config = lot'.config
        /\ start.price = lot.price /\ start.ask = NoAsk
        /\ start.leader = NoOne /\ start.limits = NoLimits
    BY <1>1, <2>1, <2>2, <2>4 DEF AtTheStart, LotRecord
  <2> HIDE DEF start
  <2>7. Alike(start, world')
    BY <2>1, <2>4, <2>6 DEF Alike, AlikeLimits, Active
  <2>8. \A p \in Participants : NoLimits[p].setSeq = 0
    BY DEF NoLimits, NoLimit
  <2>9. Shaped(world') /\ worldSequence' \in Nat
    BY <1>1, <2>1, LotShaped
  <2>10. \A p \in Participants : start.limits[p].setSeq <= sequence'
    BY <1>1, <2>6, <2>8
  <2>11. \A p \in Participants : world'.limits[p].setSeq <= worldSequence'
    BY <2>1, <2>4, <2>8, <2>9
  <2>12. lot'.course.held = <<>> /\ DOMAIN lot'.course.online = {}
         /\ lot'.course.removed = {}
    BY <2>1, <2>2, <2>4
  <2> QED BY <2>1, <2>4, <2>5, <2>7, <2>9, <2>10, <2>11, <2>12
          DEF Together, WorldOnline, start
<1> QED BY <1>2, <1>3, <1>4 DEF Prepare

(* The clock.                                                              *)
LEMMA ClockTogether ==
  ASSUME IInv, Together, now' \in {now, now + 1}, UNCHANGED <<lot, sequence, worldVars>>
  PROVE  Together'
<1>1. /\ lot' = lot /\ sequence' = sequence /\ world' = world
      /\ worldSequence' = worldSequence /\ now \in Int
  BY DEF worldVars, IInv, ClockOK
<1>2. \A i \in DOMAIN lot.course.online : lot.course.online[i].at <= now'
  <2> TAKE i \in DOMAIN lot.course.online
  <2>1. lot.course.online[i] \in Entry
    BY DEF IInv, LotOK, LotRecord, History
  <2>2. lot.course.online[i].at \in Int /\ lot.course.online[i].at <= now
    BY <2>1 DEF Together, Entry
  <2> QED BY <1>1, <2>2
<1> QED BY <1>1, <1>2 DEF Together, WorldOnline

(* An input of somebody, in the first lot.                                 *)
LEMMA InputInStep ==
  ASSUME IInv, InStep,
         \/ \E p, amount : PlaceBid(p, amount, "Bot")
         \/ \E p, max : SetProxyLimit(p, max)
         \/ \E p : WithdrawProxyLimit(p)
         \/ \E p : RemoveParticipant(p)
  PROVE  lot.state = "Online" /\ Together /\ WorldOnline /\ lot.course \in History
<1>1. lot.state \in Trading \cup {"Held"}
  BY DEF PlaceBid, SetProxyLimit, WithdrawProxyLimit, RemoveParticipant, Trading
<1> QED BY <1>1 DEF InStep, Together, Trading, IInv, LotOK, LotRecord

(* The history of the first lot after an input of somebody.                *)
LEMMA EnteredInStep ==
  ASSUME IInv, InStep, NEW entry, Enters(entry), Together', worldSequence' \in Nat
  PROVE  InStep'
<1>1. lot.course \in History
  BY DEF IInv, LotOK, LotRecord
<1>2. lot'.course.removed = lot.course.removed /\ lot'.state = "Online"
  BY <1>1 DEF Enters, History
<1> QED BY <1>2 DEF InStep

LEMMA OthersInStep ==
  ASSUME IInv, IInv', HistoryKnowsTheWindows, InStep, OthersAct
  PROVE  InStep'
<1> DEFINE entry(p, move, amount) == EntryOf(p, move, amount)
<1>1. ASSUME NEW p, NEW move, NEW amount
      PROVE  /\ entry(p, move, amount).participant = p /\ entry(p, move, amount).move = move
             /\ entry(p, move, amount).amount = amount
  BY DEF EntryOf
<1> HIDE DEF entry
<1>2. ASSUME NEW p \in Others, NEW amount \in BidAmounts,
             PlaceBid(p, amount, "Bot"), World!PlaceBid(p, amount, "Bot")
      PROVE  InStep'
  <2>1. lot.state = "Online" /\ Together /\ WorldOnline
    BY <1>2, InputInStep
  <2>2. p \in Participants /\ p # Intruder
    BY DEF Others
  <2>3. Enters(entry(p, "Bid", amount)) /\ entry(p, "Bid", amount) \in Entry
    BY <1>2, <2>1, <2>2, InputEnters DEF entry
  <2>4. /\ worldSequence' \in Nat /\ worldSequence' > worldSequence /\ world.leader # p
        /\ \E taken : TakesBid(world, p, amount, taken) /\ WorldAnswers(taken)
    BY <1>2, <2>1, <2>2, WorldBids
  <2>5. WorldTakes(entry(p, "Bid", amount)) /\ entry(p, "Bid", amount).participant # Intruder
    BY <1>1, <2>2, <2>4 DEF WorldTakes
  <2>6. Together'
    BY <2>1, <2>3, <2>4, <2>5, OthersEnter
  <2> QED BY <2>3, <2>4, <2>6, EnteredInStep
<1>3. ASSUME NEW p \in Others, NEW max \in LimitAmounts,
             SetProxyLimit(p, max), World!SetProxyLimit(p, max)
      PROVE  InStep'
  <2>1. lot.state = "Online" /\ Together /\ WorldOnline
    BY <1>3, InputInStep
  <2>2. p \in Participants /\ p # Intruder /\ max \in Sums
    BY SumsFacts DEF Others
  <2>3. Enters(entry(p, "LimitSet", max)) /\ entry(p, "LimitSet", max) \in Entry
    BY <1>3, <2>1, <2>2, InputEnters DEF entry
  <2>4. /\ worldSequence' \in Nat /\ worldSequence' > worldSequence
        /\ \E taken :
             /\ TakesLimit(world, p, [max |-> max, setSeq |-> worldSequence + 1], taken)
             /\ WorldAnswers(taken)
    BY <1>3, <2>1, <2>2, WorldSetsLimit
  <2>5. WorldTakes(entry(p, "LimitSet", max)) /\ entry(p, "LimitSet", max).participant # Intruder
    BY <1>1, <2>2, <2>4 DEF WorldTakes
  <2>6. Together'
    BY <2>1, <2>3, <2>4, <2>5, OthersEnter
  <2> QED BY <2>3, <2>4, <2>6, EnteredInStep
<1>4. ASSUME NEW p \in Others, WithdrawProxyLimit(p), World!WithdrawProxyLimit(p)
      PROVE  InStep'
  <2>1. lot.state = "Online" /\ Together /\ WorldOnline
    BY <1>4, InputInStep
  <2>2. p \in Participants /\ p # Intruder
    BY DEF Others
  <2>3. Enters(entry(p, "LimitWithdrawn", NoSum)) /\ entry(p, "LimitWithdrawn", NoSum) \in Entry
    BY <1>4, <2>1, <2>2, InputEnters DEF entry
  <2>4. /\ worldSequence' \in Nat /\ worldSequence' > worldSequence
        /\ TakesLimit(world, p, NoLimit, world')
    BY <1>4, <2>1, <2>2, WorldWithdraws
  <2>5. WorldTakes(entry(p, "LimitWithdrawn", NoSum)) /\ entry(p, "LimitWithdrawn", NoSum).participant # Intruder
    BY <1>1, <2>2, <2>4 DEF WorldTakes
  <2>6. Together'
    BY <2>1, <2>3, <2>4, <2>5, OthersEnter
  <2> QED BY <2>3, <2>4, <2>6, EnteredInStep
<1>5. ASSUME \/ \E window \in LaunchedWindows :
                  AddStepWindow(window) /\ World!AddStepWindow(window)
             \/ \E window \in PeriodWindows :
                  SetPeriodWindow(window) /\ World!SetPeriodWindow(window)
             \/ \E window \in PeriodWindows :
                  ClearPeriodWindow(window.period) /\ World!ClearPeriodWindow(window.period)
      PROVE  InStep'
  <2>1. lot.state = "Online"
    BY <1>5 DEF AddStepWindow, SetPeriodWindow, ClearPeriodWindow
  <2>2. Together
    BY <2>1 DEF InStep
  <2>3. Together' /\ lot'.state = "Online" /\ lot'.course.removed = lot.course.removed
    BY <1>5, <2>1, <2>2, WindowsTogether
  <2>4. worldSequence' \in Nat
    BY <2>3 DEF Together, WorldOnline
  <2> QED BY <2>3, <2>4 DEF InStep
<1> QED BY <1>2, <1>3, <1>4, <1>5 DEF OthersAct

LEMMA IntruderInStep ==
  ASSUME IInv, IInv', HistoryKnowsTheWindows, InStep, IntruderActs
  PROVE  \/ RemoveParticipant(Intruder) /\ Intruder \in lot'.course.removed
         \/ InStep'
<1> DEFINE entry(move, amount) == EntryOf(Intruder, move, amount)
<1>1. ASSUME NEW move, NEW amount, Enters(entry(move, amount)), entry(move, amount) \in Entry,
             lot.state = "Online", Together
      PROVE  InStep'
  <2>1. entry(move, amount).participant = Intruder
    BY DEF EntryOf
  <2> HIDE DEF entry
  <2>2. UNCHANGED worldVars
    BY DEF IntruderActs
  <2>3. Together'
    BY <1>1, <2>1, <2>2, IntruderEnters
  <2>4. worldSequence' \in Nat
    BY <2>3 DEF Together, WorldOnline
  <2> QED BY <1>1, <2>3, <2>4, EnteredInStep
<1> HIDE DEF entry
<1>2. ASSUME NEW amount \in BidAmounts, PlaceBid(Intruder, amount, "Bot")
      PROVE  InStep'
  <2>1. lot.state = "Online" /\ Together
    BY <1>2, InputInStep
  <2>2. Enters(entry("Bid", amount)) /\ entry("Bid", amount) \in Entry
    BY <1>2, <2>1, IntruderAssumption, InputEnters DEF entry
  <2> QED BY <1>1, <2>1, <2>2
<1>3. ASSUME NEW max \in LimitAmounts, SetProxyLimit(Intruder, max)
      PROVE  InStep'
  <2>1. lot.state = "Online" /\ Together
    BY <1>3, InputInStep
  <2>2. Enters(entry("LimitSet", max)) /\ entry("LimitSet", max) \in Entry
    BY <1>3, <2>1, IntruderAssumption, InputEnters DEF entry
  <2> QED BY <1>1, <2>1, <2>2
<1>4. ASSUME WithdrawProxyLimit(Intruder)
      PROVE  InStep'
  <2>1. lot.state = "Online" /\ Together
    BY <1>4, InputInStep
  <2>2. Enters(entry("LimitWithdrawn", NoSum)) /\ entry("LimitWithdrawn", NoSum) \in Entry
    BY <1>4, <2>1, IntruderAssumption, InputEnters DEF entry
  <2> QED BY <1>1, <2>1, <2>2
<1>5. ASSUME RemoveParticipant(Intruder)
      PROVE  Intruder \in lot'.course.removed
  <2>1. lot'.course = [lot.course EXCEPT !.removed = lot.course.removed \cup {Intruder}]
    BY <1>5, IntruderAssumption, RemoveParticipantKeeps DEF Thinned
  <2>2. lot.course \in History
    BY DEF IInv, LotOK, LotRecord
  <2> QED BY <2>1, <2>2 DEF History
<1> QED BY <1>2, <1>3, <1>4, <1>5 DEF IntruderActs

LEMMA ParallelKept ==
  ASSUME IInv, IInv', HistoryKnowsTheWindows, Unopened, Parallel, [JointNext]_jointVars
  PROVE  Parallel'
<1>1. CASE UNCHANGED jointVars
  <2>1. /\ lot' = lot /\ sequence' = sequence /\ now' = now /\ world' = world
        /\ worldSequence' = worldSequence /\ UNCHANGED worldVars
    BY <1>1 DEF jointVars, vars, worldVars
  <2>2. Together => Together'
    BY <2>1, ClockTogether
  <2> QED BY <2>1, <2>2 DEF Parallel, InStep
<1>2. CASE JointNext
  <2>1. InStep
    BY <1>2 DEF JointNext, Parallel
  <2>2. ASSUME Prepare PROVE InStep'
    <3>1. lot.state \in {"Initial", "Draft", "Scheduled"}
      BY <2>2 DEF Prepare, DraftLot, ScheduleLot, OpenLot
    <3>2. world = lot /\ worldSequence \in Nat
      BY <2>1, <3>1 DEF InStep
    <3> QED BY <2>2, <3>1, <3>2, BothPrepare DEF InStep
  <2>3. ASSUME Tick, UNCHANGED worldVars PROVE InStep'
    <3>1. /\ lot' = lot /\ sequence' = sequence /\ now' = now + 1 /\ world' = world
          /\ worldSequence' = worldSequence
      BY <2>3 DEF Tick, worldVars
    <3>2. Together => Together'
      BY <2>3, <3>1, ClockTogether
    <3> QED BY <2>1, <3>1, <3>2 DEF InStep
  <2>4. CASE IntruderActs
    BY <2>1, <2>4, IntruderInStep DEF Parallel
  <2>5. CASE OthersAct
    BY <2>1, <2>5, OthersInStep DEF Parallel
  <2> QED BY <1>2, <2>2, <2>3, <2>4, <2>5 DEF JointNext, Parallel
<1> QED BY <1>1, <1>2

LEMMA RemovalStep ==
  ASSUME IInv, IInv', HistoryKnowsTheWindows, Unopened, Parallel, JointNext
  PROVE  Intruder \in lot'.course.removed => AsIfNeverThere
<1>1. InStep
  BY DEF JointNext, Parallel
<1>2. ASSUME RemoveParticipant(Intruder) PROVE AsIfNeverThere
  <2>1. Together /\ lot.course.removed = {}
    BY <1>1, <1>2, InputInStep DEF InStep
  <2>2. lot.course.removed \cup {Intruder} = {Intruder}
    BY <2>1
  <2>3. /\ lot'.leader = Rerun(lot, {Intruder}).leader
        /\ lot'.price = Lesser(Rerun(lot, {Intruder}).price, lot.price)
    BY <1>2, <2>2, IntruderAssumption, RemoveParticipantKeeps DEF Thinned
  <2>4. /\ Rerun(lot, {Intruder}).leader = world.leader
        /\ Rerun(lot, {Intruder}).price = world.price
    BY <2>1 DEF Together, Alike
  <2> QED BY <2>3, <2>4 DEF AsIfNeverThere
<1>3. ASSUME ~ RemoveParticipant(Intruder) PROVE Intruder \notin lot'.course.removed
  <2>1. CASE IntruderActs
    BY <1>1, <1>3, <2>1, IntruderInStep DEF InStep
  <2>2. CASE OthersAct
    BY <1>1, <2>2, OthersInStep DEF InStep
  <2>3. CASE Prepare
    <3>1. lot.state \in {"Initial", "Draft", "Scheduled"}
      BY <2>3 DEF Prepare, DraftLot, ScheduleLot, OpenLot
    <3> QED BY <1>1, <2>3, <3>1, BothPrepare DEF InStep
  <2>4. CASE Tick
    BY <1>1, <2>4 DEF Tick, InStep
  <2> QED BY <2>1, <2>2, <2>3, <2>4 DEF JointNext
<1> QED BY <1>2, <1>3

(* The first lot of the two behaves as any lot.                            *)
LEMMA FirstIsALot == JointSpec => Spec
<1>1. JointNext => Next
  <2>1. Others \subseteq Participants /\ Intruder \in Participants
    BY IntruderAssumption DEF Others
  <2> QED BY <2>1 DEF JointNext, Prepare, OthersAct, IntruderActs, Next
<1>2. UNCHANGED jointVars => UNCHANGED vars
  BY DEF jointVars, vars
<1> QED BY <1>1, <1>2, PTL DEF JointSpec, JointInit, Spec

LEMMA ParallelStart == JointInit => Parallel
<1>1. JointInit => world = lot /\ lot = Blank("Initial") /\ worldSequence = 0
  BY SameConstants DEF JointInit, Init, World!Init
<1>2. Blank("Initial").state = "Initial" /\ Blank("Initial").course.removed = {}
  BY DEF Blank, NoCourse
<1> QED BY <1>1, <1>2 DEF Parallel, InStep

(* I-21: whatever the intruder has bid and set, and whenever, the removal  *)
(* leaves the leader of the lot that has traded without the intruder, at   *)
(* the lower of that lot's price and the present one (Lot.removal and      *)
(* Lot.rerun), whatever the other commands were and in whatever order.     *)
THEOREM RemovalUndoes == JointSpec => RemovalUndoesTheIntruder
<1>1. Parallel /\ IInv /\ IInv' /\ HistoryKnowsTheWindows /\ Unopened /\ [JointNext]_jointVars
        => Parallel'
  BY ParallelKept
<1>2. Parallel /\ IInv /\ IInv' /\ HistoryKnowsTheWindows /\ Unopened /\ [JointNext]_jointVars
        => [(Intruder \in lot'.course.removed) => AsIfNeverThere]_jointVars
  BY RemovalStep
<1> QED BY <1>1, <1>2, ParallelStart, FirstIsALot, InvariantHolds, HistoryHasTheWindows,
           UnopenedHolds, PTL DEF JointSpec, RemovalUndoesTheIntruder
=============================================================================
