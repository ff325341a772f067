--------------------------- MODULE LiveCardProofs ---------------------------
(***************************************************************************)
(* Module LiveCard keeps its types, keeps a card on the lot the stream has *)
(* shown, keeps the record of the bucket in step with the watch, and shows *)
(* in Telegram what the registry believes, for every course of the         *)
(* auction, every set of messages and every number of presses, restarts    *)
(* and refused calls.                                                      *)
(*                                                                         *)
(* One lemma for each operator on the registry says that it Heeds what is  *)
(* in store for the bucket; the lemmas of the steps put them together.     *)
(***************************************************************************)
EXTENDS LiveCard, TLAPS

(* The record the registry believes to be in the bucket.                   *)
Wanted(r) ==
  IF r.card.watching THEN [message |-> r.card.message, lot |-> r.saved] ELSE NoRecord

(* A target of a call, or a record, that suits the watch of the card.      *)
Fits(target, r) == target = Wanted(r)

(* A call under way will leave a record that suits, or call again: one     *)
(* that is or was the latest looks at the card when it is answered.        *)
Renewed(r) == \E i \in DOMAIN r.writes :
  r.writes[i].check # "Unchecked" \/ Fits(r.writes[i].target, r)

(* The latest call is never behind the card.                               *)
LatestFit(r) ==
  \A i \in DOMAIN r.writes : r.writes[i].check = "Latest" => Fits(r.writes[i].target, r)

(* What CardTypeOK says of the registry; and only a watched card has a     *)
(* lot under which it was saved, so that a watch that starts is written.   *)
Shape(r) ==
  /\ r \in Registries
  /\ Registered(r) <=> r.card.lot # NoLot
  /\ CurrentIsOfTheCard(r)
  /\ NothingIsLeft(r)
  /\ ~r.card.watching => r.saved = NoLot

(* SettledOnTheLot of any registry.                                        *)
OnTheLot(r) ==
  (Registered(r) /\ r.latest > 0) =>
    LET active == Course[r.latest].active
    IN  /\ active # NoLot => r.card.lot = active
        /\ r.card.version # 0 => r.card.version >= Version(r.card.lot, r.latest)

(* A process that has touched no watch yet.                                *)
Idle(r) == r.writes = <<>> /\ ~r.card.watching

(* A record of a chat that watches, but perhaps of another message.        *)
Lax(kept, r) == r.card.watching /\ kept # NoRecord

(* What is in store for the record of the chat, when nothing has left it   *)
(* to chance: it suits, or is known to be misplaced, or a call will make   *)
(* it, or the process has yet to take up what its predecessor left.        *)
Kept(r, kept, res, lax) ==
  /\ LatestFit(r)
  /\ \/ Fits(kept, r)
     \/ lax /\ Lax(kept, r)
     \/ Renewed(r)
     \/ /\ Idle(r)
        /\ res.step # "None"
        /\ res.step = "Read" => kept = res.found

(* The same calls, but for those no longer the latest.                     *)
SameCalls(w, v) ==
  /\ DOMAIN v = DOMAIN w
  /\ \A i \in DOMAIN w :
       v[i].target = w[i].target /\ (w[i].check = "Unchecked" <=> v[i].check = "Unchecked")

(* r2 leaves what r has in store for the bucket, or renews it.             *)
Heeds(r, r2) ==
  /\ Shape(r2)
  /\ LatestFit(r) => LatestFit(r2)
  /\ \/ Renewed(r2)
     \/ /\ r.writes = r2.writes
        /\ r.card.watching = r2.card.watching /\ Wanted(r) = Wanted(r2)
     \/ ~r.card.watching /\ ~r2.card.watching /\ SameCalls(r.writes, r2.writes)

(* A press in the handler names a message, and draws a menu or a lot.      *)
PressFits(p) ==
  /\ p.message \in Messages
  /\ p.body # Menu => p.body.lot \in Lots
  /\ p.body \in CardScreens

(* Only the edits of a registry changed.                                   *)
Edited(r, W, F) == [r EXCEPT !.waiting = W, !.inFlight = F]

(* The types of the variables but the registry.                            *)
OthersOK ==
  /\ now \in States
  /\ screen \in [Messages -> CardScreens]
  /\ press \in [step : {"None", "Read", "Drawn"}, message : Messages \cup {NoMessage},
                body : CardScreens, live : BOOLEAN, watch : {"None", "Start", "Stop"}]
  /\ press.step # "None" => PressFits(press)
  /\ record \in Records
  /\ restoring \in [step : {"None", "Reading", "Read"}, found : Records]
  /\ events \in 0 .. MaxEvents
  /\ strays \in Seq(Records)
  /\ late \subseteq [message : Messages, body : CardScreens]
  /\ unheard \in [Messages -> {"Nothing", "Keyboard", "Screen"}]
  /\ astray \in BOOLEAN
  /\ misplaced \in BOOLEAN

(* The inductive invariant.                                                *)
CardInv ==
  /\ Shape(registry)
  /\ OnTheLot(registry)
  /\ OthersOK
  /\ ~astray => Kept(registry, record, restoring, misplaced)

-----------------------------------------------------------------------------
(* A call superseded has its target still, and is the latest no more.      *)
LEMMA SupersededType ==
  ASSUME NEW w \in Seq(Calls)
  PROVE /\ Superseded(w) \in Seq(Calls)
        /\ DOMAIN Superseded(w) = DOMAIN w
        /\ Len(Superseded(w)) = Len(w)
        /\ \A i \in DOMAIN w : /\ Superseded(w)[i].check # "Latest"
                               /\ Superseded(w)[i].target = w[i].target
                               /\ w[i].check = "Unchecked" <=> Superseded(w)[i].check = "Unchecked"
<1>1. \A i \in DOMAIN w : w[i] \in Calls
  OBVIOUS
<1>2. \A i \in DOMAIN w : [w[i] EXCEPT !.check = IF @ = "Latest" THEN "Superseded" ELSE @] \in Calls
  BY <1>1 DEF Calls
<1>3. Superseded(w) \in [1 .. Len(w) -> Calls]
  BY <1>2 DEF Superseded
<1>4. Superseded(w) \in Seq(Calls)
  BY <1>3
<1>5. Len(Superseded(w)) = Len(w)
  BY <1>3
<1> QED BY <1>1, <1>3, <1>4, <1>5 DEF Superseded, Calls

(* The course: its versions are numbers, and a card is always of a lot.    *)
LEMMA Course0 ==
  ASSUME NEW k \in States
  PROVE  /\ \A lot \in Lots : Version(lot, k) \in Nat
         /\ Course[k].active \in Lots \cup {NoLot}
         /\ \A lot \in Lots : LotOf(lot, k) \in Lots
         /\ NoLot \notin Lots /\ Last \in Nat /\ Last \in States /\ States = 1 .. Last
<1> DEFINE Row == [active : Lots \cup {NoLot}, version : [Lots -> Nat]]
<1>1. Course \in Seq(Row) /\ NoLot \notin Lots /\ Course # <<>>
  BY CourseAssumption
<1>2. Course \in [1 .. Len(Course) -> Row] /\ Len(Course) \in Nat
  <2> HIDE DEF Row
  <2> QED BY <1>1
<1>3. Last \in Nat /\ Last \in States /\ States = 1 .. Last
  BY <1>1, <1>2 DEF States, Last
<1>4. Course[k] \in Row
  BY <1>2 DEF States
<1>5. Course[k].active \in Lots \cup {NoLot} /\ Course[k].version \in [Lots -> Nat]
  BY <1>4
<1> QED BY <1>1, <1>3, <1>5 DEF Version, LotOf

(* Writing the record anew: the call is the latest, and suits the card.    *)
LEMMA PersistingAnew ==
  ASSUME NEW r, Shape(r), Registered(r), r.card.watching, r.saved # r.card.lot
  PROVE /\ Shape(Persist(r)) /\ Renewed(Persist(r)) /\ LatestFit(Persist(r))
        /\ Persist(r).card = r.card
        /\ Persist(r).latest = r.latest
        /\ Persist(r).inFlight = r.inFlight
        /\ Persist(r).waiting = r.waiting
<1> DEFINE call == Write([message |-> r.card.message, lot |-> r.card.lot], "Latest")
           w == Append(Superseded(r.writes), call)
           q == Persist(r)
<1>1. /\ r.card.message \in Messages /\ r.card.lot \in Lots
      /\ r.writes \in Seq(Calls)
  BY DEF Shape, Registries, Cards, Registered
<1>2. call \in Calls /\ call.target # NoRecord /\ call.check = "Latest"
  BY <1>1, CourseAssumption DEF Calls, Write, Records, NoRecord
<1>3. w \in Seq(Calls) /\ DOMAIN w = 1 .. Len(r.writes) + 1
      /\ w[Len(r.writes) + 1] = call
      /\ \A i \in 1 .. Len(r.writes) : w[i].check # "Latest"
  BY <1>1, <1>2, SupersededType
<1>4. q = [r EXCEPT !.saved = r.card.lot, !.writes = w]
  BY DEF Persist
<1>5. /\ q \in Registries /\ q.card = r.card /\ q.latest = r.latest
      /\ q.writes = w /\ q.inFlight = r.inFlight /\ q.waiting = r.waiting /\ q.saved = r.card.lot
  BY <1>1, <1>3, <1>4 DEF Shape, Registries
<1>8. call.target = Wanted(q)
  BY <1>5 DEF Wanted, Write
<1>6. LatestFit(q) /\ Renewed(q)
  <2> HIDE DEF call, w, q
  <2>1. q.writes[Len(r.writes) + 1] = call /\ DOMAIN q.writes = 1 .. Len(r.writes) + 1
        /\ Len(r.writes) \in Nat
    BY <1>1, <1>3, <1>5
  <2>2. \A i \in DOMAIN q.writes : q.writes[i].check = "Latest" => i = Len(r.writes) + 1
    BY <1>3, <1>5, <2>1
  <2> QED BY <1>2, <1>8, <2>1, <2>2 DEF LatestFit, Renewed, Fits
<1>7. Shape(q)
  BY <1>5 DEF Shape, Registered, CurrentIsOfTheCard, NothingIsLeft
<1> QED BY <1>5, <1>6, <1>7

(* persist writes the record of a watched card whose lot has changed, and  *)
(* leaves every other registry alone.                                      *)
LEMMA Persisting ==
  ASSUME NEW r, Shape(r), Registered(r)
  PROVE /\ Heeds(r, Persist(r))
        /\ Persist(r).card = r.card
        /\ Persist(r).latest = r.latest
        /\ Persist(r).inFlight = r.inFlight
        /\ Persist(r).waiting = r.waiting
<1>1. CASE ~r.card.watching \/ r.saved = r.card.lot
  BY <1>1 DEF Persist, Heeds
<1>2. CASE r.card.watching /\ r.saved # r.card.lot
  BY <1>2, PersistingAnew DEF Heeds
<1> QED BY <1>1, <1>2

(* Operators that heed the bucket do so one after the other.               *)
LEMMA HeedsOn ==
  ASSUME NEW r, NEW s, NEW t, Shape(r), Heeds(r, s), Heeds(s, t)
  PROVE  Heeds(r, t)
<1>1. r.writes \in Seq(Calls) /\ s.writes \in Seq(Calls) /\ Shape(t)
  BY DEF Heeds, Shape, Registries
<1>2. CASE Renewed(s) /\ s.writes = t.writes /\ s.card.watching = t.card.watching
  BY <1>1, <1>2 DEF Heeds, Renewed, Fits, Wanted
<1>3. CASE Renewed(s) /\ ~s.card.watching /\ ~t.card.watching /\ SameCalls(s.writes, t.writes)
  BY <1>1, <1>3 DEF Heeds, Renewed, Fits, Wanted, SameCalls
<1>4. CASE ~Renewed(s)
  BY <1>1, <1>4 DEF Heeds, SameCalls
<1> QED BY <1>1, <1>2, <1>3, <1>4 DEF Heeds

(* Another revision of a card takes its edits from it, and nothing else.   *)
LEMMA Revising ==
  ASSUME NEW r, Shape(r), NEW m \in Messages
  PROVE  /\ Heeds(r, Revise(r, m))
         /\ Revise(r, m).card = r.card
         /\ Revise(r, m).latest = r.latest
         /\ Revise(r, m).saved = r.saved
         /\ Revise(r, m).writes = r.writes
<1> DEFINE q == Revise(r, m)
<1>0. /\ \A tie \in Ties : Revised(tie) \in Ties
      /\ \A tie \in Ties \cup {"None"} : Revised(tie) \in Ties \cup {"None"}
  BY DEF Revised, Ties
<1> DEFINE F == [r.inFlight EXCEPT ![m].tie = Revised(@)]
           W == [r.waiting EXCEPT ![m] = Revised(@)]
<1>1. q \in Registries
  <2>1. r \in Registries
    BY DEF Shape
  <2>2. F \in [Messages -> Edits]
    <3>1. r.inFlight \in [Messages -> Edits]
      BY <2>1 DEF Registries
    <3>2. [r.inFlight[m] EXCEPT !.tie = Revised(@)] \in Edits
      BY <1>0, <3>1 DEF Edits
    <3> QED BY <3>1, <3>2
  <2>3. W \in [Messages -> Ties \cup {"None"}]
    BY <1>0, <2>1 DEF Registries
  <2>4. q = [r EXCEPT !.inFlight = F, !.waiting = W]
    BY <2>1 DEF Revise, Registries, Edits
  <2> HIDE DEF F, W, q
  <2> QED BY <2>1, <2>2, <2>3, <2>4 DEF Registries
<1>2. /\ q.card = r.card /\ q.latest = r.latest /\ q.saved = r.saved /\ q.writes = r.writes
  BY DEF Revise, Shape, Registries
<1>3. CurrentIsOfTheCard(q)
  BY DEF Revise, Revised, Shape, Registries, Edits, CurrentIsOfTheCard, NoEdit
<1> QED BY <1>1, <1>2, <1>3 DEF Heeds, Shape, Registered, NothingIsLeft, LatestFit, Fits, Wanted

(* A card redrawn under the same message and watch.                        *)
LEMMA Recarding ==
  ASSUME NEW r, Shape(r), NEW c \in Cards, NEW q, q = [r EXCEPT !.card = c],
         c.message # NoMessage <=> c.lot # NoLot,
         c.message = r.card.message, c.watching = r.card.watching,
         Registered(r) \/ ~c.ending
  PROVE  /\ Heeds(r, q)
         /\ q.card = c /\ q.latest = r.latest /\ q.saved = r.saved
<1>1. r \in Registries
  BY DEF Shape
<1>2. q \in Registries
  BY <1>1 DEF Registries
<1>3. /\ q.card = c /\ q.latest = r.latest /\ q.saved = r.saved /\ q.writes = r.writes
      /\ q.waiting = r.waiting /\ q.inFlight = r.inFlight
  BY <1>1 DEF Registries
<1> QED
  BY <1>2, <1>3 DEF Heeds, Shape, Registered, CurrentIsOfTheCard, NothingIsLeft, LatestFit, Fits, Wanted

(* An edit is put into the limiter.                                        *)
LEMMA Submitting ==
  ASSUME NEW r, Shape(r), Registered(r)
  PROVE  /\ Heeds(r, Submit(r))
         /\ Submit(r).card = r.card /\ Submit(r).latest = r.latest
<1> DEFINE m == r.card.message
           W == [r.waiting EXCEPT ![m] = "Current"]
           q == Submit(r)
<1>1. r \in Registries /\ m \in Messages
  BY DEF Shape, Registries, Cards, Registered
<1>2. W \in [Messages -> Ties \cup {"None"}]
  BY <1>1 DEF Registries, Ties
<1>3. q = [r EXCEPT !.waiting = W]
  BY <1>1 DEF Submit, Registries
<1>4. q \in Registries
  <2> HIDE DEF W, q
  <2> QED BY <1>1, <1>2, <1>3 DEF Registries
<1>5. /\ q.card = r.card /\ q.latest = r.latest /\ q.saved = r.saved /\ q.writes = r.writes
      /\ q.waiting = W /\ q.inFlight = r.inFlight
  BY <1>1, <1>3 DEF Registries
<1>6. CurrentIsOfTheCard(q)
  BY <1>1, <1>5 DEF Shape, CurrentIsOfTheCard, Registries
<1> QED
  BY <1>4, <1>5, <1>6 DEF Heeds, Shape, Registered, NothingIsLeft, LatestFit, Fits, Wanted

(* schedule puts the card on the lot and the version it was given, and     *)
(* writes the record of a watched card under it.                           *)
LEMMA Scheduling ==
  ASSUME NEW r, Shape(r), Registered(r), NEW lot \in Lots, NEW v \in Nat
  PROVE  LET q == Schedule(r, lot, v)
         IN  /\ Heeds(r, q)
             /\ q.card.message = r.card.message /\ q.card.watching = r.card.watching
             /\ q.card.lot = lot /\ q.card.version = v /\ q.card.ending = r.card.ending
             /\ q.latest = r.latest
<1> DEFINE c == [r.card EXCEPT !.outcome = @ /\ r.card.lot = lot, !.lot = lot, !.version = v]
           e == [r EXCEPT !.card = c]
           f == Revise(e, r.card.message)
           g == Persist(f)
<1>1. r \in Registries /\ r.card \in Cards /\ r.card.message \in Messages
  BY DEF Shape, Registries, Cards, Registered
<1>2. c \in Cards /\ c.message = r.card.message /\ c.watching = r.card.watching
      /\ c.lot = lot /\ c.version = v /\ c.ending = r.card.ending
  BY <1>1 DEF Cards
<1>3. Schedule(r, lot, v) = Submit(g)
  BY <1>1 DEF Schedule, Registries, Cards
<1>4. Heeds(r, e) /\ e.card = c /\ e.latest = r.latest
  <2>1. c.message # NoMessage /\ c.lot # NoLot
    BY <1>2, CourseAssumption DEF Registered
  <2> HIDE DEF c, e
  <2> QED BY <1>1, <1>2, <2>1, Recarding DEF e
<1>5. Heeds(e, f) /\ f.card = c /\ f.latest = r.latest
  <2> HIDE DEF c, e
  <2> QED BY <1>1, <1>4, Revising DEF Heeds
<1>6. Heeds(f, g) /\ g.card = c /\ g.latest = r.latest /\ Registered(f)
  <2> HIDE DEF c, e, f
  <2> QED BY <1>2, <1>5, Persisting DEF Heeds, Registered
<1>7. Heeds(g, Submit(g)) /\ Submit(g).card = c /\ Submit(g).latest = r.latest
  <2> HIDE DEF c, e, f, g
  <2> QED BY <1>2, <1>6, Submitting DEF Heeds, Registered
<1>8. Heeds(r, Submit(g))
  <2> HIDE DEF c, e, f, g
  <2>1. Heeds(r, f)
    BY <1>4, <1>5, HeedsOn
  <2>2. Heeds(r, g)
    BY <2>1, <1>6, HeedsOn
  <2> QED BY <2>2, <1>7, HeedsOn
<1> HIDE DEF c, g
<1> QED BY <1>2, <1>3, <1>7, <1>8

(* forget leaves no card and nothing of its feed; unless the record is to  *)
(* stay, it calls for the removal of it.                                   *)
LEMMA Forgetting ==
  ASSUME NEW r, Shape(r), NEW keep \in BOOLEAN
  PROVE  LET q == Forget(r, keep)
         IN  /\ Shape(q) /\ (LatestFit(r) => LatestFit(q))
             /\ ~Registered(r) => q = r
             /\ Registered(r) => q.card = NoCard
             /\ ~Registered(q) /\ ~q.card.watching /\ q.latest = 0 /\ q.saved = NoLot
             /\ ~keep \/ ~r.card.watching => Heeds(r, q)
<1> DEFINE m == r.card.message
           d == [r EXCEPT !.card = NoCard, !.latest = 0, !.saved = NoLot,
                          !.waiting[m] = "None", !.inFlight = Orphaned(@),
                          !.writes = Superseded(@)]
           q == Forget(r, keep)
<1>1. CASE ~Registered(r)
  BY <1>1 DEF Forget, Shape, NothingIsLeft, Heeds
<1>2. CASE Registered(r)
  <2>1. r \in Registries /\ m \in Messages /\ NoCard \in Cards
        /\ r.writes \in Seq(Calls)
    BY <1>2, CourseAssumption DEF Shape, Registries, Cards, Registered, NoCard
  <2>2. Orphaned(r.inFlight) \in [Messages -> Edits]
    <3>1. \A n \in Messages : [r.inFlight[n] EXCEPT !.tie = "Orphan"] \in Edits
      BY <2>1 DEF Registries, Edits, Ties
    <3> QED BY <3>1 DEF Orphaned
  <2>3. \A n \in Messages : Orphaned(r.inFlight)[n].tie = "Orphan"
    BY <2>1 DEF Orphaned, Registries, Edits
  <2> DEFINE W == [r.waiting EXCEPT ![m] = "None"]
  <2>4. W \in [Messages -> Ties \cup {"None"}]
    BY <2>1 DEF Registries
  <2>5. d = [r EXCEPT !.card = NoCard, !.latest = 0, !.saved = NoLot,
                      !.waiting = W, !.inFlight = Orphaned(r.inFlight),
                      !.writes = Superseded(r.writes)]
    BY <2>1 DEF Registries
  <2>6. /\ d \in Registries
        /\ d.card = NoCard /\ d.latest = 0 /\ d.saved = NoLot
        /\ d.waiting = W /\ d.inFlight = Orphaned(r.inFlight)
        /\ d.writes = Superseded(r.writes) /\ d.released = r.released
    <3> HIDE DEF W, d
    <3> QED BY <2>1, <2>2, <2>4, <2>5, SupersededType DEF Registries
  <2>7. /\ NoCard.message = NoMessage /\ NoCard.lot = NoLot
        /\ NoCard.watching = FALSE /\ NoCard.ending = FALSE
    BY DEF NoCard
  <2>8. CurrentIsOfTheCard(d)
    <3> HIDE DEF d
    <3> QED BY <2>1, <2>3, <2>6 DEF CurrentIsOfTheCard, Shape, Registries
  <2>9. Shape(d) /\ LatestFit(d) /\ SameCalls(r.writes, d.writes)
    <3> HIDE DEF d
    <3> QED BY <2>1, <2>6, <2>7, <2>8, SupersededType
            DEF Shape, Registered, NothingIsLeft, LatestFit, SameCalls
  <2>10. CASE ~r.card.watching \/ keep
    <3>1. q = d
      BY <1>2, <2>10 DEF Forget
    <3> HIDE DEF d
    <3> QED BY <1>2, <2>6, <2>7, <2>9, <2>10, <3>1 DEF Heeds, Registered
  <2>11. CASE r.card.watching /\ ~keep
    <3> DEFINE call == Write(NoRecord, "Latest")
               w == Append(d.writes, call)
    <3>1. q = [d EXCEPT !.released = @ \cup {m}, !.writes = w]
      BY <1>2, <2>11 DEF Forget
    <3>2. call \in Calls /\ call.target = NoRecord /\ call.check = "Latest"
      BY DEF Write, Calls, Records
    <3>3. d.writes \in Seq(Calls)
          /\ \A i \in DOMAIN d.writes : d.writes[i].check # "Latest"
      <4> HIDE DEF d
      <4> QED BY <2>1, <2>6, SupersededType
    <3>0. Forget(r, keep) = q
      OBVIOUS
    <3> HIDE DEF d, q, call
    <3>4. /\ w \in Seq(Calls) /\ DOMAIN w = 1 .. Len(d.writes) + 1
          /\ w[Len(d.writes) + 1] = call
          /\ \A i \in 1 .. Len(d.writes) : w[i].check # "Latest"
      BY <3>2, <3>3
    <3> HIDE DEF w
    <3>5. /\ q \in Registries
          /\ q.card = NoCard /\ q.latest = 0 /\ q.saved = NoLot /\ q.writes = w
          /\ q.waiting = d.waiting /\ q.inFlight = d.inFlight
      BY <2>1, <2>6, <3>1, <3>4 DEF Registries
    <3>6. LatestFit(q) /\ Renewed(q)
      <4>1. ~q.card.watching /\ Len(d.writes) + 1 \in DOMAIN q.writes
        BY <2>7, <3>3, <3>4, <3>5
      <4>2. \A i \in DOMAIN q.writes : q.writes[i].check = "Latest" => i = Len(d.writes) + 1
        BY <3>3, <3>4, <3>5
      <4>3. q.writes[Len(d.writes) + 1] = call
        BY <3>4, <3>5
      <4> QED BY <3>2, <4>1, <4>2, <4>3 DEF LatestFit, Renewed, Fits, Wanted
    <3>7. Shape(q)
      BY <2>6, <2>7, <2>9, <3>5, <3>6
         DEF Shape, Registered, CurrentIsOfTheCard, NothingIsLeft
    <3> QED BY <1>2, <2>7, <3>0, <3>5, <3>6, <3>7 DEF Heeds, Registered
  <2> QED BY <2>10, <2>11
<1> QED BY <1>1, <1>2

(* A waiting edit is dropped.                                              *)
LEMMA Dropping ==
  ASSUME NEW r, Shape(r), NEW m \in Messages,
         NEW q, q = [r EXCEPT !.waiting[m] = "None"]
  PROVE  /\ Heeds(r, q)
         /\ q.card = r.card /\ q.latest = r.latest
<1> DEFINE W == [r.waiting EXCEPT ![m] = "None"]
<1>1. r \in Registries
  BY DEF Shape
<1>2. W \in [Messages -> Ties \cup {"None"}]
  BY <1>1 DEF Registries, Ties
<1>3. q = [r EXCEPT !.waiting = W]
  BY <1>1 DEF Registries
<1>4. q \in Registries
  <2> HIDE DEF W
  <2> QED BY <1>1, <1>2, <1>3 DEF Registries
<1>5. /\ q.card = r.card /\ q.latest = r.latest /\ q.saved = r.saved /\ q.writes = r.writes
      /\ q.waiting = W /\ q.inFlight = r.inFlight
  BY <1>1, <1>3 DEF Registries
<1>6. CurrentIsOfTheCard(q)
  BY <1>1, <1>5 DEF Shape, CurrentIsOfTheCard, Registries
<1> QED
  BY <1>4, <1>5, <1>6 DEF Heeds, Shape, Registered, NothingIsLeft, LatestFit, Fits, Wanted

(* A lot that is not listed is not the active one.                         *)
LEMMA ActiveIsListed ==
  ASSUME NEW k \in States, NEW lot \in Lots, ~Listed(LotOf(lot, k), k)
  PROVE  Course[k].active = NoLot /\ LotOf(lot, k) = lot /\ Version(lot, k) = 0
<1>1. Course[k].active = NoLot
  BY Course0, CourseAssumption DEF Listed, LotOf, Version
<1> QED BY <1>1, Course0 DEF LotOf, Listed, Version

(* onState: the card is on the lot of the state shown, whatever it was on. *)
LEMMA Showing ==
  ASSUME NEW r, Shape(r), Registered(r), NEW k \in States
  PROVE  Heeds(r, OnState(r, k)) /\ OnTheLot(OnState(r, k))
<1> DEFINE e == [r EXCEPT !.latest = k]
           lot == LotOf(r.card.lot, k)
           q == OnState(r, k)
<1>1. r \in Registries /\ r.card \in Cards /\ r.card.message \in Messages /\ r.card.lot \in Lots
      /\ r.card.version \in Nat
  BY DEF Shape, Registries, Cards, Registered
<1>2. /\ e \in Registries /\ e.card = r.card /\ e.latest = k /\ e.saved = r.saved
      /\ e.writes = r.writes /\ e.waiting = r.waiting /\ e.inFlight = r.inFlight
  BY <1>1 DEF Registries
<1>3. Heeds(r, e) /\ Shape(e) /\ Registered(e)
  <2> HIDE DEF e
  <2> QED BY <1>2 DEF Heeds, Shape, Registered, CurrentIsOfTheCard, NothingIsLeft, LatestFit, Fits, Wanted
<1>4. /\ lot \in Lots /\ Version(lot, k) \in Nat /\ States = 1 .. Last
      /\ Course[k].active # NoLot => lot = Course[k].active
  BY <1>1, Course0 DEF LotOf
<1>5. q = StateShown(e, lot, k)
  BY DEF OnState
<1> HIDE DEF e, lot, q
<1>6. CASE Listed(lot, k) /\ k = Last /\ r.card.watching
  <2> DEFINE c == [r.card EXCEPT !.ending = TRUE]
             f == [e EXCEPT !.card = c]
  <2>1. /\ c \in Cards /\ c.message = r.card.message /\ c.watching = r.card.watching
        /\ c.lot = r.card.lot
    BY <1>1 DEF Cards
  <2>2. f = [e EXCEPT !.card.ending = TRUE]
    BY <1>2 DEF Registries, Cards
  <2> HIDE DEF c
  <2>3. Heeds(e, f) /\ f.card = c /\ f.latest = k
    <3>1. c.message # NoMessage <=> c.lot # NoLot
      BY <1>1, <2>1, CourseAssumption
    <3> HIDE DEF f
    <3> QED BY <1>2, <1>3, <2>1, <3>1, Recarding DEF f
  <2> HIDE DEF f
  <2>4. Shape(f) /\ Registered(f)
    BY <1>1, <2>1, <2>3, CourseAssumption DEF Heeds, Registered
  <2>5. q = Schedule(f, lot, Version(lot, k))
    BY <1>2, <1>5, <1>6, <2>2 DEF StateShown
  <2>6. /\ Heeds(f, q) /\ q.card.lot = lot /\ q.card.version = Version(lot, k) /\ q.latest = k
    BY <1>4, <2>3, <2>4, <2>5, Scheduling
  <2>7. Heeds(r, q)
    BY <1>3, <2>3, <2>4, <2>6, HeedsOn
  <2> QED BY <1>4, <2>6, <2>7 DEF OnTheLot, q
<1>7. CASE Listed(lot, k) /\ ~(k = Last /\ r.card.watching)
           /\ lot = r.card.lot /\ Version(lot, k) <= r.card.version
  <2>1. q = e
    BY <1>2, <1>5, <1>7 DEF StateShown
  <2> QED BY <1>1, <1>2, <1>3, <1>4, <1>7, <2>1 DEF OnTheLot, q
<1>8. CASE Listed(lot, k) /\ ~(k = Last /\ r.card.watching)
           /\ ~(lot = r.card.lot /\ Version(lot, k) <= r.card.version)
  <2>1. q = Schedule(e, lot, Version(lot, k))
    BY <1>2, <1>5, <1>8 DEF StateShown
  <2>2. /\ Heeds(e, q) /\ q.card.lot = lot /\ q.card.version = Version(lot, k) /\ q.latest = k
    BY <1>2, <1>3, <1>4, <2>1, Scheduling
  <2>3. Heeds(r, q)
    BY <1>3, <2>2, HeedsOn
  <2> QED BY <1>4, <2>2, <2>3 DEF OnTheLot, q
<1>9. CASE ~Listed(lot, k) /\ k = Last /\ r.card.watching
  <2>1. q = Forget(e, FALSE)
    BY <1>2, <1>5, <1>9 DEF StateShown
  <2>2. Heeds(e, q) /\ ~Registered(q)
    BY <1>3, <2>1, Forgetting
  <2> QED BY <1>3, <2>2, HeedsOn DEF OnTheLot, q
<1>10. CASE ~Listed(lot, k) /\ ~(k = Last /\ r.card.watching)
  <2>1. q = e
    BY <1>2, <1>5, <1>10 DEF StateShown
  <2>2. Course[k].active = NoLot /\ Version(r.card.lot, k) = 0
    BY <1>1, <1>10, ActiveIsListed DEF lot
  <2> QED BY <1>1, <1>2, <1>3, <2>1, <2>2 DEF OnTheLot, q
<1> QED BY <1>6, <1>7, <1>8, <1>9, <1>10

(* onEnded: the card is forgotten, or its last edit is on its way.         *)
LEMMA Ending ==
  ASSUME NEW r, Shape(r)
  PROVE  Heeds(r, OnEnded(r)) /\ (OnTheLot(r) => OnTheLot(OnEnded(r)))
<1>1. Heeds(r, r)
  BY DEF Heeds
<1>2. Heeds(r, Forget(r, FALSE)) /\ ~Registered(Forget(r, FALSE))
  BY Forgetting
<1> QED BY <1>1, <1>2 DEF OnEnded, OnTheLot

(* A watch that starts is written.                                         *)
LEMMA Watching ==
  ASSUME NEW r, Shape(r), Registered(r), NEW shown
  PROVE  LET q == ApplyWatch(r, shown)
         IN  /\ Heeds(r, q)
             /\ q.card.message = r.card.message /\ q.card.lot = r.card.lot
             /\ q.card.version = r.card.version
             /\ q.latest = r.latest
             /\ shown.watch = "Start" /\ ~r.card.watching => Renewed(q) /\ LatestFit(q)
<1>1. CASE ~(shown.watch = "Start" /\ ~r.card.watching)
  BY <1>1 DEF ApplyWatch, Heeds
<1>2. CASE shown.watch = "Start" /\ ~r.card.watching
  <2> DEFINE c == [r.card EXCEPT !.watching = TRUE]
             e == [r EXCEPT !.card.watching = TRUE, !.released = @ \ {r.card.message}]
  <2>1. r \in Registries /\ r.card \in Cards /\ r.card.message \in Messages /\ r.card.lot \in Lots
    BY DEF Shape, Registries, Cards, Registered
  <2>2. /\ c \in Cards /\ c.message = r.card.message /\ c.watching = TRUE
        /\ c.lot = r.card.lot /\ c.ending = r.card.ending /\ c.version = r.card.version
    BY <2>1 DEF Cards
  <2>3. e = [r EXCEPT !.card = c, !.released = @ \ {r.card.message}]
    BY <2>1 DEF Registries, Cards
  <2>4. ApplyWatch(r, shown) = Persist(e)
    BY <1>2 DEF ApplyWatch
  <2> HIDE DEF c, e
  <2>5. /\ e \in Registries /\ e.card = c /\ e.latest = r.latest /\ e.saved = r.saved
        /\ e.waiting = r.waiting /\ e.inFlight = r.inFlight
    BY <2>1, <2>2, <2>3 DEF Registries
  <2>6. Shape(e) /\ Registered(e) /\ e.saved # e.card.lot
    BY <1>2, <2>1, <2>2, <2>5, CourseAssumption
       DEF Shape, Registered, CurrentIsOfTheCard, NothingIsLeft
  <2> QED BY <2>2, <2>4, <2>5, <2>6, PersistingAnew DEF Heeds
<1> QED BY <1>1, <1>2

(* shown, of the card that is live already: what a press has drawn is put  *)
(* right by the last state of the stream.                                  *)
LEMMA Refreshing ==
  ASSUME NEW r, Shape(r), Registered(r), NEW shown, shown.message = r.card.message,
         shown.body.lot \in Lots, shown.body.version \in Nat, shown.body.outcome \in BOOLEAN
  PROVE  Heeds(r, Refresh(r, shown)) /\ OnTheLot(Refresh(r, shown))
<1> DEFINE m == r.card.message
           c == [r.card EXCEPT !.lot = shown.body.lot, !.version = shown.body.version,
                               !.outcome = shown.body.outcome]
           e == [r EXCEPT !.card = c]
           a == ApplyWatch(e, shown)
           v == Revise(a, m)
           d == [v EXCEPT !.waiting[m] = "None"]
           k == r.latest
           lot == LotOf(shown.body.lot, k)
           q == Refresh(r, shown)
<1>1. /\ r \in Registries /\ r.card \in Cards /\ m \in Messages /\ m # NoMessage
      /\ k \in States \cup {0}
  BY DEF Shape, Registries, Cards, Registered
<1>2. /\ c \in Cards /\ c.message = m /\ c.watching = r.card.watching
      /\ c.lot = shown.body.lot /\ c.version = shown.body.version /\ c.ending = r.card.ending
  BY <1>1 DEF Cards
<1>3. Refreshed(r, shown) = d
  <2>1. e = [r EXCEPT !.card.lot = shown.body.lot, !.card.version = shown.body.version,
                      !.card.outcome = shown.body.outcome]
    BY <1>1 DEF Registries, Cards
  <2> QED BY <2>1 DEF Refreshed
<1>4. Heeds(r, e) /\ e.card = c /\ e.latest = k
  <2>1. c.message # NoMessage <=> c.lot # NoLot
    BY <1>1, <1>2, CourseAssumption
  <2> HIDE DEF c, e
  <2> QED BY <1>2, <2>1, Recarding DEF e
<1>5. /\ Heeds(e, a) /\ a.card.message = m /\ a.card.lot = shown.body.lot
      /\ a.card.version = shown.body.version /\ a.latest = k
  <2> HIDE DEF c, e
  <2> QED BY <1>1, <1>2, <1>4, Watching DEF Heeds, Registered
<1>6. Heeds(a, v) /\ v.card = a.card /\ v.latest = k
  <2> HIDE DEF c, e, a
  <2> QED BY <1>1, <1>5, Revising DEF Heeds
<1>7. Heeds(v, d) /\ d.card = a.card /\ d.latest = k
  <2>1. Shape(v)
    BY <1>6 DEF Heeds
  <2> HIDE DEF v
  <2>2. Heeds(v, d) /\ d.card = v.card /\ d.latest = v.latest
    BY <1>1, <2>1, Dropping
  <2> QED BY <1>6, <2>2
<1>8. Heeds(r, d) /\ Shape(d) /\ Registered(d)
  <2> HIDE DEF c, e, a, v, d
  <2>1. Heeds(r, a)
    BY <1>4, <1>5, HeedsOn
  <2>2. Heeds(r, v)
    BY <1>6, <2>1, HeedsOn
  <2>3. Heeds(r, d)
    BY <1>7, <2>2, HeedsOn
  <2> QED BY <1>1, <1>5, <1>7, <2>3 DEF Heeds, Registered
<1>9. q = IF k = 0 THEN d ELSE Redraw(d, shown.body, lot)
  BY <1>3 DEF Refresh
<1> HIDE DEF c, e, a, v, d, lot, q
<1>10. CASE k = 0
  BY <1>7, <1>8, <1>9, <1>10 DEF OnTheLot, q
<1>11. CASE k # 0 /\ Outdrawn(d, shown.body, lot)
  <2>1. /\ lot \in Lots /\ Version(lot, k) \in Nat
        /\ Course[k].active # NoLot => lot = Course[k].active
    BY <1>1, <1>11, Course0 DEF lot, LotOf
  <2>2. q = Schedule(d, lot, Version(lot, k))
    BY <1>7, <1>9, <1>11 DEF Redraw
  <2>3. /\ Heeds(d, q) /\ q.card.lot = lot /\ q.card.version = Version(lot, k) /\ q.latest = k
    BY <1>7, <1>8, <2>1, <2>2, Scheduling
  <2>4. Heeds(r, q)
    BY <1>8, <2>3, HeedsOn
  <2> QED BY <1>1, <2>1, <2>3, <2>4 DEF OnTheLot, q
<1>12. CASE k # 0 /\ ~Outdrawn(d, shown.body, lot)
  <2>1. q = d
    BY <1>9, <1>12 DEF Redraw
  <2>2. /\ lot \in Lots /\ Version(lot, k) \in Nat /\ k \in States
        /\ Version(shown.body.lot, k) \in Nat
        /\ Course[k].active # NoLot => lot = Course[k].active
    BY <1>1, <1>12, Course0 DEF lot, LotOf
  <2>3. CASE Listed(lot, k)
    BY <1>5, <1>7, <1>8, <1>12, <2>1, <2>2, <2>3 DEF Outdrawn, OnTheLot, q
  <2>4. CASE ~Listed(lot, k)
    <3>1. Course[k].active = NoLot /\ Version(shown.body.lot, k) = 0
      BY <2>2, <2>4, ActiveIsListed DEF lot
    <3> QED BY <1>5, <1>7, <1>8, <2>1, <3>1 DEF OnTheLot, q
  <2> QED BY <2>3, <2>4
<1> QED BY <1>10, <1>11, <1>12

(* A card becomes live where there was none.                               *)
LEMMA Opening ==
  ASSUME NEW r, Shape(r), ~Registered(r), NEW c \in Cards,
         c.message \in Messages, c.lot \in Lots,
         NEW q, q = [r EXCEPT !.card = c]
  PROVE  /\ Shape(q) /\ Registered(q) /\ q.card = c /\ q.latest = 0
         /\ ~c.watching => Heeds(r, q)
<1>1. r \in Registries
  BY DEF Shape
<1>2. q \in Registries
  BY <1>1 DEF Registries
<1>3. /\ q.card = c /\ q.latest = r.latest /\ q.saved = r.saved /\ q.writes = r.writes
      /\ q.waiting = r.waiting /\ q.inFlight = r.inFlight
  BY <1>1 DEF Registries
<1>4. CurrentIsOfTheCard(q)
  BY <1>3, CourseAssumption DEF Shape, CurrentIsOfTheCard, Registered
<1>5. /\ r.latest = 0 /\ r.saved = NoLot /\ r.card.watching = FALSE
      /\ c.message # NoMessage /\ c.lot # NoLot /\ c.watching \in BOOLEAN
  BY <1>1, CourseAssumption DEF Shape, NothingIsLeft, Registries, Cards
<1>6. Registered(q) /\ q.card.lot # NoLot
  BY <1>3, <1>5 DEF Registered
<1>7. Shape(q)
  BY <1>2, <1>3, <1>4, <1>5, <1>6 DEF Shape, NothingIsLeft
<1>8. ~c.watching => Heeds(r, q)
  BY <1>3, <1>5, <1>7 DEF Heeds, LatestFit, Fits, Wanted
<1> QED BY <1>3, <1>5, <1>6, <1>7, <1>8

(* A removal nobody checks, of the record of a chat that does not watch.   *)
LEMMA Removing ==
  ASSUME NEW r, Shape(r), ~r.card.watching, NEW rel \in SUBSET Messages,
         NEW q, q = [r EXCEPT !.released = rel, !.writes = Append(@, Write(NoRecord, "Unchecked"))]
  PROVE  Heeds(r, q) /\ Renewed(q) /\ q.card = r.card /\ q.latest = r.latest
<1> DEFINE call == Write(NoRecord, "Unchecked")
           w == Append(r.writes, call)
<1>1. /\ r \in Registries /\ r.writes \in Seq(Calls)
      /\ call \in Calls /\ call.target = NoRecord /\ call.check = "Unchecked"
  BY DEF Shape, Registries, Write, Calls
<1> HIDE DEF call
<1>2. /\ w \in Seq(Calls) /\ DOMAIN w = 1 .. Len(r.writes) + 1 /\ Len(r.writes) \in Nat
      /\ DOMAIN r.writes = 1 .. Len(r.writes)
      /\ w[Len(r.writes) + 1] = call
      /\ \A i \in 1 .. Len(r.writes) : w[i] = r.writes[i]
  BY <1>1
<1>3. q = [r EXCEPT !.released = rel, !.writes = w]
  BY <1>1 DEF call, Registries
<1> HIDE DEF w
<1>4. /\ q \in Registries /\ q.card = r.card /\ q.latest = r.latest /\ q.saved = r.saved
      /\ q.writes = w /\ q.waiting = r.waiting /\ q.inFlight = r.inFlight
  BY <1>1, <1>2, <1>3 DEF Registries
<1>5. Renewed(q)
  <2>1. Len(r.writes) + 1 \in DOMAIN q.writes
    BY <1>2, <1>4
  <2> QED BY <1>1, <1>2, <1>4, <2>1 DEF Renewed, Fits, Wanted
<1>6. LatestFit(r) => LatestFit(q)
  <2> SUFFICES ASSUME LatestFit(r), NEW i \in DOMAIN q.writes, q.writes[i].check = "Latest"
               PROVE  Fits(q.writes[i].target, q)
    BY DEF LatestFit
  <2>1. i \in 1 .. Len(r.writes)
    BY <1>1, <1>2, <1>4
  <2> QED BY <1>2, <1>4, <2>1 DEF LatestFit, Fits, Wanted
<1> QED
  BY <1>4, <1>5, <1>6 DEF Heeds, Shape, Registered, CurrentIsOfTheCard, NothingIsLeft

(* A feed still open hands on its last state.                              *)
LEMMA Subscribing ==
  ASSUME NEW r, Shape(r), Registered(r), r.latest = 0, NEW k \in States \cup {0}
  PROVE  Heeds(r, CaughtUp(r, k)) /\ OnTheLot(CaughtUp(r, k))
<1>1. CASE k \in {0, Last}
  BY <1>1 DEF CaughtUp, OnTheLot, Heeds
<1>2. CASE k \notin {0, Last}
  BY <1>2, Showing DEF CaughtUp
<1> QED BY <1>1, <1>2

(* shown, in all its cases.                                                *)
LEMMA PressShown ==
  ASSUME NEW r, Shape(r), OnTheLot(r), NEW shown, PressFits(shown)
  PROVE  Heeds(r, Shown(r, shown)) /\ OnTheLot(Shown(r, shown))
<1> DEFINE q == Shown(r, shown)
<1>0. Heeds(r, r) /\ r \in Registries
  BY DEF Heeds, Shape
<1>1. CASE shown.watch = "Stop" /\ Registered(r)
  BY <1>1, Forgetting DEF Shown, OnTheLot
<1>2. CASE shown.watch = "Stop" /\ ~Registered(r)
  <2>1. q = [r EXCEPT !.released = @ \cup {shown.message},
                      !.writes = Append(@, Write(NoRecord, "Unchecked"))]
    BY <1>2 DEF Shown
  <2>2. q = [r EXCEPT !.released = r.released \cup {shown.message},
                      !.writes = Append(@, Write(NoRecord, "Unchecked"))]
    BY <2>1
  <2>3. r.released \cup {shown.message} \in SUBSET Messages /\ ~r.card.watching
    BY <1>0, <1>2 DEF Registries, PressFits, Shape, NothingIsLeft
  <2> HIDE DEF q
  <2>4. Heeds(r, q) /\ q.card = r.card
    BY <2>2, <2>3, Removing
  <2> QED BY <1>2, <2>4 DEF OnTheLot, Registered, q
<1>3. CASE shown.watch # "Stop" /\ shown.body # Menu /\ r.card.message = shown.message
  <2>1. q = Refresh(r, shown)
    BY <1>3 DEF Shown
  <2>2. Registered(r) /\ shown.body.version \in Nat /\ shown.body.outcome \in BOOLEAN
    BY <1>3, CourseAssumption DEF PressFits, Registered, CardScreens
  <2> QED BY <1>3, <2>1, <2>2, Refreshing DEF PressFits
<1>4. CASE shown.watch # "Stop" /\ shown.body # Menu /\ r.card.message # shown.message
           /\ shown.live
  <2> DEFINE keep == shown.watch = "Start"
             f == Forget(r, keep)
             c == CardShown(shown)
             o == [f EXCEPT !.card = c]
             a == ApplyWatch(o, shown)
  <2>1. q = CaughtUp(a, r.latest)
    BY <1>4 DEF Shown, Open
  <2>2. /\ c \in Cards /\ c.message \in Messages /\ c.lot \in Lots /\ ~c.watching
    BY <1>4, CourseAssumption DEF PressFits, CardShown, NoCard, Cards, CardScreens
  <2>3. /\ Shape(f) /\ ~Registered(f) /\ (LatestFit(r) => LatestFit(f))
        /\ ~keep => Heeds(r, f)
    <3> HIDE DEF keep
    <3>1. keep \in BOOLEAN
      BY DEF keep
    <3> QED BY <3>1, Forgetting
  <2> HIDE DEF f, c
  <2>4. Shape(o) /\ Registered(o) /\ o.card = c /\ o.latest = 0 /\ Heeds(f, o)
    BY <2>2, <2>3, Opening
  <2> HIDE DEF o
  <2>5. /\ Heeds(o, a) /\ a.latest = 0 /\ a.card.message = c.message
        /\ keep => Renewed(a) /\ LatestFit(a)
    BY <2>2, <2>4, Watching
  <2>6. Shape(a) /\ Registered(a)
    BY <2>2, <2>5, CourseAssumption DEF Heeds, Registered
  <2> HIDE DEF a
  <2>7. Heeds(r, a)
    <3>1. CASE keep
      BY <2>5, <2>6, <3>1 DEF Heeds
    <3>2. CASE ~keep
      <4>1. Heeds(r, o)
        BY <2>3, <2>4, <3>2, HeedsOn
      <4> QED BY <2>5, <4>1, HeedsOn
    <3> QED BY <3>1, <3>2
  <2>8. r.latest \in States \cup {0}
    BY <1>0 DEF Registries
  <2>9. Heeds(a, q) /\ OnTheLot(q)
    BY <2>1, <2>5, <2>6, <2>8, Subscribing
  <2>10. Heeds(r, q)
    BY <2>7, <2>9, HeedsOn
  <2> QED BY <2>9, <2>10
<1>5. CASE ~(\/ shown.watch = "Stop"
             \/ shown.body # Menu /\ r.card.message = shown.message
             \/ shown.body # Menu /\ r.card.message # shown.message /\ shown.live)
  <2>1. q = IF r.card.message = shown.message THEN Forget(r, FALSE) ELSE r
    BY <1>5 DEF Shown
  <2>2. Heeds(r, Forget(r, FALSE)) /\ ~Registered(Forget(r, FALSE))
    BY Forgetting
  <2> QED BY <1>0, <2>1, <2>2 DEF OnTheLot
<1> QED BY <1>1, <1>2, <1>3, <1>4, <1>5

-----------------------------------------------------------------------------
(* A card whose edit has failed has version 0.                             *)
LEMMA Unversioning ==
  ASSUME NEW r, Shape(r), OnTheLot(r), NEW q, q = [r EXCEPT !.card.version = 0]
  PROVE  /\ Heeds(r, q) /\ OnTheLot(q)
         /\ q.card.message = r.card.message /\ q.card.lot = r.card.lot /\ q.latest = r.latest
<1> DEFINE c == [r.card EXCEPT !.version = 0]
<1>1. r \in Registries /\ r.card \in Cards
  BY DEF Shape, Registries
<1>2. /\ c \in Cards /\ c.message = r.card.message /\ c.watching = r.card.watching
      /\ c.lot = r.card.lot /\ c.ending = r.card.ending /\ c.version = 0
  BY <1>1 DEF Cards
<1> DEFINE e == [r EXCEPT !.card = c]
<1>3. q = e
  BY <1>1 DEF Registries, Cards
<1> HIDE DEF c, e
<1>4. c.message # NoMessage <=> c.lot # NoLot
  BY <1>2 DEF Shape, Registered
<1>5. Registered(r) \/ ~c.ending
  BY <1>2 DEF Shape, NothingIsLeft
<1>6. Heeds(r, q) /\ q.card = c /\ q.latest = r.latest
  <2>1. Heeds(r, e) /\ e.card = c /\ e.latest = r.latest
    BY <1>2, <1>4, <1>5, Recarding DEF e
  <2> QED BY <1>3, <2>1
<1> QED BY <1>2, <1>6 DEF OnTheLot, Registered

(* proxyLimitSet draws the card in the last state of the stream, or leaves *)
(* that to its next state.                                                 *)
LEMMA Limiting ==
  ASSUME NEW r, Shape(r), OnTheLot(r), NEW lot \in Lots
  PROVE  Heeds(r, ProxyLimitSet(r, lot)) /\ OnTheLot(ProxyLimitSet(r, lot))
<1> DEFINE k == r.latest
           drawn == IF k = 0 THEN lot ELSE LotOf(lot, k)
           e == [r EXCEPT !.card.version = 0]
           q == ProxyLimitSet(r, lot)
<1>1. CASE r.card.lot # lot
  BY <1>1 DEF ProxyLimitSet, Heeds
<1>2. CASE r.card.lot = lot
  <2>1. /\ q = LimitRow(r, drawn) /\ Registered(r) /\ r.card.message \in Messages
        /\ k \in States \cup {0}
    BY <1>2, CourseAssumption DEF ProxyLimitSet, Shape, Registered, Registries, Cards
  <2> HIDE DEF drawn
  <2>2. CASE k # 0 /\ Listed(drawn, k)
    <3>1. /\ drawn \in Lots /\ Version(drawn, k) \in Nat
          /\ Course[k].active # NoLot => drawn = Course[k].active
      BY <2>1, <2>2, Course0 DEF drawn, LotOf
    <3>2. q = Schedule(r, drawn, Version(drawn, k))
      BY <2>1, <2>2 DEF LimitRow
    <3> HIDE DEF q
    <3>3. /\ Heeds(r, q) /\ q.card.lot = drawn /\ q.card.version = Version(drawn, k)
          /\ q.latest = k
      BY <2>1, <3>1, <3>2, Scheduling
    <3> QED BY <3>1, <3>3 DEF OnTheLot, q
  <2>3. CASE ~(k # 0 /\ Listed(drawn, k))
    <3>1. q = Revise(e, r.card.message)
      BY <2>1, <2>3 DEF LimitRow
    <3>2. Heeds(r, e) /\ OnTheLot(e)
      BY Unversioning
    <3> HIDE DEF q, e
    <3>3. Heeds(e, q) /\ q.card = e.card /\ q.latest = e.latest
      BY <2>1, <3>1, <3>2, Revising DEF Heeds
    <3>4. Heeds(r, q)
      BY <3>2, <3>3, HeedsOn
    <3> QED BY <3>2, <3>3, <3>4 DEF OnTheLot, Registered, q
  <2> QED BY <2>2, <2>3
<1> QED BY <1>1, <1>2

(* A registry whose edits alone have changed.                              *)
LEMMA Editing ==
  ASSUME NEW r, Shape(r), NEW W \in [Messages -> Ties \cup {"None"}],
         NEW F \in [Messages -> Edits],
         CurrentIsOfTheCard(Edited(r, W, F))
  PROVE  LET q == Edited(r, W, F)
         IN  Heeds(r, q) /\ q.card = r.card /\ q.latest = r.latest
<1> DEFINE q == Edited(r, W, F)
<1>1. r \in Registries
  BY DEF Shape
<1>2. q \in Registries
  BY <1>1 DEF Registries, Edited
<1>3. /\ q.card = r.card /\ q.latest = r.latest /\ q.saved = r.saved /\ q.writes = r.writes
  BY <1>1 DEF Registries, Edited
<1> QED BY <1>2, <1>3 DEF Heeds, Shape, Registered, NothingIsLeft, LatestFit, Fits, Wanted

(* An edit of the registry is of its card until it is answered.            *)
LEMMA OwnEdits ==
  ASSUME NEW r, Shape(r), NEW m \in Messages, r.inFlight[m].step # "None"
  PROVE  r.inFlight[m] # NoEdit /\ (Own(r, m) => r.card.message = m /\ Registered(r))
BY CourseAssumption DEF Shape, CurrentIsOfTheCard, Own, NoEdit, Registered

(* An edit answered is under way no more.                                  *)
LEMMA Landing ==
  ASSUME NEW r, Shape(r), NEW m \in Messages, NEW q, q = Landed(r, m)
  PROVE  Heeds(r, q) /\ q.card = r.card /\ q.latest = r.latest
<1> DEFINE F == [r.inFlight EXCEPT ![m] = NoEdit]
<1>1. r \in Registries
  BY DEF Shape
<1>2. NoEdit \in Edits
  BY CourseAssumption DEF NoEdit, Edits, Ties, CardScreens, Menu
<1>3. F \in [Messages -> Edits] /\ r.waiting \in [Messages -> Ties \cup {"None"}]
  BY <1>1, <1>2 DEF Registries
<1>4. q = Edited(r, r.waiting, F)
  BY <1>1 DEF Landed, Registries, Edited
<1>5. q.card = r.card /\ q.waiting = r.waiting /\ q.inFlight = F
  BY <1>1, <1>4 DEF Registries, Edited
<1>6. CurrentIsOfTheCard(q)
  BY <1>1, <1>5 DEF Shape, CurrentIsOfTheCard, Registries
<1> HIDE DEF F
<1> QED BY <1>3, <1>4, <1>6, Editing

(* An edit Telegram asks to repeat waits again, unless another does.       *)
LEMMA Retrying ==
  ASSUME NEW r, Shape(r), NEW m \in Messages, r.inFlight[m].step = "RetryAfter",
         NEW q, q = [r EXCEPT !.waiting[m] = IF @ = "None" THEN r.inFlight[m].tie ELSE @]
  PROVE  Heeds(r, q) /\ q.card = r.card /\ q.latest = r.latest
<1> DEFINE W == [r.waiting EXCEPT ![m] = IF @ = "None" THEN r.inFlight[m].tie ELSE @]
<1>1. r \in Registries
  BY DEF Shape
<1>2. W \in [Messages -> Ties \cup {"None"}] /\ r.inFlight \in [Messages -> Edits]
  BY <1>1 DEF Registries, Edits
<1>3. q = Edited(r, W, r.inFlight)
  BY <1>1 DEF Registries, Edited
<1>4. q.card = r.card /\ q.waiting = W /\ q.inFlight = r.inFlight
  BY <1>1, <1>3 DEF Registries, Edited
<1>5. r.inFlight[m].tie = "Current" => r.card.message = m
  BY OwnEdits DEF Own
<1>6. CurrentIsOfTheCard(q)
  BY <1>1, <1>4, <1>5 DEF Shape, CurrentIsOfTheCard, Registries
<1> HIDE DEF W
<1> QED BY <1>2, <1>3, <1>6, Editing

(* The answer to an edit, in all its cases.                                *)
LEMMA Answering ==
  ASSUME NEW r, Shape(r), OnTheLot(r), NEW m \in Messages, r.inFlight[m].step # "None"
  PROVE  LET q == Landed(Outcome(r, m), m) IN Heeds(r, q) /\ OnTheLot(q)
<1> DEFINE o == Outcome(r, m)
           f == Forget(r, FALSE)
<1>1. Heeds(r, f) /\ OnTheLot(f) /\ Heeds(r, r)
  BY Forgetting DEF OnTheLot, Heeds
<1>2. CASE o = f \/ o = r
  <2>1. Heeds(r, o) /\ OnTheLot(o)
    BY <1>1, <1>2
  <2> HIDE DEF o
  <2>2. LET q == Landed(o, m) IN Heeds(o, q) /\ q.card = o.card /\ q.latest = o.latest
    BY <2>1, Landing DEF Heeds
  <2>3. Heeds(r, Landed(o, m))
    BY <2>1, <2>2, HeedsOn
  <2> QED BY <2>1, <2>2, <2>3 DEF OnTheLot, Registered, o
<1>3. CASE o = [r EXCEPT !.card.version = 0]
  <2> HIDE DEF o
  <2>1. Heeds(r, o) /\ OnTheLot(o)
    BY <1>3, Unversioning
  <2>2. LET q == Landed(o, m) IN Heeds(o, q) /\ q.card = o.card /\ q.latest = o.latest
    BY <2>1, Landing DEF Heeds
  <2>3. Heeds(r, Landed(o, m))
    BY <2>1, <2>2, HeedsOn
  <2> QED BY <2>1, <2>2, <2>3 DEF OnTheLot, Registered, o
<1>4. CASE r.inFlight[m].step = "RetryAfter"
  <2>1. o = [r EXCEPT !.waiting[m] = IF @ = "None" THEN r.inFlight[m].tie ELSE @]
    BY <1>4 DEF Outcome
  <2> HIDE DEF o
  <2>2. Heeds(r, o) /\ OnTheLot(o)
    BY <1>4, <2>1, Retrying DEF OnTheLot, Registered
  <2>3. LET q == Landed(o, m) IN Heeds(o, q) /\ q.card = o.card /\ q.latest = o.latest
    BY <2>2, Landing DEF Heeds
  <2>4. Heeds(r, Landed(o, m))
    BY <2>2, <2>3, HeedsOn
  <2> QED BY <2>2, <2>3, <2>4 DEF OnTheLot, Registered, o
<1>5. \/ o = f \/ o = r
      \/ o = [r EXCEPT !.card.version = 0]
      \/ r.inFlight[m].step = "RetryAfter"
  BY DEF Outcome
<1> QED BY <1>2, <1>3, <1>4, <1>5

-----------------------------------------------------------------------------
(* A save of another message than the card's, which the answer of the      *)
(* bucket does not tell from a save of the card: Misplaces of any registry. *)
Mistaken(r, write) ==
  /\ write.check = "Superseded" /\ write.target # NoRecord
  /\ r.card.watching /\ write.target.lot = r.card.lot
  /\ write.target # Wanted(r)

(* A call answered: if it was superseded, its target suits the card, or is *)
(* mistaken for one that does, or another call has been made.              *)
LEMMA Rechecking ==
  ASSUME NEW r, Shape(r), NEW write \in Calls
  PROVE  LET q == Recheck(r, write)
         IN  /\ Heeds(r, q) /\ q.card = r.card /\ q.latest = r.latest
             /\ write.check # "Superseded" => q = r
             /\ write.check = "Superseded" =>
                  Fits(write.target, q) \/ Mistaken(r, write) \/ Renewed(q)
<1> DEFINE q == Recheck(r, write)
           e == [r EXCEPT !.saved = NoLot]
<1>1. r \in Registries /\ Heeds(r, r)
  BY DEF Shape, Heeds
<1>2. CASE q = r /\ (write.check = "Superseded" =>
                        Fits(write.target, r) \/ Mistaken(r, write))
  BY <1>1, <1>2
<1>3. CASE q = Persist(e) /\ r.card.watching /\ write.check = "Superseded"
  <2>1. /\ e \in Registries /\ e.card = r.card /\ e.latest = r.latest /\ e.saved = NoLot
        /\ e.waiting = r.waiting /\ e.inFlight = r.inFlight
    BY <1>1 DEF Registries
  <2> HIDE DEF e
  <2>2. Shape(e) /\ Registered(e) /\ e.saved # e.card.lot
    BY <1>3, <2>1 DEF Shape, Registered, CurrentIsOfTheCard, NothingIsLeft
  <2>3. Shape(q) /\ Renewed(q) /\ LatestFit(q) /\ q.card = r.card /\ q.latest = r.latest
    BY <1>3, <2>1, <2>2, PersistingAnew
  <2> QED BY <1>3, <2>3 DEF Heeds
<1>4. CASE /\ q = [r EXCEPT !.writes = Append(@, Write(NoRecord, "Unchecked"))]
           /\ ~r.card.watching /\ write.check = "Superseded"
  <2>1. q = [r EXCEPT !.released = r.released,
                      !.writes = Append(@, Write(NoRecord, "Unchecked"))]
    BY <1>1, <1>4 DEF Registries
  <2>2. r.released \in SUBSET Messages
    BY <1>1 DEF Registries
  <2>0. Recheck(r, write) = q
    OBVIOUS
  <2> HIDE DEF q
  <2>3. Heeds(r, q) /\ Renewed(q) /\ q.card = r.card /\ q.latest = r.latest
    BY <1>4, <2>1, <2>2, Removing
  <2> QED BY <1>4, <2>0, <2>3
<1>5. \/ /\ q = r
         /\ write.check = "Superseded" => Fits(write.target, r) \/ Mistaken(r, write)
      \/ q = Persist(e) /\ r.card.watching /\ write.check = "Superseded"
      \/ /\ q = [r EXCEPT !.writes = Append(@, Write(NoRecord, "Unchecked"))]
         /\ ~r.card.watching /\ write.check = "Superseded"
  <2>1. CASE write.check # "Superseded"
    BY <2>1 DEF Recheck
  <2>2. CASE write.check = "Superseded" /\ write.target = NoRecord
    BY <2>2 DEF Recheck, Fits, Wanted
  <2>3. CASE write.check = "Superseded" /\ write.target # NoRecord
    BY <2>3 DEF Recheck, Fits, Mistaken
  <2> QED BY <2>1, <2>2, <2>3
<1> QED BY <1>2, <1>3, <1>4, <1>5

(* The calls without one of them.                                          *)
LEMMA Withdrawing ==
  ASSUME NEW S, NEW w \in Seq(S), NEW i \in DOMAIN w
  PROVE  /\ Without(w, i) \in Seq(S)
         /\ \A j \in DOMAIN Without(w, i) : \E k \in DOMAIN w : Without(w, i)[j] = w[k]
<1> DEFINE v == Without(w, i)
<1>1. /\ Len(w) \in Nat /\ DOMAIN w = 1 .. Len(w) /\ \A k \in 1 .. Len(w) : w[k] \in S
      /\ i \in 1 .. Len(w)
  OBVIOUS
<1>2. v \in [1 .. Len(w) - 1 -> S] /\ Len(w) - 1 \in Nat
  BY <1>1 DEF Without
<1>3. v \in Seq(S)
  <2> HIDE DEF v
  <2> QED BY <1>2
<1>4. \A j \in 1 .. Len(w) - 1 : \E k \in DOMAIN w : v[j] = w[k]
  <2> SUFFICES ASSUME NEW j \in 1 .. Len(w) - 1
               PROVE  \E k \in DOMAIN w : v[j] = w[k]
    OBVIOUS
  <2>1. v[j] = IF j < i THEN w[j] ELSE w[j + 1]
    BY DEF Without
  <2>2. j \in DOMAIN w /\ j + 1 \in DOMAIN w
    BY <1>1
  <2> HIDE DEF v
  <2> QED BY <2>1, <2>2
<1> QED BY <1>2, <1>3, <1>4

(* A call to the bucket is answered and is under way no more.              *)
LEMMA CallAnswered ==
  ASSUME NEW r, Shape(r), OnTheLot(r), NEW i \in DOMAIN r.writes
  PROVE  LET q == Answered(r, i)
         IN  /\ Shape(q) /\ OnTheLot(q) /\ q.card = r.card
             /\ LatestFit(r) => LatestFit(q)
             /\ r.writes[i].check # "Superseded" => Wanted(q) = Wanted(r)
             /\ r.writes[i].check = "Superseded" =>
                  \/ Fits(r.writes[i].target, q) \/ Renewed(q)
                  \/ Mistaken(r, r.writes[i])
<1> DEFINE w == Without(r.writes, i)
           e == [r EXCEPT !.writes = w]
           q == Answered(r, i)
<1>1. r \in Registries /\ r.writes \in Seq(Calls) /\ r.writes[i] \in Calls
  BY DEF Shape, Registries
<1>2. w \in Seq(Calls) /\ \A j \in DOMAIN w : \E k \in DOMAIN r.writes : w[j] = r.writes[k]
  BY <1>1, Withdrawing
<1> HIDE DEF w
<1>3. /\ e \in Registries /\ e.card = r.card /\ e.latest = r.latest /\ e.saved = r.saved
      /\ e.writes = w /\ e.waiting = r.waiting /\ e.inFlight = r.inFlight
  BY <1>1, <1>2 DEF Registries
<1>4. q = Recheck(e, r.writes[i])
  BY <1>1 DEF Answered, w
<1> HIDE DEF e
<1>5. Shape(e)
  BY <1>3 DEF Shape, Registered, CurrentIsOfTheCard, NothingIsLeft
<1>6. LatestFit(r) => LatestFit(e)
  BY <1>2, <1>3 DEF LatestFit, Fits, Wanted
<1>7. /\ Heeds(e, q) /\ q.card = r.card /\ q.latest = r.latest
      /\ r.writes[i].check # "Superseded" => q = e
      /\ r.writes[i].check = "Superseded" =>
           Fits(r.writes[i].target, q) \/ Mistaken(e, r.writes[i]) \/ Renewed(q)
  BY <1>1, <1>3, <1>4, <1>5, Rechecking
<1>8. Wanted(e) = Wanted(r)
  BY <1>3 DEF Wanted
<1>9. Mistaken(e, r.writes[i]) => Mistaken(r, r.writes[i])
  BY <1>3, <1>8 DEF Mistaken
<1> HIDE DEF q
<1>10. /\ Shape(q) /\ OnTheLot(q)
       /\ LatestFit(r) => LatestFit(q)
  BY <1>6, <1>7 DEF Heeds, OnTheLot, Registered
<1> QED BY <1>7, <1>8, <1>9, <1>10 DEF q

(* A record found by a new process is taken up, or its removal is called   *)
(* for, unless a card is live already.                                     *)
LEMMA Restoring ==
  ASSUME NEW r, Shape(r), OnTheLot(r), NEW found \in Records
  PROVE  LET q == Restored(r, found)
         IN  /\ Shape(q) /\ OnTheLot(q)
             /\ (found = NoRecord \/ Registered(r)) => q = r
             /\ (found # NoRecord /\ ~Registered(r) /\ found.message \in r.released) =>
                   Renewed(q) /\ (LatestFit(r) => LatestFit(q))
             /\ (found # NoRecord /\ ~Registered(r) /\ r.writes = <<>>) =>
                   LatestFit(q) /\ (Fits(found, q) \/ Renewed(q))
<1> DEFINE q == Restored(r, found)
<1>1. r \in Registries /\ (r.writes = <<>> => LatestFit(r))
  BY DEF Shape, LatestFit
<1>2. CASE found = NoRecord \/ Registered(r)
  BY <1>2 DEF Restored
<1>3. CASE found # NoRecord /\ ~Registered(r) /\ found.message \in r.released
  <2>1. q = [r EXCEPT !.released = r.released,
                      !.writes = Append(@, Write(NoRecord, "Unchecked"))]
    BY <1>1, <1>3 DEF Restored, Registries
  <2>2. r.released \in SUBSET Messages /\ ~r.card.watching
    BY <1>1, <1>3 DEF Registries, Shape, NothingIsLeft
  <2>0. Restored(r, found) = q
    OBVIOUS
  <2> HIDE DEF q
  <2>3. Heeds(r, q) /\ Renewed(q) /\ q.card = r.card
    BY <2>1, <2>2, Removing
  <2> QED BY <1>1, <1>3, <2>0, <2>3 DEF Heeds, OnTheLot, Registered
<1>4. CASE found # NoRecord /\ ~Registered(r) /\ found.message \notin r.released
  <2> DEFINE c == [NoCard EXCEPT !.message = found.message, !.lot = found.lot,
                                 !.watching = TRUE]
             o == [r EXCEPT !.card = c]
  <2>1. found.message \in Messages /\ found.lot \in Lots
    BY <1>4 DEF Records
  <2>2. /\ c \in Cards /\ c.message = found.message /\ c.lot = found.lot
        /\ c.watching = TRUE /\ c.ending = FALSE
    BY <2>1 DEF NoCard, Cards
  <2>3. q = [o EXCEPT !.saved = found.lot]
    BY <1>4 DEF Restored, Open, Forget
  <2> HIDE DEF c
  <2>4. Shape(o) /\ Registered(o) /\ o.card = c /\ o.latest = 0 /\ o.writes = r.writes
    <3>1. o.writes = r.writes
      BY <1>1 DEF Registries
    <3>2. c.message \in Messages /\ c.lot \in Lots /\ c \in Cards
      BY <2>1, <2>2
    <3>3. Shape(o) /\ Registered(o) /\ o.card = c /\ o.latest = 0
      <4> HIDE DEF q
      <4> QED BY <1>4, <3>2, Opening
    <3> QED BY <3>1, <3>3
  <2>0. Restored(r, found) = q
    OBVIOUS
  <2> HIDE DEF o, q
  <2>5. o \in Registries
    BY <2>4 DEF Shape
  <2>6. /\ q \in Registries /\ q.card = c /\ q.latest = 0 /\ q.writes = r.writes
        /\ q.saved = found.lot /\ q.waiting = o.waiting /\ q.inFlight = o.inFlight
    BY <2>1, <2>3, <2>4, <2>5 DEF Registries
  <2>7. Shape(q) /\ Registered(q)
    BY <2>2, <2>4, <2>6 DEF Shape, Registered, CurrentIsOfTheCard, NothingIsLeft
  <2>8. Fits(found, q)
    BY <1>4, <2>2, <2>6 DEF Fits, Wanted, Records
  <2>9. r.writes = <<>> => LatestFit(q)
    BY <2>6 DEF LatestFit
  <2> QED BY <1>4, <2>0, <2>6, <2>7, <2>8, <2>9 DEF OnTheLot
<1> QED BY <1>2, <1>3, <1>4

(* What heeds the bucket keeps what is in store for the record.            *)
LEMMA Keeping ==
  ASSUME NEW r, NEW q, NEW kept, NEW res, NEW lax \in BOOLEAN,
         Shape(r), Heeds(r, q), Kept(r, kept, res, lax)
  PROVE  Kept(q, kept, res, lax)
<1>1. r.writes \in Seq(Calls) /\ q.writes \in Seq(Calls)
  BY DEF Heeds, Shape, Registries
<1>2. LatestFit(q)
  BY DEF Heeds, Kept
<1>3. CASE Renewed(q)
  BY <1>2, <1>3 DEF Kept
<1>4. CASE r.writes = q.writes /\ r.card.watching = q.card.watching /\ Wanted(r) = Wanted(q)
  BY <1>2, <1>4 DEF Kept, Renewed, Fits, Idle, Lax
<1>5. CASE ~r.card.watching /\ ~q.card.watching /\ SameCalls(r.writes, q.writes)
  <2>1. CASE Idle(r)
    <3>1. DOMAIN q.writes = {}
      BY <1>5, <2>1 DEF SameCalls, Idle
    <3>2. q.writes = <<>>
      <4>1. \A v : v \in Seq(Calls) /\ DOMAIN v = {} => v = <<>>
        OBVIOUS
      <4> QED BY <1>1, <3>1, <4>1
    <3> QED BY <1>2, <1>5, <2>1, <3>2 DEF Kept, Fits, Wanted, Idle, Renewed, Lax
  <2>2. CASE ~Idle(r)
    BY <1>2, <1>5, <2>2 DEF Kept, Renewed, Fits, Wanted, SameCalls, Lax
  <2> QED BY <2>1, <2>2
<1> QED BY <1>3, <1>4, <1>5 DEF Heeds

(* A new process.                                                          *)
LEMMA FreshShape ==
  Shape(FreshRegistry) /\ OnTheLot(FreshRegistry) /\ LatestFit(FreshRegistry)
    /\ Idle(FreshRegistry)
<1>0. /\ NoCard \in Cards /\ NoCard.message = NoMessage /\ NoCard.lot = NoLot
      /\ NoCard.watching = FALSE /\ NoCard.ending = FALSE
      /\ NoEdit \in Edits
  BY CourseAssumption DEF NoCard, Cards, Menu, CardScreens, NoEdit, Edits, Ties
<1> DEFINE W == [m \in Messages |-> "None"]
           F == [m \in Messages |-> NoEdit]
           f == FreshRegistry
<1>1. W \in [Messages -> Ties \cup {"None"}] /\ F \in [Messages -> Edits]
  BY <1>0
<1>2. /\ f.card = NoCard /\ f.latest = 0 /\ f.saved = NoLot /\ f.writes = <<>>
      /\ f.waiting = W /\ f.inFlight = F
  BY DEF FreshRegistry
<1>3. f \in Registries
  <2>1. <<>> \in Seq(Calls)
    OBVIOUS
  <2> HIDE DEF W, F
  <2> QED BY <1>0, <1>1, <2>1 DEF FreshRegistry, Registries, W, F
<1>4. CurrentIsOfTheCard(f)
  BY <1>2 DEF CurrentIsOfTheCard
<1> HIDE DEF W, F, f
<1>5. Shape(f) /\ OnTheLot(f) /\ LatestFit(f) /\ Idle(f)
  BY <1>0, <1>2, <1>3, <1>4
     DEF Shape, Registered, NothingIsLeft, OnTheLot, LatestFit, Idle
<1> QED BY <1>5 DEF f

(* The invariant holds at first.                                           *)
LEMMA Initially == CardInit => CardInv
<1> SUFFICES ASSUME CardInit PROVE CardInv
  OBVIOUS
<1>1. registry = FreshRegistry /\ now = 1 /\ press = NoPress /\ restoring = Reading /\ events = 0
      /\ strays = <<>> /\ late = {} /\ unheard = AllHeard /\ astray = FALSE
      /\ misplaced = FALSE
  BY DEF CardInit
<1>2. 1 \in States
  BY CourseAssumption DEF States
<1>3. /\ NoCard \in Cards /\ NoCard.message = NoMessage /\ NoCard.lot = NoLot
      /\ NoCard.watching = FALSE /\ NoCard.ending = FALSE
      /\ Menu \in CardScreens /\ NoEdit \in Edits /\ NoRecord \in Records
  BY CourseAssumption DEF NoCard, Cards, Menu, CardScreens, NoEdit, Edits, Ties, Records
<1>4. Shape(FreshRegistry) /\ OnTheLot(FreshRegistry) /\ LatestFit(FreshRegistry)
      /\ Idle(FreshRegistry)
  BY FreshShape
<1>5. Kept(registry, record, restoring, misplaced)
  BY <1>1, <1>4 DEF Kept, Reading
<1>6. press \in [step : {"None", "Read", "Drawn"}, message : Messages \cup {NoMessage},
                 body : CardScreens, live : BOOLEAN, watch : {"None", "Start", "Stop"}]
      /\ press.step = "None"
  BY <1>1, <1>3 DEF NoPress
<1>7. restoring \in [step : {"None", "Reading", "Read"}, found : Records]
  BY <1>1, <1>3 DEF Reading
<1>8. ASSUME record = NoRecord, screen = [m \in Messages |-> Menu]
      PROVE  record \in Records /\ screen \in [Messages -> CardScreens]
  BY <1>3, <1>8
<1>9. ASSUME \E m \in Messages : WatchedBefore(m)
      PROVE  record \in Records /\ screen \in [Messages -> CardScreens]
  <2> PICK m \in Messages : WatchedBefore(m)
    BY <1>9
  <2>1. Course[1].active \in Lots /\ Version(Course[1].active, 1) \in Nat
    BY <1>2, Course0 DEF WatchedBefore
  <2>2. CardBefore \in CardScreens
    BY <2>1 DEF CardBefore, Menu, CardScreens
  <2>3. screen = [other \in Messages |-> IF other = m THEN CardBefore ELSE Menu]
    BY DEF WatchedBefore
  <2>4. record \in Records
    BY <2>1 DEF WatchedBefore, Records
  <2>5. screen \in [Messages -> CardScreens]
    BY <1>3, <2>2, <2>3
  <2> QED BY <2>4, <2>5
<1>10. record \in Records /\ screen \in [Messages -> CardScreens]
  BY <1>8, <1>9 DEF CardInit
<1>11. /\ now \in States /\ events \in 0 .. MaxEvents
       /\ unheard \in [Messages -> {"Nothing", "Keyboard", "Screen"}]
       /\ strays \in Seq(Records) /\ late \subseteq [message : Messages, body : CardScreens]
       /\ astray \in BOOLEAN /\ misplaced \in BOOLEAN
  <2>1. events \in 0 .. MaxEvents
    BY <1>1, CourseAssumption
  <2>2. unheard \in [Messages -> {"Nothing", "Keyboard", "Screen"}]
    BY <1>1 DEF AllHeard
  <2>3. strays \in Seq(Records)
    BY <1>1
  <2> QED BY <1>1, <1>2, <2>1, <2>2, <2>3
<1>12. OthersOK
  BY <1>6, <1>7, <1>10, <1>11 DEF OthersOK
<1>13. Shape(registry) /\ OnTheLot(registry)
  BY <1>1, <1>4
<1> QED BY <1>5, <1>12, <1>13 DEF CardInv

(* A step that leaves the record and the restoration alone, with a         *)
(* registry that heeds the bucket, keeps the invariant.                    *)
LEMMA StepKeeps ==
  ASSUME CardInv, OthersOK', Heeds(registry, registry'), OnTheLot(registry'),
         record' = record, restoring' = restoring, astray' = FALSE => ~astray,
         misplaced' = misplaced
  PROVE  CardInv'
<1>1. Shape(registry')
  BY DEF Heeds
<1>2. ~astray' => Kept(registry', record', restoring', misplaced')
  BY Keeping DEF CardInv, OthersOK
<1> QED BY <1>1, <1>2 DEF CardInv

(* A registry heeds the bucket of itself.                                  *)
LEMMA Still ==
  ASSUME NEW r, Shape(r)
  PROVE  Heeds(r, r)
BY DEF Heeds

-----------------------------------------------------------------------------
(* The feed of the auction keeps the invariant.                            *)
LEMMA StreamStep ==
  ASSUME CardInv, NEW k \in States, StreamShows(k) \/ StreamDenied \/ Evicted
  PROVE  CardInv'
<1>1. Shape(registry) /\ OnTheLot(registry) /\ Registered(registry)
  BY DEF CardInv, StreamShows, StreamDenied, Evicted, FeedIsOpen
<1>2. Heeds(registry, registry') /\ OnTheLot(registry')
  <2>1. CASE StreamDenied
    BY <1>1, <2>1, Ending DEF StreamDenied
  <2>2. CASE StreamShows(k)
    <3> DEFINE s == OnState(registry, k)
    <3>1. Heeds(registry, s) /\ OnTheLot(s)
      BY <1>1, Showing
    <3>2. registry' = s \/ registry' = OnEnded(s)
      BY <2>2 DEF StreamShows
    <3> HIDE DEF s
    <3>3. Heeds(s, OnEnded(s)) /\ OnTheLot(OnEnded(s))
      BY <3>1, Ending DEF Heeds
    <3>4. Heeds(registry, OnEnded(s))
      BY <1>1, <3>1, <3>3, HeedsOn
    <3> QED BY <3>1, <3>2, <3>3, <3>4
  <2>3. CASE Evicted
    BY <1>1, <2>3, Forgetting DEF Evicted, OnTheLot
  <2> QED BY <2>1, <2>2, <2>3
<1>3. OthersOK'
  <2>1. CASE StreamShows(k)
    BY <2>1 DEF CardInv, OthersOK, StreamShows, cardHistory, leftBehind
  <2>2. CASE StreamDenied \/ Evicted
    <3>1. events < MaxEvents /\ events' = events + 1
      BY <2>2 DEF StreamDenied, Evicted, Bounded
    <3>2. events' \in 0 .. MaxEvents
      BY <3>1, CourseAssumption DEF CardInv, OthersOK
    <3> QED BY <2>2, <3>2 DEF CardInv, OthersOK, StreamDenied, Evicted, cardHistory, leftBehind
  <2> QED BY <2>1, <2>2
<1>4. /\ record' = record /\ restoring' = restoring
      /\ astray' = astray /\ misplaced' = misplaced
  BY DEF StreamShows, StreamDenied, Evicted, cardHistory
<1>5. astray' = FALSE => ~astray
  BY <1>4
<1> QED BY <1>2, <1>3, <1>4, <1>5, StepKeeps

(* An edit on its way to Telegram keeps the invariant.                     *)
LEMMA EditStep ==
  ASSUME CardInv, NEW m \in Messages, NEW why \in {"Failed", "Gone", "RetryAfter"},
         \/ EditStarts(m) \/ EditLands(m) \/ EditRefused(m, why) \/ EditAnswerLost(m)
  PROVE  CardInv'
<1> DEFINE r == registry
           edit == r.inFlight[m]
<1>1. /\ Shape(r) /\ OnTheLot(r) /\ r \in Registries /\ edit \in Edits
      /\ r.waiting \in [Messages -> Ties \cup {"None"}] /\ r.inFlight \in [Messages -> Edits]
      /\ Menu \in CardScreens
  BY CourseAssumption DEF CardInv, Shape, Registries, Menu, CardScreens
<1>2. OthersOK'
  <2>1. /\ now' = now /\ press' = press /\ record' = record /\ restoring' = restoring
        /\ strays' = strays /\ late' = late /\ astray' = astray /\ misplaced' = misplaced
    BY DEF EditStarts, EditLands, EditRefused, EditAnswerLost, cardHistory, leftBehind
  <2>2. events' \in 0 .. MaxEvents
    BY CourseAssumption DEF CardInv, OthersOK, EditStarts, EditLands, EditRefused,
                            EditAnswerLost, Bounded
  <2>3. screen' \in [Messages -> CardScreens]
    BY <1>1 DEF CardInv, OthersOK, EditStarts, EditLands, EditRefused, EditAnswerLost, Edits
  <2>4. unheard' \in [Messages -> {"Nothing", "Keyboard", "Screen"}]
    BY DEF CardInv, OthersOK, EditStarts, EditLands, EditRefused, EditAnswerLost, cardHistory
  <2> QED BY <2>1, <2>2, <2>3, <2>4 DEF CardInv, OthersOK
<1>3. \E W \in [Messages -> Ties \cup {"None"}], F \in [Messages -> Edits] :
         r' = Edited(r, W, F) /\ CurrentIsOfTheCard(Edited(r, W, F))
  <2>1. CASE EditStarts(m)
    <3> DEFINE e == IF r.waiting[m] = "Current"
                    THEN [step |-> "Sent", tie |-> "Current", body |-> Body(r.card)]
                    ELSE NoEdit
               W == [r.waiting EXCEPT ![m] = "None"]
               F == [r.inFlight EXCEPT ![m] = e]
               q == Edited(r, W, F)
    <3>1. Body(r.card) \in CardScreens /\ NoEdit \in Edits
      BY <1>1 DEF Body, Registries, Cards, CardScreens, NoEdit, Edits, Ties
    <3>2. e \in Edits
      BY <3>1 DEF Edits, Ties
    <3>3. r' = q
      BY <1>1, <2>1 DEF EditStarts, Edited, Registries
    <3> HIDE DEF e
    <3>4. W \in [Messages -> Ties \cup {"None"}] /\ F \in [Messages -> Edits]
      BY <1>1, <3>2
    <3>5. q.card = r.card /\ q.waiting = W /\ q.inFlight = F
      BY <1>1 DEF Edited, Registries
    <3>6. CurrentIsOfTheCard(q)
      BY <1>1, <3>5 DEF Shape, CurrentIsOfTheCard, e
    <3> HIDE DEF W, F
    <3> QED BY <3>3, <3>4, <3>6
  <2>2. CASE EditLands(m) \/ EditRefused(m, why) \/ EditAnswerLost(m)
    <3>1. PICK e \in Edits : /\ e.tie = edit.tie /\ edit # NoEdit
                             /\ r' = [r EXCEPT !.inFlight = [@ EXCEPT ![m] = e]]
      <4> DEFINE d(step) == [edit EXCEPT !.step = step, !.body = Menu]
                 l == [edit EXCEPT !.step = "RetryAfter"]
      <4>1. \A step \in {"Done", "Failed", "Gone", "RetryAfter"} :
               d(step) \in Edits /\ d(step).tie = edit.tie
        BY <1>1 DEF Edits
      <4>2. l \in Edits /\ l.tie = edit.tie
        BY <1>1 DEF Edits
      <4>3. edit # NoEdit
        BY <2>2 DEF EditLands, EditRefused, EditAnswerLost, NoEdit
      <4>4. CASE EditLands(m)
        <5>1. r' = [r EXCEPT !.inFlight = [@ EXCEPT ![m] = d("Done")]]
          BY <1>1, <4>4 DEF EditLands, Registries
        <5> QED BY <4>1, <4>3, <5>1
      <4>5. CASE EditRefused(m, why)
        <5>1. r' = [r EXCEPT !.inFlight = [@ EXCEPT ![m] = d(why)]]
          BY <1>1, <4>5 DEF EditRefused, Registries
        <5> QED BY <4>1, <4>3, <5>1
      <4>6. CASE EditAnswerLost(m)
        <5>1. r' = [r EXCEPT !.inFlight = [@ EXCEPT ![m] = l]]
          BY <1>1, <4>6 DEF EditAnswerLost, Registries
        <5> HIDE DEF l
        <5> QED BY <4>2, <4>3, <5>1
      <4> QED BY <2>2, <4>4, <4>5, <4>6
    <3> DEFINE F == [r.inFlight EXCEPT ![m] = e]
               q == Edited(r, r.waiting, F)
    <3>2. r' = q
      BY <1>1, <3>1 DEF Edited, Registries
    <3>3. F \in [Messages -> Edits]
      BY <1>1, <3>1
    <3>4. q.card = r.card /\ q.waiting = r.waiting /\ q.inFlight = F
      BY <1>1 DEF Edited, Registries
    <3>5. CurrentIsOfTheCard(q)
      BY <1>1, <3>1, <3>4 DEF Shape, CurrentIsOfTheCard
    <3> HIDE DEF F
    <3> QED BY <1>1, <3>2, <3>3, <3>5
  <2> QED BY <2>1, <2>2
<1>4. Heeds(r, r') /\ OnTheLot(r')
  <2> PICK W \in [Messages -> Ties \cup {"None"}], F \in [Messages -> Edits] :
         r' = Edited(r, W, F) /\ CurrentIsOfTheCard(Edited(r, W, F))
    BY <1>3
  <2>1. /\ Heeds(r, Edited(r, W, F)) /\ Edited(r, W, F).card = r.card
        /\ Edited(r, W, F).latest = r.latest
    BY <1>1, Editing
  <2> QED BY <1>1, <2>1 DEF OnTheLot, Registered
<1>5. /\ record' = record /\ restoring' = restoring
      /\ astray' = astray /\ misplaced' = misplaced
  BY DEF EditStarts, EditLands, EditRefused, EditAnswerLost, cardHistory
<1>6. astray' = FALSE => ~astray
  BY <1>5
<1> QED BY <1>2, <1>4, <1>5, <1>6, StepKeeps

(* The answer to an edit keeps the invariant.                              *)
LEMMA AnswerStep ==
  ASSUME CardInv, NEW m \in Messages, EditAnswered(m)
  PROVE  CardInv'
<1>1. Shape(registry) /\ OnTheLot(registry) /\ registry.inFlight[m].step # "None"
  BY DEF CardInv, EditAnswered
<1>2. Heeds(registry, registry') /\ OnTheLot(registry')
  BY <1>1, Answering DEF EditAnswered
<1>3. /\ record' = record /\ restoring' = restoring
      /\ astray' = astray /\ misplaced' = misplaced
  BY DEF EditAnswered, cardHistory
<1>4. OthersOK'
  BY <1>3 DEF CardInv, OthersOK, EditAnswered, cardHistory, leftBehind
<1>5. astray' = FALSE => ~astray
  BY <1>3
<1> QED BY <1>2, <1>3, <1>4, <1>5, StepKeeps

(* The auction, and a press before the registry hears of it, keep the      *)
(* invariant.                                                              *)
LEMMA PressStep ==
  ASSUME CardInv, NEW m, NEW lot,
         \/ AuctionMoves \/ PressIsDrawn \/ PressFails \/ PressAnswerLost
         \/ m \in Messages /\ (PressMenu(m) \/ PressAsk(m))
         \/ /\ m \in Messages /\ lot \in Lots
            /\ \/ PressLot(m, lot) \/ PressBid(m, lot)
               \/ PressWatch(m, lot) \/ PressUnwatch(m, lot)
  PROVE  CardInv'
<1>1. Shape(registry) /\ OnTheLot(registry) /\ OthersOK
  BY DEF CardInv
<1>2. /\ registry' = registry /\ record' = record /\ restoring' = restoring
      /\ strays' = strays /\ late' = late /\ astray' = astray /\ misplaced' = misplaced
  BY DEF AuctionMoves, PressMenu, PressLot, PressBid, PressWatch, PressUnwatch, Pressed,
         PressIsDrawn, PressAnswerLost, PressAsk, PressFails, cardHistory, leftBehind
<1>3. Menu \in CardScreens /\ NoPress.step = "None"
      /\ NoPress \in [step : {"None", "Read", "Drawn"}, message : Messages \cup {NoMessage},
                      body : CardScreens, live : BOOLEAN, watch : {"None", "Start", "Stop"}]
  BY CourseAssumption DEF Menu, CardScreens, NoPress
<1>4. OthersOK'
  <2>1. CASE AuctionMoves
    <3>1. now \in 1 .. Last /\ States = 1 .. Last /\ Last \in Nat
      BY <1>1, Course0 DEF OthersOK
    <3>2. now + 1 \in States
      BY <2>1, <3>1 DEF AuctionMoves
    <3> QED BY <1>1, <1>2, <2>1, <3>2 DEF OthersOK, AuctionMoves, cardHistory
  <2>2. ASSUME m \in Messages, NEW body \in CardScreens, body # Menu => body.lot \in Lots,
               NEW watch \in {"None", "Start", "Stop"}, Pressed(m, body, watch)
        PROVE  OthersOK'
    <3>1. /\ press' = [step |-> "Read", message |-> m, body |-> body, live |-> now # Last,
                       watch |-> watch]
          /\ events' = events + 1 /\ events < MaxEvents
          /\ UNCHANGED <<now, registry, screen, record, restoring, unheard, astray>>
      BY <2>2 DEF Pressed, Bounded, cardHistory
    <3>2. (now # Last) \in BOOLEAN
      OBVIOUS
    <3>3. /\ press' \in [step : {"None", "Read", "Drawn"}, message : Messages \cup {NoMessage},
                         body : CardScreens, live : BOOLEAN, watch : {"None", "Start", "Stop"}]
          /\ press'.message = m /\ press'.body = body
      BY <2>2, <3>1, <3>2
    <3>4. PressFits(press')
      BY <2>2, <3>3 DEF PressFits
    <3>5. events' \in 0 .. MaxEvents
      BY <1>1, <3>1, CourseAssumption DEF OthersOK
    <3> QED BY <1>1, <1>2, <3>1, <3>3, <3>4, <3>5 DEF OthersOK
  <2>3. CASE PressIsDrawn
    <3>1. press.body \in CardScreens /\ PressFits(press)
          /\ press' = [press EXCEPT !.step = "Drawn"]
      BY <1>1, <2>3 DEF OthersOK, PressIsDrawn
    <3>2. /\ press' \in [step : {"None", "Read", "Drawn"}, message : Messages \cup {NoMessage},
                         body : CardScreens, live : BOOLEAN, watch : {"None", "Start", "Stop"}]
          /\ press'.message = press.message /\ press'.body = press.body
      BY <1>1, <3>1 DEF OthersOK
    <3>3. screen' \in [Messages -> CardScreens]
      BY <1>1, <2>3, <3>1 DEF OthersOK, PressIsDrawn
    <3>4. unheard' \in [Messages -> {"Nothing", "Keyboard", "Screen"}]
      BY <1>1, <2>3 DEF OthersOK, PressIsDrawn
    <3>5. now' = now /\ events' = events
      BY <2>3 DEF PressIsDrawn
    <3> QED BY <1>1, <1>2, <3>1, <3>2, <3>3, <3>4, <3>5 DEF OthersOK, PressFits
  <2>4. CASE PressFails
    <3>1. events' \in 0 .. MaxEvents
      BY <1>1, <2>4, CourseAssumption DEF OthersOK, PressFails, Bounded
    <3> QED BY <1>1, <1>2, <1>3, <2>4, <3>1 DEF OthersOK, PressFails, cardHistory
  <2>5. CASE m \in Messages /\ PressMenu(m)
    BY <1>3, <2>2, <2>5 DEF PressMenu
  <2>7. CASE PressAnswerLost
    <3>1. events' \in 0 .. MaxEvents
      BY <1>1, <2>7, CourseAssumption DEF OthersOK, PressAnswerLost, Bounded
    <3>2. press.body \in CardScreens
      BY <1>1 DEF OthersOK
    <3>3. /\ screen' \in [Messages -> CardScreens]
          /\ unheard' \in [Messages -> {"Nothing", "Keyboard", "Screen"}]
      BY <1>1, <2>7, <3>2 DEF OthersOK, PressAnswerLost
    <3> QED BY <1>1, <1>2, <1>3, <2>7, <3>1, <3>3 DEF OthersOK, PressAnswerLost
  <2>8. CASE m \in Messages /\ PressAsk(m)
    <3>1. events' \in 0 .. MaxEvents
      BY <1>1, <2>8, CourseAssumption DEF OthersOK, PressAsk, Bounded
    <3>2. [screen[m] EXCEPT !.mark = FALSE] \in CardScreens
      <4>1. screen[m] \in CardScreens
        BY <1>1, <2>8 DEF OthersOK
      <4> QED BY <4>1 DEF CardScreens
    <3>3. screen' = [screen EXCEPT ![m] = [screen[m] EXCEPT !.mark = FALSE]]
      BY <1>1, <2>8 DEF OthersOK, PressAsk
    <3>4. screen' \in [Messages -> CardScreens]
      BY <1>1, <3>2, <3>3 DEF OthersOK
    <3>5. unheard' \in [Messages -> {"Nothing", "Keyboard", "Screen"}]
      BY <1>1, <2>8 DEF OthersOK, PressAsk
    <3> QED BY <1>1, <1>2, <2>8, <3>1, <3>4, <3>5 DEF OthersOK, PressAsk
  <2>6. ASSUME m \in Messages, lot \in Lots,
               \/ PressLot(m, lot) \/ PressBid(m, lot)
               \/ PressWatch(m, lot) \/ PressUnwatch(m, lot)
        PROVE  OthersOK'
    <3> PICK watch \in {"None", "Start", "Stop"}, outcome \in BOOLEAN :
          Pressed(m, CardBody(lot, outcome, watch), watch)
      BY <2>6 DEF PressLot, PressBid, PressWatch, PressUnwatch
    <3> DEFINE body == CardBody(lot, outcome, watch)
    <3>1. Version(lot, now) \in Nat /\ registry.card.watching \in BOOLEAN
      BY <1>1, <2>6, Course0 DEF OthersOK, Shape, Registries, Cards
    <3>2. (watch = "Start" \/ (watch # "Stop" /\ now # Last /\ registry.card.watching)) \in BOOLEAN
      OBVIOUS
    <3>3. body \in CardScreens /\ body.lot = lot
      BY <2>6, <3>1, <3>2 DEF CardBody, CardScreens
    <3> HIDE DEF body
    <3> QED BY <2>2, <2>6, <3>3 DEF body
  <2> QED BY <2>1, <2>3, <2>4, <2>5, <2>6, <2>7, <2>8
<1>5. Heeds(registry, registry') /\ OnTheLot(registry')
  BY <1>1, <1>2, Still
<1>6. astray' = FALSE => ~astray
  BY <1>2
<1> QED BY <1>2, <1>4, <1>5, <1>6, StepKeeps

(* A press the registry hears of, and a limit, keep the invariant.         *)
LEMMA ShownStep ==
  ASSUME CardInv, NEW lot, PressIsShown \/ (lot \in Lots /\ LimitAccepted(lot))
  PROVE  CardInv'
<1>1. Shape(registry) /\ OnTheLot(registry) /\ OthersOK
  BY DEF CardInv
<1>2. /\ record' = record /\ restoring' = restoring
      /\ strays' = strays /\ late' = late /\ astray' = astray /\ misplaced' = misplaced
  BY DEF PressIsShown, LimitAccepted, cardHistory, leftBehind
<1>3. OthersOK'
  <2>1. CASE PressIsShown
    <3>1. NoPress.step = "None"
          /\ NoPress \in [step : {"None", "Read", "Drawn"}, message : Messages \cup {NoMessage},
                          body : CardScreens, live : BOOLEAN, watch : {"None", "Start", "Stop"}]
      BY CourseAssumption DEF Menu, CardScreens, NoPress
    <3>2. unheard' \in [Messages -> {"Nothing", "Keyboard", "Screen"}]
      BY <1>1, <2>1 DEF OthersOK, PressIsShown
    <3> QED BY <1>1, <1>2, <2>1, <3>1, <3>2 DEF OthersOK, PressIsShown
  <2>2. CASE lot \in Lots /\ LimitAccepted(lot)
    <3>1. events' \in 0 .. MaxEvents
      BY <1>1, <2>2, CourseAssumption DEF OthersOK, LimitAccepted, Bounded
    <3> QED BY <1>1, <1>2, <2>2, <3>1 DEF OthersOK, LimitAccepted, cardHistory
  <2> QED BY <2>1, <2>2
<1>4. Heeds(registry, registry') /\ OnTheLot(registry')
  <2>1. CASE PressIsShown
    <3>1. PressFits(press)
      BY <1>1, <2>1 DEF OthersOK, PressIsShown
    <3> QED BY <1>1, <2>1, <3>1, PressShown DEF PressIsShown
  <2>2. CASE lot \in Lots /\ LimitAccepted(lot)
    BY <1>1, <2>2, Limiting DEF LimitAccepted
  <2> QED BY <2>1, <2>2
<1>5. astray' = FALSE => ~astray
  BY <1>2
<1> QED BY <1>2, <1>3, <1>4, <1>5, StepKeeps

(* A call done by the bucket, or failed, keeps the invariant: a call done  *)
(* out of its turn is checked and called again.                            *)
LEMMA BucketStep ==
  ASSUME CardInv, NEW i \in DOMAIN registry.writes, RecordIsWritten(i) \/ WriteFails(i)
  PROVE  CardInv'
<1> DEFINE r == registry
           call == r.writes[i]
<1>1. Shape(r) /\ OnTheLot(r) /\ OthersOK /\ call \in Calls /\ r.card.watching \in BOOLEAN
  BY DEF CardInv, Shape, Registries, Cards
<1>2. /\ Shape(r') /\ OnTheLot(r') /\ r'.card = r.card
      /\ LatestFit(r) => LatestFit(r')
      /\ call.check # "Superseded" => Wanted(r') = Wanted(r)
      /\ call.check = "Superseded" =>
           Fits(call.target, r') \/ Renewed(r') \/ Mistaken(r, call)
  BY <1>1, CallAnswered DEF RecordIsWritten, WriteFails
<1>3. OthersOK'
  <2>1. CASE RecordIsWritten(i)
    <3>1. record' \in Records
      BY <1>1, <2>1 DEF RecordIsWritten, Calls, Records
    <3>2. astray' \in BOOLEAN /\ misplaced' \in BOOLEAN
      BY <2>1 DEF RecordIsWritten
    <3> QED BY <1>1, <2>1, <3>1, <3>2 DEF OthersOK, RecordIsWritten, leftBehind
  <2>2. CASE WriteFails(i)
    <3>1. events' \in 0 .. MaxEvents
      BY <1>1, <2>2, CourseAssumption DEF OthersOK, WriteFails, Bounded
    <3> QED BY <1>1, <2>2, <3>1 DEF OthersOK, WriteFails, leftBehind
  <2> QED BY <2>1, <2>2
<1>4. ASSUME ~astray'
      PROVE  Kept(r', record', restoring', misplaced')
  <2>1. /\ RecordIsWritten(i) /\ ~astray /\ record' = call.target
        /\ ~(r.card.watching /\ call.check = "Unchecked")
    BY <1>4 DEF RecordIsWritten, WriteFails
  <2>2. LatestFit(r) /\ LatestFit(r')
    BY <1>2, <2>1 DEF CardInv, Kept
  <2>3. CASE call.check = "Latest"
    <3>1. Fits(record', r')
      BY <1>2, <2>1, <2>2, <2>3 DEF LatestFit, Fits
    <3> QED BY <2>2, <3>1 DEF Kept
  <2>4. CASE call.check = "Unchecked"
    <3>1. call.target = NoRecord /\ ~r.card.watching
      BY <1>1, <2>1, <2>4 DEF Calls
    <3>2. Fits(record', r')
      BY <1>2, <2>1, <3>1 DEF Fits, Wanted
    <3> QED BY <2>2, <3>2 DEF Kept
  <2>5. CASE call.check = "Superseded" /\ ~Mistaken(r, call)
    <3>1. Fits(record', r') \/ Renewed(r')
      BY <1>2, <2>1, <2>5
    <3> QED BY <2>2, <3>1 DEF Kept
  <2>6. CASE Mistaken(r, call)
    <3>1. Misplaces(call)
      BY <2>6 DEF Mistaken, Misplaces, Wanted
    <3>2. misplaced'
      BY <2>1, <3>1 DEF RecordIsWritten
    <3>3. Lax(record', r')
      BY <1>2, <2>1, <2>6 DEF Lax, Mistaken
    <3> QED BY <2>2, <3>2, <3>3 DEF Kept
  <2> QED BY <1>1, <2>3, <2>4, <2>5, <2>6 DEF Calls
<1> QED BY <1>2, <1>3, <1>4 DEF CardInv

(* A sequence of calls as one of their targets.                            *)
LEMMA TargetsOf ==
  ASSUME NEW w \in Seq(Calls), NEW s \in Seq(Records)
  PROVE  s \o [i \in DOMAIN w |-> w[i].target] \in Seq(Records)
<1> DEFINE t == [i \in DOMAIN w |-> w[i].target]
<1>1. Len(w) \in Nat /\ DOMAIN w = 1 .. Len(w) /\ \A i \in DOMAIN w : w[i] \in Calls
  OBVIOUS
<1>2. \A i \in DOMAIN w : w[i].target \in Records
  BY <1>1 DEF Calls, Records
<1>3. t \in [1 .. Len(w) -> Records]
  BY <1>1, <1>2
<1>4. t \in Seq(Records)
  <2> HIDE DEF t
  <2> QED BY <1>1, <1>3
<1> HIDE DEF t
<1> QED BY <1>4 DEF t

(* An edit or a call of a process that is gone keeps the invariant.        *)
LEMMA LateStep ==
  ASSUME CardInv,
         \/ \E edit \in late : LateEditLands(edit)
         \/ \E i \in DOMAIN strays : StrayIsWritten(i)
  PROVE  CardInv'
<1>1. Shape(registry) /\ OnTheLot(registry) /\ OthersOK /\ registry.card.watching \in BOOLEAN
  BY DEF CardInv, Shape, Registries, Cards
<1>2. ASSUME NEW edit \in late, LateEditLands(edit)
      PROVE  CardInv'
  <2>1. /\ registry' = registry /\ record' = record /\ restoring' = restoring
        /\ astray' = astray /\ misplaced' = misplaced
    BY <1>2 DEF LateEditLands
  <2>2. edit.message \in Messages /\ edit.body \in CardScreens
    BY <1>1 DEF OthersOK
  <2>3. /\ screen' \in [Messages -> CardScreens]
        /\ unheard' \in [Messages -> {"Nothing", "Keyboard", "Screen"}]
        /\ late' \subseteq late
    BY <1>1, <1>2, <2>2 DEF OthersOK, LateEditLands
  <2>4. OthersOK'
    BY <1>1, <1>2, <2>1, <2>3 DEF OthersOK, LateEditLands
  <2> QED BY <1>1, <2>1, <2>4, Still, StepKeeps
<1>3. ASSUME NEW i \in DOMAIN strays, StrayIsWritten(i)
      PROVE  CardInv'
  <2>1. /\ registry' = registry /\ restoring' = restoring /\ misplaced' = misplaced
        /\ record' = strays[i] /\ strays' = Without(strays, i)
    BY <1>3 DEF StrayIsWritten
  <2>2. strays' \in Seq(Records) /\ record' \in Records
    <3>1. strays \in Seq(Records)
      BY <1>1 DEF OthersOK
    <3>2. strays[i] \in Records
      BY <3>1
    <3>3. Without(strays, i) \in Seq(Records)
      BY <3>1, Withdrawing
    <3> QED BY <2>1, <3>2, <3>3
  <2>3. astray' \in BOOLEAN
    BY <1>3 DEF StrayIsWritten
  <2>4. OthersOK'
    BY <1>1, <1>3, <2>1, <2>2, <2>3 DEF OthersOK, StrayIsWritten
  <2>5. ASSUME ~astray'
        PROVE  Kept(registry', record', restoring', misplaced')
    <3>1. ~astray /\ \/ record' = record
                     \/ restoring.step = "Reading" /\ Idle(registry)
      BY <1>3, <2>5 DEF StrayIsWritten, Idle
    <3>2. CASE record' = record
      BY <2>1, <3>1, <3>2 DEF CardInv
    <3>3. CASE restoring.step = "Reading" /\ Idle(registry)
      BY <2>1, <3>3 DEF Kept, LatestFit, Idle
    <3> QED BY <3>1, <3>2, <3>3
  <2> QED BY <1>1, <2>1, <2>4, <2>5 DEF CardInv
<1> QED BY <1>2, <1>3

(* The start of a process keeps the invariant: what it finds in the bucket *)
(* is taken up or removed, unless a press outran it.                       *)
LEMMA ProcessStep ==
  ASSUME CardInv, Restart \/ RecordsAreRead \/ ReadFails \/ RecordsAreRestored
  PROVE  CardInv'
<1>1. Shape(registry) /\ OnTheLot(registry) /\ OthersOK /\ restoring.found \in Records
  BY DEF CardInv, OthersOK
<1>2. CASE Restart
  <2>1. Shape(FreshRegistry) /\ OnTheLot(FreshRegistry) /\ LatestFit(FreshRegistry)
        /\ Idle(FreshRegistry)
    BY FreshShape
  <2>2. /\ registry' = FreshRegistry /\ restoring' = Reading /\ press' = NoPress
        /\ record' = record /\ astray' = FALSE /\ misplaced' = FALSE
        /\ unheard' = AllHeard
    BY <1>2 DEF Restart
  <2>3. /\ Reading.step = "Reading" /\ NoPress.step = "None"
        /\ Reading \in [step : {"None", "Reading", "Read"}, found : Records]
        /\ NoPress \in [step : {"None", "Read", "Drawn"}, message : Messages \cup {NoMessage},
                        body : CardScreens, live : BOOLEAN, watch : {"None", "Start", "Stop"}]
    BY CourseAssumption DEF Reading, Records, NoPress, Menu, CardScreens
  <2>4. events' \in 0 .. MaxEvents
    BY <1>1, <1>2, CourseAssumption DEF OthersOK, Restart, Bounded
  <2>7. strays' \in Seq(Records)
    <3>1. registry.writes \in Seq(Calls) /\ strays \in Seq(Records)
      BY <1>1 DEF OthersOK, Shape, Registries
    <3>2. strays' = strays \o [i \in DOMAIN registry.writes |-> registry.writes[i].target]
      BY <1>2 DEF Restart
    <3> QED BY <3>1, <3>2, TargetsOf
  <2>8. late' \subseteq [message : Messages, body : CardScreens]
    <3>1. EditsUnderWay \subseteq [message : Messages, body : CardScreens]
      BY <1>1 DEF EditsUnderWay, Shape, Registries, Edits
    <3>2. PressUnderWay \subseteq [message : Messages, body : CardScreens]
      BY <1>1 DEF PressUnderWay, OthersOK, PressFits
    <3> QED BY <1>1, <1>2, <3>1, <3>2 DEF OthersOK, Restart
  <2>9. unheard' \in [Messages -> {"Nothing", "Keyboard", "Screen"}]
    BY <2>2 DEF AllHeard
  <2>5. OthersOK'
    BY <1>1, <1>2, <2>2, <2>3, <2>4, <2>7, <2>8, <2>9 DEF OthersOK, Restart
  <2>6. Kept(registry', record', restoring', misplaced')
    BY <2>1, <2>2, <2>3 DEF Kept
  <2> QED BY <2>1, <2>2, <2>5, <2>6 DEF CardInv
<1>3. CASE RecordsAreRead
  <2>1. /\ registry' = registry /\ record' = record
        /\ astray' = astray /\ misplaced' = misplaced
        /\ restoring.step = "Reading" /\ restoring' = [step |-> "Read", found |-> record]
    BY <1>3 DEF RecordsAreRead, cardHistory
  <2>2. OthersOK'
    BY <1>1, <1>3, <2>1 DEF OthersOK, RecordsAreRead, cardHistory, leftBehind
  <2>3. ~astray' => Kept(registry', record', restoring', misplaced')
    BY <2>1 DEF CardInv, Kept
  <2> QED BY <1>1, <2>1, <2>2, <2>3 DEF CardInv
<1>4. CASE ReadFails
  <2>1. /\ registry' = registry /\ astray' = TRUE
        /\ NotRestoring \in [step : {"None", "Reading", "Read"}, found : Records]
    BY <1>4 DEF ReadFails, NotRestoring, Records
  <2>2. events' \in 0 .. MaxEvents
    BY <1>1, <1>4, CourseAssumption DEF OthersOK, ReadFails, Bounded
  <2>3. OthersOK'
    BY <1>1, <1>4, <2>1, <2>2 DEF OthersOK, ReadFails, leftBehind
  <2> QED BY <1>1, <2>1, <2>3 DEF CardInv
<1>5. CASE RecordsAreRestored
  <2> DEFINE found == restoring.found
             q == Restored(registry, found)
  <2>1. /\ registry' = q /\ restoring' = NotRestoring /\ record' = record
        /\ restoring.step = "Read" /\ astray' = (astray \/ Outrun(found))
        /\ misplaced' = misplaced
    BY <1>5 DEF RecordsAreRestored
  <2>2. /\ Shape(q) /\ OnTheLot(q)
        /\ (found = NoRecord \/ Registered(registry)) => q = registry
        /\ (found # NoRecord /\ ~Registered(registry) /\ found.message \in registry.released) =>
              Renewed(q) /\ (LatestFit(registry) => LatestFit(q))
        /\ (found # NoRecord /\ ~Registered(registry) /\ registry.writes = <<>>) =>
              LatestFit(q) /\ (Fits(found, q) \/ Renewed(q))
    BY <1>1, Restoring
  <2> HIDE DEF q
  <2>3. OthersOK'
    <3>1. NotRestoring \in [step : {"None", "Reading", "Read"}, found : Records]
      BY DEF NotRestoring, Records
    <3>2. astray' \in BOOLEAN
      BY <2>1
    <3> QED BY <1>1, <1>5, <2>1, <3>1, <3>2 DEF OthersOK, RecordsAreRestored, leftBehind
  <2>4. ASSUME ~astray'
        PROVE  Kept(registry', record', restoring', misplaced')
    <3>1. ~astray /\ ~Outrun(found) /\ Kept(registry, record, restoring, misplaced)
      BY <2>1, <2>4 DEF CardInv
    <3>2. CASE found = NoRecord
      BY <2>1, <2>2, <3>1, <3>2 DEF Kept, Fits, Wanted, Idle
    <3>3. CASE found # NoRecord /\ Registered(registry)
      BY <2>1, <2>2, <3>1, <3>3 DEF Kept, Outrun, Idle
    <3>4. CASE found # NoRecord /\ ~Registered(registry) /\ found.message \in registry.released
      BY <2>1, <2>2, <3>1, <3>4 DEF Kept
    <3>5. CASE found # NoRecord /\ ~Registered(registry) /\ found.message \notin registry.released
      BY <2>1, <2>2, <3>1, <3>5 DEF Kept, Outrun
    <3> QED BY <3>2, <3>3, <3>4, <3>5
  <2> QED BY <2>1, <2>2, <2>3, <2>4 DEF CardInv
<1> QED BY <1>2, <1>3, <1>4, <1>5

(* Every step keeps the invariant.                                         *)
LEMMA Inductive == CardInv /\ [CardNext]_cardVars => CardInv'
<1> SUFFICES ASSUME CardInv, [CardNext]_cardVars PROVE CardInv'
  OBVIOUS
<1>1. ASSUME NEW k \in States, StreamShows(k) PROVE CardInv'
  BY <1>1, StreamStep
<1>2. CASE StreamDenied \/ Evicted
  <2>1. 1 \in States
    BY CourseAssumption DEF States
  <2> QED BY <1>2, <2>1, StreamStep
<1>3. ASSUME NEW m \in Messages, EditStarts(m) \/ EditLands(m) \/ EditAnswerLost(m)
      PROVE  CardInv'
  BY <1>3, EditStep
<1>4. ASSUME NEW m \in Messages, NEW why \in {"Failed", "Gone", "RetryAfter"},
             EditRefused(m, why)
      PROVE  CardInv'
  BY <1>4, EditStep
<1>5. ASSUME NEW m \in Messages, EditAnswered(m) PROVE CardInv'
  BY <1>5, AnswerStep
<1>6. ASSUME NEW m \in Messages, NEW lot \in Lots,
             \/ PressLot(m, lot) \/ PressBid(m, lot)
             \/ PressWatch(m, lot) \/ PressUnwatch(m, lot)
      PROVE  CardInv'
  BY <1>6, PressStep
<1>7. CASE PressIsShown
  BY <1>7, ShownStep
<1>8. ASSUME NEW lot \in Lots, LimitAccepted(lot) PROVE CardInv'
  BY <1>8, ShownStep
<1>9. ASSUME NEW i \in DOMAIN registry.writes, RecordIsWritten(i) \/ WriteFails(i)
      PROVE  CardInv'
  BY <1>9, BucketStep
<1>10. CASE Restart \/ RecordsAreRead \/ ReadFails \/ RecordsAreRestored
  BY <1>10, ProcessStep
<1>11. CASE AuctionMoves \/ PressIsDrawn \/ PressFails \/ PressAnswerLost
  BY <1>11, PressStep
<1>14. CASE \/ \E edit \in late : LateEditLands(edit)
            \/ \E i \in DOMAIN strays : StrayIsWritten(i)
  BY <1>14, LateStep
<1>12. ASSUME NEW m \in Messages, PressMenu(m) \/ PressAsk(m) PROVE CardInv'
  BY <1>12, PressStep
<1>13. CASE UNCHANGED cardVars
  BY <1>13 DEF cardVars, CardInv, OthersOK, cardHistory, leftBehind
<1> QED
  BY <1>1, <1>2, <1>3, <1>4, <1>5, <1>6, <1>7, <1>8, <1>9, <1>10, <1>11, <1>12, <1>13,
     <1>14 DEF CardNext

(* The invariant holds throughout.                                         *)
LEMMA Invariance == CardSpec => []CardInv
<1> QED BY Initially, Inductive, PTL DEF CardSpec

-----------------------------------------------------------------------------
(* What a message shows.  The registry either makes no claim (no card, a   *)
(* card that is ending, an edit that failed, an edit on its way) or knows  *)
(* the message, but for what it has not heard of and for a press that is   *)
(* drawn and not heard of yet.  A claim is made in two places: when an     *)
(* edit lands, and when a press is heard of.                               *)

(* An edit of the card is on its way to the message m: it waits, or it is  *)
(* at Telegram, or its refusal is to be heard.                             *)
OnItsWay(r, m) ==
  \/ r.waiting[m] = "Current"
  \/ r.inFlight[m].tie = "Current" /\ r.inFlight[m].step # "Done"

(* An edit under way for the card as it is: none other waits, and it is of *)
(* what the registry believes.                                             *)
Tied(r) ==
  \A m \in Messages : r.inFlight[m].tie = "Current" =>
    /\ r.waiting[m] = "None"
    /\ r.inFlight[m].step # "None"
    /\ r.inFlight[m].step = "Sent" => r.inFlight[m].body = Body(r.card)

(* Nothing under way is for the card as it is.                             *)
Loose(r) == \A m \in Messages : r.inFlight[m].tie # "Current"

(* The registry does not claim to know what the message shows.             *)
Silent(r) ==
  \/ ~Registered(r)
  \/ r.card.ending
  \/ r.card.version = 0
  \/ OnItsWay(r, r.card.message)

(* What the message shows is the card, but for the mark.                   *)
Portrays(shown, card) == [shown EXCEPT !.mark = card.watching] = Body(card)

(* Whenever the registry claims to know what its message shows, and no     *)
(* press is between the two, it does.                                      *)
CardIsTrue ==
  LET r == registry
      m == r.card.message
  IN  \/ Silent(r)
      \/ unheard[m] = "Screen"
      \/ Unregistered(m)
      \/ /\ Portrays(screen[m], r.card)
         /\ r.card.watching /\ unheard[m] = "Nothing" => screen[m].mark

(* A press draws what it has read, a mark for a watch that it starts, and  *)
(* is on the screen until the registry hears of it, unless an edit comes   *)
(* between the two.                                                        *)
PressIsTrue ==
  press.step # "None" =>
    /\ ~press.body.ended
    /\ press.watch = "Start" => press.body.mark
    /\ press.step = "Drawn" =>
         unheard[press.message] = "Screen" \/ screen[press.message] = press.body

(* The inductive invariant of SettledCardIsTrue, on top of CardInv.        *)
ScreenInv == Tied(registry) /\ CardIsTrue /\ PressIsTrue

(* Nothing under way is for the card, and nothing is claimed of it.        *)
Unclaimed(r) == Loose(r) /\ Silent(r)

(* The card and its edits are left alone.                                  *)
Alike(r, q) ==
  q.card = r.card /\ q.waiting = r.waiting /\ q.inFlight = r.inFlight

-----------------------------------------------------------------------------
(* Without a card no edit is for it.                                       *)
LEMMA LooseWithoutACard ==
  ASSUME NEW r, Shape(r), ~Registered(r)
  PROVE  Unclaimed(r)
BY CourseAssumption
   DEF Shape, Registered, CurrentIsOfTheCard, NoEdit, Unclaimed, Loose, Silent

(* Nothing to be tied.                                                     *)
LEMMA LooseIsTied == ASSUME NEW r, Loose(r) PROVE Tied(r)
BY DEF Loose, Tied

(* revision += 1: no edit is for the card any more.                        *)
LEMMA RevisedIsLoose ==
  ASSUME NEW r, Shape(r), Registered(r)
  PROVE  Loose(Revise(r, r.card.message))
<1> DEFINE m == r.card.message
           q == Revise(r, m)
<1>1. r \in Registries /\ m \in Messages /\ r.inFlight \in [Messages -> Edits]
  BY DEF Shape, Registries, Cards, Registered
<1>2. q.inFlight = [r.inFlight EXCEPT ![m].tie = Revised(@)]
  BY <1>1 DEF Revise, Registries
<1>3. q.inFlight[m].tie # "Current"
  BY <1>1, <1>2 DEF Revised, Edits
<1>4. \A n \in Messages \ {m} : q.inFlight[n].tie # "Current"
  BY <1>1, <1>2 DEF Shape, CurrentIsOfTheCard, NoEdit
<1> QED BY <1>3, <1>4 DEF Loose

(* schedule: the card is to be redrawn as it is when the edit starts.      *)
LEMMA ScheduledIsUnclaimed ==
  ASSUME NEW r, Shape(r), Registered(r), NEW lot \in Lots, NEW v \in Nat
  PROVE  Unclaimed(Schedule(r, lot, v))
<1> DEFINE c == [r.card EXCEPT !.outcome = @ /\ r.card.lot = lot, !.lot = lot, !.version = v]
           e == [r EXCEPT !.card = c]
           f == Revise(e, r.card.message)
           g == Persist(f)
           q == Submit(g)
<1>1. r \in Registries /\ r.card \in Cards /\ r.card.message \in Messages
  BY DEF Shape, Registries, Cards, Registered
<1>2. c \in Cards /\ c.message = r.card.message /\ c.watching = r.card.watching
      /\ c.lot = lot /\ c.version = v /\ c.ending = r.card.ending
  BY <1>1 DEF Cards
<1>3. Schedule(r, lot, v) = q
  BY <1>1 DEF Schedule, Registries, Cards
<1>4. Heeds(r, e) /\ e.card = c
  <2>1. c.message # NoMessage /\ c.lot # NoLot
    BY <1>2, CourseAssumption DEF Registered
  <2> HIDE DEF c, e
  <2> QED BY <1>1, <1>2, <2>1, Recarding DEF e
<1> HIDE DEF c, e
<1>5. Heeds(e, f) /\ f.card = c /\ Loose(f) /\ Shape(f) /\ Registered(f)
  BY <1>1, <1>2, <1>4, Revising, RevisedIsLoose DEF Heeds, Registered
<1> HIDE DEF f
<1>6. Shape(g) /\ g.card = c /\ g.inFlight = f.inFlight
  BY <1>5, Persisting DEF Heeds
<1> HIDE DEF g
<1>7. q.inFlight = g.inFlight /\ q.card = c /\ q.waiting[c.message] = "Current"
  BY <1>1, <1>2, <1>6 DEF Submit, Shape, Registries
<1> QED BY <1>3, <1>5, <1>6, <1>7 DEF Unclaimed, Loose, Silent, OnItsWay

(* forget.                                                                 *)
LEMMA ForgottenIsUnclaimed ==
  ASSUME NEW r, Shape(r), NEW keep \in BOOLEAN
  PROVE  Unclaimed(Forget(r, keep))
BY Forgetting, LooseWithoutACard

(* onState: the card is scheduled or forgotten, or left alone.             *)
LEMMA StateIsShown ==
  ASSUME NEW r, Shape(r), Registered(r), NEW k \in States
  PROVE  Unclaimed(OnState(r, k)) \/ Alike(r, OnState(r, k))
<1> DEFINE e == [r EXCEPT !.latest = k]
           lot == LotOf(r.card.lot, k)
           q == OnState(r, k)
<1>1. r \in Registries /\ r.card \in Cards /\ r.card.message \in Messages /\ r.card.lot \in Lots
  BY DEF Shape, Registries, Cards, Registered
<1>2. /\ e \in Registries /\ e.card = r.card /\ e.latest = k /\ e.saved = r.saved
      /\ e.writes = r.writes /\ e.waiting = r.waiting /\ e.inFlight = r.inFlight
  BY <1>1 DEF Registries
<1>3. Shape(e) /\ Registered(e)
  <2> HIDE DEF e
  <2> QED BY <1>2 DEF Shape, Registered, CurrentIsOfTheCard, NothingIsLeft
<1>4. lot \in Lots /\ Version(lot, k) \in Nat
  BY <1>1, Course0
<1>5. q = StateShown(e, lot, k)
  BY DEF OnState
<1> HIDE DEF e, lot, q
<1>6. CASE k = Last /\ r.card.watching /\ Listed(lot, k)
  <2> DEFINE c == [r.card EXCEPT !.ending = TRUE]
             f == [e EXCEPT !.card = c]
  <2>1. /\ c \in Cards /\ c.message = r.card.message /\ c.watching = r.card.watching
        /\ c.lot = r.card.lot
    BY <1>1 DEF Cards
  <2>2. f = [e EXCEPT !.card.ending = TRUE]
    BY <1>2 DEF Registries, Cards
  <2> HIDE DEF c
  <2>3. Shape(f) /\ f.card = c
    <3>1. c.message # NoMessage <=> c.lot # NoLot
      BY <1>1, <2>1, CourseAssumption
    <3> HIDE DEF f
    <3> QED BY <1>2, <1>3, <2>1, <3>1, Recarding DEF f, Heeds
  <2> HIDE DEF f
  <2>4. Registered(f)
    BY <1>1, <2>1, <2>3, CourseAssumption DEF Registered
  <2>5. q = Schedule(f, lot, Version(lot, k))
    BY <1>2, <1>5, <1>6, <2>2 DEF StateShown
  <2> QED BY <1>4, <2>3, <2>4, <2>5, ScheduledIsUnclaimed DEF q
<1>7. CASE k = Last /\ r.card.watching /\ ~Listed(lot, k)
  <2>1. q = Forget(e, FALSE)
    BY <1>2, <1>5, <1>7 DEF StateShown
  <2> QED BY <1>3, <2>1, ForgottenIsUnclaimed DEF q
<1>8. CASE ~(k = Last /\ r.card.watching)
  <2>1. q = e \/ q = Schedule(e, lot, Version(lot, k))
    BY <1>2, <1>5, <1>8 DEF StateShown
  <2>2. Alike(r, e)
    BY <1>2, <1>8 DEF Alike
  <2> QED BY <1>3, <1>4, <2>1, <2>2, ScheduledIsUnclaimed DEF q
<1> QED BY <1>6, <1>7, <1>8

(* proxyLimitSet: the card is scheduled, or is to be redrawn by the next   *)
(* state, or is on another lot.                                            *)
LEMMA LimitIsSet ==
  ASSUME NEW r, Shape(r), OnTheLot(r), NEW lot \in Lots
  PROVE  Unclaimed(ProxyLimitSet(r, lot)) \/ ProxyLimitSet(r, lot) = r
<1> DEFINE k == r.latest
           drawn == IF k = 0 THEN lot ELSE LotOf(lot, k)
           e == [r EXCEPT !.card.version = 0]
           q == ProxyLimitSet(r, lot)
<1> SUFFICES ASSUME r.card.lot = lot PROVE Unclaimed(q)
  BY DEF ProxyLimitSet
<1>1. /\ q = LimitRow(r, drawn) /\ Registered(r) /\ r.card.message \in Messages
      /\ k \in States \cup {0}
  BY CourseAssumption DEF ProxyLimitSet, Shape, Registered, Registries, Cards
<1> HIDE DEF drawn
<1>2. CASE k # 0 /\ Listed(drawn, k)
  <2>1. drawn \in Lots /\ Version(drawn, k) \in Nat
    BY <1>1, <1>2, Course0 DEF drawn
  <2>2. q = Schedule(r, drawn, Version(drawn, k))
    BY <1>1, <1>2 DEF LimitRow
  <2> QED BY <1>1, <2>1, <2>2, ScheduledIsUnclaimed
<1>3. CASE ~(k # 0 /\ Listed(drawn, k))
  <2>1. q = Revise(e, r.card.message)
    BY <1>1, <1>3 DEF LimitRow
  <2>2. Shape(e) /\ e.card.message = r.card.message /\ e.card.version = 0
    <3>1. e.card.version = 0
      BY DEF Shape, Registries, Cards
    <3> QED BY <3>1, Unversioning DEF Heeds
  <2> HIDE DEF q, e
  <2>3. Loose(q) /\ q.card = e.card
    BY <1>1, <2>1, <2>2, Revising, RevisedIsLoose DEF Registered
  <2> QED BY <2>2, <2>3 DEF Unclaimed, Silent
<1> QED BY <1>2, <1>3

(* What a press has drawn is taken for the card.                           *)
TakenUp(r, shown, q) ==
  /\ q.card.message = shown.message
  /\ q.card.lot = shown.body.lot /\ q.card.version = shown.body.version
  /\ q.card.outcome = shown.body.outcome
  /\ q.card.watching <=>
       (shown.watch = "Start" \/ (r.card.message = shown.message /\ r.card.watching))

(* What the stream has shown has nothing to say against it.                *)
Undisputed(r, q, shown) ==
  (r.card.message = shown.message /\ r.latest # 0) =>
    /\ q.latest = r.latest
    /\ ~Outdrawn(q, shown.body, LotOf(shown.body.lot, r.latest))

(* A watch that starts changes nothing else of the card.                   *)
LEMMA WatchIsApplied ==
  ASSUME NEW r, Shape(r), Registered(r), NEW shown
  PROVE  LET q == ApplyWatch(r, shown)
         IN  /\ Shape(q) /\ Registered(q) /\ q.latest = r.latest
             /\ q.card = [r.card EXCEPT !.watching = @ \/ shown.watch = "Start"]
             /\ q.waiting = r.waiting /\ q.inFlight = r.inFlight
<1> DEFINE c == [r.card EXCEPT !.watching = @ \/ shown.watch = "Start"]
           e == [r EXCEPT !.card.watching = TRUE, !.released = @ \ {r.card.message}]
           q == ApplyWatch(r, shown)
<1>1. r \in Registries /\ r.card \in Cards /\ r.card.message \in Messages /\ r.card.lot \in Lots
  BY DEF Shape, Registries, Cards, Registered
<1>2. CASE shown.watch = "Start" /\ ~r.card.watching
  <2>1. /\ c \in Cards /\ c.message = r.card.message /\ c.watching = TRUE
        /\ c.lot = r.card.lot /\ c.ending = r.card.ending
    BY <1>1, <1>2 DEF Cards
  <2>2. e = [r EXCEPT !.card = c, !.released = @ \ {r.card.message}]
    BY <1>1, <1>2 DEF Registries, Cards
  <2>3. q = Persist(e)
    BY <1>2 DEF ApplyWatch
  <2> HIDE DEF c, e
  <2>4. /\ e \in Registries /\ e.card = c /\ e.latest = r.latest /\ e.saved = r.saved
        /\ e.waiting = r.waiting /\ e.inFlight = r.inFlight
    BY <1>1, <2>1, <2>2 DEF Registries
  <2>5. Shape(e) /\ Registered(e) /\ e.saved # e.card.lot
    BY <1>1, <1>2, <2>1, <2>4, CourseAssumption
       DEF Shape, Registered, CurrentIsOfTheCard, NothingIsLeft
  <2>6. /\ Shape(q) /\ q.card = c /\ q.latest = r.latest
        /\ q.inFlight = r.inFlight /\ q.waiting = r.waiting
    BY <2>1, <2>3, <2>4, <2>5, PersistingAnew
  <2>7. Registered(q)
    BY <2>4, <2>5, <2>6 DEF Registered
  <2> QED BY <2>6, <2>7 DEF c
<1>3. CASE ~(shown.watch = "Start" /\ ~r.card.watching)
  <2>1. q = r
    BY <1>3 DEF ApplyWatch
  <2>2. c = r.card
    BY <1>1, <1>3 DEF Cards
  <2> QED BY <2>1, <2>2
<1> QED BY <1>2, <1>3

(* shown, of the card that is live already: the press is a revision, and   *)
(* what it has drawn is believed if the stream has not passed it.          *)
LEMMA PressIsTakenUp ==
  ASSUME NEW r, Shape(r), Registered(r), NEW shown, shown.message = r.card.message,
         PressFits(shown), shown.body # Menu
  PROVE  LET q == Refresh(r, shown)
         IN  Unclaimed(q) \/ (Loose(q) /\ TakenUp(r, shown, q) /\ Undisputed(r, q, shown))
<1> DEFINE m == r.card.message
           c == [r.card EXCEPT !.lot = shown.body.lot, !.version = shown.body.version,
                               !.outcome = shown.body.outcome]
           e == [r EXCEPT !.card = c]
           a == ApplyWatch(e, shown)
           v == Revise(a, m)
           d == [v EXCEPT !.waiting[m] = "None"]
           k == r.latest
           lot == LotOf(shown.body.lot, k)
           q == Refresh(r, shown)
<1>1. /\ r \in Registries /\ r.card \in Cards /\ m \in Messages /\ m # NoMessage
      /\ k \in States \cup {0}
      /\ shown.body.lot \in Lots /\ shown.body.version \in Nat /\ shown.body.outcome \in BOOLEAN
  BY DEF Shape, Registries, Cards, Registered, PressFits, CardScreens
<1>2. /\ c \in Cards /\ c.message = m /\ c.watching = r.card.watching
      /\ c.lot = shown.body.lot /\ c.version = shown.body.version
      /\ c.outcome = shown.body.outcome /\ c.ending = r.card.ending
  BY <1>1 DEF Cards
<1>3. Refreshed(r, shown) = d
  <2>1. e = [r EXCEPT !.card.lot = shown.body.lot, !.card.version = shown.body.version,
                      !.card.outcome = shown.body.outcome]
    BY <1>1 DEF Registries, Cards
  <2> QED BY <2>1 DEF Refreshed
<1>4. Shape(e) /\ e.card = c /\ e.latest = k /\ Registered(e)
  <2>1. c.message # NoMessage <=> c.lot # NoLot
    BY <1>1, <1>2, CourseAssumption
  <2> HIDE DEF c, e
  <2>2. Shape(e) /\ e.card = c /\ e.latest = k
    BY <1>2, <2>1, Recarding DEF e, Heeds
  <2> QED BY <1>1, <1>2, <2>2 DEF Registered
<1> HIDE DEF e, c
<1>5. /\ Shape(a) /\ Registered(a) /\ a.latest = k
      /\ a.card = [c EXCEPT !.watching = @ \/ shown.watch = "Start"]
  BY <1>4, WatchIsApplied
<1>6. /\ a.card.message = m /\ a.card.lot = shown.body.lot
      /\ a.card.version = shown.body.version /\ a.card.outcome = shown.body.outcome
      /\ a.card.watching <=> (r.card.watching \/ shown.watch = "Start")
  BY <1>2, <1>5 DEF Cards
<1> HIDE DEF a
<1>7. Shape(v) /\ v.card = a.card /\ v.latest = k /\ Loose(v)
  BY <1>1, <1>5, <1>6, Revising, RevisedIsLoose DEF Heeds
<1> HIDE DEF v
<1>8. Shape(d) /\ d.card = a.card /\ d.latest = k
  BY <1>1, <1>7, Dropping DEF Heeds
<1>9. d.inFlight = v.inFlight
  BY <1>7 DEF Shape, Registries
<1> HIDE DEF d
<1>10. Loose(d) /\ TakenUp(r, shown, d) /\ Registered(d)
  BY <1>1, <1>6, <1>7, <1>8, <1>9 DEF Loose, TakenUp, Registered
<1>11. q = IF k = 0 THEN d ELSE Redraw(d, shown.body, lot)
  BY <1>3 DEF Refresh
<1> HIDE DEF q, lot
<1>12. CASE k # 0 /\ Outdrawn(d, shown.body, lot)
  <2>1. lot \in Lots /\ Version(lot, k) \in Nat
    BY <1>1, <1>12, Course0 DEF lot
  <2>2. q = Schedule(d, lot, Version(lot, k))
    BY <1>8, <1>11, <1>12 DEF Redraw
  <2> QED BY <1>8, <1>10, <2>1, <2>2, ScheduledIsUnclaimed DEF q
<1>13. CASE ~(k # 0 /\ Outdrawn(d, shown.body, lot))
  <2>1. q = d
    BY <1>11, <1>13 DEF Redraw
  <2> QED BY <1>8, <1>10, <1>13, <2>1 DEF Undisputed, lot, q
<1> QED BY <1>12, <1>13

(* shown, in all its cases.                                                *)
LEMMA PressIsHeard ==
  ASSUME NEW r, Shape(r), Tied(r), NEW shown, PressFits(shown)
  PROVE  LET q == Shown(r, shown)
         IN  /\ Tied(q)
             /\ \/ Silent(q)
                \/ q = r /\ r.card.message # shown.message
                \/ /\ TakenUp(r, shown, q) /\ Undisputed(r, q, shown)
                   /\ shown.watch # "Stop" /\ shown.body # Menu
<1> DEFINE q == Shown(r, shown)
<1>0. /\ r \in Registries /\ shown.message \in Messages
      /\ \A keep \in BOOLEAN : Tied(Forget(r, keep)) /\ Silent(Forget(r, keep))
  BY ForgottenIsUnclaimed, LooseIsTied DEF Shape, PressFits, Unclaimed
<1>1. CASE shown.watch = "Stop" /\ Registered(r)
  BY <1>0, <1>1 DEF Shown
<1>2. CASE shown.watch = "Stop" /\ ~Registered(r)
  <2>1. q = [r EXCEPT !.released = @ \cup {shown.message},
                      !.writes = Append(@, Write(NoRecord, "Unchecked"))]
    BY <1>2 DEF Shown
  <2>2. q.card = r.card /\ q.inFlight = r.inFlight
    BY <1>0, <2>1 DEF Registries
  <2> HIDE DEF q
  <2>3. Unclaimed(r)
    BY <1>2, LooseWithoutACard
  <2>4. Loose(q) /\ Silent(q)
    BY <1>2, <2>2, <2>3 DEF Unclaimed, Loose, Silent, Registered
  <2> QED BY <2>4, LooseIsTied DEF q
<1>3. CASE shown.watch # "Stop" /\ shown.body # Menu /\ r.card.message = shown.message
  <2>1. q = Refresh(r, shown)
    BY <1>3 DEF Shown
  <2>2. Registered(r)
    BY <1>0, <1>3, CourseAssumption DEF Registered
  <2>3. Unclaimed(q) \/ (Loose(q) /\ TakenUp(r, shown, q) /\ Undisputed(r, q, shown))
    BY <1>3, <2>1, <2>2, PressIsTakenUp
  <2> HIDE DEF q
  <2> QED BY <1>3, <2>3, LooseIsTied DEF Unclaimed, q
<1>4. CASE shown.watch # "Stop" /\ shown.body # Menu /\ r.card.message # shown.message
           /\ shown.live
  <2> DEFINE keep == shown.watch = "Start"
             f == Forget(r, keep)
             c == CardShown(shown)
             o == [f EXCEPT !.card = c]
             a == ApplyWatch(o, shown)
             k == r.latest
  <2>1. q = CaughtUp(a, k)
    BY <1>4 DEF Shown, Open
  <2>2. /\ c \in Cards /\ c.message = shown.message /\ c.lot = shown.body.lot
        /\ c.message \in Messages /\ c.lot \in Lots /\ ~c.watching
        /\ c.version = shown.body.version /\ c.outcome = shown.body.outcome
    BY <1>0, <1>4, CourseAssumption DEF PressFits, CardShown, NoCard, Cards, CardScreens
  <2>3. Shape(f) /\ ~Registered(f)
    <3> HIDE DEF keep
    <3>1. keep \in BOOLEAN
      BY DEF keep
    <3> QED BY <3>1, Forgetting
  <2> HIDE DEF f, c, q, keep
  <2>0. o = [f EXCEPT !.card = c]
    OBVIOUS
  <2> HIDE DEF o
  <2>4. Shape(o) /\ Registered(o) /\ o.card = c /\ o.latest = 0
    BY <2>0, <2>2, <2>3, Opening
  <2>5. o.inFlight = f.inFlight
    BY <2>0, <2>3 DEF Shape, Registries
  <2>6. /\ Shape(a) /\ Registered(a) /\ a.latest = 0
        /\ a.card = [c EXCEPT !.watching = @ \/ shown.watch = "Start"]
        /\ a.inFlight = o.inFlight
    BY <2>4, WatchIsApplied
  <2>7. TakenUp(r, shown, a)
    BY <1>4, <2>2, <2>6 DEF TakenUp, Cards
  <2>8. Loose(a)
    BY <2>3, <2>5, <2>6, LooseWithoutACard DEF Unclaimed, Loose
  <2> HIDE DEF a
  <2>9. k \in States \cup {0} /\ Last # 0
    BY <1>0, Course0, CourseAssumption DEF Registries, States, Last
  <2>10. Unclaimed(q) \/ Alike(a, q)
    <3>1. CASE k \in {0, Last}
      BY <2>1, <3>1 DEF CaughtUp, Alike
    <3>2. CASE k \notin {0, Last}
      BY <2>1, <2>6, <2>9, <3>2, StateIsShown DEF CaughtUp
    <3> QED BY <3>1, <3>2
  <2>11. CASE Unclaimed(q)
    BY <2>11, LooseIsTied DEF Unclaimed, q
  <2>12. CASE Alike(a, q)
    BY <1>4, <2>6, <2>7, <2>8, <2>9, <2>12, LooseIsTied
       DEF Alike, Loose, TakenUp, Undisputed, q
  <2> QED BY <2>10, <2>11, <2>12
<1>5. CASE ~(\/ shown.watch = "Stop"
             \/ shown.body # Menu /\ r.card.message = shown.message
             \/ shown.body # Menu /\ r.card.message # shown.message /\ shown.live)
  <2>1. q = IF r.card.message = shown.message THEN Forget(r, FALSE) ELSE r
    BY <1>5 DEF Shown
  <2> QED BY <1>0, <2>1
<1> QED BY <1>1, <1>2, <1>3, <1>4, <1>5

(* At most one edit is for the card as it is, and none other waits.        *)
LEMMA TheCurrentEdit ==
  ASSUME NEW r, Shape(r), Tied(r), NEW m \in Messages, r.inFlight[m].tie = "Current"
  PROVE  /\ r.card.message = m /\ Registered(r) /\ r.waiting[m] = "None"
         /\ \A n \in Messages : n # m => r.inFlight[n].tie # "Current"
<1>1. \A n \in Messages : r.inFlight[n].tie = "Current" => r.card.message = n
  BY DEF Shape, CurrentIsOfTheCard, NoEdit
<1>2. r.waiting[m] = "None"
  BY DEF Tied
<1> QED BY <1>1, <1>2, CourseAssumption DEF Registered

(* The answer to an edit: the card is forgotten, or its version is, or the *)
(* edit waits again, or nothing else is changed.                           *)
LEMMA AnswerIsHeard ==
  ASSUME NEW r, Shape(r), Tied(r), NEW m \in Messages,
         r.inFlight[m].step \in {"Done", "Gone", "Failed", "RetryAfter"}
  PROVE  LET q == Landed(Outcome(r, m), m)
         IN  /\ Tied(q)
             /\ \/ Silent(q)
                \/ q.card = r.card /\ q.latest = r.latest /\ ~Silent(r)
<1> DEFINE f == Forget(r, FALSE)
           Land(o) == Landed(o, m)
           q == Land(Outcome(r, m))
           tie == r.inFlight[m].tie
<1>1. /\ r \in Registries /\ r.inFlight \in [Messages -> Edits]
      /\ r.waiting \in [Messages -> Ties \cup {"None"}]
      /\ NoEdit.tie = "Orphan"
  BY DEF Shape, Registries, NoEdit
<1>2. ASSUME NEW o \in Registries
      PROVE  LET p == Landed(o, m)
             IN  /\ p.card = o.card /\ p.latest = o.latest /\ p.waiting = o.waiting
                 /\ p.inFlight = [o.inFlight EXCEPT ![m] = NoEdit]
                 /\ o.inFlight \in [Messages -> Edits]
  BY DEF Landed, Registries
<1>3. CASE Outcome(r, m) = f
  <2>1. Shape(f) /\ ~Registered(f) /\ Loose(f)
    BY Forgetting, ForgottenIsUnclaimed DEF Unclaimed
  <2> HIDE DEF f
  <2>2. f \in Registries
    BY <2>1 DEF Shape
  <2>3. q.card = f.card /\ Loose(q)
    BY <1>1, <1>2, <1>3, <2>1, <2>2 DEF Loose
  <2> HIDE DEF q
  <2> QED BY <2>1, <2>3, LooseIsTied DEF Silent, Registered, q
<1>4. CASE Outcome(r, m) = r /\ (tie # "Current" \/ r.inFlight[m].step = "Done")
  <2>1. /\ q.card = r.card /\ q.latest = r.latest /\ q.waiting = r.waiting
        /\ q.inFlight = [r.inFlight EXCEPT ![m] = NoEdit]
    BY <1>1, <1>2, <1>4
  <2> HIDE DEF q
  <2>2. Tied(q)
    BY <1>1, <2>1 DEF Tied
  <2>3. Silent(r) => Silent(q)
    <3>1. ASSUME Registered(r), OnItsWay(r, r.card.message)
          PROVE  OnItsWay(q, q.card.message)
      <4>1. r.card.message \in Messages
        BY <1>1, <3>1 DEF Registered, Registries, Cards
      <4> QED BY <1>1, <1>4, <2>1, <3>1, <4>1 DEF OnItsWay
    <3> QED BY <2>1, <3>1 DEF Silent, Registered
  <2> QED BY <2>1, <2>2, <2>3 DEF q
<1>5. CASE Outcome(r, m) = [r EXCEPT !.card.version = 0] /\ tie = "Current"
  <2> DEFINE o == [r EXCEPT !.card.version = 0]
  <2>1. o \in Registries /\ o.card.version = 0 /\ o.inFlight = r.inFlight
    BY <1>1 DEF Registries, Cards
  <2> HIDE DEF o
  <2>2. q.card = o.card /\ q.inFlight = [r.inFlight EXCEPT ![m] = NoEdit]
    BY <1>2, <1>5, <2>1 DEF o
  <2> HIDE DEF q
  <2>3. Loose(q)
    BY <1>1, <1>5, <2>2, TheCurrentEdit DEF Loose
  <2> QED BY <2>1, <2>2, <2>3, LooseIsTied DEF Silent, q
<1>6. CASE /\ r.inFlight[m].step = "RetryAfter"
           /\ Outcome(r, m) = [r EXCEPT !.waiting[m] = IF @ = "None" THEN tie ELSE @]
  <2> DEFINE W == [r.waiting EXCEPT ![m] = IF @ = "None" THEN tie ELSE @]
             o == [r EXCEPT !.waiting = W]
  <2>1. W \in [Messages -> Ties \cup {"None"}]
    BY <1>1 DEF Edits
  <2>2. Outcome(r, m) = o
    BY <1>1, <1>6 DEF Registries
  <2>3. /\ o \in Registries /\ o.card = r.card /\ o.latest = r.latest
        /\ o.inFlight = r.inFlight /\ o.waiting = W
    <3> HIDE DEF W
    <3> QED BY <1>1, <2>1 DEF Registries
  <2> HIDE DEF o
  <2>4. /\ q.card = r.card /\ q.latest = r.latest /\ q.waiting = W
        /\ q.inFlight = [r.inFlight EXCEPT ![m] = NoEdit]
    BY <1>2, <2>2, <2>3
  <2> HIDE DEF q
  <2>5. CASE tie = "Current"
    <3>1. /\ r.card.message = m /\ Registered(r) /\ r.waiting[m] = "None"
          /\ \A n \in Messages : n # m => r.inFlight[n].tie # "Current"
      BY <2>5, TheCurrentEdit
    <3>2. Loose(q) /\ q.waiting[m] = "Current"
      BY <1>1, <2>4, <2>5, <3>1 DEF Loose
    <3> QED BY <2>4, <3>1, <3>2, LooseIsTied DEF Silent, OnItsWay, q
  <2>6. CASE tie # "Current"
    <3>1. Tied(q)
      BY <1>1, <2>4, <2>6 DEF Tied
    <3>2. Silent(r) => Silent(q)
      <4>1. ASSUME Registered(r), OnItsWay(r, r.card.message)
            PROVE  OnItsWay(q, q.card.message)
        <5>1. r.card.message \in Messages
          BY <1>1, <4>1 DEF Registered, Registries, Cards
        <5> QED BY <1>1, <2>4, <2>6, <4>1, <5>1 DEF OnItsWay
      <4> QED BY <2>4, <4>1 DEF Silent, Registered
    <3> QED BY <2>4, <3>1, <3>2 DEF q
  <2> QED BY <2>5, <2>6
<1>7. \/ Outcome(r, m) = f
      \/ Outcome(r, m) = r /\ (tie # "Current" \/ r.inFlight[m].step = "Done")
      \/ Outcome(r, m) = [r EXCEPT !.card.version = 0] /\ tie = "Current"
      \/ /\ r.inFlight[m].step = "RetryAfter"
         /\ Outcome(r, m) = [r EXCEPT !.waiting[m] = IF @ = "None" THEN tie ELSE @]
  BY DEF Outcome, Own
<1> QED BY <1>3, <1>4, <1>5, <1>6, <1>7

(* A call to the bucket answered leaves the card and its edits alone.      *)
LEMMA CallIsAnswered ==
  ASSUME NEW r, Shape(r), NEW i \in DOMAIN r.writes
  PROVE  Alike(r, Answered(r, i))
<1> DEFINE w == Without(r.writes, i)
           call == r.writes[i]
           e == [r EXCEPT !.writes = w]
           s == [e EXCEPT !.saved = NoLot]
           q == Answered(r, i)
<1>1. r \in Registries /\ r.writes \in Seq(Calls)
  BY DEF Shape, Registries
<1>2. w \in Seq(Calls)
  BY <1>1, Withdrawing
<1> HIDE DEF w
<1>3. /\ e \in Registries /\ e.card = r.card /\ e.latest = r.latest /\ e.saved = r.saved
      /\ e.waiting = r.waiting /\ e.inFlight = r.inFlight
  BY <1>1, <1>2 DEF Registries
<1>4. q = Recheck(e, call)
  BY <1>1 DEF Answered, w
<1> HIDE DEF e
<1>5. CASE q = e
  BY <1>3, <1>5 DEF Alike
<1>6. CASE q = Persist(s) /\ r.card.watching
  <2>1. /\ s \in Registries /\ s.card = r.card /\ s.latest = r.latest /\ s.saved = NoLot
        /\ s.waiting = r.waiting /\ s.inFlight = r.inFlight
    BY <1>3 DEF Registries
  <2> HIDE DEF s, q
  <2>2. Shape(s) /\ Registered(s)
    BY <1>6, <2>1 DEF Shape, Registered, CurrentIsOfTheCard, NothingIsLeft
  <2>3. /\ q.card = r.card /\ q.latest = r.latest
        /\ q.waiting = r.waiting /\ q.inFlight = r.inFlight
    BY <1>6, <2>1, <2>2, Persisting
  <2> QED BY <2>3 DEF Alike, q
<1>7. CASE q = [e EXCEPT !.writes = Append(@, Write(NoRecord, "Unchecked"))]
  BY <1>3, <1>7 DEF Alike, Registries
<1>8. \/ q = e
      \/ q = Persist(s) /\ r.card.watching
      \/ q = [e EXCEPT !.writes = Append(@, Write(NoRecord, "Unchecked"))]
  BY <1>3, <1>4 DEF Recheck
<1> QED BY <1>5, <1>6, <1>7, <1>8

(* A card taken up from the bucket has version 0.                          *)
LEMMA CardIsRestored ==
  ASSUME NEW r, Shape(r), NEW found \in Records
  PROVE  LET q == Restored(r, found)
         IN  \/ Unclaimed(q) /\ found # NoRecord
             \/ Alike(r, q)
<1> DEFINE q == Restored(r, found)
<1>1. r \in Registries
  BY DEF Shape
<1>2. CASE found = NoRecord \/ Registered(r)
  BY <1>2 DEF Restored, Alike
<1>3. CASE found # NoRecord /\ ~Registered(r) /\ found.message \in r.released
  <2>1. q = [r EXCEPT !.writes = Append(@, Write(NoRecord, "Unchecked"))]
    BY <1>3 DEF Restored
  <2> QED BY <1>1, <2>1 DEF Alike, Registries
<1>4. CASE found # NoRecord /\ ~Registered(r) /\ found.message \notin r.released
  <2> DEFINE c == [NoCard EXCEPT !.message = found.message, !.lot = found.lot,
                                 !.watching = TRUE]
  <2>1. q = [[r EXCEPT !.card = c] EXCEPT !.saved = found.lot]
    BY <1>4 DEF Restored, Open, Forget
  <2>2. q.card = c /\ q.inFlight = r.inFlight /\ c.version = 0
    BY <1>1, <2>1 DEF Registries, NoCard
  <2> HIDE DEF c, q
  <2>3. Unclaimed(q)
    BY <1>4, <2>2, LooseWithoutACard DEF Unclaimed, Loose, Silent
  <2> QED BY <1>4, <2>3 DEF q
<1> QED BY <1>2, <1>3, <1>4

-----------------------------------------------------------------------------
(* What a step leaves alone outside the registry.                          *)
Elsewhere == screen' = screen /\ press' = press /\ unheard' = unheard

(* A step that makes the registry silent.                                  *)
LEMMA Silencing ==
  ASSUME ScreenInv, Elsewhere, Tied(registry'), Silent(registry')
  PROVE  ScreenInv'
BY DEF ScreenInv, CardIsTrue, PressIsTrue, Elsewhere

(* A step that leaves the card alone, and does not break the silence.      *)
LEMMA LeavingAlone ==
  ASSUME ScreenInv, Elsewhere, Tied(registry'), registry'.card = registry.card,
         Silent(registry) => Silent(registry')
  PROVE  ScreenInv'
<1>1. PressIsTrue'
  BY DEF ScreenInv, PressIsTrue, Elsewhere
<1>2. CardIsTrue'
  BY DEF ScreenInv, CardIsTrue, Elsewhere, Unregistered
<1> QED BY <1>1, <1>2 DEF ScreenInv

(* A step whose registry is alike.                                         *)
LEMMA StayingAlike ==
  ASSUME ScreenInv, Elsewhere, Alike(registry, registry')
  PROVE  ScreenInv'
<1>1. Tied(registry') /\ (Silent(registry) => Silent(registry'))
  BY DEF ScreenInv, Alike, Tied, Silent, OnItsWay, Registered
<1> QED BY <1>1, LeavingAlone DEF Alike

(* A step whose registry claims nothing.                                   *)
LEMMA ClaimingNothing ==
  ASSUME ScreenInv, Elsewhere, Unclaimed(registry')
  PROVE  ScreenInv'
BY LooseIsTied, Silencing DEF Unclaimed

-----------------------------------------------------------------------------
(* The feed leaves what is shown true.                                     *)
LEMMA StreamLeavesItTrue ==
  ASSUME CardInv, ScreenInv,
         \/ \E k \in States : StreamShows(k)
         \/ StreamDenied \/ Evicted
  PROVE  ScreenInv'
<1>1. Shape(registry) /\ Registered(registry)
  BY DEF CardInv, StreamShows, StreamDenied, Evicted, FeedIsOpen
<1>2. Elsewhere
  <2>1. CASE StreamDenied
    BY <2>1 DEF StreamDenied, cardHistory, Elsewhere
  <2>2. CASE Evicted
    BY <2>2 DEF Evicted, cardHistory, Elsewhere
  <2>3. ASSUME NEW k \in States, StreamShows(k) PROVE Elsewhere
    BY <2>3 DEF StreamShows, cardHistory, Elsewhere
  <2> QED BY <2>1, <2>2, <2>3
<1>3. CASE registry' = Forget(registry, FALSE)
  BY <1>1, <1>2, <1>3, ForgottenIsUnclaimed, ClaimingNothing
<1>4. CASE registry' = registry
  BY <1>2, <1>4, StayingAlike DEF Alike
<1>5. ASSUME NEW k \in States, StreamShows(k) PROVE ScreenInv'
  <2> DEFINE s == OnState(registry, k)
  <2>1. Shape(s) /\ (Unclaimed(s) \/ Alike(registry, s))
    BY <1>1, Showing, StateIsShown DEF Heeds
  <2>2. registry' = s \/ registry' = OnEnded(s)
    BY <1>5 DEF StreamShows
  <2> HIDE DEF s
  <2>3. CASE registry' = s
    BY <1>2, <2>1, <2>3, ClaimingNothing, StayingAlike
  <2>4. CASE registry' = Forget(s, FALSE)
    BY <1>2, <2>1, <2>4, ForgottenIsUnclaimed, ClaimingNothing
  <2> QED BY <2>2, <2>3, <2>4 DEF OnEnded
<1>6. CASE StreamDenied \/ Evicted
  BY <1>3, <1>4, <1>6 DEF StreamDenied, Evicted, OnEnded
<1> QED BY <1>5, <1>6

(* The edits of a card leave what is shown true.                           *)
LEMMA EditsLeaveItTrue ==
  ASSUME CardInv, ScreenInv, NEW m \in Messages,
         \/ EditStarts(m) \/ EditAnswerLost(m)
         \/ \E why \in {"Failed", "Gone", "RetryAfter"} : EditRefused(m, why)
  PROVE  ScreenInv'
<1> DEFINE r == registry
<1>1. /\ Shape(r) /\ r \in Registries /\ Tied(r)
      /\ r.waiting \in [Messages -> Ties \cup {"None"}] /\ r.inFlight \in [Messages -> Edits]
      /\ r.card \in Cards
  BY DEF CardInv, ScreenInv, Shape, Registries
<1>2. Elsewhere
  <2>1. CASE EditStarts(m) \/ EditAnswerLost(m)
    BY <2>1 DEF EditStarts, EditAnswerLost, cardHistory, Elsewhere
  <2>2. ASSUME NEW why \in {"Failed", "Gone", "RetryAfter"}, EditRefused(m, why)
        PROVE  Elsewhere
    BY <2>2 DEF EditRefused, cardHistory, Elsewhere
  <2> QED BY <2>1, <2>2
<1>3. ASSUME NEW edit, edit.step # "None", edit.step # "Sent", edit.tie = r.inFlight[m].tie,
             r.inFlight[m].step # "None", edit.step = "Done" => r.inFlight[m].step = "Done",
             r' = [r EXCEPT !.inFlight[m] = edit]
      PROVE  ScreenInv'
  <2>1. /\ r'.card = r.card /\ r'.latest = r.latest /\ r'.waiting = r.waiting
        /\ r'.inFlight = [r.inFlight EXCEPT ![m] = edit]
    BY <1>1, <1>3 DEF Registries
  <2>2. Tied(r')
    BY <1>1, <1>3, <2>1 DEF Tied
  <2>3. \A n \in Messages : OnItsWay(r, n) => OnItsWay(r', n)
    BY <1>1, <1>3, <2>1 DEF OnItsWay
  <2>4. Silent(r) => Silent(r')
    BY <1>1, <2>1, <2>3 DEF Silent, Registered, Cards
  <2> QED BY <1>2, <2>1, <2>2, <2>4, LeavingAlone
<1>4. CASE EditStarts(m)
  <2> DEFINE edit == [step |-> "Sent", tie |-> "Current", body |-> Body(r.card)]
             W == [r.waiting EXCEPT ![m] = "None"]
             F == [r.inFlight EXCEPT ![m] = IF r.waiting[m] = "Current" THEN edit ELSE NoEdit]
  <2>1. /\ r'.card = r.card /\ r'.latest = r.latest /\ r'.waiting = W /\ r'.inFlight = F
        /\ r.inFlight[m] = NoEdit /\ NoEdit.tie = "Orphan"
    BY <1>1, <1>4 DEF EditStarts, Registries, NoEdit
  <2>2. Tied(r')
    BY <1>1, <2>1 DEF Tied
  <2>3. \A n \in Messages : OnItsWay(r, n) => OnItsWay(r', n)
    BY <1>1, <2>1 DEF OnItsWay
  <2>4. Silent(r) => Silent(r')
    BY <1>1, <2>1, <2>3 DEF Silent, Registered, Cards
  <2> QED BY <1>2, <2>1, <2>2, <2>4, LeavingAlone
<1>5. ASSUME NEW why \in {"Failed", "Gone", "RetryAfter"}, EditRefused(m, why)
      PROVE  ScreenInv'
  <2> DEFINE edit == [r.inFlight[m] EXCEPT !.step = why, !.body = Menu]
  <2>1. edit.step = why /\ edit.tie = r.inFlight[m].tie
    BY <1>1 DEF Edits
  <2>2. r' = [r EXCEPT !.inFlight[m] = edit] /\ r.inFlight[m].step = "Sent"
    BY <1>1, <1>5 DEF EditRefused, Registries
  <2> HIDE DEF edit
  <2> QED BY <1>3, <2>1, <2>2
<1>6. CASE EditAnswerLost(m)
  <2> DEFINE edit == [r.inFlight[m] EXCEPT !.step = "RetryAfter"]
  <2>1. edit.step = "RetryAfter" /\ edit.tie = r.inFlight[m].tie
    BY <1>1 DEF Edits
  <2>2. r' = [r EXCEPT !.inFlight[m] = edit] /\ r.inFlight[m].step = "Done"
    BY <1>1, <1>6 DEF EditAnswerLost, Registries
  <2> HIDE DEF edit
  <2> QED BY <1>3, <2>1, <2>2
<1> QED BY <1>4, <1>5, <1>6

(* An edit that lands shows the card, or has overtaken a press.            *)
LEMMA LandingShowsTheCard ==
  ASSUME CardInv, ScreenInv, NEW m \in Messages, EditLands(m)
  PROVE  ScreenInv'
<1> DEFINE r == registry
           edit == r.inFlight[m]
           done == [edit EXCEPT !.step = "Done", !.body = Menu]
           n == r.card.message
<1>1. /\ Shape(r) /\ r \in Registries /\ Tied(r)
      /\ r.inFlight \in [Messages -> Edits] /\ r.card \in Cards
      /\ screen \in [Messages -> CardScreens]
      /\ unheard \in [Messages -> {"Nothing", "Keyboard", "Screen"}]
      /\ edit.step = "Sent" /\ press' = press
      /\ screen' = [screen EXCEPT ![m] = edit.body]
      /\ unheard' = [unheard EXCEPT
           ![m] = IF (n = m /\ edit.tie # "Current") \/ Unregistered(m)
                  THEN "Screen" ELSE "Nothing"]
  BY DEF CardInv, ScreenInv, OthersOK, Shape, Registries, EditLands
<1>2. done.step = "Done" /\ done.tie = edit.tie
  BY <1>1 DEF Edits
<1> HIDE DEF done
<1>3. /\ r'.card = r.card /\ r'.waiting = r.waiting
      /\ r'.inFlight = [r.inFlight EXCEPT ![m] = done]
  BY <1>1 DEF EditLands, Registries, done
<1>4. Tied(r')
  BY <1>1, <1>2, <1>3 DEF Tied
<1>5. PressIsTrue'
  <2>1. press.step # "None" => press.message \in Messages
    BY DEF CardInv, OthersOK, PressFits
  <2>2. press.step = "Drawn" =>
          unheard'[press.message] = "Screen" \/ screen'[press.message] = press.body
    BY <1>1, <2>1 DEF ScreenInv, PressIsTrue, Unregistered
  <2> QED BY <1>1, <2>2 DEF ScreenInv, PressIsTrue
<1>6. CardIsTrue'
  <2>1. CASE ~Registered(r)
    BY <1>3, <2>1 DEF CardIsTrue, Silent, Registered
  <2>2. CASE Registered(r) /\ n # m
    <3>1. n \in Messages
      BY <1>1, <2>2 DEF Registered, Cards
    <3>2. unheard'[n] = unheard[n] /\ screen'[n] = screen[n]
      BY <1>1, <2>2, <3>1
    <3>3. Silent(r) => Silent(r')
      BY <1>1, <1>3, <2>2, <3>1 DEF Silent, Registered, OnItsWay
    <3>4. Unregistered(n)' <=> Unregistered(n)
      BY <1>1, <1>3 DEF Unregistered
    <3> QED BY <1>1, <1>3, <3>2, <3>3, <3>4 DEF ScreenInv, CardIsTrue, Portrays
  <2>3. CASE Registered(r) /\ n = m /\ unheard'[m] = "Screen"
    BY <1>3, <2>3 DEF CardIsTrue
  <2>4. CASE Registered(r) /\ n = m /\ unheard'[m] # "Screen"
    <3>1. edit.tie = "Current"
      BY <1>1, <2>4
    <3>2. screen'[m] = Body(r.card)
      BY <1>1, <3>1 DEF Tied
    <3>3. Portrays(screen'[m], r.card) /\ screen'[m].mark = r.card.watching
      BY <1>1, <3>2 DEF Portrays, Body
    <3> QED BY <1>3, <2>4, <3>3 DEF CardIsTrue, Portrays
  <2> QED BY <2>1, <2>2, <2>3, <2>4
<1> QED BY <1>4, <1>5, <1>6 DEF ScreenInv

(* The answer to an edit leaves what is shown true.                        *)
LEMMA AnswersLeaveItTrue ==
  ASSUME CardInv, ScreenInv, NEW m \in Messages, EditAnswered(m)
  PROVE  ScreenInv'
<1>1. Shape(registry) /\ Tied(registry)
  BY DEF CardInv, ScreenInv
<1>2. /\ Elsewhere /\ registry' = Landed(Outcome(registry, m), m)
      /\ registry.inFlight[m].step \in {"Done", "Gone", "Failed", "RetryAfter"}
  BY DEF EditAnswered, cardHistory, Elsewhere
<1>3. /\ Tied(registry')
      /\ Silent(registry') \/ (registry'.card = registry.card /\ ~Silent(registry))
  BY <1>1, <1>2, AnswerIsHeard
<1> QED BY <1>2, <1>3, Silencing, LeavingAlone

(* An edit of a process that is gone is not heard of.                      *)
LEMMA LateEditsLeaveItTrue ==
  ASSUME CardInv, ScreenInv, NEW edit \in late, LateEditLands(edit)
  PROVE  ScreenInv'
<1> DEFINE m == edit.message
<1>1. /\ registry' = registry /\ press' = press /\ m \in Messages
      /\ screen \in [Messages -> CardScreens]
      /\ unheard \in [Messages -> {"Nothing", "Keyboard", "Screen"}]
      /\ screen' = [screen EXCEPT ![m] = edit.body]
      /\ unheard' = [unheard EXCEPT ![m] = "Screen"]
  BY DEF LateEditLands, CardInv, OthersOK
<1>2. \A n \in Messages : unheard'[n] = "Screen" \/ (screen'[n] = screen[n] /\ unheard'[n] = unheard[n])
  BY <1>1
<1>3. PressIsTrue'
  BY <1>1, <1>2 DEF CardInv, OthersOK, PressFits, ScreenInv, PressIsTrue
<1>4. Silent(registry) \/ registry.card.message \in Messages
  BY DEF Silent, CardInv, Shape, Registries, Cards, Registered
<1>5. CardIsTrue'
  BY <1>1, <1>2, <1>4 DEF ScreenInv, CardIsTrue, Unregistered
<1> QED BY <1>1, <1>3, <1>5 DEF ScreenInv

-----------------------------------------------------------------------------
(* A press that reads the lot leaves what is shown true.                   *)
LEMMA ReadingLeavesItTrue ==
  ASSUME ScreenInv, NEW m, NEW body, NEW watch,
         Pressed(m, body, watch), ~body.ended, watch = "Start" => body.mark
  PROVE  ScreenInv'
<1>1. /\ registry' = registry /\ screen' = screen /\ unheard' = unheard /\ press = NoPress
      /\ press'.step = "Read" /\ press'.body = body /\ press'.watch = watch
  BY DEF Pressed, cardHistory
<1>2. CardIsTrue'
  <2>1. \A n : ~Unregistered(n) /\ ~Unregistered(n)'
    BY <1>1 DEF Unregistered, NoPress
  <2> QED BY <1>1, <2>1 DEF ScreenInv, CardIsTrue
<1>3. PressIsTrue'
  BY <1>1 DEF PressIsTrue
<1> QED BY <1>1, <1>2, <1>3 DEF ScreenInv

(* Every press that reads the lot.                                         *)
LEMMA PressesLeaveItTrue ==
  ASSUME ScreenInv, NEW m \in Messages,
         \/ PressMenu(m)
         \/ \E lot \in Lots : \/ PressLot(m, lot) \/ PressBid(m, lot)
                              \/ PressWatch(m, lot) \/ PressUnwatch(m, lot)
  PROVE  ScreenInv'
<1>1. CASE PressMenu(m)
  BY <1>1, ReadingLeavesItTrue DEF PressMenu, Menu
<1>2. ASSUME NEW lot \in Lots,
             \/ PressLot(m, lot) \/ PressBid(m, lot)
             \/ PressWatch(m, lot) \/ PressUnwatch(m, lot)
      PROVE  ScreenInv'
  <2> PICK watch \in {"None", "Start", "Stop"}, outcome \in BOOLEAN :
        Pressed(m, CardBody(lot, outcome, watch), watch)
    BY <1>2 DEF PressLot, PressBid, PressWatch, PressUnwatch
  <2> DEFINE body == CardBody(lot, outcome, watch)
  <2>1. ~body.ended /\ (watch = "Start" => body.mark)
    BY DEF CardBody
  <2> HIDE DEF body
  <2> QED BY <2>1, ReadingLeavesItTrue DEF body
<1> QED BY <1>1, <1>2

(* The auction that goes on, and a press that fails.                       *)
LEMMA MovingLeavesItTrue ==
  ASSUME ScreenInv, AuctionMoves \/ PressFails
  PROVE  ScreenInv'
<1>1. CASE AuctionMoves
  BY <1>1, StayingAlike DEF AuctionMoves, cardHistory, Elsewhere, Alike
<1>2. CASE PressFails
  <2>1. /\ registry' = registry /\ screen' = screen /\ unheard' = unheard
        /\ press' = NoPress /\ press.step = "Read"
    BY <1>2 DEF PressFails, cardHistory
  <2>2. PressIsTrue'
    BY <2>1 DEF PressIsTrue, NoPress
  <2>3. \A n : ~Unregistered(n) /\ ~Unregistered(n)'
    BY <2>1 DEF Unregistered, NoPress
  <2>4. CardIsTrue'
    BY <2>1, <2>3 DEF ScreenInv, CardIsTrue
  <2> QED BY <2>1, <2>2, <2>4 DEF ScreenInv
<1> QED BY <1>1, <1>2

(* A screen drawn without the registry, of a message where no press is     *)
(* drawn already: the registry has not heard of it, or is about to, or     *)
(* only the mark has changed.                                              *)
LEMMA DrawnElsewhere ==
  ASSUME CardInv, ScreenInv, NEW m \in Messages, NEW body, NEW what,
         registry' = registry, press.step # "Drawn",
         screen' = [screen EXCEPT ![m] = body], unheard' = [unheard EXCEPT ![m] = what],
         \/ what = "Screen"
         \/ Unregistered(m)'
         \/ /\ what = "Keyboard" /\ unheard[m] # "Screen"
            /\ body = [screen[m] EXCEPT !.mark = FALSE]
  PROVE  CardIsTrue'
<1> DEFINE n == registry.card.message
<1>1. /\ screen \in [Messages -> CardScreens]
      /\ unheard \in [Messages -> {"Nothing", "Keyboard", "Screen"}]
      /\ \A k : ~Unregistered(k)
  BY DEF CardInv, OthersOK, Unregistered
<1>2. CASE Silent(registry)
  BY <1>2 DEF CardIsTrue
<1>3. CASE ~Silent(registry) /\ n # m
  <2>1. n \in Messages
    BY <1>3 DEF Silent, CardInv, Shape, Registries, Cards, Registered
  <2>2. screen'[n] = screen[n] /\ unheard'[n] = unheard[n]
    BY <1>1, <1>3, <2>1
  <2> QED BY <1>1, <1>3, <2>2 DEF ScreenInv, CardIsTrue
<1>4. CASE ~Silent(registry) /\ n = m
  <2>1. screen'[m] = body /\ unheard'[m] = what
    BY <1>1
  <2>2. CASE what = "Screen" \/ Unregistered(m)'
    BY <1>4, <2>1, <2>2 DEF CardIsTrue
  <2>3. CASE /\ what = "Keyboard" /\ unheard[m] # "Screen"
             /\ body = [screen[m] EXCEPT !.mark = FALSE]
    <3>1. Portrays(screen[m], registry.card)
      BY <1>1, <1>4, <2>3 DEF ScreenInv, CardIsTrue
    <3>2. Portrays(body, registry.card)
      <4>1. screen[m] \in CardScreens
        BY <1>1
      <4> QED BY <2>3, <3>1, <4>1 DEF Portrays, CardScreens
    <3> QED BY <1>4, <2>1, <2>3, <3>2 DEF CardIsTrue, Portrays
  <2> QED BY <2>2, <2>3
<1> QED BY <1>2, <1>3, <1>4

(* Telegram draws a press, and the registry does not know it yet, or never *)
(* will; a question takes a keyboard off.                                  *)
LEMMA DrawingLeavesItTrue ==
  ASSUME CardInv, ScreenInv,
         PressIsDrawn \/ PressAnswerLost \/ \E m \in Messages : PressAsk(m)
  PROVE  ScreenInv'
<1> DEFINE p == press.message
<1>0. /\ screen \in [Messages -> CardScreens]
      /\ unheard \in [Messages -> {"Nothing", "Keyboard", "Screen"}]
      /\ press.step # "None" => p \in Messages
  BY DEF CardInv, OthersOK, PressFits
<1>1. CASE PressIsDrawn
  <2>1. /\ registry' = registry /\ p \in Messages /\ press.step = "Read"
        /\ screen' = [screen EXCEPT ![p] = press.body]
        /\ unheard' = [unheard EXCEPT ![p] = "Nothing"]
        /\ press'.step = "Drawn" /\ press'.message = p /\ press'.body = press.body
        /\ press'.watch = press.watch
    BY <1>0, <1>1 DEF CardInv, OthersOK, PressIsDrawn
  <2>2. PressIsTrue'
    <3>1. screen'[press'.message] = press'.body
      BY <1>0, <2>1
    <3> QED BY <2>1, <3>1 DEF ScreenInv, PressIsTrue
  <2>3. Unregistered(p)'
    BY <2>1 DEF Unregistered
  <2>4. CardIsTrue'
    BY <2>1, <2>3, DrawnElsewhere
  <2> QED BY <2>1, <2>2, <2>4 DEF ScreenInv
<1>2. CASE PressAnswerLost
  <2>1. /\ registry' = registry /\ p \in Messages /\ press.step = "Read" /\ press' = NoPress
        /\ screen' = [screen EXCEPT ![p] = press.body]
        /\ unheard' = [unheard EXCEPT ![p] = "Screen"]
    BY <1>0, <1>2 DEF PressAnswerLost
  <2>2. PressIsTrue'
    BY <2>1 DEF PressIsTrue, NoPress
  <2>3. CardIsTrue'
    BY <2>1, DrawnElsewhere
  <2> QED BY <2>1, <2>2, <2>3 DEF ScreenInv
<1>3. ASSUME NEW m \in Messages, PressAsk(m)
      PROVE  ScreenInv'
  <2> DEFINE body == [screen[m] EXCEPT !.mark = FALSE]
             what == IF unheard[m] = "Nothing" THEN "Keyboard" ELSE unheard[m]
  <2>1. /\ registry' = registry /\ press = NoPress /\ press' = press
        /\ screen' = [screen EXCEPT ![m] = body]
        /\ unheard' = [unheard EXCEPT ![m] = what]
    BY <1>0, <1>3 DEF PressAsk
  <2>2. what = "Screen" \/ (what = "Keyboard" /\ unheard[m] # "Screen")
    BY <1>0
  <2>3. press.step = "None" /\ PressIsTrue'
    BY <2>1 DEF PressIsTrue, NoPress
  <2>4. CardIsTrue'
    BY <2>1, <2>2, <2>3, DrawnElsewhere
  <2> QED BY <2>1, <2>3, <2>4 DEF ScreenInv
<1> QED BY <1>1, <1>2, <1>3

(* The registry hears of a press, and believes what it has drawn; a mark   *)
(* that is missing is redrawn, or the press is ahead of the stream.        *)
LEMMA HearingLeavesItTrue ==
  ASSUME CardInv, ScreenInv, PressIsShown
  PROVE  ScreenInv'
<1> DEFINE r == registry
           q == Shown(r, press)
           p == press.message
           body == press.body
<1>1. /\ r' = q /\ screen' = screen /\ press' = NoPress /\ press.step = "Drawn"
      /\ Shape(r) /\ Tied(r) /\ PressFits(press)
      /\ screen \in [Messages -> CardScreens] /\ body \in CardScreens
      /\ unheard \in [Messages -> {"Nothing", "Keyboard", "Screen"}]
      /\ Shape(q) /\ OnTheLot(r)
      /\ unheard' =
           IF q.card.message = p /\ Unmarked(body)
           THEN [unheard EXCEPT ![p] = IF @ = "Nothing" THEN "Keyboard" ELSE @]
           ELSE unheard
  BY PressShown DEF CardInv, OthersOK, ScreenInv, PressIsShown, Heeds, PressFits
<1>2. PressIsTrue'
  BY <1>1 DEF PressIsTrue, NoPress
<1>3. /\ Tied(q)
      /\ \/ Silent(q)
         \/ q = r /\ r.card.message # p
         \/ /\ TakenUp(r, press, q) /\ Undisputed(r, q, press)
            /\ press.watch # "Stop" /\ body # Menu
  BY <1>1, PressIsHeard
<1>4. Unmarked(body) <=> (q.card.watching /\ ~body.mark /\ AheadOfStream(body))
  BY <1>1 DEF Unmarked
<1> HIDE DEF q
<1>5. CASE Silent(q)
  BY <1>1, <1>2, <1>3, <1>5 DEF ScreenInv, CardIsTrue
<1>6. CASE q = r /\ r.card.message # p
  <2>1. ~Unregistered(r.card.message)
    BY <1>6 DEF Unregistered
  <2>2. unheard' = unheard
    BY <1>1, <1>6
  <2>3. CardIsTrue'
    BY <1>1, <1>6, <2>1, <2>2 DEF ScreenInv, CardIsTrue
  <2> QED BY <1>1, <1>2, <1>3, <2>3 DEF ScreenInv
<1>7. CASE /\ TakenUp(r, press, q) /\ Undisputed(r, q, press) /\ ~Silent(q)
           /\ press.watch # "Stop" /\ body # Menu
  <2>1. /\ ~body.ended /\ (press.watch = "Start" => body.mark)
        /\ unheard[p] = "Screen" \/ screen[p] = body
    BY <1>1 DEF ScreenInv, PressIsTrue
  <2>2. q.card.message = p /\ p \in Messages /\ ~q.card.ending /\ q.card \in Cards
        /\ q.card.version # 0
    BY <1>1, <1>7 DEF TakenUp, Silent, PressFits, Shape, Registries
  <2>3. Portrays(body, q.card)
    BY <1>1, <1>7, <2>1, <2>2 DEF Portrays, Body, TakenUp, CardScreens, Cards
  <2>4. unheard'[p] = "Screen" <=> unheard[p] = "Screen"
    BY <1>1, <2>2
  <2>5. ASSUME q.card.watching, unheard'[p] = "Nothing", ~body.mark
        PROVE  FALSE
    <3>1. ~AheadOfStream(body)
      BY <1>1, <1>4, <2>2, <2>5
    <3>2. r.card.message = p
      BY <1>7, <2>1, <2>5 DEF TakenUp
    <3> DEFINE k == r.latest
               lot == LotOf(body.lot, k)
    <3>3. /\ k # 0 /\ k \in States /\ body.lot \in Lots
          /\ ~(lot = body.lot /\ Version(lot, k) < body.version)
      BY <1>1, <1>7, <3>1 DEF AheadOfStream, Shape, Registries, PressFits
    <3>4. q.latest = k /\ ~Outdrawn(q, body, lot)
      BY <1>7, <3>2, <3>3 DEF Undisputed
    <3>5. lot \in Lots /\ Version(lot, k) \in Nat /\ body.version \in Nat /\ body.version # 0
      BY <1>1, <1>7, <2>2, <3>3, Course0 DEF TakenUp, CardScreens
    <3>6. CASE Listed(lot, k)
      BY <2>5, <3>3, <3>4, <3>5, <3>6 DEF Outdrawn
    <3>7. CASE ~Listed(lot, k)
      <4>1. lot = body.lot /\ Version(body.lot, k) = 0
        BY <3>3, <3>7, ActiveIsListed
      <4> QED BY <3>3, <3>5, <4>1
    <3> QED BY <3>6, <3>7
  <2>6. CardIsTrue'
    BY <1>1, <2>1, <2>2, <2>3, <2>4, <2>5 DEF CardIsTrue, Portrays
  <2> QED BY <1>1, <1>2, <1>3, <2>6 DEF ScreenInv
<1> QED BY <1>3, <1>5, <1>6, <1>7

(* A limit given leaves what is shown true.                                *)
LEMMA LimitsLeaveItTrue ==
  ASSUME CardInv, ScreenInv, NEW lot \in Lots, LimitAccepted(lot)
  PROVE  ScreenInv'
<1>1. /\ Elsewhere /\ registry' = ProxyLimitSet(registry, lot)
      /\ Shape(registry) /\ OnTheLot(registry)
  BY DEF LimitAccepted, cardHistory, Elsewhere, CardInv
<1>2. Unclaimed(registry') \/ registry' = registry
  BY <1>1, LimitIsSet
<1> QED BY <1>1, <1>2, ClaimingNothing, StayingAlike DEF Alike

-----------------------------------------------------------------------------
(* The calls to the bucket leave what is shown true.                       *)
LEMMA BucketLeavesItTrue ==
  ASSUME CardInv, ScreenInv,
         \/ \E i \in DOMAIN registry.writes : RecordIsWritten(i) \/ WriteFails(i)
         \/ \E i \in DOMAIN strays : StrayIsWritten(i)
         \/ RecordsAreRead \/ ReadFails
  PROVE  ScreenInv'
<1>1. Shape(registry)
  BY DEF CardInv
<1>2. ASSUME NEW i \in DOMAIN registry.writes, RecordIsWritten(i) \/ WriteFails(i)
      PROVE  ScreenInv'
  <2>1. Elsewhere /\ registry' = Answered(registry, i)
    BY <1>2 DEF RecordIsWritten, WriteFails, Elsewhere
  <2> QED BY <1>1, <2>1, CallIsAnswered, StayingAlike
<1>3. CASE RecordsAreRead \/ ReadFails \/ \E i \in DOMAIN strays : StrayIsWritten(i)
  <2>1. Elsewhere /\ registry' = registry
    BY <1>3 DEF RecordsAreRead, ReadFails, StrayIsWritten, cardHistory, Elsewhere
  <2> QED BY <2>1, StayingAlike DEF Alike
<1> QED BY <1>2, <1>3

(* A new process knows nothing of any message.                             *)
LEMMA NothingIsKnownYet ==
  Tied(FreshRegistry) /\ Silent(FreshRegistry)
BY FreshShape, LooseWithoutACard, LooseIsTied
   DEF Unclaimed, FreshRegistry, NoCard, Registered

(* A process that starts takes up a card it has yet to draw.               *)
LEMMA StartingLeavesItTrue ==
  ASSUME CardInv, ScreenInv, Restart \/ RecordsAreRestored
  PROVE  ScreenInv'
<1>1. CASE Restart
  <2>1. registry' = FreshRegistry /\ press' = NoPress
    BY <1>1 DEF Restart
  <2>2. PressIsTrue'
    BY <2>1 DEF PressIsTrue, NoPress
  <2> QED BY <2>1, <2>2, NothingIsKnownYet DEF ScreenInv, CardIsTrue
<1>2. CASE RecordsAreRestored
  <2>1. /\ Elsewhere /\ registry' = Restored(registry, restoring.found)
        /\ restoring.found \in Records /\ Shape(registry)
    BY <1>2 DEF RecordsAreRestored, Elsewhere, CardInv, OthersOK
  <2> QED BY <2>1, CardIsRestored, ClaimingNothing, StayingAlike
<1> QED BY <1>1, <1>2

-----------------------------------------------------------------------------
(* A process that starts claims nothing.                                   *)
LEMMA ScreenInitially == CardInit => ScreenInv
<1> SUFFICES ASSUME CardInit PROVE ScreenInv
  OBVIOUS
<1>1. registry = FreshRegistry /\ press = NoPress
  BY DEF CardInit
<1> QED BY <1>1, NothingIsKnownYet DEF ScreenInv, CardIsTrue, PressIsTrue, NoPress

(* Every step keeps it.                                                    *)
LEMMA ScreenInductive == CardInv /\ ScreenInv /\ [CardNext]_cardVars => ScreenInv'
<1> SUFFICES ASSUME CardInv, ScreenInv, [CardNext]_cardVars PROVE ScreenInv'
  OBVIOUS
<1>1. CASE \/ \E k \in States : StreamShows(k)
           \/ StreamDenied \/ Evicted
  BY <1>1, StreamLeavesItTrue
<1>2. ASSUME NEW m \in Messages,
             \/ EditStarts(m) \/ EditAnswerLost(m)
             \/ \E why \in {"Failed", "Gone", "RetryAfter"} : EditRefused(m, why)
      PROVE  ScreenInv'
  BY <1>2, EditsLeaveItTrue
<1>3. ASSUME NEW m \in Messages, EditLands(m) PROVE ScreenInv'
  BY <1>3, LandingShowsTheCard
<1>4. ASSUME NEW m \in Messages, EditAnswered(m) PROVE ScreenInv'
  BY <1>4, AnswersLeaveItTrue
<1>5. ASSUME NEW m \in Messages,
             \/ PressMenu(m)
             \/ \E lot \in Lots : \/ PressLot(m, lot) \/ PressBid(m, lot)
                                  \/ PressWatch(m, lot) \/ PressUnwatch(m, lot)
      PROVE  ScreenInv'
  BY <1>5, PressesLeaveItTrue
<1>6. CASE AuctionMoves \/ PressFails
  BY <1>6, MovingLeavesItTrue
<1>7. CASE PressIsDrawn \/ PressAnswerLost \/ \E m \in Messages : PressAsk(m)
  BY <1>7, DrawingLeavesItTrue
<1>8. CASE PressIsShown
  BY <1>8, HearingLeavesItTrue
<1>9. ASSUME NEW lot \in Lots, LimitAccepted(lot) PROVE ScreenInv'
  BY <1>9, LimitsLeaveItTrue
<1>10. CASE \/ \E i \in DOMAIN registry.writes : RecordIsWritten(i) \/ WriteFails(i)
            \/ \E i \in DOMAIN strays : StrayIsWritten(i)
            \/ RecordsAreRead \/ ReadFails
  BY <1>10, BucketLeavesItTrue
<1>11. CASE Restart \/ RecordsAreRestored
  BY <1>11, StartingLeavesItTrue
<1>12. CASE \E edit \in late : LateEditLands(edit)
  BY <1>12, LateEditsLeaveItTrue
<1>13. CASE UNCHANGED cardVars
  BY <1>13 DEF cardVars, cardHistory, ScreenInv, CardIsTrue, PressIsTrue, Unregistered
<1> QED
  BY <1>1, <1>2, <1>3, <1>4, <1>5, <1>6, <1>7, <1>8, <1>9, <1>10, <1>11, <1>12, <1>13
     DEF CardNext

-----------------------------------------------------------------------------
(* The types and the shape of the registry of live-cards.ts: a card is of  *)
(* a lot, its edits are the only current ones, and a card forgotten leaves *)
(* nothing of its feed.                                                    *)
THEOREM CardTypeCorrect == CardSpec => []CardTypeOK
<1>1. CardInv => CardTypeOK
  BY DEF CardInv, Shape, OthersOK, CardTypeOK
<1> QED BY <1>1, Invariance, PTL

(* Presses, stream, refused edits and limits in any order and number: a    *)
(* live card of live-cards.ts is on the lot being traded in the last state *)
(* the stream has shown, and not behind that state.                        *)
THEOREM CardOnTheLot == CardSpec => []SettledOnTheLot
<1>1. CardInv => SettledOnTheLot
  BY DEF CardInv, OnTheLot, SettledOnTheLot
<1> QED BY <1>1, Invariance, PTL

(* Calls to the bucket in any order, superseded and checked by their       *)
(* generation (writeGen of live-cards.ts), calls of processes that are     *)
(* gone, and processes that start and take up its record: once nothing of  *)
(* the process is under way the record is there just when the chat         *)
(* watches, and is of the watched message and the lot saved, but for the   *)
(* excuses RecordFollowsTheWatch names.                                    *)
THEOREM RecordFollows == CardSpec => []RecordFollowsTheWatch
<1>1. CardInv => RecordFollowsTheWatch
  <2> SUFFICES ASSUME CardInv, registry.writes = <<>>, restoring = NotRestoring, ~astray
               PROVE  /\ record # NoRecord <=> registry.card.watching
                      /\ (registry.card.watching /\ ~misplaced) =>
                           record = [message |-> registry.card.message, lot |-> registry.saved]
    BY DEF RecordFollowsTheWatch
  <2>1. Kept(registry, record, restoring, misplaced) /\ restoring.step = "None"
    BY DEF CardInv, NotRestoring
  <2>2. Fits(record, registry) \/ (misplaced /\ Lax(record, registry))
    BY <2>1 DEF Kept, Renewed
  <2>3. registry.card.watching => registry.card.message # NoMessage
    BY DEF CardInv, Shape, NothingIsLeft, Registered
  <2> QED BY <2>2, <2>3 DEF Fits, Wanted, Lax, NoRecord
<1> QED BY <1>1, Invariance, PTL

(* Presses, edits and the stream of live-cards.ts racing for one message,  *)
(* with refused, lost and repeated edits, lost presses, questions, and     *)
(* processes that take up a watched card while edits of their predecessors *)
(* still land: once nothing is under way the message shows what the        *)
(* registry believes, with its mark when it is watched, but for the        *)
(* excuses SettledCardIsTrue names.                                        *)
THEOREM SettledIsTrue == CardSpec => []SettledCardIsTrue
<1>1. CardInv /\ ScreenInv => SettledCardIsTrue
  <2> SUFFICES ASSUME CardInv, ScreenInv, NEW m \in Messages, registry.card.message = m,
                      ~registry.card.ending, Quiet(m), unheard[m] # "Screen",
                      registry.card.version # 0
               PROVE  /\ [screen[m] EXCEPT !.mark = registry.card.watching] = Body(registry.card)
                      /\ (registry.card.watching /\ unheard[m] = "Nothing") => screen[m].mark
    BY DEF SettledCardIsTrue
  <2>1. ~Silent(registry)
    BY CourseAssumption DEF Silent, OnItsWay, Quiet, NoEdit, Registered
  <2>2. ~Unregistered(m)
    BY DEF Unregistered, Quiet, NoPress
  <2> QED BY <2>1, <2>2 DEF ScreenInv, CardIsTrue, Portrays
<1>2. CardSpec => [](CardInv /\ ScreenInv)
  <2>1. CardInit => CardInv /\ ScreenInv
    BY Initially, ScreenInitially
  <2>2. CardInv /\ ScreenInv /\ [CardNext]_cardVars => (CardInv /\ ScreenInv)'
    BY Inductive, ScreenInductive
  <2> QED BY <2>1, <2>2, PTL DEF CardSpec
<1> QED BY <1>1, <1>2, PTL
=============================================================================
