------------------------- MODULE AuctionPhaseProofs -------------------------
(***************************************************************************)
(* A lot and its auction agree on the phase, and the frozen line-up stands *)
(* and is closed, for any number of auctions, lots, calls and faults.      *)
(*                                                                         *)
(* Why an auction and its lots agree on the phase, though the auction only *)
(* hears of its lots: it knows a lot from the last answer, and that answer *)
(* stays true until a call to the lot is handled.  So for each lot the     *)
(* invariant goes by its queue, which the lot handles and its auction gives*)
(* up in order (InLine): while nothing is waited for but removals (Calm),  *)
(* only a removal can change what is known, and the auction counts those   *)
(* (Counted); a lot that was asked last has its sales and removals behind  *)
(* it (LastAsked).  Hence the note that all lots are settled is right when *)
(* it is handled, whatever has been asked since (Noted), the frozen lots   *)
(* are held, and nothing is on its way to them that would end them         *)
(* (Frozen).  A lot that a stray call has moved, or for which an answer to *)
(* an earlier question stood, is excused.  The steps below show for one lot*)
(* at a time what a call, an answer and a silence do to all this.          *)
(***************************************************************************)
EXTENDS AuctionsProofs

-----------------------------------------------------------------------------
(* The inductive invariant.                                                *)

(* The queue of a lot is handled in its order, and given up in it.         *)
InLine(q) ==
  /\ \A i \in DOMAIN q : ~q[i].waits => q[i].answer = "None"
  /\ \A i, j \in DOMAIN q : i < j =>
       /\ q[i].waits => q[j].waits
       /\ q[j].answer \notin {"None", "Lost"} => q[i].answer # "None"

(* A removal that its auction waits for.                                   *)
Removing(c) == c.kind = "Remove" /\ c.waits

(* There are n of them at most: they can be numbered.                      *)
Counted(q, n) ==
  \E f \in [DOMAIN q -> Nat] : \A i, j \in DOMAIN q :
    Removing(q[i]) /\ Removing(q[j]) => f[i] \in 1 .. n /\ (f[i] = f[j] => i = j)

BeforeTrade == {"Draft", "Scheduled"}

(* What a lot has recorded goes with its phase.                            *)
Consistent(s) ==
  /\ s.phase \in {"Online", "Held", "Live"} => "Open" \in s.seen
  /\ s.phase \in {"Held", "Live"} => "Close" \in s.seen
  /\ "Close" \in s.seen /\ "Held" \notin s.seen => s.phase \in Over
  /\ "Held" \in s.seen => s.phase \notin BeforeTrade

(* A question is answered by a report.  An answer that says that a lot was *)
(* not opened, or is closed, is true for good.                             *)
TellsTruth(c, s) ==
  /\ c.kind = "Ask" => c.answer \in {"None", "Lost", "NotOpen", "Trading", "Held", "Over"}
  /\ c.kind = "Open" /\ c.answer \notin {"None", "Lost", "Opened"} =>
       s.phase \in {"Draft"} \cup Over
  /\ c.kind = "Close" /\ c.answer \notin {"None", "Lost", "Refused", "Held"} => s.phase \in Over
  /\ c.kind = "Close" /\ c.answer = "Held" => "Held" \in s.seen

(* A lot that its auction does not deal with, or not yet.                  *)
Aside(au, l) == au.phase \in Unplanned \/ l \notin au.registry

Apart(q, s, st) ==
  s.phase \in BeforeTrade /\ st \subseteq {"Sale"} /\ \A c \in Members(q) : c.kind = "Sale"

(* Nothing but a removal is on its way.                                    *)
Calm(q) == \A c \in Members(q) : c.answer = "Lost" \/ c.kind = "Remove"

(* The last question is waited for, and its answer is still true.          *)
LastAsked(q, s) ==
  \E i \in DOMAIN q :
    /\ q[i].kind = "Ask" /\ q[i].waits
    /\ \A j \in DOMAIN q : i < j => q[j].kind = "Remove"
    /\ q[i].answer = "Held" => s.phase = "Held"
    /\ q[i].answer = "NotOpen" => s.phase \in BeforeTrade

(* A call of this kind is waited for, and no other one is on its way.      *)
Sole(q, kind) ==
  \E i \in DOMAIN q :
    /\ q[i].kind = kind /\ q[i].waits
    /\ \A j \in DOMAIN q : j = i \/ q[j].answer = "Lost" \/ q[j].kind = "Remove"

(* What an auction that asks its lots knows of one of them.                *)
Known(phase, k, q, s) ==
  /\ k \notin {"None", "Withdrawing", "Withdrawn"}
  /\ k = "Asked" => LastAsked(q, s)
  /\ k = "Opening" => Sole(q, "Open")
  /\ k = "Closing" /\ phase # "Break" => Sole(q, "Close")
  /\ k = "Active" => Calm(q)
  /\ k = "Held" => /\ Calm(q) /\ s.phase = "Held"
                   /\ \A c \in Members(q) : c.answer # "Lost" => c.waits
  /\ k \in {"Declined", "NotOpened"} => Calm(q) /\ s.phase \in BeforeTrade \cup Over
  /\ k = "Closed" => s.phase \in Over /\ (phase # "Break" => Calm(q))

(* Until the break no sale reaches a lot that is open.                     *)
Unsold(q, s, st) ==
  /\ "Held" \in s.seen => s.phase = "Held"
  /\ \A c \in Members(q) : c.kind = "Sale" /\ c.answer # "Lost" =>
       /\ s.phase \in BeforeTrade /\ "Open" \notin st
       /\ \A d \in Members(q) : d.kind # "Open"

(* The online trading is over for a lot.                                   *)
Offline(q, s) ==
  s.phase # "Online" /\ \A c \in Members(q) : c.answer = "Lost" \/ c.kind \notin {"Open", "Close"}

(* The auction has noted that its lots are settled.                        *)
HasNoted(au, settle) == au.phase = "Settling" /\ settle # {}

Noted(k, q, s, settle) ==
  /\ k \in {"Held", "Asked", "Unanswered", "Closed", "Declined", "NotOpened"}
  /\ k \in {"Held", "Asked", "Unanswered"} =>
       /\ s.phase = "Held" /\ FALSE \notin settle
       /\ \A c \in Members(q) : c.kind = "Ask" => c.answer \in {"None", "Lost", "Held"}

TradedOnline(au, settle) ==
  au.phase \in {"Break", "LineupFrozen", "Final", "Finished"} \/ HasNoted(au, settle)

(* The line-up is frozen for a lot.                                        *)
Frozen(q, s) ==
  /\ s.phase \in {"Held", "Live"}
  /\ \A c \in Members(q) : c.answer = "None" => c.kind \notin {"Sale", "Remove"}

Placed(au, settle, l, q, s, st) ==
  /\ au.phase \in {"Prebidding", "Settling"} => Unsold(q, s, st)
  /\ TradedOnline(au, settle) => Offline(q, s)
  /\ au.phase \in {"LineupFrozen", "Final"} /\ l \notin Members(au.order) => s.phase # "Held"
  /\ au.phase = "Finished" => s.phase \in BeforeTrade \cup Over
  /\ AwaitsItsTurn(au, l) => Frozen(q, s)

(* A lot and its calls, in an auction that has the notes `settle` and      *)
(* counts n removals.                                                      *)
InPhase(au, settle, l, q, s, st, n, excused) ==
  /\ InLine(q) /\ Consistent(s) /\ \A c \in Members(q) : TellsTruth(c, s)
  /\ Aside(au, l) => Apart(q, s, st)
  /\ au.phase \in Holding => Counted(q, n)
  /\ au.phase # "Cancelled" => "Withdraw" \notin st /\ \A c \in Members(q) : c.kind # "Withdraw"
  /\ excused \/ Placed(au, settle, l, q, s, st)

(* And what the auction knows of it.                                       *)
IsKnown(au, settle, l, k, q, s, excused) ==
  /\ Aside(au, l) => k = "None"
  /\ au.phase \in Asking /\ ~Aside(au, l) => excused \/ Known(au.phase, k, q, s)
  /\ HasNoted(au, settle) /\ ~Aside(au, l) => excused \/ Noted(k, q, s, settle)

Registered(au, settle) ==
  /\ Members(au.activated) \subseteq Members(au.order)
  /\ Members(au.order) \subseteq au.registry
  /\ au.phase \notin {"LineupFrozen", "Final", "Finished", "Cancelled"} => Members(au.order) = {}
  /\ settle # {} => au.phase \notin Unplanned \cup {"Prebidding"}

LotHolds(au, settle, l, k, q, s, st, n, excused) ==
  /\ InPhase(au, settle, l, q, s, st, n, excused)
  /\ IsKnown(au, settle, l, k, q, s, excused)

PhaseInv ==
  /\ \A a \in Auctions : Registered(auction[a], notes[a].settle)
  /\ \A l \in Lots :
       LotHolds(auction[AuctionOf[l]], notes[AuctionOf[l]].settle, l, know[l], calls[l], lot[l],
                strays[l], removals[l], l \in astray)

-----------------------------------------------------------------------------
(* Queues: a call more, a call less, a call replaced.                      *)

LEMMA CallsOf ==
  ASSUME NEW q \in Seq(LotCalls)
  PROVE  /\ DOMAIN q = 1 .. Len(q) /\ Len(q) \in Nat
         /\ \A i \in DOMAIN q : q[i] \in LotCalls /\ q[i] \in Members(q)
         /\ Members(q) \subseteq LotCalls
<1>1. DOMAIN q = 1 .. Len(q) /\ Len(q) \in Nat
  BY LenProperties
<1>2. \A i \in DOMAIN q : q[i] \in LotCalls
  BY <1>1, ElementOfSeq
<1> QED BY <1>1, <1>2 DEF Members

LEMMA AppendIs ==
  ASSUME NEW q \in Seq(LotCalls), NEW c \in LotCalls
  PROVE  /\ Append(q, c) \in Seq(LotCalls)
         /\ DOMAIN Append(q, c) = DOMAIN q \cup {Len(q) + 1} /\ Append(q, c)[Len(q) + 1] = c
         /\ \A i \in DOMAIN q : Append(q, c)[i] = q[i] /\ i < Len(q) + 1
         /\ DOMAIN q \subseteq Nat /\ Len(q) + 1 \in Nat
         /\ Members(Append(q, c)) = Members(q) \cup {c}
<1>1. /\ Append(q, c) \in Seq(LotCalls) /\ Len(Append(q, c)) = Len(q) + 1
      /\ \A i \in 1 .. Len(q) : Append(q, c)[i] = q[i]
      /\ Append(q, c)[Len(q) + 1] = c
  BY AppendProperties
<1>2. DOMAIN q = 1 .. Len(q) /\ Len(q) \in Nat
  BY CallsOf
<1>3. DOMAIN Append(q, c) = 1 .. Len(q) + 1
  BY <1>1, LenProperties
<1>4. /\ DOMAIN Append(q, c) = DOMAIN q \cup {Len(q) + 1} /\ DOMAIN q \subseteq Nat
      /\ \A i \in DOMAIN q : i < Len(q) + 1
  BY <1>2, <1>3
<1>5. Members(Append(q, c)) = Members(q) \cup {c}
  BY <1>1, <1>2, <1>4 DEF Members
<1> QED BY <1>1, <1>2, <1>4, <1>5

LEMMA ReplacedIs ==
  ASSUME NEW q \in Seq(LotCalls), NEW i \in DOMAIN q, NEW c \in LotCalls
  PROVE  /\ [q EXCEPT ![i] = c] \in Seq(LotCalls)
         /\ DOMAIN [q EXCEPT ![i] = c] = DOMAIN q /\ DOMAIN q \subseteq Nat
         /\ \A j \in DOMAIN q : [q EXCEPT ![i] = c][j] = IF j = i THEN c ELSE q[j]
         /\ Members([q EXCEPT ![i] = c]) \subseteq Members(q) \cup {c}
<1>1. DOMAIN q = 1 .. Len(q) /\ Len(q) \in Nat
  BY CallsOf
<1>2. [q EXCEPT ![i] = c] \in Seq(LotCalls)
  BY ReplacedCall
<1> QED BY <1>1, <1>2 DEF Members

-----------------------------------------------------------------------------
(* The order of a queue.                                                   *)

LEMMA LineAppended ==
  ASSUME NEW q \in Seq(LotCalls), InLine(q), NEW kind \in Kinds
  PROVE  InLine(Append(q, Call(kind)))
<1>1. Call(kind) \in LotCalls /\ Call(kind).answer = "None" /\ Call(kind).waits
  BY CallType DEF Call
<1> DEFINE r == Append(q, Call(kind))
           n == Len(q) + 1
<1>2. /\ DOMAIN r = DOMAIN q \cup {n} /\ r[n] = Call(kind) /\ DOMAIN q \subseteq Nat /\ n \in Nat
      /\ \A i \in DOMAIN q : r[i] = q[i] /\ i < n
  BY <1>1, AppendIs
<1> HIDE DEF r, n
<1>3. \A i \in DOMAIN r : ~r[i].waits => r[i].answer = "None"
  BY <1>1, <1>2 DEF InLine
<1>4. ASSUME NEW i \in DOMAIN r, NEW j \in DOMAIN r, i < j
      PROVE  /\ r[i].waits => r[j].waits
             /\ r[j].answer \notin {"None", "Lost"} => r[i].answer # "None"
  <2>1. CASE j = n
    BY <1>1, <1>2, <2>1
  <2>2. CASE j # n
    <3>1. i \in DOMAIN q /\ j \in DOMAIN q
      BY <1>2, <1>4, <2>2
    <3> QED BY <1>2, <1>4, <3>1 DEF InLine
  <2> QED BY <2>1, <2>2
<1> QED BY <1>3, <1>4 DEF InLine, r

LEMMA LineWithout ==
  ASSUME NEW q \in Seq(LotCalls), InLine(q), NEW i \in DOMAIN q
  PROVE  InLine(Without(q, i))
<1> DEFINE r == Without(q, i)
<1>1. /\ \A j \in DOMAIN r : Place(i, j) \in DOMAIN q /\ r[j] = q[Place(i, j)]
      /\ \A j, k \in DOMAIN r : j < k => Place(i, j) < Place(i, k)
  BY WithoutIs
<1> HIDE DEF r
<1> QED BY <1>1 DEF InLine, r

(* A call is replaced by one that is given up, answered or lost.           *)
LEMMA LineReplaced ==
  ASSUME NEW q \in Seq(LotCalls), InLine(q), NEW i \in DOMAIN q, NEW c \in LotCalls,
         c.waits \/ c.answer = "None",
         c.answer = "None" => q[i].answer = "None",
         c.waits = q[i].waits \/ (~c.waits /\ \A j \in DOMAIN q : j < i => ~q[j].waits),
         c.answer \in {"None", "Lost"} \/ \A j \in DOMAIN q : j < i => q[j].answer # "None"
  PROVE  InLine([q EXCEPT ![i] = c])
<1> DEFINE r == [q EXCEPT ![i] = c]
<1>1. /\ DOMAIN r = DOMAIN q /\ DOMAIN q \subseteq Nat
      /\ \A j \in DOMAIN q : r[j] = IF j = i THEN c ELSE q[j]
  BY ReplacedIs
<1> HIDE DEF r
<1>2. \A j \in DOMAIN r : ~r[j].waits => r[j].answer = "None"
  BY <1>1 DEF InLine
<1>3. ASSUME NEW j \in DOMAIN r, NEW k \in DOMAIN r, j < k
      PROVE  /\ r[j].waits => r[k].waits
             /\ r[k].answer \notin {"None", "Lost"} => r[j].answer # "None"
  BY <1>1, <1>3 DEF InLine
<1> QED BY <1>2, <1>3 DEF InLine, r

-----------------------------------------------------------------------------
(* The removals in a queue.                                                *)

(* The removals among the places S are numbered from 1 to n.               *)
Numbered(f, q, S, n) == \A i, j \in S :
  Removing(q[i]) /\ Removing(q[j]) => f[i] \in 1 .. n /\ (f[i] = f[j] => i = j)

LEMMA CountedAppended ==
  ASSUME NEW q \in Seq(LotCalls), NEW n \in Nat, Counted(q, n), NEW kind \in Kinds
  PROVE  Counted(Append(q, Call(kind)), IF kind = "Remove" THEN n + 1 ELSE n)
<1>1. PICK f \in [DOMAIN q -> Nat] : Numbered(f, q, DOMAIN q, n)
  BY DEF Counted, Numbered
<1>2. Call(kind) \in LotCalls /\ Call(kind).kind = kind
  BY CallType DEF Call
<1> DEFINE r == Append(q, Call(kind))
           k == Len(q) + 1
           g == [i \in DOMAIN r |-> IF i = k THEN n + 1 ELSE f[i]]
<1>3. /\ DOMAIN r = DOMAIN q \cup {k} /\ r[k] = Call(kind)
      /\ \A i \in DOMAIN q : r[i] = q[i] /\ i # k
  <2>1. \A i \in Nat : i < k => i # k
    BY AppendIs, <1>2
  <2> QED BY <1>2, <2>1, AppendIs
<1> HIDE DEF r, k
<1>4. g \in [DOMAIN r -> Nat]
  BY <1>3
<1>5. ASSUME NEW i \in DOMAIN r, NEW j \in DOMAIN r, Removing(r[i]), Removing(r[j])
      PROVE  g[i] \in 1 .. (IF kind = "Remove" THEN n + 1 ELSE n) /\ (g[i] = g[j] => i = j)
  <2>1. \A m \in DOMAIN q : Removing(q[m]) => f[m] \in 1 .. n
    BY <1>1 DEF Numbered
  <2>2. i = k \/ j = k => kind = "Remove"
    BY <1>2, <1>3, <1>5 DEF Removing
  <2> QED BY <1>1, <1>3, <1>5, <2>1, <2>2 DEF Numbered
<1> HIDE DEF g
<1> QED BY <1>4, <1>5 DEF Counted, r

(* One of the removals less.                                               *)
LEMMA CountedBut ==
  ASSUME NEW q \in Seq(LotCalls), NEW n \in Nat, Counted(q, n), NEW i \in DOMAIN q, Removing(q[i])
  PROVE  n > 0 /\ \E g \in [DOMAIN q -> Nat] : Numbered(g, q, DOMAIN q \ {i}, n - 1)
<1>1. PICK f \in [DOMAIN q -> Nat] : Numbered(f, q, DOMAIN q, n)
  BY DEF Counted, Numbered
<1>2. f[i] \in 1 .. n /\ n > 0
  BY <1>1 DEF Numbered
<1> DEFINE g == [j \in DOMAIN q |-> IF f[j] = n THEN f[i] ELSE f[j]]
<1>3. g \in [DOMAIN q -> Nat]
  BY <1>1
<1>4. ASSUME NEW j \in DOMAIN q \ {i}, NEW k \in DOMAIN q \ {i}, Removing(q[j]), Removing(q[k])
      PROVE  g[j] \in 1 .. n - 1 /\ (g[j] = g[k] => j = k)
  <2>1. f[j] \in 1 .. n /\ f[k] \in 1 .. n /\ f[j] # f[i] /\ f[k] # f[i] /\ (f[j] = f[k] => j = k)
    BY <1>1, <1>4 DEF Numbered
  <2> QED BY <1>2, <2>1
<1> HIDE DEF g
<1>5. Numbered(g, q, DOMAIN q \ {i}, n - 1)
  BY <1>4 DEF Numbered
<1> QED BY <1>2, <1>3, <1>5

LEMMA CountedWithout ==
  ASSUME NEW q \in Seq(LotCalls), NEW n \in Nat, Counted(q, n), NEW i \in DOMAIN q
  PROVE  /\ Counted(Without(q, i), n)
         /\ Removing(q[i]) => Counted(Without(q, i), n - 1)
<1> DEFINE r == Without(q, i)
<1>1. /\ \A j \in DOMAIN r : Place(i, j) \in DOMAIN q \ {i} /\ r[j] = q[Place(i, j)]
      /\ \A j, k \in DOMAIN r : Place(i, j) = Place(i, k) => j = k
  <2>1. DOMAIN r \subseteq Nat /\ \A j, k \in DOMAIN r : j < k <=> Place(i, j) < Place(i, k)
    BY WithoutIs
  <2>2. \A j, k \in DOMAIN r : Place(i, j) = Place(i, k) => j = k
    <3>1. DOMAIN q \subseteq Nat
      BY CallsOf
    <3> QED BY <2>1, <3>1, WithoutIs
  <2> QED BY <2>2, WithoutIs
<1> HIDE DEF r
<1>2. ASSUME NEW m, NEW f \in [DOMAIN q -> Nat], Numbered(f, q, DOMAIN q \ {i}, m)
      PROVE  Counted(r, m)
  <2> DEFINE g == [j \in DOMAIN r |-> f[Place(i, j)]]
  <2>1. g \in [DOMAIN r -> Nat]
    BY <1>1
  <2>2. \A j, k \in DOMAIN r : Removing(r[j]) /\ Removing(r[k]) =>
          g[j] \in 1 .. m /\ (g[j] = g[k] => j = k)
    BY <1>1, <1>2 DEF Numbered
  <2> HIDE DEF g
  <2> QED BY <2>1, <2>2 DEF Counted
<1>3. Counted(r, n)
  BY <1>2 DEF Counted, Numbered
<1>4. Removing(q[i]) => Counted(r, n - 1)
  BY <1>2, CountedBut
<1> QED BY <1>3, <1>4 DEF r

LEMMA CountedReplaced ==
  ASSUME NEW q \in Seq(LotCalls), NEW n \in Nat, Counted(q, n), NEW i \in DOMAIN q,
         NEW c \in LotCalls, Removing(c) => Removing(q[i])
  PROVE  /\ Counted([q EXCEPT ![i] = c], n)
         /\ Removing(q[i]) /\ ~Removing(c) => Counted([q EXCEPT ![i] = c], n - 1)
<1> DEFINE r == [q EXCEPT ![i] = c]
<1>1. DOMAIN r = DOMAIN q /\ \A j \in DOMAIN q : r[j] = IF j = i THEN c ELSE q[j]
  BY ReplacedIs
<1> HIDE DEF r
<1>2. Counted(r, n)
  BY <1>1 DEF Counted
<1>3. ASSUME Removing(q[i]), ~Removing(c)
      PROVE  Counted(r, n - 1)
  <2>1. PICK g \in [DOMAIN q -> Nat] : Numbered(g, q, DOMAIN q \ {i}, n - 1)
    BY <1>3, CountedBut
  <2>2. \A j, k \in DOMAIN r : Removing(r[j]) /\ Removing(r[k]) =>
          g[j] \in 1 .. n - 1 /\ (g[j] = g[k] => j = k)
    BY <1>1, <1>3, <2>1 DEF Numbered
  <2> QED BY <1>1, <2>1, <2>2 DEF Counted
<1> QED BY <1>2, <1>3 DEF r

-----------------------------------------------------------------------------
(* A lot in its phase, when its calls change.                              *)

LEMMA FewerCalls ==
  ASSUME NEW au, NEW settle, NEW l, NEW q, NEW s, NEW st, NEW n, NEW excused,
         InPhase(au, settle, l, q, s, st, n, excused),
         NEW r, InLine(r), Members(r) \subseteq Members(q),
         NEW m, au.phase \in Holding => Counted(r, m)
  PROVE  InPhase(au, settle, l, r, s, st, m, excused)
<1>1. Aside(au, l) => Apart(r, s, st)
  BY DEF InPhase, Apart
<1>2. Placed(au, settle, l, q, s, st) => Placed(au, settle, l, r, s, st)
  BY DEF Placed, Unsold, Offline, Frozen
<1> QED BY <1>1, <1>2 DEF InPhase

(* One call is another one than before.                                    *)
LEMMA OtherCall ==
  ASSUME NEW au, NEW settle, NEW l, NEW q, NEW s, NEW st, NEW n, NEW excused,
         InPhase(au, settle, l, q, s, st, n, excused),
         NEW r, NEW c, InLine(r), Members(r) \subseteq Members(q) \cup {c},
         NEW m, au.phase \in Holding => Counted(r, m),
         TellsTruth(c, s), Aside(au, l) => c.kind = "Sale",
         au.phase # "Cancelled" => c.kind # "Withdraw",
         \/ excused
         \/ /\ au.phase \in {"Prebidding", "Settling"} => Unsold(r, s, st)
            /\ TradedOnline(au, settle) => c.answer = "Lost" \/ c.kind \notin {"Open", "Close"}
            /\ AwaitsItsTurn(au, l) => c.answer # "None" \/ c.kind \notin {"Sale", "Remove"}
  PROVE  InPhase(au, settle, l, r, s, st, m, excused)
<1>1. Aside(au, l) => Apart(r, s, st)
  BY DEF InPhase, Apart
<1>2. excused \/ Placed(au, settle, l, r, s, st)
  BY DEF InPhase, Placed, Offline, Frozen
<1> QED BY <1>1, <1>2 DEF InPhase

(* What a person or an auction may ask of a lot.                           *)
MaySend(au, settle, l, q, kind, excused) ==
  /\ Aside(au, l) => kind = "Sale"
  /\ kind = "Withdraw" => au.phase = "Cancelled"
  /\ \/ excused
     \/ /\ kind \in {"Open", "Close"} => ~TradedOnline(au, settle)
        /\ kind = "Sale" => au.phase \notin {"Prebidding", "Settling"}
        /\ kind = "Open" => Calm(q)
        /\ kind \in {"Sale", "Remove"} => ~AwaitsItsTurn(au, l)

LEMMA CallSent ==
  ASSUME NEW au, NEW settle, NEW l, NEW q \in Seq(LotCalls), NEW s, NEW st, NEW n \in Nat, NEW excused,
         InPhase(au, settle, l, q, s, st, n, excused),
         NEW kind \in Kinds, MaySend(au, settle, l, q, kind, excused)
  PROVE  InPhase(au, settle, l, Append(q, Call(kind)), s, st, IF kind = "Remove" THEN n + 1 ELSE n, excused)
<1> DEFINE c == Call(kind)
           r == Append(q, c)
           m == IF kind = "Remove" THEN n + 1 ELSE n
<1>1. c \in LotCalls /\ c.kind = kind /\ c.answer = "None"
  BY CallType DEF Call
<1>2. InLine(r) /\ (au.phase \in Holding => Counted(r, m))
  BY LineAppended, CountedAppended DEF InPhase
<1>3. Members(r) = Members(q) \cup {c}
  BY <1>1, AppendIs
<1>4. TellsTruth(c, s)
  BY <1>1 DEF TellsTruth
<1> HIDE DEF c, r, m
<1>5. ASSUME ~excused, au.phase \in {"Prebidding", "Settling"} PROVE Unsold(r, s, st)
  <2>1. Unsold(q, s, st)
    BY <1>5 DEF InPhase, Placed
  <2>2. kind # "Sale" /\ (kind = "Open" => Calm(q))
    BY <1>5 DEF MaySend
  <2>3. \A d \in Members(r) : d.kind = "Sale" => d \in Members(q)
    BY <1>1, <1>3, <2>2
  <2>4. ASSUME NEW d \in Members(q), d.kind = "Sale", d.answer # "Lost" PROVE kind # "Open"
    BY <2>2, <2>4 DEF Calm
  <2> QED BY <1>1, <1>3, <2>1, <2>3, <2>4 DEF Unsold
<1>6. InPhase(au, settle, l, r, s, st, m, excused)
  BY <1>1, <1>2, <1>3, <1>4, <1>5, OtherCall DEF MaySend
<1> QED BY <1>6 DEF c, r, m

(* A call that is answered, lost or given up.                              *)
LEMMA CallChanged ==
  ASSUME NEW au, NEW settle, NEW l, NEW q \in Seq(LotCalls), NEW s, NEW st, NEW n, NEW excused,
         InPhase(au, settle, l, q, s, st, n, excused),
         NEW i \in DOMAIN q, NEW c \in LotCalls,
         c.kind = q[i].kind,
         c.answer \in {q[i].answer, "Lost"} \/ (q[i].answer = "None" /\ TellsTruth(c, s)),
         InLine([q EXCEPT ![i] = c]),
         NEW m, au.phase \in Holding => Counted([q EXCEPT ![i] = c], m)
  PROVE  InPhase(au, settle, l, [q EXCEPT ![i] = c], s, st, m, excused)
<1> DEFINE r == [q EXCEPT ![i] = c]
<1>1. Members(r) \subseteq Members(q) \cup {c} /\ q[i] \in Members(q)
  BY ReplacedIs, CallsOf
<1>2. TellsTruth(c, s)
  BY <1>1 DEF InPhase, TellsTruth
<1> HIDE DEF r
<1>3. Aside(au, l) => c.kind = "Sale"
  BY <1>1 DEF InPhase, Apart
<1>4. au.phase # "Cancelled" => c.kind # "Withdraw"
  BY <1>1 DEF InPhase
<1>5. ASSUME ~excused
      PROVE  /\ au.phase \in {"Prebidding", "Settling"} => Unsold(r, s, st)
             /\ TradedOnline(au, settle) => c.answer = "Lost" \/ c.kind \notin {"Open", "Close"}
             /\ AwaitsItsTurn(au, l) => c.answer # "None" \/ c.kind \notin {"Sale", "Remove"}
  <2>1. Placed(au, settle, l, q, s, st)
    BY <1>5 DEF InPhase
  <2>2. Unsold(q, s, st) => Unsold(r, s, st)
    BY <1>1 DEF Unsold
  <2> QED BY <1>1, <2>1, <2>2 DEF Placed, Offline, Frozen
<1>6. InPhase(au, settle, l, r, s, st, m, excused)
  BY <1>1, <1>2, <1>3, <1>4, <1>5, OtherCall DEF r
<1> QED BY <1>6 DEF r

LEMMA MoreExcused ==
  ASSUME NEW au, NEW settle, NEW l, NEW k, NEW q, NEW s, NEW st, NEW n, NEW excused,
         InPhase(au, settle, l, q, s, st, n, excused), IsKnown(au, settle, l, k, q, s, excused),
         NEW excusedNow, excused => excusedNow
  PROVE  /\ InPhase(au, settle, l, q, s, st, n, excusedNow)
         /\ IsKnown(au, settle, l, k, q, s, excusedNow)
BY DEF InPhase, IsKnown

(* The auction notes that its lots are settled.                            *)
LEMMA NotePosted ==
  ASSUME NEW au, NEW settle, NEW l, NEW k, NEW q, NEW s, NEW st, NEW n, NEW excused,
         InPhase(au, settle, l, q, s, st, n, excused), IsKnown(au, settle, l, k, q, s, excused),
         NEW held \in BOOLEAN, au.phase = "Settling",
         ~Aside(au, l) => k \in Settled /\ (k = "Held" => held)
  PROVE  /\ InPhase(au, settle \cup {held}, l, q, s, st, n, excused)
         /\ IsKnown(au, settle \cup {held}, l, k, q, s, excused)
<1>1. ~excused /\ ~Aside(au, l) => Known(au.phase, k, q, s)
  BY DEF IsKnown, Asking
<1>2. ASSUME ~excused, ~Aside(au, l)
      PROVE  Offline(q, s) /\ Noted(k, q, s, settle \cup {held})
  <2>1. k \in {"Closed", "Held", "Declined", "NotOpened"}
    BY <1>1, <1>2 DEF Settled, Known
  <2>2. Calm(q) /\ s.phase # "Online" /\ (k = "Held" => s.phase = "Held")
    BY <1>1, <1>2, <2>1 DEF Known, BeforeTrade, Over
  <2>3. Offline(q, s)
    BY <2>2 DEF Calm, Offline
  <2>4. k = "Held" => FALSE \notin settle
    BY <1>2 DEF IsKnown, HasNoted, Noted
  <2>5. \A c \in Members(q) : c.kind = "Ask" => c.answer = "Lost"
    BY <2>2 DEF Calm
  <2> QED BY <1>2, <2>1, <2>2, <2>3, <2>4, <2>5 DEF Noted
<1>3. ASSUME Aside(au, l) PROVE Offline(q, s)
  BY <1>3 DEF InPhase, Apart, Offline, BeforeTrade
<1>4. Placed(au, settle, l, q, s, st) /\ Offline(q, s) => Placed(au, settle \cup {held}, l, q, s, st)
  BY DEF Placed
<1> QED BY <1>1, <1>2, <1>3, <1>4 DEF InPhase, IsKnown

-----------------------------------------------------------------------------
(* What is known of a lot, when its calls change.                          *)

LEMMA SoleWithout ==
  ASSUME NEW q \in Seq(LotCalls), NEW kind, Sole(q, kind),
         NEW i \in DOMAIN q, q[i].kind # kind \/ ~q[i].waits
  PROVE  Sole(Without(q, i), kind)
<1> DEFINE r == Without(q, i)
<1>1. PICK w \in DOMAIN q : /\ q[w].kind = kind /\ q[w].waits
                            /\ \A j \in DOMAIN q : j = w \/ q[j].answer = "Lost" \/ q[j].kind = "Remove"
  BY DEF Sole
<1>2. PICK v \in DOMAIN r : Place(i, v) = w
  <2>1. w \in DOMAIN q \ {i}
    BY <1>1
  <2> QED BY <2>1, WithoutIs
<1>3. /\ \A j \in DOMAIN r : Place(i, j) \in DOMAIN q \ {i} /\ r[j] = q[Place(i, j)]
      /\ DOMAIN r \subseteq Nat /\ DOMAIN q \subseteq Nat
      /\ \A j, k \in DOMAIN r : j < k <=> Place(i, j) < Place(i, k)
  BY WithoutIs, CallsOf
<1> HIDE DEF r
<1>4. \A j \in DOMAIN r : j # v => Place(i, j) # w
  BY <1>2, <1>3
<1>5. \A j \in DOMAIN r : j = v \/ r[j].answer = "Lost" \/ r[j].kind = "Remove"
  BY <1>1, <1>3, <1>4
<1> QED BY <1>1, <1>2, <1>3, <1>5 DEF Sole, r

LEMMA LastAskedWithout ==
  ASSUME NEW q \in Seq(LotCalls), NEW s, LastAsked(q, s),
         NEW i \in DOMAIN q, q[i].kind # "Ask" \/ ~q[i].waits
  PROVE  LastAsked(Without(q, i), s)
<1> DEFINE r == Without(q, i)
<1>1. PICK w \in DOMAIN q : /\ q[w].kind = "Ask" /\ q[w].waits
                            /\ \A j \in DOMAIN q : w < j => q[j].kind = "Remove"
                            /\ q[w].answer = "Held" => s.phase = "Held"
                            /\ q[w].answer = "NotOpen" => s.phase \in BeforeTrade
  BY DEF LastAsked
<1>2. PICK v \in DOMAIN r : Place(i, v) = w
  <2>1. w \in DOMAIN q \ {i}
    BY <1>1
  <2> QED BY <2>1, WithoutIs
<1>3. /\ \A j \in DOMAIN r : Place(i, j) \in DOMAIN q \ {i} /\ r[j] = q[Place(i, j)]
      /\ \A j, k \in DOMAIN r : j < k <=> Place(i, j) < Place(i, k)
  BY WithoutIs
<1> HIDE DEF r
<1>4. \A j \in DOMAIN r : v < j => r[j].kind = "Remove"
  BY <1>1, <1>2, <1>3
<1> QED BY <1>1, <1>2, <1>3, <1>4 DEF LastAsked, r

(* A call is taken that the knowledge does not rest on.                    *)
LEMMA KnownWithout ==
  ASSUME NEW au, NEW settle, NEW l, NEW k, NEW q \in Seq(LotCalls), NEW s, NEW excused,
         IsKnown(au, settle, l, k, q, s, excused), NEW i \in DOMAIN q,
         \/ ~q[i].waits
         \/ /\ k = "Asked" => q[i].kind # "Ask"
            /\ k = "Opening" => q[i].kind # "Open"
            /\ k = "Closing" => q[i].kind # "Close" \/ au.phase = "Break"
  PROVE  IsKnown(au, settle, l, k, Without(q, i), s, excused)
<1>1. Members(Without(q, i)) \subseteq Members(q)
  BY WithoutIs
<1>2. Calm(q) => Calm(Without(q, i))
  BY <1>1 DEF Calm
<1>3. Known(au.phase, k, q, s) => Known(au.phase, k, Without(q, i), s)
  BY <1>1, <1>2, SoleWithout, LastAskedWithout DEF Known
<1>4. Noted(k, q, s, settle) => Noted(k, Without(q, i), s, settle)
  BY <1>1 DEF Noted
<1> QED BY <1>3, <1>4 DEF IsKnown

(* A removal more.                                                         *)
LEMMA KnownRemoving ==
  ASSUME NEW au, NEW settle, NEW l, NEW k, NEW q \in Seq(LotCalls), NEW s, NEW excused,
         IsKnown(au, settle, l, k, q, s, excused)
  PROVE  IsKnown(au, settle, l, k, Append(q, Call("Remove")), s, excused)
<1> DEFINE c == Call("Remove")
           r == Append(q, c)
           n == Len(q) + 1
<1>1. c \in LotCalls /\ c.kind = "Remove" /\ c.waits
  BY CallType DEF Call, Kinds
<1>2. /\ DOMAIN r = DOMAIN q \cup {n} /\ r[n] = c /\ Members(r) = Members(q) \cup {c}
      /\ \A i \in DOMAIN q : r[i] = q[i]
  BY <1>1, AppendIs
<1> HIDE DEF c, r, n
<1>3. Calm(q) => Calm(r)
  BY <1>1, <1>2 DEF Calm
<1>4. \A kind : Sole(q, kind) => Sole(r, kind)
  BY <1>1, <1>2 DEF Sole
<1>5. LastAsked(q, s) => LastAsked(r, s)
  BY <1>1, <1>2 DEF LastAsked
<1>6. Known(au.phase, k, q, s) => Known(au.phase, k, r, s)
  BY <1>1, <1>2, <1>3, <1>4, <1>5 DEF Known
<1>7. Noted(k, q, s, settle) => Noted(k, r, s, settle)
  BY <1>1, <1>2 DEF Noted
<1>8. IsKnown(au, settle, l, k, r, s, excused)
  BY <1>6, <1>7 DEF IsKnown
<1> QED BY <1>8 DEF c, r

(* A call is lost or answered.                                             *)
LEMMA KnownChanged ==
  ASSUME NEW au, NEW settle, NEW l, NEW k, NEW q \in Seq(LotCalls), NEW s, NEW excused,
         IsKnown(au, settle, l, k, q, s, excused),
         NEW i \in DOMAIN q, NEW c \in LotCalls, c.kind = q[i].kind, c.waits = q[i].waits,
         c.answer = "Lost" \/ (q[i].answer = "None" /\ (c.kind = "Ask" => c.answer = Report(s.phase)))
  PROVE  IsKnown(au, settle, l, k, [q EXCEPT ![i] = c], s, excused)
<1> DEFINE r == [q EXCEPT ![i] = c]
<1>1. /\ DOMAIN r = DOMAIN q /\ \A j \in DOMAIN q : r[j] = IF j = i THEN c ELSE q[j]
      /\ Members(r) \subseteq Members(q) \cup {c} /\ q[i] \in Members(q)
  BY ReplacedIs, CallsOf
<1> HIDE DEF r
<1>2. c.answer = "Lost" \/ (c.kind = "Ask" =>
        /\ c.answer = "Held" <=> s.phase = "Held"
        /\ c.answer = "NotOpen" => s.phase \in BeforeTrade)
  BY DEF Report, BeforeTrade
<1>3. Calm(q) => Calm(r)
  BY <1>1 DEF Calm
<1>4. \A kind : Sole(q, kind) => Sole(r, kind)
  BY <1>1 DEF Sole
<1>5. LastAsked(q, s) => LastAsked(r, s)
  BY <1>1, <1>2 DEF LastAsked
<1>6. Known(au.phase, k, q, s) => Known(au.phase, k, r, s)
  BY <1>1, <1>3, <1>4, <1>5 DEF Known
<1>7. Noted(k, q, s, settle) => Noted(k, r, s, settle)
  BY <1>1, <1>2 DEF Noted
<1> QED BY <1>6, <1>7 DEF IsKnown, r

(* The last question is one that was just sent.                            *)
LEMMA JustAsked ==
  ASSUME NEW q \in Seq(LotCalls), NEW s
  PROVE  LastAsked(Append(q, Call("Ask")), s)
<1> DEFINE c == Call("Ask")
           r == Append(q, c)
           n == Len(q) + 1
<1>1. c \in LotCalls /\ c.kind = "Ask" /\ c.waits /\ c.answer = "None"
  BY CallType DEF Call, Kinds
<1>2. /\ DOMAIN r = DOMAIN q \cup {n} /\ r[n] = c
      /\ DOMAIN q \subseteq Nat /\ n \in Nat /\ \A i \in DOMAIN q : i < n
  BY <1>1, AppendIs
<1> HIDE DEF c, r, n
<1>3. \A j \in DOMAIN r : ~(n < j)
  BY <1>2
<1>4. LastAsked(r, s)
  BY <1>1, <1>2, <1>3 DEF LastAsked
<1> QED BY <1>4 DEF c, r

LEMMA JustSent ==
  ASSUME NEW q \in Seq(LotCalls), Calm(q), NEW kind \in Kinds
  PROVE  Sole(Append(q, Call(kind)), kind)
<1> DEFINE c == Call(kind)
           r == Append(q, c)
           n == Len(q) + 1
<1>1. c \in LotCalls /\ c.kind = kind /\ c.waits
  BY CallType DEF Call
<1>2. /\ DOMAIN r = DOMAIN q \cup {n} /\ r[n] = c
      /\ \A i \in DOMAIN q : r[i] = q[i] /\ q[i] \in Members(q)
  BY <1>1, AppendIs, CallsOf
<1> HIDE DEF c, r, n
<1>3. Sole(r, kind)
  BY <1>1, <1>2 DEF Sole, Calm
<1> QED BY <1>3 DEF c, r

(* A lot is asked again.                                                   *)
LEMMA AskedNow ==
  ASSUME NEW au, NEW settle, NEW l, NEW k, NEW q \in Seq(LotCalls), NEW s, NEW excused, ~Aside(au, l),
         \/ excused \/ ~HasNoted(au, settle)
         \/ k \in {"Held", "Asked", "Unanswered"} /\ Noted(k, q, s, settle)
  PROVE  IsKnown(au, settle, l, "Asked", Append(q, Call("Ask")), s, excused)
<1> DEFINE c == Call("Ask")
           r == Append(q, c)
<1>1. c \in LotCalls /\ c.kind = "Ask" /\ c.answer = "None"
  BY CallType DEF Call, Kinds
<1>2. Members(r) = Members(q) \cup {c}
  BY <1>1, AppendIs
<1>3. LastAsked(r, s)
  BY JustAsked
<1> HIDE DEF c, r
<1>4. Known(au.phase, "Asked", r, s)
  BY <1>3 DEF Known
<1>5. k \in {"Held", "Asked", "Unanswered"} /\ Noted(k, q, s, settle) => Noted("Asked", r, s, settle)
  BY <1>1, <1>2 DEF Noted
<1>6. IsKnown(au, settle, l, "Asked", r, s, excused)
  BY <1>4, <1>5 DEF IsKnown
<1> QED BY <1>6 DEF c, r

(* The answer that is handled comes first: all before it is lost, and all  *)
(* after it is waited for.                                                 *)
AnswersFirst(q, i) ==
  /\ i \in DOMAIN q /\ q[i].waits /\ q[i].answer \notin {"None", "Lost"}
  /\ \A j \in DOMAIN q : j < i /\ q[j].waits => q[j].answer = "Lost"

LEMMA FirstAnswer ==
  ASSUME NEW q \in Seq(LotCalls), InLine(q), NEW i \in DOMAIN q, AnswersFirst(q, i)
  PROVE  /\ \A c \in Members(Without(q, i)) : c.answer # "Lost" => c.waits
         /\ (\A j \in DOMAIN q : i < j => q[j].kind = "Remove") => Calm(Without(q, i))
         /\ q[i].kind # "Remove" /\ Sole(q, q[i].kind) => Calm(Without(q, i))
<1> DEFINE r == Without(q, i)
<1>1. \A j \in DOMAIN q : j < i => q[j].answer = "Lost"
  BY DEF InLine, AnswersFirst
<1>2. \A j \in DOMAIN q : i < j => q[j].waits
  BY DEF InLine, AnswersFirst
<1>3. \A j \in DOMAIN q \ {i} : j < i \/ i < j
  BY CallsOf
<1>4. ASSUME NEW c \in Members(r)
      PROVE  \E j \in DOMAIN q \ {i} : c = q[j]
  <2>1. PICK v \in DOMAIN r : c = r[v]
    BY <1>4 DEF Members
  <2>2. Place(i, v) \in DOMAIN q \ {i} /\ r[v] = q[Place(i, v)]
    BY WithoutIs
  <2> QED BY <2>1, <2>2
<1>5. \A c \in Members(r) : c.answer # "Lost" => c.waits
  BY <1>1, <1>2, <1>3, <1>4
<1>6. (\A j \in DOMAIN q : i < j => q[j].kind = "Remove") => Calm(r)
  BY <1>1, <1>3, <1>4 DEF Calm
<1>7. ASSUME q[i].kind # "Remove", Sole(q, q[i].kind)
      PROVE  Calm(r)
  <2>1. \A j \in DOMAIN q : j = i \/ q[j].answer = "Lost" \/ q[j].kind = "Remove"
    BY <1>7 DEF Sole, AnswersFirst
  <2> QED BY <1>4, <2>1 DEF Calm
<1> QED BY <1>5, <1>6, <1>7

-----------------------------------------------------------------------------
(* A lot in its phase, when it handles a call.                             *)

(* How a call of this kind may move a lot.                                 *)
Moves(kind, s, t) ==
  \/ t = s
  \/ /\ kind = "Open" /\ s.phase = "Scheduled" /\ t.phase = "Online"
     /\ t.seen = s.seen \cup {"Open"}
  \/ /\ kind = "Close" /\ s.phase = "Online"
     /\ \/ t.phase = "Held" /\ t.seen = s.seen \cup {"Close", "Held"}
        \/ t.phase = "Ended" /\ t.seen = s.seen \cup {"Close"}
  \/ /\ kind = "Sale" /\ s.phase \in {"Online", "Held", "Live"} /\ t.phase = "Ended"
     /\ t.seen = s.seen \cup {"Sale"}
  \/ /\ kind = "Resume" /\ s.phase = "Held" /\ t.phase = "Live" /\ t.seen = s.seen \cup {"Resume"}
  \/ /\ kind = "Withdraw" /\ s.phase \notin Over /\ t.phase = "Withdrawn"
     /\ t.seen = s.seen \cup {"Withdraw"}

LEMMA StaysIs ==
  ASSUME NEW s \in LotStates, NEW answer, NEW o \in Stays(s, answer)
  PROVE  o.state = s /\ o.answer = answer
<1>1. o.state = [phase |-> s.phase, seen |-> s.seen] /\ o.answer = answer
  BY DEF Stays, Outcome
<1> QED BY <1>1 DEF LotStates

LEMMA BecomesIs ==
  ASSUME NEW s, NEW phase, NEW ops, NEW answer, NEW o \in Becomes(s, phase, ops, answer)
  PROVE  o.state.phase = phase /\ o.state.seen = s.seen \cup ops /\ o.answer = answer
BY DEF Becomes, Outcome

(* An outcome moves the lot, and its answer tells the truth.               *)
OutcomeHolds(kind, s, o) ==
  /\ Moves(kind, s, o.state)
  /\ kind = "Ask" => o.answer = Report(o.state.phase)
  /\ \A c : c.kind = kind /\ c.answer = o.answer => TellsTruth(c, o.state)

LEMMA OutcomeMoves ==
  ASSUME NEW s \in LotStates, Consistent(s), NEW kind \in Kinds, NEW o \in Outcomes(s, kind)
  PROVE  OutcomeHolds(kind, s, o)
<1> USE DEF OutcomeHolds
<1>1. CASE kind = "Ask"
  <2>1. o.state = s /\ o.answer = Report(s.phase)
    BY <1>1, StaysIs DEF Outcomes
  <2> QED BY <1>1, <2>1 DEF Moves, TellsTruth, Report
<1>2. CASE kind = "Remove"
  <2>1. o.state = s
    BY <1>2, StaysIs DEF Outcomes
  <2> QED BY <1>2, <2>1 DEF Moves, TellsTruth
<1>3. CASE kind = "Open"
  <2>1. CASE o \in Stays(s, "Opened")
    BY <1>3, <2>1, StaysIs DEF Moves, TellsTruth
  <2>2. CASE s.phase = "Scheduled" /\ o \in Becomes(s, "Online", {"Open"}, "Opened")
    <3>1. o.state.phase = "Online" /\ o.state.seen = s.seen \cup {"Open"} /\ o.answer = "Opened"
      BY <2>2, BecomesIs
    <3> QED BY <1>3, <2>2, <3>1 DEF Moves, TellsTruth
  <2>3. CASE "Open" \notin s.seen /\ s.phase # "Scheduled" /\ o \in Stays(s, "Refused")
    <3>1. o.state = s /\ o.answer = "Refused"
      BY <2>3, StaysIs
    <3>2. s.phase \in {"Draft"} \cup Over
      BY <2>3 DEF Consistent, LotStates
    <3> QED BY <1>3, <3>1, <3>2 DEF Moves, TellsTruth
  <2> QED BY <1>3, <2>1, <2>2, <2>3 DEF Outcomes, OpenLot
<1>4. CASE kind = "Close"
  <2>1. CASE "Close" \in s.seen /\ "Held" \in s.seen /\ o \in Stays(s, "Held")
    BY <1>4, <2>1, StaysIs DEF Moves, TellsTruth
  <2>2. CASE "Close" \in s.seen /\ "Held" \notin s.seen /\ o \in Stays(s, "Ended")
    BY <1>4, <2>2, StaysIs DEF Moves, TellsTruth, Consistent
  <2>3. CASE s.phase = "Online" /\ o \in Becomes(s, "Held", {"Close", "Held"}, "Held")
    <3>1. /\ o.state.phase = "Held" /\ o.state.seen = s.seen \cup {"Close", "Held"}
          /\ o.answer = "Held"
      BY <2>3, BecomesIs
    <3> QED BY <1>4, <2>3, <3>1 DEF Moves, TellsTruth
  <2>4. CASE s.phase = "Online" /\ o \in Becomes(s, "Ended", {"Close"}, "Ended")
    <3>1. o.state.phase = "Ended" /\ o.state.seen = s.seen \cup {"Close"} /\ o.answer = "Ended"
      BY <2>4, BecomesIs
    <3> QED BY <1>4, <2>4, <3>1 DEF Moves, TellsTruth, Over
  <2>5. CASE o \in Stays(s, "Refused")
    BY <1>4, <2>5, StaysIs DEF Moves, TellsTruth
  <2> QED BY <1>4, <2>1, <2>2, <2>3, <2>4, <2>5 DEF Outcomes, CloseLot
<1>5. CASE kind = "Sale"
  <2>1. CASE \E answer : o \in Stays(s, answer)
    BY <1>5, <2>1, StaysIs DEF Moves, TellsTruth
  <2>2. CASE s.phase \in {"Online", "Held", "Live"} /\ o \in Becomes(s, "Ended", {"Sale"}, "Ended")
    BY <1>5, <2>2, BecomesIs DEF Moves, TellsTruth
  <2> QED BY <1>5, <2>1, <2>2 DEF Outcomes, CloseLotByAuctioneer
<1>6. CASE kind = "Resume"
  <2>1. CASE \E answer : o \in Stays(s, answer)
    BY <1>6, <2>1, StaysIs DEF Moves, TellsTruth
  <2>2. CASE s.phase = "Held" /\ o \in Becomes(s, "Live", {"Resume"}, "Resumed")
    BY <1>6, <2>2, BecomesIs DEF Moves, TellsTruth
  <2> QED BY <1>6, <2>1, <2>2 DEF Outcomes, ResumeLot
<1>7. CASE kind = "Withdraw"
  <2>1. CASE \E answer : o \in Stays(s, answer)
    BY <1>7, <2>1, StaysIs DEF Moves, TellsTruth
  <2>2. CASE s.phase \notin Over /\ o \in Becomes(s, "Withdrawn", {"Withdraw"}, "Withdrawn")
    BY <1>7, <2>2, BecomesIs DEF Moves, TellsTruth
  <2> QED BY <1>7, <2>1, <2>2 DEF Outcomes, WithdrawLot
<1> QED BY <1>1, <1>2, <1>3, <1>4, <1>5, <1>6, <1>7 DEF Kinds

LEMMA MovesSoundly ==
  ASSUME NEW s, NEW t, NEW kind, Moves(kind, s, t), Consistent(s)
  PROVE  /\ Consistent(t)
         /\ \A c : TellsTruth(c, s) => TellsTruth(c, t)
         /\ s.phase \in Over => t.phase \in Over
<1>1. s.phase \in Over => t.phase \in Over
  BY DEF Moves, Over
<1>2. s.phase \in {"Draft"} \cup Over => t.phase \in {"Draft"} \cup Over
  BY DEF Moves, Over
<1>3. t = s \/ \A op \in s.seen : op \in t.seen
  BY DEF Moves
<1>4. Consistent(t)
  BY DEF Consistent, Moves, Over, BeforeTrade
<1> QED BY <1>1, <1>2, <1>3, <1>4 DEF TellsTruth

(* A call that may move the lot, in the phase of its auction.              *)
MayMove(au, settle, l, q, kind, s, excused) ==
  /\ Aside(au, l) => kind = "Sale"
  /\ kind = "Withdraw" => au.phase = "Cancelled"
  /\ kind = "Resume" => au.phase \in FinalPhases
  /\ \/ excused
     \/ /\ kind = "Open" /\ s.phase = "Scheduled" =>
             /\ ~TradedOnline(au, settle)
             /\ au.phase \in {"Prebidding", "Settling"} =>
                  \A c \in Members(q) : c.kind = "Sale" => c.answer = "Lost"
        /\ kind = "Sale" /\ s.phase \in {"Online", "Held", "Live"} =>
             au.phase \notin {"Prebidding", "Settling"} /\ ~AwaitsItsTurn(au, l)

LEMMA MovedInPhase ==
  ASSUME NEW au, NEW settle, NEW l, NEW q, NEW s, NEW st, NEW n, NEW excused,
         InPhase(au, settle, l, q, s, st, n, excused),
         NEW kind, NEW t, Moves(kind, s, t), MayMove(au, settle, l, q, kind, s, excused)
  PROVE  InPhase(au, settle, l, q, t, st, n, excused)
<1>1. Consistent(t) /\ \A c \in Members(q) : TellsTruth(c, t)
  BY MovesSoundly DEF InPhase
<1>2. Aside(au, l) => t = s
  BY DEF MayMove, InPhase, Apart, Moves, BeforeTrade
<1>3. ASSUME ~excused, t # s
      PROVE  Placed(au, settle, l, q, t, st)
  <2>1. Placed(au, settle, l, q, s, st)
    BY <1>3 DEF InPhase
  <2>2. CASE kind = "Open" /\ s.phase = "Scheduled" /\ t.phase = "Online" /\ t.seen = s.seen \cup {"Open"}
    <3>1. ~TradedOnline(au, settle)
      BY <1>3, <2>2 DEF MayMove
    <3>2. au.phase \notin {"Break", "LineupFrozen", "Final", "Finished"} /\ ~AwaitsItsTurn(au, l)
      BY <3>1 DEF TradedOnline, AwaitsItsTurn
    <3>3. au.phase \in {"Prebidding", "Settling"} => Unsold(q, t, st)
      BY <1>3, <2>1, <2>2 DEF MayMove, Placed, Unsold
    <3> QED BY <3>1, <3>2, <3>3 DEF Placed
  <2>3. CASE /\ kind = "Close" /\ s.phase = "Online"
             /\ \/ t.phase = "Held" /\ t.seen = s.seen \cup {"Close", "Held"}
                \/ t.phase = "Ended" /\ t.seen = s.seen \cup {"Close"}
    <3>1. ~TradedOnline(au, settle)
      BY <2>1, <2>3 DEF Placed, Offline
    <3>2. au.phase \notin {"Break", "LineupFrozen", "Final", "Finished"} /\ ~AwaitsItsTurn(au, l)
      BY <3>1 DEF TradedOnline, AwaitsItsTurn
    <3>3. Unsold(q, s, st) => Unsold(q, t, st)
      BY <2>3 DEF Unsold, BeforeTrade
    <3> QED BY <2>1, <3>1, <3>2, <3>3 DEF Placed
  <2>4. CASE /\ kind = "Sale" /\ s.phase \in {"Online", "Held", "Live"} /\ t.phase = "Ended"
    <3>1. au.phase \notin {"Prebidding", "Settling"} /\ ~AwaitsItsTurn(au, l)
      BY <1>3, <2>4 DEF MayMove
    <3> QED BY <2>1, <2>4, <3>1 DEF Placed, Offline, Over
  <2>5. CASE kind = "Resume" /\ s.phase = "Held" /\ t.phase = "Live"
    <3>1. au.phase \notin {"Prebidding", "Settling"}
      BY <2>5 DEF MayMove, FinalPhases
    <3> QED BY <2>1, <2>5, <3>1 DEF Placed, Offline, Frozen, BeforeTrade, Over
  <2>6. CASE kind = "Withdraw"
    BY <2>6 DEF MayMove, Placed, TradedOnline, HasNoted, AwaitsItsTurn
  <2> QED BY <1>3, <2>2, <2>3, <2>4, <2>5, <2>6 DEF Moves
<1> QED BY <1>1, <1>2, <1>3 DEF InPhase, Apart

(* The answer to the last question stays true, and nothing moves a lot to  *)
(* which no call is on its way but a closing that a lost incarnation sent. *)
LEMMA MovedKnown ==
  ASSUME NEW au, NEW settle, NEW l, NEW k, NEW q, NEW s, NEW excused,
         IsKnown(au, settle, l, k, q, s, excused), Consistent(s),
         NEW kind, NEW t, Moves(kind, s, t), MayMove(au, settle, l, q, kind, s, excused),
         excused \/ t = s \/ au.phase \notin Asking \/ (LastAsked(q, s) => LastAsked(q, t)),
         excused \/ t = s \/ ~Calm(q) \/ kind = "Close" \/ au.phase \notin Asking
  PROVE  IsKnown(au, settle, l, k, q, t, excused)
<1>1. ASSUME ~excused, t # s, au.phase \in Asking, Known(au.phase, k, q, s)
      PROVE  Known(au.phase, k, q, t)
  <2>1. LastAsked(q, s) => LastAsked(q, t)
    BY <1>1
  <2>2. Calm(q) => s.phase = "Online"
    BY <1>1 DEF Moves
  <2>3. s.phase \in Over => t.phase \in Over
    BY MovesSoundly
  <2> QED BY <1>1, <2>1, <2>2, <2>3 DEF Known, BeforeTrade, Over
<1>2. ASSUME ~excused, t # s, HasNoted(au, settle), Noted(k, q, s, settle)
      PROVE  Noted(k, q, t, settle)
  <2>1. s.phase # "Held"
    BY <1>2 DEF HasNoted, Moves, MayMove, FinalPhases
  <2> QED BY <1>2, <2>1 DEF Noted
<1> QED BY <1>1, <1>2 DEF IsKnown

LEMMA FewerStrays ==
  ASSUME NEW au, NEW settle, NEW l, NEW q, NEW s, NEW st, NEW n, NEW excused,
         InPhase(au, settle, l, q, s, st, n, excused), NEW fewer \in SUBSET st
  PROVE  InPhase(au, settle, l, q, s, fewer, n, excused)
<1>1. Placed(au, settle, l, q, s, st) => Placed(au, settle, l, q, s, fewer)
  BY DEF Placed, Unsold
<1> QED BY <1>1 DEF InPhase, Apart

(* The oldest call that a lot has not handled.                             *)
Oldest(q, i) ==
  /\ i \in DOMAIN q /\ q[i].answer = "None"
  /\ \A j \in DOMAIN q : j < i => q[j].answer # "None"

(* Handling it moves the lot as it may.                                    *)
LEMMA HandlingMoves ==
  ASSUME NEW au, NEW settle, NEW l, NEW k, NEW q \in Seq(LotCalls), NEW s, NEW st, NEW n, NEW excused,
         InPhase(au, settle, l, q, s, st, n, excused), IsKnown(au, settle, l, k, q, s, excused),
         NEW i \in DOMAIN q, Oldest(q, i), NEW t, Moves(q[i].kind, s, t),
         q[i].kind = "Resume" => au.phase \in FinalPhases
  PROVE  /\ InPhase(au, settle, l, q, t, st, n, excused)
         /\ IsKnown(au, settle, l, k, q, t, excused)
<1> DEFINE c == q[i]
<1>1. c \in Members(q) /\ c.answer = "None"
  BY CallsOf DEF Oldest
<1> HIDE DEF c
<1>2. MayMove(au, settle, l, q, c.kind, s, excused)
  <2>1. ASSUME ~excused PROVE Placed(au, settle, l, q, s, st)
    BY <2>1 DEF InPhase
  <2>2. ASSUME ~excused, c.kind = "Open", s.phase = "Scheduled"
        PROVE  /\ ~TradedOnline(au, settle)
               /\ au.phase \in {"Prebidding", "Settling"} =>
                    \A d \in Members(q) : d.kind = "Sale" => d.answer = "Lost"
    BY <1>1, <2>1, <2>2 DEF Placed, Offline, Unsold
  <2>3. ASSUME ~excused, c.kind = "Sale", s.phase \in {"Online", "Held", "Live"}
        PROVE  au.phase \notin {"Prebidding", "Settling"} /\ ~AwaitsItsTurn(au, l)
    BY <1>1, <2>1, <2>3 DEF Placed, Frozen, Unsold, BeforeTrade
  <2>4. /\ Aside(au, l) => c.kind = "Sale"
        /\ c.kind = "Withdraw" => au.phase = "Cancelled"
    BY <1>1 DEF InPhase, Apart
  <2>5. c.kind = "Resume" => au.phase \in FinalPhases
    BY DEF c
  <2> QED BY <2>2, <2>3, <2>4, <2>5 DEF MayMove
<1>3. InPhase(au, settle, l, q, t, st, n, excused)
  BY <1>2, MovedInPhase DEF c
<1>4. ASSUME t # s PROVE c.kind \notin {"Ask", "Remove"}
  BY <1>4 DEF Moves, c
<1>5. ASSUME t # s, LastAsked(q, s) PROVE LastAsked(q, t)
  <2>1. PICK w \in DOMAIN q : /\ q[w].kind = "Ask" /\ q[w].waits
                              /\ \A j \in DOMAIN q : w < j => q[j].kind = "Remove"
    BY <1>5 DEF LastAsked
  <2>2. i < w
    <3>1. i # w /\ ~(w < i)
      BY <1>4, <1>5, <2>1 DEF c
    <3> QED BY <3>1, CallsOf
  <2>3. q[w].answer \in {"None", "Lost"}
    BY <1>1, <2>2 DEF InPhase, InLine, c
  <2> QED BY <2>1, <2>3 DEF LastAsked
<1>6. t # s => ~Calm(q)
  BY <1>1, <1>4 DEF Calm
<1>7. IsKnown(au, settle, l, k, q, t, excused)
  BY <1>2, <1>5, <1>6, MovedKnown DEF InPhase, c
<1> QED BY <1>3, <1>7

LEMMA CallAnswered ==
  ASSUME NEW au, NEW settle, NEW l, NEW k, NEW q \in Seq(LotCalls), NEW s, NEW st,
         NEW n \in Nat, NEW excused,
         InPhase(au, settle, l, q, s, st, n, excused), IsKnown(au, settle, l, k, q, s, excused),
         NEW i \in DOMAIN q, Oldest(q, i), q[i].waits,
         NEW c \in LotCalls, c.kind = q[i].kind, c.waits, c.answer \notin {"None", "Lost"},
         TellsTruth(c, s), c.kind = "Ask" => c.answer = Report(s.phase)
  PROVE  /\ InPhase(au, settle, l, [q EXCEPT ![i] = c], s, st, n, excused)
         /\ IsKnown(au, settle, l, k, [q EXCEPT ![i] = c], s, excused)
<1>1. q[i].answer = "None" /\ \A j \in DOMAIN q : j < i => q[j].answer # "None"
  BY DEF Oldest
<1>2. c.waits = q[i].waits
  <2>1. q[i].waits \in BOOLEAN /\ c.waits \in BOOLEAN
    BY CallsOf DEF LotCalls
  <2> QED BY <2>1
<1>3. InLine(q) /\ (au.phase \in Holding => Counted(q, n))
  BY DEF InPhase
<1>4. InLine([q EXCEPT ![i] = c])
  BY <1>1, <1>2, <1>3, LineReplaced
<1>5. au.phase \in Holding => Counted([q EXCEPT ![i] = c], n)
  BY <1>2, <1>3, CountedReplaced DEF Removing
<1>6. InPhase(au, settle, l, [q EXCEPT ![i] = c], s, st, n, excused)
  BY <1>1, <1>4, <1>5, CallChanged
<1>7. IsKnown(au, settle, l, k, [q EXCEPT ![i] = c], s, excused)
  BY <1>1, <1>2, KnownChanged
<1> QED BY <1>6, <1>7

(* The queue once it is handled: the call is answered, or gone when its    *)
(* auction no longer waits for it.                                         *)
LEMMA Handled ==
  ASSUME NEW au, NEW settle, NEW l, NEW k, NEW q \in Seq(LotCalls), NEW s \in LotStates, NEW st,
         NEW n \in Nat, NEW excused, NEW fewer \in SUBSET st,
         InPhase(au, settle, l, q, s, st, n, excused), IsKnown(au, settle, l, k, q, s, excused),
         NEW i \in DOMAIN q, Oldest(q, i), NEW o \in Outcomes(s, q[i].kind),
         o.answer \in Answers \ {"None", "Lost"},
         q[i].kind = "Resume" => au.phase \in FinalPhases,
         NEW r, r = IF q[i].waits THEN [q EXCEPT ![i] = [q[i] EXCEPT !.answer = o.answer]] ELSE Without(q, i)
  PROVE  /\ InPhase(au, settle, l, r, o.state, fewer, n, excused)
         /\ IsKnown(au, settle, l, k, r, o.state, excused)
<1> DEFINE t == o.state
           c == [q[i] EXCEPT !.answer = o.answer]
<1>1. q[i] \in LotCalls /\ q[i].kind \in Kinds
  BY CallsOf DEF LotCalls
<1>2. OutcomeHolds(q[i].kind, s, o)
  BY <1>1, OutcomeMoves DEF InPhase
<1>3. /\ InPhase(au, settle, l, q, t, st, n, excused)
      /\ IsKnown(au, settle, l, k, q, t, excused)
  BY <1>2, HandlingMoves DEF OutcomeHolds
<1>4. InPhase(au, settle, l, q, t, fewer, n, excused)
  BY <1>3, FewerStrays
<1>5. InLine(q) /\ (au.phase \in Holding => Counted(q, n))
  BY DEF InPhase
<1>6. CASE ~q[i].waits
  <2>1. InLine(r) /\ Members(r) \subseteq Members(q) /\ (au.phase \in Holding => Counted(r, n))
    BY <1>5, <1>6, LineWithout, WithoutIs, CountedWithout
  <2>2. IsKnown(au, settle, l, k, r, t, excused)
    BY <1>3, <1>6, KnownWithout
  <2>3. InPhase(au, settle, l, r, t, fewer, n, excused)
    BY <1>4, <2>1, FewerCalls
  <2> QED BY <2>2, <2>3
<1>7. CASE q[i].waits
  <2>1. /\ c \in LotCalls /\ c.kind = q[i].kind /\ c.waits = q[i].waits /\ c.answer = o.answer
        /\ r = [q EXCEPT ![i] = c] /\ q[i].answer = "None" /\ c.waits
    BY <1>1, <1>7 DEF LotCalls, Oldest
  <2>2. TellsTruth(c, t) /\ (c.kind = "Ask" => c.answer = Report(t.phase))
    BY <1>2, <2>1 DEF OutcomeHolds
  <2>3. IsKnown(au, settle, l, k, q, t, excused) /\ c.answer \notin {"None", "Lost"}
    BY <1>3, <2>1
  <2> HIDE DEF c, t
  <2>4. /\ InPhase(au, settle, l, [q EXCEPT ![i] = c], t, fewer, n, excused)
        /\ IsKnown(au, settle, l, k, [q EXCEPT ![i] = c], t, excused)
    BY <1>4, <1>7, <2>1, <2>2, <2>3, CallAnswered
  <2> QED BY <2>1, <2>4 DEF t
<1> QED BY <1>6, <1>7

(* A call of a lost incarnation moves the lot: it opens a lot of which the *)
(* auction is about to hear, or closes or brings back one.                 *)
StrayExcused(au, q, kind, s, t, freed) ==
  /\ t # s /\ kind = "Sale" => freed
  /\ \/ freed \/ t = s \/ kind # "Open"
     \/ /\ au.phase \in {"Prebidding", "Settling"}
        /\ \E i \in DOMAIN q : q[i].answer = "None" /\ q[i].waits /\ q[i].kind \in {"Ask", "Open"}

LEMMA StrayHandled ==
  ASSUME NEW au, NEW settle, NEW l, NEW k, NEW q \in Seq(LotCalls), NEW s \in LotStates, NEW st,
         NEW n, NEW excused, NEW fewer \in SUBSET st,
         InPhase(au, settle, l, q, s, st, n, excused), IsKnown(au, settle, l, k, q, s, excused),
         NEW kind \in st \cap Kinds, NEW o \in Outcomes(s, kind),
         kind = "Resume" => au.phase \in FinalPhases,
         NEW freed, excused => freed, StrayExcused(au, q, kind, s, o.state, freed)
  PROVE  /\ InPhase(au, settle, l, q, o.state, fewer, n, freed)
         /\ IsKnown(au, settle, l, k, q, o.state, freed)
<1> DEFINE t == o.state
<1>1. Moves(kind, s, t)
  BY OutcomeMoves DEF InPhase, OutcomeHolds
<1>2. /\ InPhase(au, settle, l, q, s, st, n, freed) /\ IsKnown(au, settle, l, k, q, s, freed)
  BY MoreExcused
<1>3. CASE t = s
  BY <1>2, <1>3, FewerStrays
<1>4. CASE t # s
  <2> HIDE DEF t
  <2>1. ASSUME ~freed, kind = "Open"
        PROVE  /\ au.phase \in {"Prebidding", "Settling"}
               /\ \E i \in DOMAIN q : q[i].answer = "None" /\ q[i].waits /\ q[i].kind \in {"Ask", "Open"}
    BY <1>4, <2>1 DEF t, StrayExcused
  <2>2. ~freed => Placed(au, settle, l, q, s, st)
    BY <1>2 DEF InPhase
  <2>3. ASSUME ~freed, kind = "Open", s.phase = "Scheduled"
        PROVE  ~TradedOnline(au, settle)
    <3> SUFFICES ASSUME HasNoted(au, settle) PROVE FALSE
      BY <2>1, <2>3 DEF TradedOnline
    <3>1. PICK i \in DOMAIN q : q[i].answer = "None" /\ q[i].waits /\ q[i].kind \in {"Ask", "Open"}
      BY <2>1, <2>3
    <3>2. q[i] \in Members(q)
      BY CallsOf
    <3>3. ~Aside(au, l)
      BY <3>1, <3>2 DEF InPhase, Apart
    <3>4. Known(au.phase, k, q, s) /\ Noted(k, q, s, settle)
      BY <1>2, <2>3, <3>3 DEF IsKnown, HasNoted, Asking
    <3>5. k \in {"Closed", "Declined", "NotOpened"}
      BY <2>3, <3>4 DEF Noted
    <3>6. Calm(q)
      BY <3>4, <3>5 DEF Known, HasNoted
    <3> QED BY <3>1, <3>2, <3>6 DEF Calm
  <2>4. MayMove(au, settle, l, q, kind, s, freed)
    <3>1. Aside(au, l) => kind = "Sale"
      BY DEF InPhase, Apart
    <3>2. kind = "Withdraw" => au.phase = "Cancelled"
      BY DEF InPhase
    <3>3. ~freed => kind # "Sale"
      BY <1>4 DEF t, StrayExcused
    <3>4. ASSUME ~freed, kind = "Open", au.phase \in {"Prebidding", "Settling"}
          PROVE  \A c \in Members(q) : c.kind = "Sale" => c.answer = "Lost"
      BY <2>2, <3>4 DEF Placed, Unsold
    <3> QED BY <2>3, <3>1, <3>2, <3>3, <3>4 DEF MayMove
  <2>5. InPhase(au, settle, l, q, t, st, n, freed)
    BY <1>1, <1>2, <2>4, MovedInPhase
  <2>6. kind \in {"Open", "Close", "Sale", "Resume", "Withdraw"}
    BY <1>1, <1>4 DEF Moves, t
  <2>7. kind \in {"Resume", "Withdraw"} => au.phase \notin Asking
    BY <2>4 DEF MayMove, FinalPhases, Asking
  <2>8. ~freed => kind # "Sale"
    BY <1>4 DEF t, StrayExcused
  <2>9. ASSUME ~freed, LastAsked(q, s), kind \in {"Open", "Close"} PROVE LastAsked(q, t)
    <3>1. PICK w \in DOMAIN q : /\ q[w].kind = "Ask" /\ q[w].waits
                                /\ \A j \in DOMAIN q : w < j => q[j].kind = "Remove"
                                /\ q[w].answer = "Held" => s.phase = "Held"
                                /\ q[w].answer = "NotOpen" => s.phase \in BeforeTrade
      BY <2>9 DEF LastAsked
    <3>2. CASE kind = "Open"
      <4>1. PICK i \in DOMAIN q : q[i].answer = "None" /\ q[i].waits /\ q[i].kind \in {"Ask", "Open"}
        BY <2>1, <2>9, <3>2
      <4>2. i = w \/ i < w
        <5>1. ~(w < i)
          BY <3>1, <4>1
        <5> QED BY <5>1, CallsOf
      <4>3. q[w].answer \in {"None", "Lost"}
        BY <4>1, <4>2 DEF InPhase, InLine
      <4> QED BY <3>1, <4>3 DEF LastAsked
    <3>3. CASE kind = "Close"
      <4>1. s.phase = "Online"
        BY <1>1, <1>4, <3>3 DEF Moves, t
      <4>2. q[w].answer \notin {"Held", "NotOpen"}
        BY <3>1, <4>1 DEF BeforeTrade
      <4> QED BY <3>1, <4>2 DEF LastAsked
    <3> QED BY <2>9, <3>2, <3>3
  <2>10. ASSUME ~freed, kind = "Open" PROVE ~Calm(q)
    <3>1. PICK i \in DOMAIN q : q[i].answer = "None" /\ q[i].waits /\ q[i].kind \in {"Ask", "Open"}
      BY <2>1, <2>10
    <3>2. q[i] \in Members(q)
      BY CallsOf
    <3> QED BY <3>1, <3>2 DEF Calm
  <2>11. IsKnown(au, settle, l, k, q, t, freed)
    <3>1. Consistent(s)
      BY DEF InPhase
    <3> QED BY <1>1, <1>2, <2>4, <2>6, <2>7, <2>8, <2>9, <2>10, <3>1, MovedKnown
  <2>12. InPhase(au, settle, l, q, t, fewer, n, freed)
    BY <2>5, FewerStrays
  <2> QED BY <2>11, <2>12 DEF t, StrayExcused
<1> QED BY <1>3, <1>4

-----------------------------------------------------------------------------
(* What a roster does to each lot.                                         *)

(* It notes that the lots are settled only when they are.                  *)
Candid(au, s) ==
  \/ s.notes.settle = {}
  \/ /\ au.phase = "Settling" /\ Complete(au, s.know)
     /\ \E held \in BOOLEAN : s.notes.settle = {held} /\ (HeldLots(au, s.know) # {} => held)

(* It marks some lots, and sends each of them a call of this kind, or none.*)
Does(au, known, s, lots, standing, kind) ==
  /\ StepOK(s) /\ Candid(au, s)
  /\ \A m \in Lots :
       /\ s.know[m] = IF m \in lots THEN standing ELSE known[m]
       /\ m \in DOMAIN s.calls <=> m \in lots /\ kind # "None"
       /\ m \in lots /\ kind # "None" => s.calls[m] = kind

LEMMA StepDoes ==
  ASSUME NEW known \in Knowledge, NEW au
  PROVE  /\ \A l \in Lots, k \in Standings, n \in Notes :
              n.settle = {} => Does(au, known, Step(Marked(known, {l}, k), <<>>, n), {l}, k, "None")
         /\ \A lots \in SUBSET Lots, k \in Standings, kind \in Errands :
              Does(au, known, Step(Marked(known, lots, k), [m \in lots |-> kind], NoNotes), lots, k, kind)
         /\ \A n \in Notes : \A k : n.settle = {} => Does(au, known, Step(known, <<>>, n), {}, k, "None")
<1>1. NoNotes \in Notes /\ NoNotes.settle = {}
  BY DEF NoNotes, Notes
<1>2. "None" \notin Errands
  BY DEF Errands
<1>3. \A m : m \notin DOMAIN <<>>
  OBVIOUS
<1>4. ASSUME NEW l \in Lots, NEW k \in Standings, NEW n \in Notes, n.settle = {}
      PROVE  Does(au, known, Step(Marked(known, {l}, k), <<>>, n), {l}, k, "None")
  BY <1>3, <1>4, MarkedType DEF Does, StepOK, Step, Candid
<1>5. ASSUME NEW lots \in SUBSET Lots, NEW k \in Standings, NEW kind \in Errands
      PROVE  Does(au, known, Step(Marked(known, lots, k), [m \in lots |-> kind], NoNotes), lots, k, kind)
  BY <1>1, <1>2, MarkedType DEF Does, StepOK, Step, Candid
<1>6. ASSUME NEW n \in Notes, n.settle = {}, NEW k
      PROVE  Does(au, known, Step(known, <<>>, n), {}, k, "None")
  BY <1>3, <1>6 DEF Does, StepOK, Step, Candid
<1> QED BY <1>4, <1>5, <1>6

(* Nothing, to one lot.                                                    *)
LEMMA NothingDoes ==
  ASSUME NEW known \in Knowledge, NEW au
  PROVE  /\ \A k : Does(au, known, Unmoved(known), {}, k, "None")
         /\ \A l \in Lots : Does(au, known, Unmoved(known), {l}, known[l], "None")
<1>1. NoNotes \in Notes /\ NoNotes.settle = {}
  BY DEF NoNotes, Notes
<1>2. \A k : Does(au, known, Unmoved(known), {}, k, "None")
  BY <1>1, StepDoes DEF Unmoved
<1>3. ASSUME NEW l \in Lots
      PROVE  Does(au, known, Unmoved(known), {l}, known[l], "None")
  BY <1>2 DEF Does
<1> QED BY <1>2, <1>3

LEMMA MarkDoes ==
  ASSUME NEW known \in Knowledge, NEW au
  PROVE  /\ \A l \in Lots, k \in Standings : Does(au, known, Mark(known, l, k), {l}, k, "None")
         /\ \A lots \in SUBSET Lots : /\ Does(au, known, Ask(known, lots), lots, "Asked", "Ask")
                                      /\ Does(au, known, Withdraw(known, lots), lots, "Withdrawing", "Withdraw")
<1>1. NoNotes \in Notes /\ NoNotes.settle = {}
  BY DEF NoNotes, Notes
<1>2. {"Asked", "Withdrawing"} \subseteq Standings /\ {"Ask", "Withdraw"} \subseteq Errands
  BY DEF Standings, Errands
<1>3. \A l \in Lots, k \in Standings : Does(au, known, Mark(known, l, k), {l}, k, "None")
  BY <1>1, StepDoes DEF Mark, Unmoved
<1>4. \A lots \in SUBSET Lots : Does(au, known, Ask(known, lots), lots, "Asked", "Ask")
  BY <1>2, StepDoes DEF Ask
<1>5. \A lots \in SUBSET Lots : Does(au, known, Withdraw(known, lots), lots, "Withdrawing", "Withdraw")
  BY <1>2, StepDoes DEF Withdraw
<1> QED BY <1>3, <1>4, <1>5

(* A note that the step adds is candid too.                                *)
LEMMA NotedDoes ==
  ASSUME NEW au, NEW known, NEW s, NEW lots, NEW k, NEW kind, Does(au, known, s, lots, k, kind),
         NEW counted
  PROVE  /\ Does(au, known, Settling(au, s), lots, k, kind)
         /\ Does(au, known, BreakOver(au, counted, s), lots, k, kind)
<1>1. /\ StepOK(s) /\ s.notes \in Notes
      /\ s = [know |-> s.know, calls |-> s.calls, notes |-> s.notes]
  BY DEF Does, StepOK
<1>2. /\ StepOK(Settling(au, s)) /\ Settling(au, s).know = s.know
      /\ StepOK(BreakOver(au, counted, s)) /\ BreakOver(au, counted, s).know = s.know
  BY <1>1, NotedType
<1>3. Settling(au, s).calls = s.calls /\ BreakOver(au, counted, s).calls = s.calls
  BY <1>1 DEF Settling, BreakOver
<1>4. Candid(au, BreakOver(au, counted, s))
  <2>1. [s EXCEPT !.notes.finish = TRUE].notes.settle = s.notes.settle
    BY <1>1 DEF Notes
  <2> QED BY <1>2, <2>1 DEF Does, Candid, BreakOver
<1>5. Candid(au, Settling(au, s))
  <2> DEFINE held == HeldLots(au, s.know) # {}
  <2>1. held \in BOOLEAN
    OBVIOUS
  <2>2. [s EXCEPT !.notes.settle = {held}].notes.settle = {held}
    BY <1>1 DEF Notes
  <2>3. CASE au.phase = "Settling" /\ Complete(au, s.know)
    <3>1. Settling(au, s).notes.settle = {held}
      BY <2>2, <2>3 DEF Settling
    <3> QED BY <1>2, <2>1, <2>3, <3>1 DEF Candid
  <2>4. CASE ~(au.phase = "Settling" /\ Complete(au, s.know))
    BY <2>4 DEF Settling, Does
  <2> QED BY <2>3, <2>4
<1> QED BY <1>2, <1>3, <1>4, <1>5 DEF Does

(* So for each function of the roster: what becomes of the lot it is about.*)
LEMMA ObservedDoes ==
  ASSUME NEW au, NEW known \in Knowledge, NEW counted, NEW l \in Lots, NEW report
  PROVE  LET s == Observed(au, known, counted, l, report)
         IN  /\ known[l] # "Asked" => Does(au, known, s, {l}, known[l], "None")
             /\ known[l] = "Asked" /\ au.phase \notin Asking =>
                  \E k \in Standings : Does(au, known, s, {l}, k, "None")
             /\ known[l] = "Asked" /\ au.phase \in Asking =>
                  /\ report = "Trading" => Does(au, known, s, {l}, "Active", "None")
                  /\ report = "Held" => Does(au, known, s, {l}, "Held", "None")
                  /\ report = "Over" => Does(au, known, s, {l}, "Closed", "None")
                  /\ report = "NotOpen" /\ au.phase = "Prebidding" =>
                       Does(au, known, s, {l}, "Opening", "Open")
                  /\ report = "NotOpen" /\ au.phase # "Prebidding" =>
                       Does(au, known, s, {l}, "NotOpened", "None")
<1> DEFINE s == Observed(au, known, counted, l, report)
           ended == [NoNotes EXCEPT !.ended = {l}]
           open == Step(Marked(known, {l}, "Opening"), [m \in {l} |-> "Open"], NoNotes)
           over == Step(Marked(known, {l}, "Closed"), <<>>, ended)
           asked ==
             CASE report = "Trading" -> Mark(known, l, "Active")
               [] report = "Held"    -> Mark(known, l, "Held")
               [] report = "Over"    -> Mark(known, l, "Closed")
               [] OTHER -> IF au.phase = "Prebidding" THEN open ELSE Mark(known, l, "NotOpened")
<1>1. /\ {"Opening", "NotOpened", "Active", "Held", "Closed"} \subseteq Standings /\ "Open" \in Errands
      /\ ended \in Notes /\ ended.settle = {} /\ {l} \in SUBSET Lots /\ known[l] \in Standings
  BY DEF Standings, Errands, NoNotes, Notes, Knowledge
<1>2. /\ Does(au, known, Unmoved(known), {l}, known[l], "None")
      /\ \A k \in Standings : Does(au, known, Mark(known, l, k), {l}, k, "None")
      /\ Does(au, known, open, {l}, "Opening", "Open")
      /\ Does(au, known, over, {l}, "Closed", "None")
  BY <1>1, NothingDoes, MarkDoes, StepDoes
<1>3. /\ known[l] # "Asked" => s = Unmoved(known)
      /\ known[l] = "Asked" /\ au.phase \in Asking => s = BreakOver(au, counted, Settling(au, asked))
      /\ known[l] = "Asked" /\ au.phase \notin Asking =>
           s \in {over, Mark(known, l, "Active"), Unmoved(known)}
  BY DEF Observed, ObservedInFinal
<1>4. /\ report = "Trading" => asked = Mark(known, l, "Active")
      /\ report = "Held" => asked = Mark(known, l, "Held")
      /\ report = "Over" => asked = Mark(known, l, "Closed")
      /\ report = "NotOpen" => asked = IF au.phase = "Prebidding" THEN open ELSE Mark(known, l, "NotOpened")
  OBVIOUS
<1> HIDE DEF s, asked, over, open
<1>5. \A k, kind : Does(au, known, asked, {l}, k, kind) =>
        Does(au, known, BreakOver(au, counted, Settling(au, asked)), {l}, k, kind)
  BY NotedDoes
<1>6. known[l] = "Asked" /\ au.phase \notin Asking => \E k \in Standings : Does(au, known, s, {l}, k, "None")
  BY <1>1, <1>2, <1>3
<1>7. known[l] # "Asked" => Does(au, known, s, {l}, known[l], "None")
  BY <1>2, <1>3
<1>8. known[l] = "Asked" /\ au.phase \in Asking =>
        /\ report = "Trading" => Does(au, known, s, {l}, "Active", "None")
        /\ report = "Held" => Does(au, known, s, {l}, "Held", "None")
        /\ report = "Over" => Does(au, known, s, {l}, "Closed", "None")
        /\ report = "NotOpen" /\ au.phase = "Prebidding" => Does(au, known, s, {l}, "Opening", "Open")
        /\ report = "NotOpen" /\ au.phase # "Prebidding" => Does(au, known, s, {l}, "NotOpened", "None")
  BY <1>1, <1>2, <1>3, <1>4, <1>5
<1> QED BY <1>6, <1>7, <1>8 DEF s

LEMMA AnswerDoes ==
  ASSUME NEW au, NEW known \in Knowledge, NEW counted, NEW l \in Lots, NEW answer
  PROVE  /\ LET s == Opened(au, known, l, answer)
            IN  /\ known[l] # "Opening" => Does(au, known, s, {l}, known[l], "None")
                /\ known[l] = "Opening" /\ answer = "Opened" => Does(au, known, s, {l}, "Active", "None")
                /\ known[l] = "Opening" /\ answer # "Opened" => Does(au, known, s, {l}, "Declined", "None")
         /\ LET s == Closed(au, known, l, answer)
            IN  /\ known[l] # "Closing" => Does(au, known, s, {l}, known[l], "None")
                /\ known[l] = "Closing" /\ answer = "Refused" => Does(au, known, s, {l}, "Asked", "Ask")
                /\ known[l] = "Closing" /\ answer = "Held" => Does(au, known, s, {l}, "Held", "None")
                /\ known[l] = "Closing" /\ answer \notin {"Refused", "Held"} =>
                     Does(au, known, s, {l}, "Closed", "None")
         /\ LET s == EndedByAuctioneer(au, known, counted, l, answer)
            IN  /\ known[l] # "Closing" => Does(au, known, s, {l}, known[l], "None")
                /\ known[l] = "Closing" /\ answer = "Refused" => Does(au, known, s, {l}, "Asked", "Ask")
                /\ known[l] = "Closing" /\ answer # "Refused" => Does(au, known, s, {l}, "Closed", "None")
         /\ LET s == RemovalAnswered(known, l)
            IN  /\ known[l] # "Held" => Does(au, known, s, {l}, known[l], "None")
                /\ known[l] = "Held" => Does(au, known, s, {l}, "Asked", "Ask")
         /\ LET s == Withdrawn(known, l, answer)
            IN  /\ known[l] # "Withdrawing" => Does(au, known, s, {l}, known[l], "None")
                /\ known[l] = "Withdrawing" =>
                     \E k \in Standings : Does(au, known, s, {l}, k, "None")
         /\ LET s == Unmoved(Unanswered(known, l))
            IN  \E k \in {known[l], "Unanswered"} :
                  /\ k = known[l] => known[l] \notin {"Asked", "Opening", "Closing", "Withdrawing"}
                  /\ Does(au, known, s, {l}, k, "None")
         /\ LET s == Due(au, known, l)
            IN  /\ ~(au.phase \in {"Prebidding", "Settling"} /\ known[l] = "Active") =>
                     Does(au, known, s, {l}, known[l], "None")
                /\ au.phase \in {"Prebidding", "Settling"} /\ known[l] = "Active" =>
                     Does(au, known, s, {l}, "Closing", "Close")
<1>1. /\ {"Active", "Declined", "Held", "Closed", "Closing", "Withdrawn", "Unanswered"} \subseteq Standings
      /\ "Close" \in Errands /\ {l} \in SUBSET Lots
  BY DEF Standings, Errands
<1>2. /\ Does(au, known, Unmoved(known), {l}, known[l], "None")
      /\ \A k \in Standings : Does(au, known, Mark(known, l, k), {l}, k, "None")
      /\ Does(au, known, Ask(known, {l}), {l}, "Asked", "Ask")
      /\ Does(au, known, Step(Marked(known, {l}, "Closing"), [m \in {l} |-> "Close"], NoNotes),
              {l}, "Closing", "Close")
  BY <1>1, NothingDoes, MarkDoes, StepDoes
<1>3. \A k \in Standings :
        /\ Does(au, known, Settling(au, Mark(known, l, k)), {l}, k, "None")
        /\ Does(au, known, BreakOver(au, counted, Mark(known, l, k)), {l}, k, "None")
  BY <1>2, NotedDoes
<1>4. \E k \in {known[l], "Unanswered"} :
        /\ k = known[l] => known[l] \notin {"Asked", "Opening", "Closing", "Withdrawing"}
        /\ Does(au, known, Unmoved(Unanswered(known, l)), {l}, k, "None")
  <2>1. CASE known[l] \in {"Asked", "Opening", "Closing", "Withdrawing"}
    <3>1. Unmoved(Unanswered(known, l)) = Mark(known, l, "Unanswered")
      BY <2>1 DEF Unanswered, Mark
    <3> QED BY <1>1, <1>2, <2>1, <3>1
  <2>2. CASE known[l] \notin {"Asked", "Opening", "Closing", "Withdrawing"}
    BY <1>2, <2>2 DEF Unanswered
  <2> QED BY <2>1, <2>2
<1>5. known[l] = "Withdrawing" =>
        \E k \in Standings : Does(au, known, Withdrawn(known, l, answer), {l}, k, "None")
  BY <1>1, <1>2 DEF Withdrawn
<1> QED BY <1>1, <1>2, <1>3, <1>4, <1>5
     DEF Opened, Closed, EndedByAuctioneer, RemovalAnswered, Withdrawn, Due

LEMMA AskingDoes ==
  ASSUME NEW au, NEW S, NEW known, Roster(au, S, known)
  PROVE  /\ LET s == Survey(au, known)
            IN  /\ au.phase = "Cancelled" => Does(au, known, s, au.registry, "Withdrawing", "Withdraw")
                /\ au.phase \in Asking => Does(au, known, s, au.registry, "Asked", "Ask")
                /\ au.phase \notin Asking \cup {"Cancelled"} =>
                     \E lots \in SUBSET ActiveLots(au), kind \in {"None", "Ask"} :
                       Does(au, known, s, lots, "Asked", kind)
         /\ \E lots \in SUBSET Pending(au, known), kind \in {"None", "Ask"} :
              /\ Does(au, known, Resume(au, known), lots, "Asked", kind)
              /\ kind = "None" => lots = {}
         /\ Does(au, known, WithdrawAgain(au, known), Pending(au, known), "Withdrawing", "Withdraw")
         /\ LET s == AskSilent(au, known)
                silent == {l \in au.registry : known[l] = "Unanswered"}
            IN  /\ au.phase = "Cancelled" => Does(au, known, s, silent, "Withdrawing", "Withdraw")
                /\ au.phase \in Asking => Does(au, known, s, silent, "Asked", "Ask")
                /\ au.phase = "Final" => Does(au, known, s, silent, "Asked", "Ask")
                /\ au.phase \notin Asking \cup {"Final", "Cancelled"} =>
                     Does(au, known, s, {}, "Asked", "None")
<1> DEFINE silent == {l \in au.registry : known[l] = "Unanswered"}
           ends == [NoNotes EXCEPT !.finish = TRUE]
<1>1. /\ au.registry \in SUBSET Lots /\ Pending(au, known) \in SUBSET Lots /\ silent \in SUBSET Lots
      /\ ActiveLots(au) \in SUBSET Lots /\ known \in Knowledge
  BY ActiveLotsOwned DEF Roster, Owns, Pending
<1>2. \A lots \in SUBSET Lots : /\ Does(au, known, Ask(known, lots), lots, "Asked", "Ask")
                                /\ Does(au, known, Withdraw(known, lots), lots, "Withdrawing", "Withdraw")
  BY <1>1, MarkDoes
<1>3. Does(au, known, Unmoved(known), {}, "Asked", "None")
  BY <1>1, NothingDoes
<1>4. Does(au, known, Step(known, <<>>, ends), {}, "Asked", "None")
  <2>1. ends \in Notes /\ ends.settle = {}
    BY DEF NoNotes, Notes
  <2> QED BY <1>1, <2>1, StepDoes
<1>5. Does(au, known, Settling(au, Ask(known, au.registry)), au.registry, "Asked", "Ask")
  BY <1>1, <1>2, NotedDoes
<1>6. au.phase \in Asking \/ au.phase = "Final" => au.phase # "Cancelled"
  BY DEF Asking
<1>7. /\ au.phase = "Cancelled" => Survey(au, known) = Withdraw(known, au.registry)
      /\ au.phase \in Asking => Survey(au, known) = Settling(au, Ask(known, au.registry))
      /\ au.phase \notin Asking \cup {"Cancelled"} =>
           Survey(au, known) \in {Step(known, <<>>, ends), Ask(known, ActiveLots(au))}
  <2>1. CASE au.phase = "Cancelled"
    BY <2>1 DEF Survey, Asking, LineupCompleted
  <2>2. CASE au.phase \in Asking
    <3>1. au.phase # "Cancelled" /\ ~LineupCompleted(au)
      BY <2>2 DEF Asking, LineupCompleted
    <3> QED BY <2>2, <3>1 DEF Survey
  <2>3. CASE au.phase \notin Asking \cup {"Cancelled"}
    BY <2>3 DEF Survey
  <2> QED BY <2>1, <2>2, <2>3
<1>8. /\ au.phase = "Cancelled" => AskSilent(au, known) = Withdraw(known, silent)
      /\ au.phase \in Asking \/ au.phase = "Final" => AskSilent(au, known) = Ask(known, silent)
      /\ au.phase \notin Asking \cup {"Final", "Cancelled"} => AskSilent(au, known) = Unmoved(known)
  BY <1>6 DEF AskSilent
<1>9. \E lots \in SUBSET Pending(au, known), kind \in {"None", "Ask"} :
        /\ Does(au, known, Resume(au, known), lots, "Asked", kind)
        /\ kind = "None" => lots = {}
  BY <1>1, <1>2, <1>3 DEF Resume
<1>10. Does(au, known, WithdrawAgain(au, known), Pending(au, known), "Withdrawing", "Withdraw")
  BY <1>1, <1>2 DEF WithdrawAgain
<1>11. au.phase \notin Asking \cup {"Cancelled"} =>
         \E lots \in SUBSET ActiveLots(au), kind \in {"None", "Ask"} :
           Does(au, known, Survey(au, known), lots, "Asked", kind)
  BY <1>1, <1>2, <1>4, <1>7
<1> QED BY <1>1, <1>2, <1>3, <1>5, <1>7, <1>8, <1>9, <1>10, <1>11

-----------------------------------------------------------------------------
(* Steps of one auction, lot by lot.                                       *)

After(q, kind) == IF kind = "None" THEN q ELSE Append(q, Call(kind))

(* The journal goes on within its phase.                                   *)
Onward(before, after) ==
  /\ after.phase = before.phase /\ after.registry = before.registry /\ after.order = before.order
  /\ Members(before.activated) \subseteq Members(after.activated)

LEMMA OnwardHolds ==
  ASSUME NEW au, NEW after, Onward(au, after), NEW settle, NEW l, NEW k, NEW q, NEW s, NEW st, NEW n,
         NEW excused, LotHolds(au, settle, l, k, q, s, st, n, excused)
  PROVE  LotHolds(after, settle, l, k, q, s, st, n, excused)
<1>1. /\ Aside(after, l) <=> Aside(au, l)
      /\ HasNoted(after, settle) <=> HasNoted(au, settle)
      /\ TradedOnline(after, settle) <=> TradedOnline(au, settle)
      /\ AwaitsItsTurn(after, l) => AwaitsItsTurn(au, l)
  BY DEF Onward, Aside, HasNoted, TradedOnline, AwaitsItsTurn
<1>2. after.phase = au.phase /\ after.registry = au.registry /\ after.order = au.order
  BY DEF Onward
<1>3. Placed(au, settle, l, q, s, st) => Placed(after, settle, l, q, s, st)
  BY <1>1, <1>2 DEF Placed
<1>4. InPhase(after, settle, l, q, s, st, n, excused)
  BY <1>1, <1>2, <1>3 DEF LotHolds, InPhase
<1>5. IsKnown(after, settle, l, k, q, s, excused)
  BY <1>1, <1>2 DEF LotHolds, IsKnown
<1> QED BY <1>4, <1>5 DEF LotHolds

SameLot(l) ==
  /\ know'[l] = know[l] /\ calls'[l] = calls[l] /\ lot'[l] = lot[l] /\ strays'[l] = strays[l]
  /\ removals'[l] = removals[l] /\ (l \in astray => l \in astray')

Elsewhere(a) ==
  /\ \A b \in Auctions \ {a} : auction'[b] = auction[b] /\ notes'[b] = notes[b]
  /\ \A l \in Lots \ LotsOf(a) : SameLot(l)

(* A lot as it is after the step, under notes that its auction has made.   *)
HoldsThen(l, settle) ==
  LotHolds(auction'[AuctionOf[l]], settle, l, know'[l], calls'[l], lot'[l], strays'[l], removals'[l],
           l \in astray')

LEMMA SameHolds ==
  ASSUME PhaseInv, NEW l \in Lots, SameLot(l), Onward(auction[AuctionOf[l]], auction'[AuctionOf[l]])
  PROVE  HoldsThen(l, notes[AuctionOf[l]].settle)
<1> DEFINE au == auction[AuctionOf[l]]
           settle == notes[AuctionOf[l]].settle
           excused == l \in astray
           excusedNow == l \in astray'
<1>1. LotHolds(au, settle, l, know[l], calls[l], lot[l], strays[l], removals[l], excused)
  BY DEF PhaseInv
<1>2. excused => excusedNow
  BY DEF SameLot
<1> HIDE DEF excused, excusedNow
<1>3. LotHolds(au, settle, l, know[l], calls[l], lot[l], strays[l], removals[l], excusedNow)
  BY <1>1, <1>2, MoreExcused DEF LotHolds
<1>4. LotHolds(auction'[AuctionOf[l]], settle, l, know[l], calls[l], lot[l], strays[l], removals[l], excusedNow)
  BY <1>3, OnwardHolds
<1> QED BY <1>4 DEF HoldsThen, SameLot, excusedNow

LEMMA PhaseKept ==
  ASSUME PhaseInv, NEW a \in Auctions, Elsewhere(a), Registered(auction'[a], notes'[a].settle),
         \A l \in LotsOf(a) : HoldsThen(l, notes'[a].settle)
  PROVE  PhaseInv'
<1>1. ASSUME NEW b \in Auctions PROVE Registered(auction'[b], notes'[b].settle)
  BY DEF PhaseInv, Elsewhere
<1>2. ASSUME NEW l \in Lots PROVE HoldsThen(l, notes'[AuctionOf[l]].settle)
  <2>1. CASE l \in LotsOf(a)
    BY <2>1 DEF LotsOf
  <2>2. CASE l \notin LotsOf(a)
    <3>1. AuctionOf[l] \in Auctions \ {a}
      BY <2>2, OwnLot DEF LotsOf
    <3>2. /\ auction'[AuctionOf[l]] = auction[AuctionOf[l]]
          /\ notes'[AuctionOf[l]] = notes[AuctionOf[l]] /\ SameLot(l)
      BY <2>2, <3>1 DEF Elsewhere
    <3>3. Onward(auction[AuctionOf[l]], auction'[AuctionOf[l]])
      BY <3>2 DEF Onward
    <3> QED BY <3>2, <3>3, SameHolds
  <2> QED BY <2>1, <2>2
<1> QED BY <1>1, <1>2 DEF PhaseInv, HoldsThen

(* A roster takes a step that is candid.                                   *)
LEMMA FollowKeepsPhase ==
  ASSUME Inv, PhaseInv, NEW a \in Auctions, NEW queues, NEW s, StepOK(s), Follow(a, queues, s),
         Candid(auction'[a], s), Registered(auction'[a], notes[a].settle),
         \A b \in Auctions \ {a} : auction'[b] = auction[b],
         \A l \in Lots \ LotsOf(a) : SameLot(l),
         \A l \in LotsOf(a) : HoldsThen(l, notes[a].settle)
  PROVE  PhaseInv'
<1>1. /\ notes \in [Auctions -> Notes] /\ know' = s.know
      /\ notes'[a].settle = notes[a].settle \cup s.notes.settle
      /\ \A b \in Auctions \ {a} : notes'[b] = notes[b]
  BY DEF Inv, Types, TypesOfRosters, Follow
<1>2. Elsewhere(a)
  BY <1>1 DEF Elsewhere
<1>3. CASE s.notes.settle = {}
  <2>1. notes'[a].settle = notes[a].settle
    BY <1>1, <1>3
  <2> QED BY <1>2, <2>1, PhaseKept
<1>4. CASE s.notes.settle # {}
  <2>1. PICK held \in BOOLEAN :
          /\ s.notes.settle = {held} /\ (HeldLots(auction'[a], s.know) # {} => held)
          /\ auction'[a].phase = "Settling" /\ Complete(auction'[a], s.know)
    BY <1>4 DEF Candid
  <2>2. notes'[a].settle = notes[a].settle \cup {held}
    BY <1>1, <2>1
  <2>3. Registered(auction'[a], notes'[a].settle)
    BY <2>1 DEF Registered, Unplanned
  <2>4. ASSUME NEW l \in LotsOf(a) PROVE HoldsThen(l, notes'[a].settle)
    <3>1. AuctionOf[l] = a
      BY DEF LotsOf
    <3> DEFINE excused == l \in astray'
    <3>2. LotHolds(auction'[a], notes[a].settle, l, know'[l], calls'[l], lot'[l], strays'[l], removals'[l], excused)
      BY <3>1 DEF HoldsThen
    <3> HIDE DEF excused
    <3>3. ~Aside(auction'[a], l) => know'[l] \in Settled /\ (know'[l] = "Held" => held)
      BY <1>1, <2>1 DEF Aside, Complete, HeldLots
    <3>4. LotHolds(auction'[a], notes[a].settle \cup {held}, l, know'[l], calls'[l], lot'[l], strays'[l],
                   removals'[l], excused)
      BY <2>1, <3>2, <3>3, NotePosted DEF LotHolds
    <3> QED BY <2>2, <3>1, <3>4 DEF HoldsThen, excused
  <2> QED BY <1>2, <2>3, <2>4, PhaseKept
<1> QED BY <1>3, <1>4

(* A step that keeps the notes, and moves one lot.                         *)
LEMMA OneLotKept ==
  ASSUME PhaseInv, NEW l \in Lots, notes' = notes,
         \A b \in Auctions \ {AuctionOf[l]} : auction'[b] = auction[b],
         Onward(auction[AuctionOf[l]], auction'[AuctionOf[l]]),
         Members(auction'[AuctionOf[l]].activated) \subseteq Members(auction'[AuctionOf[l]].order),
         \A m \in Lots \ {l} : SameLot(m),
         HoldsThen(l, notes[AuctionOf[l]].settle)
  PROVE  PhaseInv'
<1> DEFINE a == AuctionOf[l]
<1>1. a \in Auctions /\ l \in LotsOf(a)
  BY OwnLot
<1>2. Registered(auction'[a], notes'[a].settle)
  BY <1>1 DEF PhaseInv, Registered, Onward
<1>3. ASSUME NEW m \in LotsOf(a) PROVE HoldsThen(m, notes'[a].settle)
  BY SameHolds DEF LotsOf
<1>4. Elsewhere(a)
  BY <1>1 DEF Elsewhere
<1> QED BY <1>1, <1>2, <1>3, <1>4, PhaseKept

(* A step of the roster about one lot.                                     *)
LEMMA OneLotFollows ==
  ASSUME Inv, PhaseInv, NEW l \in Lots, NEW queues \in Queues, \A m \in Lots \ {l} : queues[m] = calls[m],
         NEW s, NEW k, NEW kind, Does(auction[AuctionOf[l]], know, s, {l}, k, kind),
         NEW sent, StepOK(sent), sent.know = s.know, sent.calls = s.calls, sent.notes.settle = s.notes.settle,
         Follow(AuctionOf[l], queues, sent),
         \A b \in Auctions \ {AuctionOf[l]} : auction'[b] = auction[b],
         Onward(auction[AuctionOf[l]], auction'[AuctionOf[l]]),
         auction'[AuctionOf[l]].activated = auction[AuctionOf[l]].activated,
         lot' = lot, strays' = strays, NEW q, q = queues[l],
         \A m \in Lots \ {l} : removals'[m] = removals[m] /\ (m \in astray => m \in astray'),
         LotHolds(auction[AuctionOf[l]], notes[AuctionOf[l]].settle, l, k, After(q, kind), lot[l], strays[l],
                  removals'[l], l \in astray')
  PROVE  PhaseInv'
<1> DEFINE a == AuctionOf[l]
<1>1. a \in Auctions /\ l \in LotsOf(a)
  BY OwnLot
<1>2. \A m \in Lots : /\ know'[m] = IF m = l THEN k ELSE know[m]
                      /\ calls'[m] = IF m = l THEN After(queues[l], kind) ELSE calls[m]
  BY DEF Follow, Sent, Does, After
<1>3. \A m \in Lots \ {l} : SameLot(m)
  BY <1>2 DEF SameLot
<1>4. HoldsThen(l, notes[a].settle)
  <2> DEFINE excused == l \in astray'
  <2>1. LotHolds(auction[a], notes[a].settle, l, know'[l], calls'[l], lot'[l], strays'[l], removals'[l], excused)
    BY <1>2
  <2> HIDE DEF excused
  <2>2. LotHolds(auction'[a], notes[a].settle, l, know'[l], calls'[l], lot'[l], strays'[l], removals'[l], excused)
    BY <2>1, OnwardHolds
  <2> QED BY <2>2 DEF HoldsThen, excused
<1>5. \A m \in LotsOf(a) : HoldsThen(m, notes[a].settle)
  <2> SUFFICES ASSUME NEW m \in LotsOf(a), m # l PROVE HoldsThen(m, notes[a].settle)
    BY <1>4
  <2>1. m \in Lots /\ AuctionOf[m] = a
    BY DEF LotsOf
  <2> QED BY <1>3, <2>1, SameHolds
<1>6. Registered(auction'[a], notes[a].settle)
  BY <1>1 DEF PhaseInv, Registered, Onward
<1>7. Candid(auction'[a], sent)
  BY DEF Does, Candid, Onward, Complete, HeldLots
<1>8. \A m \in Lots \ LotsOf(a) : SameLot(m)
  BY <1>1, <1>3
<1> QED BY <1>1, <1>5, <1>6, <1>7, <1>8, FollowKeepsPhase

-----------------------------------------------------------------------------
(* A lot when the auction hears of a call to it.                           *)

LEMMA TakenInPhase ==
  ASSUME NEW au, NEW settle, NEW l, NEW q \in Seq(LotCalls), NEW s, NEW st, NEW n \in Nat, NEW excused,
         InPhase(au, settle, l, q, s, st, n, excused), NEW i \in DOMAIN q
  PROVE  /\ InPhase(au, settle, l, Without(q, i), s, st, n, excused)
         /\ Removing(q[i]) => InPhase(au, settle, l, Without(q, i), s, st, IF n > 0 THEN n - 1 ELSE 0, excused)
<1>1. InLine(q) /\ (au.phase \in Holding => Counted(q, n))
  BY DEF InPhase
<1>2. InLine(Without(q, i)) /\ Members(Without(q, i)) \subseteq Members(q)
  BY <1>1, LineWithout, WithoutIs
<1>3. au.phase \in Holding => Counted(Without(q, i), n)
  BY <1>1, CountedWithout
<1>4. ASSUME Removing(q[i]), au.phase \in Holding
      PROVE  Counted(Without(q, i), IF n > 0 THEN n - 1 ELSE 0)
  <2>1. n > 0
    BY <1>1, <1>4, CountedBut
  <2> QED BY <1>1, <1>4, <2>1, CountedWithout
<1> QED BY <1>2, <1>3, <1>4, FewerCalls

(* A call is taken that the knowledge does not rest on.                    *)
LEMMA TakenHolds ==
  ASSUME NEW au, NEW settle, NEW l, NEW k, NEW q \in Seq(LotCalls), NEW s, NEW st, NEW n \in Nat, NEW excused,
         LotHolds(au, settle, l, k, q, s, st, n, excused), NEW i \in DOMAIN q,
         \/ ~q[i].waits
         \/ /\ k = "Asked" => q[i].kind # "Ask"
            /\ k = "Opening" => q[i].kind # "Open"
            /\ k = "Closing" => q[i].kind # "Close" \/ au.phase = "Break"
  PROVE  LotHolds(au, settle, l, k, Without(q, i), s, st, n, excused)
BY TakenInPhase, KnownWithout DEF LotHolds

(* Out of the phases in which an auction asks its lots, it may know        *)
(* anything of those that it deals with.                                   *)
LEMMA KnowsFreely ==
  ASSUME NEW au, NEW settle, NEW l, NEW k, NEW q, NEW s, NEW excused,
         ~Aside(au, l), au.phase \notin Asking
  PROVE  IsKnown(au, settle, l, k, q, s, excused)
BY DEF IsKnown, HasNoted, Asking

LEMMA Dealt ==
  ASSUME NEW au, NEW settle, NEW l, NEW k, NEW q, NEW s, NEW excused,
         IsKnown(au, settle, l, k, q, s, excused), k # "None"
  PROVE  /\ ~Aside(au, l)
         /\ au.phase \in Asking /\ ~excused => Known(au.phase, k, q, s)
         /\ HasNoted(au, settle) /\ ~excused => Noted(k, q, s, settle) /\ au.phase \in Asking
BY DEF IsKnown, HasNoted, Asking

(* A question is sent.                                                     *)
LEMMA AskSent ==
  ASSUME NEW au, NEW settle, NEW l, NEW q \in Seq(LotCalls), NEW s, NEW st, NEW n \in Nat, NEW excused,
         InPhase(au, settle, l, q, s, st, n, excused), ~Aside(au, l)
  PROVE  InPhase(au, settle, l, Append(q, Call("Ask")), s, st, n, excused)
<1>1. "Ask" \in Kinds /\ MaySend(au, settle, l, q, "Ask", excused)
  BY DEF Kinds, MaySend
<1> QED BY <1>1, CallSent

(* The auction hears where its lot is.                                     *)
Hears(au, k, report, kNow, kind) ==
  \/ k # "Asked" /\ kNow = k /\ kind = "None"
  \/ k = "Asked" /\ au.phase \notin Asking /\ kind = "None"
  \/ /\ k = "Asked" /\ au.phase \in Asking
     /\ \/ report = "Trading" /\ kNow = "Active" /\ kind = "None"
        \/ report = "Held" /\ kNow = "Held" /\ kind = "None"
        \/ report = "Over" /\ kNow = "Closed" /\ kind = "None"
        \/ report = "NotOpen" /\ au.phase = "Prebidding" /\ kNow = "Opening" /\ kind = "Open"
        \/ report = "NotOpen" /\ au.phase # "Prebidding" /\ kNow = "NotOpened" /\ kind = "None"

LEMMA ObservedHolds ==
  ASSUME NEW au, NEW settle, NEW l, NEW k, NEW q \in Seq(LotCalls), NEW s, NEW st, NEW n \in Nat, NEW excused,
         LotHolds(au, settle, l, k, q, s, st, n, excused),
         NEW i \in DOMAIN q, AnswersFirst(q, i), q[i].kind = "Ask", TellsOver(q[i]) => s.phase \in Over,
         NEW freed, excused => freed,
         k = "Asked" /\ (\E j \in DOMAIN q : i < j /\ q[j].kind = "Ask") => freed,
         NEW kNow, NEW kind, Hears(au, k, q[i].answer, kNow, kind)
  PROVE  LotHolds(au, settle, l, kNow, After(Without(q, i), kind), s, st, n, freed)
<1> DEFINE r == Without(q, i)
<1>1. LotHolds(au, settle, l, k, q, s, st, n, freed)
  BY MoreExcused DEF LotHolds
<1>2. r \in Seq(LotCalls) /\ Members(r) \subseteq Members(q) /\ q[i] \in Members(q)
  BY WithoutIs, CallsOf
<1>3. InPhase(au, settle, l, r, s, st, n, freed)
  BY <1>1, TakenInPhase DEF LotHolds
<1>4. CASE k # "Asked"
  <2>1. LotHolds(au, settle, l, k, r, s, st, n, freed)
    BY <1>1, <1>4, TakenHolds
  <2> QED BY <1>4, <2>1 DEF Hears, After
<1>5. CASE k = "Asked" /\ au.phase \notin Asking
  <2>1. ~Aside(au, l)
    BY <1>1, <1>5, Dealt DEF LotHolds
  <2> QED BY <1>3, <1>5, <2>1, KnowsFreely DEF Hears, After, LotHolds
<1>6. CASE k = "Asked" /\ au.phase \in Asking
  <2> HIDE DEF r
  <2>1. /\ ~Aside(au, l)
        /\ ~freed => Known(au.phase, k, q, s)
        /\ HasNoted(au, settle) /\ ~freed => Noted(k, q, s, settle)
    BY <1>1, <1>6, Dealt DEF LotHolds
  <2>2. ASSUME ~freed
        PROVE  /\ Calm(r) /\ \A c \in Members(r) : c.answer # "Lost" => c.waits
               /\ q[i].answer = "Held" => s.phase = "Held"
               /\ q[i].answer = "NotOpen" => s.phase \in BeforeTrade
    <3>1. PICK w \in DOMAIN q : /\ q[w].kind = "Ask"
                                /\ \A j \in DOMAIN q : w < j => q[j].kind = "Remove"
                                /\ q[w].answer = "Held" => s.phase = "Held"
                                /\ q[w].answer = "NotOpen" => s.phase \in BeforeTrade
      BY <1>6, <2>1, <2>2 DEF Known, LastAsked
    <3>2. w = i
      <4>1. ~(i < w) /\ ~(w < i)
        BY <1>6, <2>2, <3>1
      <4> QED BY <4>1, CallsOf
    <3>3. InLine(q)
      BY <1>1 DEF LotHolds, InPhase
    <3> QED BY <3>1, <3>2, <3>3, FirstAnswer DEF r
  <2>3. HasNoted(au, settle) /\ ~freed => q[i].answer = "Held"
    BY <1>2, <1>6, <2>1 DEF Noted, AnswersFirst
  <2>4. CASE kind = "None"
    <3>1. ~freed => Known(au.phase, kNow, r, s)
      <4> SUFFICES ASSUME ~freed PROVE Known(au.phase, kNow, r, s)
        OBVIOUS
      <4>1. \/ q[i].answer = "Trading" /\ kNow = "Active"
            \/ q[i].answer = "Held" /\ kNow = "Held"
            \/ q[i].answer = "Over" /\ kNow = "Closed"
            \/ q[i].answer = "NotOpen" /\ kNow = "NotOpened"
        BY <1>6, <2>4 DEF Hears
      <4>2. q[i].answer = "Over" => s.phase \in Over
        BY DEF TellsOver, SaysOver
      <4> QED BY <2>2, <4>1, <4>2 DEF Known
    <3>2. HasNoted(au, settle) /\ ~freed => Noted(kNow, r, s, settle)
      <4> SUFFICES ASSUME HasNoted(au, settle), ~freed PROVE Noted(kNow, r, s, settle)
        OBVIOUS
      <4>1. kNow = "Held"
        BY <1>6, <2>3, <2>4 DEF Hears
      <4> QED BY <1>2, <1>6, <2>1, <4>1 DEF Noted
    <3>3. IsKnown(au, settle, l, kNow, r, s, freed)
      BY <2>1, <3>1, <3>2 DEF IsKnown
    <3> QED BY <1>3, <2>4, <3>3 DEF LotHolds, After, r
  <2>5. CASE kind # "None"
    <3>1. au.phase = "Prebidding" /\ kNow = "Opening" /\ kind = "Open"
      BY <1>6, <2>5 DEF Hears
    <3>2. "Open" \in Kinds /\ MaySend(au, settle, l, r, "Open", freed)
      BY <2>1, <2>2, <3>1 DEF Kinds, MaySend, TradedOnline, HasNoted
    <3>3. InPhase(au, settle, l, Append(r, Call("Open")), s, st, n, freed)
      BY <1>2, <1>3, <3>2, CallSent
    <3>4. ~freed => Sole(Append(r, Call("Open")), "Open")
      BY <1>2, <2>2, <3>2, JustSent
    <3>5. IsKnown(au, settle, l, kNow, Append(r, Call("Open")), s, freed)
      BY <2>1, <3>1, <3>4 DEF IsKnown, Known, HasNoted
    <3> QED BY <3>1, <3>3, <3>5 DEF LotHolds, After, r
  <2> QED BY <2>4, <2>5
<1> QED BY <1>4, <1>5, <1>6

LEMMA AnsweredHolds ==
  ASSUME NEW au, NEW settle, NEW l, NEW k, NEW q \in Seq(LotCalls), NEW s, NEW st, NEW n \in Nat, NEW excused,
         LotHolds(au, settle, l, k, q, s, st, n, excused),
         NEW i \in DOMAIN q, AnswersFirst(q, i), q[i].kind = "Open",
         NEW kNow,
         \/ k # "Opening" /\ kNow = k
         \/ k = "Opening" /\ q[i].answer = "Opened" /\ kNow = "Active"
         \/ k = "Opening" /\ q[i].answer # "Opened" /\ kNow = "Declined"
  PROVE  LotHolds(au, settle, l, kNow, Without(q, i), s, st, n, excused)
<1> DEFINE r == Without(q, i)
<1>1. CASE k # "Opening"
  BY <1>1, TakenHolds
<1>2. CASE k = "Opening"
  <2>1. InPhase(au, settle, l, r, s, st, n, excused) /\ q[i] \in Members(q)
    BY TakenInPhase, CallsOf DEF LotHolds
  <2>2. /\ ~Aside(au, l)
        /\ au.phase \in Asking /\ ~excused => Known(au.phase, k, q, s)
        /\ HasNoted(au, settle) /\ ~excused => Noted(k, q, s, settle)
    BY <1>2, Dealt DEF LotHolds
  <2>3. ASSUME au.phase \in Asking, ~excused PROVE Known(au.phase, kNow, r, s)
    <3>1. Sole(q, "Open") /\ InLine(q)
      BY <1>2, <2>2, <2>3 DEF Known, LotHolds, InPhase
    <3>2. Calm(r)
      BY <3>1, FirstAnswer
    <3>3. q[i].answer # "Opened" => s.phase \in BeforeTrade \cup Over
      BY <2>1 DEF LotHolds, InPhase, TellsTruth, AnswersFirst, BeforeTrade
    <3> HIDE DEF r
    <3> QED BY <1>2, <3>2, <3>3 DEF Known
  <2>4. ~(HasNoted(au, settle) /\ ~excused)
    BY <1>2, <2>2 DEF Noted
  <2> QED BY <2>1, <2>2, <2>3, <2>4 DEF IsKnown, LotHolds
<1> QED BY <1>1, <1>2

LEMMA ClosedHolds ==
  ASSUME NEW au, NEW settle, NEW l, NEW k, NEW q \in Seq(LotCalls), NEW s, NEW st, NEW n \in Nat, NEW excused,
         LotHolds(au, settle, l, k, q, s, st, n, excused),
         NEW i \in DOMAIN q, AnswersFirst(q, i), q[i].kind = "Close",
         NEW kNow, NEW kind,
         \/ k # "Closing" /\ kNow = k /\ kind = "None"
         \/ k = "Closing" /\ q[i].answer = "Refused" /\ kNow = "Asked" /\ kind = "Ask"
         \/ k = "Closing" /\ q[i].answer = "Held" /\ kNow = "Held" /\ kind = "None"
         \/ k = "Closing" /\ q[i].answer \notin {"Refused", "Held"} /\ kNow = "Closed" /\ kind = "None"
  PROVE  LotHolds(au, settle, l, kNow, After(Without(q, i), kind), s, st, n, excused)
<1> DEFINE r == Without(q, i)
<1>1. CASE k # "Closing"
  <2>1. LotHolds(au, settle, l, k, r, s, st, n, excused)
    BY <1>1, TakenHolds
  <2> QED BY <1>1, <2>1 DEF After
<1>2. CASE k = "Closing"
  <2>1. /\ InPhase(au, settle, l, r, s, st, n, excused) /\ q[i] \in Members(q)
        /\ r \in Seq(LotCalls)
    BY TakenInPhase, CallsOf, WithoutIs DEF LotHolds
  <2>2. /\ ~Aside(au, l)
        /\ au.phase \in Asking /\ ~excused => Known(au.phase, k, q, s)
        /\ HasNoted(au, settle) /\ ~excused => Noted(k, q, s, settle)
    BY <1>2, Dealt DEF LotHolds
  <2>3. excused \/ ~HasNoted(au, settle)
    BY <1>2, <2>2 DEF Noted
  <2>4. CASE kind = "Ask"
    <3>1. InPhase(au, settle, l, Append(r, Call("Ask")), s, st, n, excused)
      BY <2>1, <2>2, AskSent
    <3>2. IsKnown(au, settle, l, "Asked", Append(r, Call("Ask")), s, excused)
      BY <2>1, <2>2, <2>3, AskedNow
    <3> HIDE DEF r
    <3>3. kNow = "Asked"
      BY <1>2, <2>4
    <3> QED BY <2>4, <3>1, <3>2, <3>3 DEF LotHolds, After, r
  <2>5. CASE kind = "None"
    <3>1. ASSUME au.phase \in Asking, ~excused PROVE Known(au.phase, kNow, r, s)
      <4>1. /\ InLine(q) /\ TellsTruth(q[i], s) /\ Known(au.phase, k, q, s)
            /\ Placed(au, settle, l, q, s, st)
        BY <2>1, <2>2, <3>1 DEF LotHolds, InPhase
      <4>2. au.phase # "Break"
        BY <2>1, <4>1 DEF Placed, TradedOnline, Offline, AnswersFirst
      <4>3. Sole(q, "Close")
        BY <1>2, <4>1, <4>2 DEF Known
      <4>4. Calm(r) /\ \A c \in Members(r) : c.answer # "Lost" => c.waits
        BY <4>1, <4>3, FirstAnswer
      <4>5. q[i].answer = "Held" => s.phase = "Held"
        BY <3>1, <4>1, <4>2 DEF TellsTruth, Placed, Unsold, Asking
      <4>6. q[i].answer \notin {"Refused", "Held"} => s.phase \in Over
        BY <4>1 DEF TellsTruth, AnswersFirst
      <4> HIDE DEF r
      <4> QED BY <1>2, <2>5, <4>4, <4>5, <4>6 DEF Known
    <3>2. IsKnown(au, settle, l, kNow, r, s, excused)
      BY <2>2, <2>3, <3>1 DEF IsKnown
    <3> QED BY <2>1, <2>5, <3>2 DEF LotHolds, After
  <2> QED BY <1>2, <2>4, <2>5
<1> QED BY <1>1, <1>2

LEMMA EndedHolds ==
  ASSUME NEW au, NEW settle, NEW l, NEW k, NEW q \in Seq(LotCalls), NEW s, NEW st, NEW n \in Nat, NEW excused,
         LotHolds(au, settle, l, k, q, s, st, n, excused),
         NEW i \in DOMAIN q, AnswersFirst(q, i), q[i].kind = "Sale", TellsOver(q[i]) => s.phase \in Over,
         NEW kNow, NEW kind,
         \/ k # "Closing" /\ kNow = k /\ kind = "None"
         \/ k = "Closing" /\ q[i].answer = "Refused" /\ kNow = "Asked" /\ kind = "Ask"
         \/ k = "Closing" /\ q[i].answer # "Refused" /\ kNow = "Closed" /\ kind = "None"
  PROVE  LotHolds(au, settle, l, kNow, After(Without(q, i), kind), s, st, n, excused)
<1> DEFINE r == Without(q, i)
<1>1. CASE k # "Closing"
  <2>1. LotHolds(au, settle, l, k, r, s, st, n, excused)
    BY <1>1, TakenHolds
  <2> QED BY <1>1, <2>1 DEF After
<1>2. CASE k = "Closing"
  <2>1. /\ InPhase(au, settle, l, r, s, st, n, excused) /\ q[i] \in Members(q)
        /\ r \in Seq(LotCalls)
    BY TakenInPhase, CallsOf, WithoutIs DEF LotHolds
  <2>2. /\ ~Aside(au, l)
        /\ au.phase \in Asking /\ ~excused => Known(au.phase, k, q, s)
        /\ HasNoted(au, settle) /\ ~excused => Noted(k, q, s, settle)
    BY <1>2, Dealt DEF LotHolds
  <2>3. excused \/ ~HasNoted(au, settle)
    BY <1>2, <2>2 DEF Noted
  <2>4. CASE kind = "Ask"
    <3>1. InPhase(au, settle, l, Append(r, Call("Ask")), s, st, n, excused)
      BY <2>1, <2>2, AskSent
    <3>2. IsKnown(au, settle, l, "Asked", Append(r, Call("Ask")), s, excused)
      BY <2>1, <2>2, <2>3, AskedNow
    <3> HIDE DEF r
    <3>3. kNow = "Asked"
      BY <1>2, <2>4
    <3> QED BY <2>4, <3>1, <3>2, <3>3 DEF LotHolds, After, r
  <2>5. CASE kind = "None"
    <3>1. ASSUME au.phase \in Asking, ~excused PROVE Known(au.phase, kNow, r, s)
      <4>1. au.phase = "Break"
        <5>1. Known(au.phase, k, q, s)
          BY <2>2, <3>1
        <5>2. ~Sole(q, "Close")
          BY DEF Sole, AnswersFirst
        <5> QED BY <1>2, <5>1, <5>2 DEF Known
      <4>2. kNow = "Closed" /\ s.phase \in Over
        BY <1>2, <2>5 DEF TellsOver, SaysOver, AnswersFirst
      <4> QED BY <4>1, <4>2 DEF Known
    <3>2. IsKnown(au, settle, l, kNow, r, s, excused)
      BY <2>2, <2>3, <3>1 DEF IsKnown
    <3> QED BY <2>1, <2>5, <3>2 DEF LotHolds, After
  <2> QED BY <1>2, <2>4, <2>5
<1> QED BY <1>1, <1>2

(* A removal is over: a lot that was held is asked again.                  *)
LEMMA RemovalHolds ==
  ASSUME NEW au, NEW settle, NEW l, NEW k, NEW r \in Seq(LotCalls), NEW s, NEW st, NEW n \in Nat, NEW excused,
         InPhase(au, settle, l, r, s, st, n, excused),
         k # "Held" => IsKnown(au, settle, l, k, r, s, excused),
         k = "Held" => ~Aside(au, l) /\ (excused \/ ~HasNoted(au, settle) \/ Noted(k, r, s, settle)),
         NEW kNow, NEW kind,
         \/ k # "Held" /\ kNow = k /\ kind = "None"
         \/ k = "Held" /\ kNow = "Asked" /\ kind = "Ask"
  PROVE  LotHolds(au, settle, l, kNow, After(r, kind), s, st, n, excused)
<1>1. CASE k # "Held"
  BY <1>1 DEF After, LotHolds
<1>2. CASE k = "Held"
  <2>1. InPhase(au, settle, l, Append(r, Call("Ask")), s, st, n, excused)
    BY <1>2, AskSent
  <2>2. IsKnown(au, settle, l, "Asked", Append(r, Call("Ask")), s, excused)
    BY <1>2, AskedNow
  <2> QED BY <1>2, <2>1, <2>2 DEF LotHolds, After
<1> QED BY <1>1, <1>2

-----------------------------------------------------------------------------
(* A lot when a call to it is given up.                                    *)

(* A call is given up: it was lost, or it is not waited for any more.      *)
GivenUp(q, i, r) ==
  /\ i \in DOMAIN q /\ q[i].waits /\ \A j \in DOMAIN q : j < i => ~q[j].waits
  /\ \/ q[i].answer = "Lost" /\ r = Without(q, i)
     \/ q[i].answer = "None" /\ r = [q EXCEPT ![i] = [q[i] EXCEPT !.waits = FALSE]]

LEMMA GivenUpIs ==
  ASSUME NEW q \in Seq(LotCalls), NEW i, NEW r, GivenUp(q, i, r)
  PROVE  /\ r \in Seq(LotCalls) /\ i \in DOMAIN q /\ q[i] \in Members(q)
         /\ \A d \in Members(r) : d \in Members(q) \/ (d.kind = q[i].kind /\ d.answer = q[i].answer)
         /\ \/ q[i].answer = "Lost" /\ r = Without(q, i)
            \/ /\ q[i].answer = "None"
               /\ \E c \in LotCalls : /\ c.kind = q[i].kind /\ c.answer = "None" /\ ~c.waits
                                     /\ r = [q EXCEPT ![i] = c]
<1>1. i \in DOMAIN q /\ q[i] \in Members(q) /\ q[i] \in LotCalls
  BY CallsOf DEF GivenUp
<1>2. CASE q[i].answer = "Lost" /\ r = Without(q, i)
  BY <1>1, <1>2, WithoutIs
<1>3. CASE q[i].answer = "None" /\ r = [q EXCEPT ![i] = [q[i] EXCEPT !.waits = FALSE]]
  <2> DEFINE c == [q[i] EXCEPT !.waits = FALSE]
  <2>1. c \in LotCalls /\ c.kind = q[i].kind /\ c.answer = "None" /\ ~c.waits
    BY <1>1, <1>3 DEF LotCalls
  <2>2. r = [q EXCEPT ![i] = c]
    BY <1>3
  <2> HIDE DEF c
  <2>3. r \in Seq(LotCalls) /\ Members(r) \subseteq Members(q) \cup {c}
    BY <1>1, <2>1, <2>2, ReplacedIs
  <2> QED BY <1>1, <1>3, <2>1, <2>2, <2>3
<1> QED BY <1>2, <1>3 DEF GivenUp

LEMMA GivenUpInPhase ==
  ASSUME NEW au, NEW settle, NEW l, NEW q \in Seq(LotCalls), NEW s, NEW st, NEW n \in Nat, NEW excused,
         InPhase(au, settle, l, q, s, st, n, excused), NEW i, NEW r, GivenUp(q, i, r),
         NEW m, m = n \/ (q[i].kind = "Remove" /\ m = IF n > 0 THEN n - 1 ELSE 0)
  PROVE  InPhase(au, settle, l, r, s, st, m, excused)
<1>1. i \in DOMAIN q
  BY GivenUpIs
<1>2. q[i].waits /\ \A j \in DOMAIN q : j < i => ~q[j].waits
  BY DEF GivenUp
<1>3. CASE r = Without(q, i)
  <2>1. /\ InPhase(au, settle, l, Without(q, i), s, st, n, excused)
        /\ Removing(q[i]) => InPhase(au, settle, l, Without(q, i), s, st, IF n > 0 THEN n - 1 ELSE 0, excused)
    BY <1>1, TakenInPhase
  <2>2. q[i].kind = "Remove" => Removing(q[i])
    BY <1>2 DEF Removing
  <2> QED BY <1>3, <2>1, <2>2
<1>4. ASSUME NEW c \in LotCalls, c.kind = q[i].kind, c.answer = "None", ~c.waits,
             r = [q EXCEPT ![i] = c], q[i].answer = "None"
      PROVE  InPhase(au, settle, l, r, s, st, m, excused)
  <2>1. InLine(q) /\ (au.phase \in Holding => Counted(q, n))
    BY DEF InPhase
  <2>2. InLine([q EXCEPT ![i] = c])
    BY <1>1, <1>2, <1>4, <2>1, LineReplaced
  <2>3. au.phase \in Holding => Counted([q EXCEPT ![i] = c], n)
    BY <1>1, <1>4, <2>1, CountedReplaced DEF Removing
  <2>4. ASSUME q[i].kind = "Remove", au.phase \in Holding
        PROVE  n > 0 /\ Counted([q EXCEPT ![i] = c], n - 1)
    <3>1. Removing(q[i]) /\ ~Removing(c)
      BY <1>2, <1>4, <2>4 DEF Removing
    <3>2. n > 0
      BY <1>1, <2>1, <2>4, <3>1, CountedBut
    <3> QED BY <1>1, <1>4, <2>1, <2>4, <3>1, <3>2, CountedReplaced
  <2>5. au.phase \in Holding => Counted([q EXCEPT ![i] = c], m)
    BY <2>3, <2>4
  <2>6. InPhase(au, settle, l, [q EXCEPT ![i] = c], s, st, m, excused)
    BY <1>1, <1>4, <2>2, <2>5, CallChanged
  <2> QED BY <1>4, <2>6
<1> QED BY <1>3, <1>4, GivenUpIs

(* A removal is given up.                                                  *)
LEMMA RemovalGivenUp ==
  ASSUME NEW au, NEW settle, NEW l, NEW k, NEW q \in Seq(LotCalls), NEW s, NEW st, NEW n \in Nat, NEW excused,
         LotHolds(au, settle, l, k, q, s, st, n, excused),
         NEW i \in DOMAIN q, NEW r, GivenUp(q, i, r), q[i].kind = "Remove",
         NEW kNow, NEW kind,
         \/ k # "Held" /\ kNow = k /\ kind = "None"
         \/ k = "Held" /\ kNow = "Asked" /\ kind = "Ask"
  PROVE  LotHolds(au, settle, l, kNow, After(r, kind), s, st, IF n > 0 THEN n - 1 ELSE 0, excused)
<1> DEFINE m == IF n > 0 THEN n - 1 ELSE 0
<1>1. /\ r \in Seq(LotCalls) /\ m \in Nat
      /\ \A d \in Members(r) : d \in Members(q) \/ d.kind = "Remove"
      /\ InPhase(au, settle, l, r, s, st, m, excused)
  <2>1. InPhase(au, settle, l, q, s, st, n, excused)
    BY DEF LotHolds
  <2>2. InPhase(au, settle, l, r, s, st, m, excused)
    BY <2>1, GivenUpInPhase
  <2> QED BY <2>2, GivenUpIs
<1>2. ASSUME k # "Held" PROVE IsKnown(au, settle, l, k, r, s, excused)
  <2>1. CASE r = Without(q, i)
    <3>1. LotHolds(au, settle, l, k, r, s, st, n, excused)
      BY <2>1, TakenHolds
    <3> QED BY <3>1 DEF LotHolds
  <2>2. CASE r = [q EXCEPT ![i] = [q[i] EXCEPT !.waits = FALSE]]
    <3> DEFINE c == [q[i] EXCEPT !.waits = FALSE]
    <3>1. q[i] \in LotCalls
      BY CallsOf
    <3>2. c \in LotCalls /\ c.kind = "Remove"
      BY <3>1 DEF LotCalls
    <3>3. r = [q EXCEPT ![i] = c]
      BY <2>2
    <3> HIDE DEF c
    <3>4. /\ DOMAIN r = DOMAIN q /\ \A j \in DOMAIN q : r[j] = IF j = i THEN c ELSE q[j]
      BY <3>2, <3>3, ReplacedIs
    <3>5. Calm(q) => Calm(r)
      BY <1>1 DEF Calm
    <3>6. \A any \in {"Open", "Close"} : Sole(q, any) => Sole(r, any)
      BY <3>2, <3>4 DEF Sole
    <3>7. LastAsked(q, s) => LastAsked(r, s)
      BY <3>2, <3>4 DEF LastAsked
    <3>8. Known(au.phase, k, q, s) => Known(au.phase, k, r, s)
      BY <1>2, <3>5, <3>6, <3>7 DEF Known
    <3>9. Noted(k, q, s, settle) => Noted(k, r, s, settle)
      BY <1>1 DEF Noted
    <3> QED BY <3>8, <3>9 DEF IsKnown, LotHolds
  <2> QED BY <2>1, <2>2 DEF GivenUp
<1>3. k = "Held" => ~Aside(au, l) /\ (excused \/ ~HasNoted(au, settle) \/ Noted(k, r, s, settle))
  <2>1. Noted(k, q, s, settle) => Noted(k, r, s, settle)
    BY <1>1 DEF Noted
  <2> QED BY <2>1, Dealt DEF LotHolds
<1> HIDE DEF m
<1>4. LotHolds(au, settle, l, kNow, After(r, kind), s, st, m, excused)
  BY <1>1, <1>2, <1>3, RemovalHolds
<1> QED BY <1>4 DEF m

(* Another call is given up: a lot that was to answer has not.             *)
LEMMA SilentHolds ==
  ASSUME NEW au, NEW settle, NEW l, NEW k, NEW q \in Seq(LotCalls), NEW s, NEW st, NEW n \in Nat, NEW excused,
         LotHolds(au, settle, l, k, q, s, st, n, excused),
         NEW i \in DOMAIN q, NEW r, GivenUp(q, i, r), q[i].kind # "Remove",
         q[i].kind = "Resume" /\ q[i].answer = "None" => au.phase \in FinalPhases,
         NEW kNow,
         \/ k \in {"Asked", "Opening", "Closing", "Withdrawing"} /\ kNow = "Unanswered"
         \/ kNow = k /\ (q[i].kind = "Resume" \/ k \notin {"Asked", "Opening", "Closing", "Withdrawing"})
  PROVE  LotHolds(au, settle, l, kNow, r, s, st, n, excused)
<1>1. /\ r \in Seq(LotCalls) /\ q[i] \in Members(q)
      /\ \A d \in Members(r) : d \in Members(q) \/ (d.kind = q[i].kind /\ d.answer = q[i].answer)
      /\ InPhase(au, settle, l, r, s, st, n, excused)
  <2>1. InPhase(au, settle, l, q, s, st, n, excused)
    BY DEF LotHolds
  <2>2. InPhase(au, settle, l, r, s, st, n, excused)
    BY <2>1, GivenUpInPhase
  <2> QED BY <2>2, GivenUpIs
<1>2. CASE k \in {"Asked", "Opening", "Closing", "Withdrawing"} /\ kNow = "Unanswered"
  <2>1. ~Aside(au, l) /\ (HasNoted(au, settle) /\ ~excused => Noted(k, q, s, settle))
    BY <1>2, Dealt DEF LotHolds
  <2>2. Noted(k, q, s, settle) => Noted(kNow, r, s, settle)
    BY <1>1, <1>2 DEF Noted
  <2>3. Known(au.phase, kNow, r, s)
    BY <1>2 DEF Known
  <2>4. IsKnown(au, settle, l, kNow, r, s, excused)
    BY <2>1, <2>2, <2>3 DEF IsKnown
  <2> QED BY <1>1, <2>4 DEF LotHolds
<1>3. CASE kNow = k /\ (q[i].kind = "Resume" \/ k \notin {"Asked", "Opening", "Closing", "Withdrawing"})
  <2>1. CASE r = Without(q, i)
    BY <1>3, <2>1, TakenHolds
  <2>2. CASE q[i].answer = "None"
    <3>1. ~Calm(q)
      BY <1>1, <2>2 DEF Calm
    <3>2. Known(au.phase, k, q, s) /\ au.phase \in Asking => Known(au.phase, k, r, s)
      BY <1>3, <2>2, <3>1 DEF Known, FinalPhases, Asking
    <3>3. Noted(k, q, s, settle) => Noted(k, r, s, settle)
      BY <1>1 DEF Noted
    <3>4. IsKnown(au, settle, l, k, r, s, excused)
      BY <3>2, <3>3 DEF IsKnown, LotHolds
    <3> QED BY <1>1, <1>3, <3>4 DEF LotHolds
  <2> QED BY <2>1, <2>2 DEF GivenUp
<1> QED BY <1>2, <1>3

-----------------------------------------------------------------------------
(* A lot to which its auction or a person sends a call.                    *)

(* A deadline has come.                                                    *)
LEMMA DueHolds ==
  ASSUME NEW au, NEW settle, NEW l, NEW q \in Seq(LotCalls), NEW s, NEW st, NEW n \in Nat, NEW excused,
         LotHolds(au, settle, l, "Active", q, s, st, n, excused), au.phase \in {"Prebidding", "Settling"}
  PROVE  LotHolds(au, settle, l, "Closing", After(q, "Close"), s, st, n, excused)
<1>1. "Close" \in Kinds /\ au.phase \in Asking
  BY DEF Kinds, Asking
<1>2. /\ ~Aside(au, l)
      /\ excused \/ Known(au.phase, "Active", q, s)
      /\ excused \/ ~HasNoted(au, settle) \/ Noted("Active", q, s, settle)
  BY <1>1, Dealt DEF LotHolds
<1>3. excused \/ Calm(q)
  BY <1>2 DEF Known
<1>4. excused \/ ~HasNoted(au, settle)
  BY <1>2 DEF Noted
<1>5. MaySend(au, settle, l, q, "Close", excused)
  BY <1>2, <1>4 DEF MaySend, TradedOnline
<1>6. InPhase(au, settle, l, q, s, st, n, excused)
  BY DEF LotHolds
<1>7. InPhase(au, settle, l, Append(q, Call("Close")), s, st, n, excused)
  <2>1. InPhase(au, settle, l, Append(q, Call("Close")), s, st, IF "Close" = "Remove" THEN n + 1 ELSE n, excused)
    BY <1>1, <1>5, <1>6, CallSent
  <2> QED BY <2>1
<1>8. excused \/ Known(au.phase, "Closing", Append(q, Call("Close")), s)
  BY <1>1, <1>3, JustSent DEF Known
<1>9. IsKnown(au, settle, l, "Closing", Append(q, Call("Close")), s, excused)
  BY <1>2, <1>4, <1>8 DEF IsKnown
<1> QED BY <1>7, <1>9 DEF LotHolds, After

(* A sale is sent: in the break, or in the final, the auction knows that   *)
(* it closes the lot.                                                      *)
LEMMA SaleHolds ==
  ASSUME NEW au, NEW settle, NEW l, NEW k, NEW q \in Seq(LotCalls), NEW s, NEW st, NEW n \in Nat, NEW excused,
         LotHolds(au, settle, l, k, q, s, st, n, excused),
         au.phase \notin {"Prebidding", "Settling"}, l \in au.registry, ~AwaitsItsTurn(au, l),
         NEW kNow, kNow = k \/ (kNow = "Closing" /\ au.phase \in {"Break", "Final"}),
         au.phase = "Break" => kNow = "Closing"
  PROVE  LotHolds(au, settle, l, kNow, Append(q, Call("Sale")), s, st, n, excused)
<1>1. "Sale" \in Kinds /\ MaySend(au, settle, l, q, "Sale", excused)
  BY DEF Kinds, MaySend
<1>2. InPhase(au, settle, l, q, s, st, n, excused)
  BY DEF LotHolds
<1>3. InPhase(au, settle, l, Append(q, Call("Sale")), s, st, n, excused)
  <2>1. InPhase(au, settle, l, Append(q, Call("Sale")), s, st, IF "Sale" = "Remove" THEN n + 1 ELSE n, excused)
    BY <1>1, <1>2, CallSent
  <2> QED BY <2>1
<1>4. IsKnown(au, settle, l, kNow, Append(q, Call("Sale")), s, excused)
  <2>1. ~HasNoted(au, settle)
    BY DEF HasNoted
  <2>2. Aside(au, l) => au.phase \notin {"Break", "Final"}
    BY DEF Aside, Unplanned
  <2>3. Aside(au, l) => kNow = "None"
    BY <2>2 DEF LotHolds, IsKnown
  <2>4. au.phase \in Asking => au.phase = "Break" /\ kNow = "Closing"
    BY DEF Asking
  <2>5. au.phase = "Break" /\ kNow = "Closing" => Known(au.phase, kNow, Append(q, Call("Sale")), s)
    BY DEF Known
  <2> QED BY <2>1, <2>3, <2>4, <2>5 DEF IsKnown
<1> QED BY <1>3, <1>4 DEF LotHolds

(* The next lot is called back, or a participant is removed from a lot.    *)
LEMMA PressHolds ==
  ASSUME NEW au, NEW settle, NEW l, NEW k, NEW q \in Seq(LotCalls), NEW s, NEW st, NEW n \in Nat, NEW excused,
         LotHolds(au, settle, l, k, q, s, st, n, excused), ~Aside(au, l)
  PROVE  /\ au.phase \in FinalPhases =>
              LotHolds(au, settle, l, k, Append(q, Call("Resume")), s, st, n, excused)
         /\ ~AwaitsItsTurn(au, l) =>
              LotHolds(au, settle, l, k, Append(q, Call("Remove")), s, st, n + 1, excused)
<1>1. /\ "Resume" \in Kinds /\ MaySend(au, settle, l, q, "Resume", excused)
      /\ "Remove" \in Kinds /\ (~AwaitsItsTurn(au, l) => MaySend(au, settle, l, q, "Remove", excused))
  BY DEF Kinds, MaySend
<1>2. InPhase(au, settle, l, q, s, st, n, excused) /\ IsKnown(au, settle, l, k, q, s, excused)
  BY DEF LotHolds
<1>3. InPhase(au, settle, l, Append(q, Call("Resume")), s, st, n, excused)
  <2>1. InPhase(au, settle, l, Append(q, Call("Resume")), s, st, IF "Resume" = "Remove" THEN n + 1 ELSE n, excused)
    BY <1>1, <1>2, CallSent
  <2> QED BY <2>1
<1>4. ASSUME ~AwaitsItsTurn(au, l)
      PROVE  InPhase(au, settle, l, Append(q, Call("Remove")), s, st, n + 1, excused)
  <2>1. InPhase(au, settle, l, Append(q, Call("Remove")), s, st, IF "Remove" = "Remove" THEN n + 1 ELSE n, excused)
    BY <1>1, <1>2, <1>4, CallSent
  <2> QED BY <2>1
<1>5. au.phase \in FinalPhases => IsKnown(au, settle, l, k, Append(q, Call("Resume")), s, excused)
  BY KnowsFreely DEF FinalPhases, Asking
<1>6. IsKnown(au, settle, l, k, Append(q, Call("Remove")), s, excused)
  BY <1>2, KnownRemoving
<1> QED BY <1>3, <1>4, <1>5, <1>6 DEF LotHolds

(* A withdrawal is answered.                                               *)
LEMMA WithdrewHolds ==
  ASSUME NEW au, NEW settle, NEW l, NEW k, NEW q \in Seq(LotCalls), NEW s, NEW st, NEW n \in Nat, NEW excused,
         LotHolds(au, settle, l, k, q, s, st, n, excused),
         NEW i \in DOMAIN q, q[i].kind = "Withdraw", NEW kNow
  PROVE  LotHolds(au, settle, l, kNow, Without(q, i), s, st, n, excused)
<1>1. InPhase(au, settle, l, q, s, st, n, excused) /\ q[i] \in Members(q)
  BY CallsOf DEF LotHolds
<1>2. ~Aside(au, l) /\ au.phase \notin Asking
  BY <1>1 DEF InPhase, Apart, Asking
<1>3. InPhase(au, settle, l, Without(q, i), s, st, n, excused)
  BY <1>1, TakenInPhase
<1> QED BY <1>2, <1>3, KnowsFreely DEF LotHolds

-----------------------------------------------------------------------------
(* What the lots answer.                                                   *)

HoldsNow(l) ==
  LotHolds(auction[AuctionOf[l]], notes[AuctionOf[l]].settle, l, know[l], calls[l], lot[l], strays[l],
           removals[l], l \in astray)

LEMMA LotView ==
  ASSUME Inv, PhaseInv, NEW l \in Lots
  PROVE  /\ AuctionOf[l] \in Auctions /\ l \in LotsOf(AuctionOf[l]) /\ know \in Knowledge
         /\ calls \in Queues /\ calls[l] \in Seq(LotCalls) /\ lot[l] \in LotStates
         /\ strays[l] \in SUBSET Kinds /\ removals[l] \in Nat /\ HoldsNow(l)
         /\ Roster(auction[AuctionOf[l]], LotsOf(AuctionOf[l]), know)
BY OwnLot, RosterOf DEF Inv, Types, TypesOfRosters, TypesOfLots, Queues, PhaseInv, HoldsNow

LEMMA AnswerView ==
  ASSUME Inv, PhaseInv, NEW l \in Lots, NEW i, NEW kind, AnsweredByLot(l, i, kind)
  PROVE  /\ i \in DOMAIN calls[l] /\ calls[l][i].kind = kind /\ calls[l][i] \in LotCalls
         /\ AnswersFirst(calls[l], i) /\ (TellsOver(calls[l][i]) => lot[l].phase \in Over)
         /\ TellsTruth(calls[l][i], lot[l])
         /\ Taken(l, i) \in Queues /\ Taken(l, i)[l] = Without(calls[l], i)
         /\ \A m \in Lots \ {l} : Taken(l, i)[m] = calls[m]
<1>1. i \in DOMAIN calls[l] /\ calls[l][i].kind = kind
  BY DEF AnsweredByLot
<1>2. calls \in Queues /\ calls[l] \in Seq(LotCalls)
  BY LotView
<1>3. AnswersFirst(calls[l], i)
  <2>1. \A j \in DOMAIN calls[l] : j < i => j \in 1 .. i - 1
    BY <1>1, <1>2, CallsOf
  <2> QED BY <2>1 DEF AnsweredByLot, AnswersFirst
<1>4. Taken(l, i) \in Queues
  BY <1>1, TakenKeeps
<1>5. Taken(l, i)[l] = Without(calls[l], i) /\ \A m \in Lots \ {l} : Taken(l, i)[m] = calls[m]
  BY <1>2 DEF Taken, Queues
<1>6. TellsTruth(calls[l][i], lot[l])
  <2>1. calls[l][i] \in Members(calls[l])
    BY <1>1 DEF Members
  <2> QED BY <2>1 DEF PhaseInv, LotHolds, InPhase
<1> QED BY <1>1, <1>3, <1>4, <1>5, <1>6, PendingCall

LEMMA ObservedPhase ==
  ASSUME Inv, PhaseInv, NEW l \in Lots, NEW i, LotObserved(l, i)
  PROVE  PhaseInv'
<1> DEFINE au == auction[AuctionOf[l]]
           q == calls[l]
           s == Observed(au, know, removals, l, q[i].answer)
           freed == l \in astray'
<1>1. /\ AnsweredByLot(l, i, "Ask") /\ Follow(AuctionOf[l], Taken(l, i), s) /\ auction' = auction
      /\ lot' = lot /\ strays' = strays /\ removals' = removals
      /\ astray' = astray \cup {m \in {l} : know[l] = "Asked" /\ AskedAgain(l, i)}
  BY DEF LotObserved, OnlyFollow
<1>2. /\ q \in Seq(LotCalls) /\ know \in Knowledge /\ removals[l] \in Nat
      /\ LotHolds(au, notes[AuctionOf[l]].settle, l, know[l], q, lot[l], strays[l], removals[l], l \in astray)
  BY LotView DEF HoldsNow
<1>3. /\ i \in DOMAIN q /\ q[i].kind = "Ask" /\ AnswersFirst(q, i) /\ (TellsOver(q[i]) => lot[l].phase \in Over)
      /\ TellsTruth(q[i], lot[l])
      /\ Taken(l, i) \in Queues /\ Taken(l, i)[l] = Without(q, i)
      /\ \A m \in Lots \ {l} : Taken(l, i)[m] = calls[m]
  BY <1>1, AnswerView
<1>4. q[i].answer \in {"NotOpen", "Trading", "Held", "Over"}
  BY <1>3 DEF TellsTruth, AnswersFirst
<1>5. PICK kNow, kind : Does(au, know, s, {l}, kNow, kind) /\ Hears(au, know[l], q[i].answer, kNow, kind)
  <2> HIDE DEF au, q, s
  <2>1. know[l] # "Asked" => Does(au, know, s, {l}, know[l], "None")
    BY <1>2, ObservedDoes DEF s, q
  <2>2. know[l] = "Asked" /\ au.phase \notin Asking => \E k \in Standings : Does(au, know, s, {l}, k, "None")
    BY <1>2, ObservedDoes DEF s, q
  <2>3. know[l] = "Asked" /\ au.phase \in Asking =>
          /\ q[i].answer = "Trading" => Does(au, know, s, {l}, "Active", "None")
          /\ q[i].answer = "Held" => Does(au, know, s, {l}, "Held", "None")
          /\ q[i].answer = "Over" => Does(au, know, s, {l}, "Closed", "None")
          /\ q[i].answer = "NotOpen" /\ au.phase = "Prebidding" => Does(au, know, s, {l}, "Opening", "Open")
          /\ q[i].answer = "NotOpen" /\ au.phase # "Prebidding" => Does(au, know, s, {l}, "NotOpened", "None")
    BY <1>2, ObservedDoes DEF s, q
  <2>4. CASE know[l] # "Asked"
    BY <2>1, <2>4 DEF Hears
  <2>5. CASE know[l] = "Asked" /\ au.phase \notin Asking
    BY <2>2, <2>5 DEF Hears
  <2>6. CASE know[l] = "Asked" /\ au.phase \in Asking
    <3>1. CASE q[i].answer = "Trading"
      BY <2>3, <2>6, <3>1 DEF Hears
    <3>2. CASE q[i].answer = "Held"
      BY <2>3, <2>6, <3>2 DEF Hears
    <3>3. CASE q[i].answer = "Over"
      BY <2>3, <2>6, <3>3 DEF Hears
    <3>4. CASE q[i].answer = "NotOpen" /\ au.phase = "Prebidding"
      BY <2>3, <2>6, <3>4 DEF Hears
    <3>5. CASE q[i].answer = "NotOpen" /\ au.phase # "Prebidding"
      BY <2>3, <2>6, <3>5 DEF Hears
    <3> QED BY <1>4, <3>1, <3>2, <3>3, <3>4, <3>5
  <2> QED BY <2>4, <2>5, <2>6
<1>6. l \in astray => freed
  BY <1>1
<1>7. know[l] = "Asked" /\ (\E j \in DOMAIN q : i < j /\ q[j].kind = "Ask") => freed
  <2>1. \A j \in DOMAIN q : i < j => j \in i + 1 .. Len(calls[l])
    BY <1>2, <1>3, CallsOf
  <2> QED BY <1>1, <2>1 DEF AskedAgain
<1> HIDE DEF freed
<1>8. LotHolds(au, notes[AuctionOf[l]].settle, l, kNow, After(Without(q, i), kind), lot[l], strays[l],
               removals[l], freed)
  <2> DEFINE excused == l \in astray
  <2>1. LotHolds(au, notes[AuctionOf[l]].settle, l, know[l], q, lot[l], strays[l], removals[l], excused)
    BY <1>2
  <2>2. excused => freed
    BY <1>6
  <2> HIDE DEF excused, au, q
  <2> QED BY <1>2, <1>3, <1>5, <1>7, <2>1, <2>2, ObservedHolds
<1>9. LotHolds(au, notes[AuctionOf[l]].settle, l, kNow, After(Without(q, i), kind), lot[l], strays[l], removals'[l],
               l \in astray')
  BY <1>1, <1>8 DEF freed
<1>10. Onward(auction[AuctionOf[l]], auction'[AuctionOf[l]]) /\ StepOK(s)
  BY <1>1, <1>5 DEF Onward, Does
<1>11. \A m \in Lots \ {l} : removals'[m] = removals[m] /\ (m \in astray => m \in astray')
  BY <1>1
<1> HIDE DEF s, q
<1> QED BY <1>1, <1>3, <1>5, <1>9, <1>10, <1>11, OneLotFollows

-----------------------------------------------------------------------------
(* An auction hears that a lot was opened, closed, removed from or has     *)
(* ended, and the deadline of an errand.                                   *)

HoldsWith(l, k, q, n) ==
  LotHolds(auction[AuctionOf[l]], notes[AuctionOf[l]].settle, l, k, q, lot[l], strays[l], n, l \in astray)

(* The roster hears of a lot, and nothing else changes.                    *)
LEMMA RosterFollows ==
  ASSUME Inv, PhaseInv, NEW l \in Lots, NEW queues \in Queues, \A m \in Lots \ {l} : queues[m] = calls[m],
         NEW s, NEW k, NEW kind, Does(auction[AuctionOf[l]], know, s, {l}, k, kind),
         Follow(AuctionOf[l], queues, s), UNCHANGED <<auction, lot, strays, astray>>,
         \A m \in Lots \ {l} : removals'[m] = removals[m],
         HoldsWith(l, k, After(queues[l], kind), removals'[l])
  PROVE  PhaseInv'
<1>1. LotHolds(auction[AuctionOf[l]], notes[AuctionOf[l]].settle, l, k, After(queues[l], kind), lot[l],
               strays[l], removals'[l], l \in astray')
  BY DEF HoldsWith
<1>2. Onward(auction[AuctionOf[l]], auction'[AuctionOf[l]]) /\ StepOK(s)
  BY DEF Onward, Does
<1> QED BY <1>1, <1>2, OneLotFollows

LEMMA OpenedPhase ==
  ASSUME Inv, PhaseInv, NEW l \in Lots, NEW i, LotAnswered(l, i)
  PROVE  PhaseInv'
<1> DEFINE au == auction[AuctionOf[l]]
           q == calls[l]
           s == Opened(au, know, l, q[i].answer)
           excused == l \in astray
<1>1. /\ AnsweredByLot(l, i, "Open") /\ Follow(AuctionOf[l], Taken(l, i), s)
      /\ UNCHANGED <<auction, lot, strays, removals, astray>>
  BY DEF LotAnswered, OnlyFollow
<1>2. /\ q \in Seq(LotCalls) /\ know \in Knowledge /\ removals[l] \in Nat
      /\ LotHolds(au, notes[AuctionOf[l]].settle, l, know[l], q, lot[l], strays[l], removals[l], excused)
  BY LotView DEF HoldsNow
<1>3. /\ i \in DOMAIN q /\ q[i].kind = "Open" /\ AnswersFirst(q, i)
      /\ Taken(l, i) \in Queues /\ Taken(l, i)[l] = Without(q, i)
      /\ \A m \in Lots \ {l} : Taken(l, i)[m] = calls[m]
  BY <1>1, AnswerView
<1> HIDE DEF excused, s
<1>4. PICK k : /\ Does(au, know, s, {l}, k, "None")
               /\ \/ know[l] # "Opening" /\ k = know[l]
                  \/ know[l] = "Opening" /\ q[i].answer = "Opened" /\ k = "Active"
                  \/ know[l] = "Opening" /\ q[i].answer # "Opened" /\ k = "Declined"
  BY <1>2, AnswerDoes DEF s
<1>5. LotHolds(au, notes[AuctionOf[l]].settle, l, k, Without(q, i), lot[l], strays[l], removals[l], excused)
  BY <1>2, <1>3, <1>4, AnsweredHolds
<1>6. HoldsWith(l, k, After(Taken(l, i)[l], "None"), removals'[l])
  BY <1>1, <1>3, <1>5 DEF HoldsWith, After, excused
<1> QED BY <1>1, <1>3, <1>4, <1>6, RosterFollows

LEMMA ClosedPhase ==
  ASSUME Inv, PhaseInv, NEW l \in Lots, NEW i, LotClosed(l, i)
  PROVE  PhaseInv'
<1> DEFINE au == auction[AuctionOf[l]]
           q == calls[l]
           s == Closed(au, know, l, q[i].answer)
           excused == l \in astray
<1>1. /\ AnsweredByLot(l, i, "Close") /\ Follow(AuctionOf[l], Taken(l, i), s)
      /\ UNCHANGED <<auction, lot, strays, removals, astray>>
  BY DEF LotClosed, OnlyFollow
<1>2. /\ q \in Seq(LotCalls) /\ know \in Knowledge /\ removals[l] \in Nat
      /\ LotHolds(au, notes[AuctionOf[l]].settle, l, know[l], q, lot[l], strays[l], removals[l], excused)
  BY LotView DEF HoldsNow
<1>3. /\ i \in DOMAIN q /\ q[i].kind = "Close" /\ AnswersFirst(q, i)
      /\ Taken(l, i) \in Queues /\ Taken(l, i)[l] = Without(q, i)
      /\ \A m \in Lots \ {l} : Taken(l, i)[m] = calls[m]
  BY <1>1, AnswerView
<1> HIDE DEF excused, s
<1>4. PICK k, kind : /\ Does(au, know, s, {l}, k, kind)
                     /\ \/ know[l] # "Closing" /\ k = know[l] /\ kind = "None"
                        \/ know[l] = "Closing" /\ q[i].answer = "Refused" /\ k = "Asked" /\ kind = "Ask"
                        \/ know[l] = "Closing" /\ q[i].answer = "Held" /\ k = "Held" /\ kind = "None"
                        \/ know[l] = "Closing" /\ q[i].answer \notin {"Refused", "Held"} /\ k = "Closed" /\ kind = "None"
  <2>1. CASE know[l] # "Closing"
    BY <1>2, <2>1, AnswerDoes DEF s
  <2>2. CASE know[l] = "Closing" /\ q[i].answer = "Refused"
    BY <1>2, <2>2, AnswerDoes DEF s
  <2>3. CASE know[l] = "Closing" /\ q[i].answer = "Held"
    BY <1>2, <2>3, AnswerDoes DEF s
  <2>4. CASE know[l] = "Closing" /\ q[i].answer \notin {"Refused", "Held"}
    BY <1>2, <2>4, AnswerDoes DEF s
  <2> QED BY <2>1, <2>2, <2>3, <2>4
<1>5. LotHolds(au, notes[AuctionOf[l]].settle, l, k, After(Without(q, i), kind), lot[l], strays[l], removals[l],
               excused)
  BY <1>2, <1>3, <1>4, ClosedHolds
<1>6. HoldsWith(l, k, After(Taken(l, i)[l], kind), removals'[l])
  BY <1>1, <1>3, <1>5 DEF HoldsWith, excused
<1> QED BY <1>1, <1>3, <1>4, <1>6, RosterFollows

LEMMA RemovedPhase ==
  ASSUME Inv, PhaseInv, NEW l \in Lots, NEW i, LotParticipantRemoved(l, i)
  PROVE  PhaseInv'
<1> DEFINE au == auction[AuctionOf[l]]
           settle == notes[AuctionOf[l]].settle
           q == calls[l]
           s == RemovalAnswered(know, l)
           n == IF removals[l] > 0 THEN removals[l] - 1 ELSE 0
           excused == l \in astray
<1>1. /\ AnsweredByLot(l, i, "Remove") /\ Follow(AuctionOf[l], Taken(l, i), s)
      /\ removals' = RemovalOver(removals, l) /\ UNCHANGED <<auction, lot, strays, astray>>
  BY DEF LotParticipantRemoved, OnlyFollow
<1>2. /\ q \in Seq(LotCalls) /\ know \in Knowledge /\ removals[l] \in Nat
      /\ LotHolds(au, settle, l, know[l], q, lot[l], strays[l], removals[l], excused)
  BY LotView DEF HoldsNow
<1>3. /\ i \in DOMAIN q /\ q[i].kind = "Remove" /\ q[i].waits
      /\ Taken(l, i) \in Queues /\ Taken(l, i)[l] = Without(q, i)
      /\ \A m \in Lots \ {l} : Taken(l, i)[m] = calls[m]
  BY <1>1, AnswerView DEF AnsweredByLot
<1>4. removals'[l] = n /\ \A m \in Lots \ {l} : removals'[m] = removals[m]
  BY <1>1 DEF RemovalOver, Inv, Types, TypesOfRosters
<1>5. n \in Nat
  BY <1>2
<1>6. InPhase(au, settle, l, Without(q, i), lot[l], strays[l], n, excused)
  <2> HIDE DEF excused, au, settle, q
  <2>1. Removing(q[i]) /\ InPhase(au, settle, l, q, lot[l], strays[l], removals[l], excused)
    BY <1>2, <1>3 DEF Removing, LotHolds
  <2> QED BY <1>2, <1>3, <2>1, TakenInPhase
<1> HIDE DEF excused, s, n
<1>7. PICK k, kind : /\ Does(au, know, s, {l}, k, kind)
                     /\ \/ know[l] # "Held" /\ k = know[l] /\ kind = "None"
                        \/ know[l] = "Held" /\ k = "Asked" /\ kind = "Ask"
  <2>1. CASE know[l] # "Held"
    BY <1>2, <2>1, AnswerDoes DEF s
  <2>2. CASE know[l] = "Held"
    BY <1>2, <2>2, AnswerDoes DEF s
  <2> QED BY <2>1, <2>2
<1>8. LotHolds(au, settle, l, k, After(Without(q, i), kind), lot[l], strays[l], n, excused)
  <2> HIDE DEF au, settle, q
  <2>1. IsKnown(au, settle, l, know[l], Without(q, i), lot[l], excused)
    <3>1. LotHolds(au, settle, l, know[l], Without(q, i), lot[l], strays[l], removals[l], excused)
      BY <1>2, <1>3, TakenHolds
    <3> QED BY <3>1 DEF LotHolds
  <2>2. know[l] = "Held" => ~Aside(au, l) /\ (excused \/ ~HasNoted(au, settle) \/ Noted("Held", Without(q, i), lot[l], settle))
    BY <2>1, Dealt
  <2>3. Without(q, i) \in Seq(LotCalls)
    BY <1>2, <1>3, WithoutIs
  <2> QED BY <1>5, <1>6, <1>7, <2>1, <2>2, <2>3, RemovalHolds
<1>9. HoldsWith(l, k, After(Taken(l, i)[l], kind), removals'[l])
  BY <1>1, <1>3, <1>4, <1>8 DEF HoldsWith, excused
<1> QED BY <1>1, <1>3, <1>4, <1>7, <1>9, RosterFollows

LEMMA EndedPhase ==
  ASSUME Inv, PhaseInv, NEW l \in Lots, NEW i, LotEnded(l, i)
  PROVE  PhaseInv'
<1> DEFINE a == AuctionOf[l]
           au == auction[a]
           settle == notes[a].settle
           q == calls[l]
           s == EndedByAuctioneer(au, know, removals, l, q[i].answer)
           sent == IF q[i].answer = "Refused" THEN s ELSE Ended(a, l, s)
           excused == l \in astray
<1>1. /\ AnsweredByLot(l, i, "Sale") /\ Follow(a, Taken(l, i), sent)
      /\ auction' \in {auction, [auction EXCEPT ![a] = Completed(a, l)]}
      /\ UNCHANGED <<removals, lot, strays, astray>>
  BY DEF LotEnded
<1>2. /\ q \in Seq(LotCalls) /\ know \in Knowledge /\ removals[l] \in Nat /\ a \in Auctions
      /\ LotHolds(au, settle, l, know[l], q, lot[l], strays[l], removals[l], excused)
  BY LotView DEF HoldsNow
<1>3. /\ i \in DOMAIN q /\ q[i].kind = "Sale" /\ AnswersFirst(q, i) /\ (TellsOver(q[i]) => lot[l].phase \in Over)
      /\ Taken(l, i) \in Queues /\ Taken(l, i)[l] = Without(q, i)
      /\ \A m \in Lots \ {l} : Taken(l, i)[m] = calls[m]
  BY <1>1, AnswerView
<1>4. PICK k, kind : /\ Does(au, know, s, {l}, k, kind)
                     /\ \/ know[l] # "Closing" /\ k = know[l] /\ kind = "None"
                        \/ know[l] = "Closing" /\ q[i].answer = "Refused" /\ k = "Asked" /\ kind = "Ask"
                        \/ know[l] = "Closing" /\ q[i].answer # "Refused" /\ k = "Closed" /\ kind = "None"
  <2> HIDE DEF s
  <2>1. CASE know[l] # "Closing"
    BY <1>2, <2>1, AnswerDoes DEF s
  <2>2. CASE know[l] = "Closing" /\ q[i].answer = "Refused"
    BY <1>2, <2>2, AnswerDoes DEF s
  <2>3. CASE know[l] = "Closing" /\ q[i].answer # "Refused"
    BY <1>2, <2>3, AnswerDoes DEF s
  <2> QED BY <2>1, <2>2, <2>3
<1>5. LotHolds(au, settle, l, k, After(Without(q, i), kind), lot[l], strays[l], removals[l], excused)
  <2> HIDE DEF excused, au, settle, q, s
  <2> QED BY <1>2, <1>3, <1>4, EndedHolds
<1>6. StepOK(sent) /\ sent.know = s.know /\ sent.calls = s.calls /\ sent.notes.settle = s.notes.settle
  <2>1. StepOK(s) /\ s.notes \in Notes /\ s = [know |-> s.know, calls |-> s.calls, notes |-> s.notes]
    BY <1>4 DEF Does, StepOK
  <2>2. s.notes = [settle |-> s.notes.settle, ended |-> s.notes.ended, finish |-> s.notes.finish]
    BY <2>1 DEF Notes
  <2> DEFINE after == Completed(a, l)
             finish == s.notes.finish \/ (LineupCompleted(after) /\ l \in after.completed)
  <2>3. Ended(a, l, s) = [s EXCEPT !.notes.finish = finish]
    BY DEF Ended
  <2>4. finish \in BOOLEAN
    BY <2>1 DEF Notes
  <2> HIDE DEF s, finish
  <2>5. Ended(a, l, s) = [know |-> s.know, calls |-> s.calls,
                          notes |-> [settle |-> s.notes.settle, ended |-> s.notes.ended, finish |-> finish]]
    BY <2>1, <2>2, <2>3
  <2>6. [settle |-> s.notes.settle, ended |-> s.notes.ended, finish |-> finish] \in Notes
    BY <2>1, <2>4 DEF Notes
  <2>7. StepOK(Ended(a, l, s))
    BY <2>1, <2>5, <2>6 DEF StepOK
  <2> QED BY <2>1, <2>5, <2>7
<1>7. /\ Onward(auction[a], auction'[a]) /\ auction'[a].activated = auction[a].activated
      /\ \A b \in Auctions \ {a} : auction'[b] = auction[b]
  <2>1. /\ Completed(a, l).phase = auction[a].phase /\ Completed(a, l).registry = auction[a].registry
        /\ Completed(a, l).order = auction[a].order /\ Completed(a, l).activated = auction[a].activated
    BY <1>2 DEF Completed, Inv, Types, TypesOfAuctions, AuctionStates
  <2>2. auction'[a] \in {auction[a], Completed(a, l)} /\ \A b \in Auctions \ {a} : auction'[b] = auction[b]
    BY <1>1, <1>2 DEF Inv, Types, TypesOfAuctions
  <2> QED BY <2>1, <2>2 DEF Onward
<1>8. LotHolds(au, settle, l, k, After(Taken(l, i)[l], kind), lot[l], strays[l], removals'[l], l \in astray')
  BY <1>1, <1>3, <1>5
<1>9. \A m \in Lots \ {l} : removals'[m] = removals[m] /\ (m \in astray => m \in astray')
  BY <1>1
<1> HIDE DEF s, sent, q
<1> QED BY <1>1, <1>3, <1>4, <1>6, <1>7, <1>8, <1>9, OneLotFollows

LEMMA DeadlinePhase ==
  ASSUME Inv, PhaseInv, NEW l \in Lots, DeadlineDue(l)
  PROVE  PhaseInv'
<1> DEFINE au == auction[AuctionOf[l]]
           q == calls[l]
           s == Due(au, know, l)
           excused == l \in astray
<1>1. /\ know[l] = "Active" /\ Follow(AuctionOf[l], calls, s)
      /\ UNCHANGED <<auction, lot, strays, removals, astray>>
  BY DEF DeadlineDue, OnlyFollow
<1>2. /\ q \in Seq(LotCalls) /\ know \in Knowledge /\ removals[l] \in Nat /\ calls \in Queues
      /\ LotHolds(au, notes[AuctionOf[l]].settle, l, know[l], q, lot[l], strays[l], removals[l], excused)
  BY LotView DEF HoldsNow
<1> HIDE DEF excused, s
<1>3. CASE au.phase \in {"Prebidding", "Settling"}
  <2>1. Does(au, know, s, {l}, "Closing", "Close")
    BY <1>1, <1>2, <1>3, AnswerDoes DEF s
  <2>2. LotHolds(au, notes[AuctionOf[l]].settle, l, "Closing", After(q, "Close"), lot[l], strays[l], removals[l],
                 excused)
    BY <1>1, <1>2, <1>3, DueHolds
  <2>3. HoldsWith(l, "Closing", After(calls[l], "Close"), removals'[l])
    BY <1>1, <2>2 DEF HoldsWith, excused
  <2> QED BY <1>1, <1>2, <2>1, <2>3, RosterFollows
<1>4. CASE au.phase \notin {"Prebidding", "Settling"}
  <2>1. Does(au, know, s, {l}, know[l], "None")
    BY <1>2, <1>4, AnswerDoes DEF s
  <2>2. HoldsWith(l, know[l], After(calls[l], "None"), removals'[l])
    BY <1>1, <1>2 DEF HoldsWith, After, excused
  <2> QED BY <1>1, <1>2, <2>1, <2>2, RosterFollows
<1> QED BY <1>3, <1>4

-----------------------------------------------------------------------------
(* The answers that do not come, and what the lots do by themselves.       *)

(* Only in the final a lot is called back.                                 *)
LEMMA ResumesInTheFinal ==
  ASSUME Inv, FinalInv, NEW l \in Lots, Resuming(calls[l]) \/ "Resume" \in strays[l]
  PROVE  auction[AuctionOf[l]].phase \in FinalPhases
BY OwnLot DEF FinalInv, FinalInOrder, Coming, MayCome

LEMMA SilentPhase ==
  ASSUME Inv, FinalInv, PhaseInv, NEW l \in Lots, NEW i, LotSilent(l, i)
  PROVE  PhaseInv'
<1> DEFINE a == AuctionOf[l]
           au == auction[a]
           settle == notes[a].settle
           q == calls[l]
           c == q[i]
           queues == IF c.answer = "Lost" THEN Taken(l, i) ELSE [calls EXCEPT ![l][i].waits = FALSE]
           r == queues[l]
           s == CASE c.kind = "Remove" -> RemovalAnswered(know, l)
                  [] c.kind = "Resume" -> Unmoved(know)
                  [] OTHER             -> Unmoved(Unanswered(know, l))
           excused == l \in astray
<1>1. /\ i \in DOMAIN q /\ c.waits /\ c.answer \in {"None", "Lost"}
      /\ \A j \in 1 .. i - 1 : ~q[j].waits
      /\ removals' = IF c.kind = "Remove" THEN RemovalOver(removals, l) ELSE removals
      /\ Follow(a, queues, s) /\ UNCHANGED <<auction, lot, strays, astray>>
  BY DEF LotSilent
<1>2. /\ q \in Seq(LotCalls) /\ know \in Knowledge /\ removals[l] \in Nat /\ calls \in Queues
      /\ removals \in [Lots -> Nat]
      /\ LotHolds(au, settle, l, know[l], q, lot[l], strays[l], removals[l], excused)
  BY LotView DEF HoldsNow, Inv, Types, TypesOfRosters
<1>3. c \in LotCalls
  BY <1>1, <1>2, CallsOf
<1>4. /\ queues \in Queues /\ \A m \in Lots \ {l} : queues[m] = calls[m]
      /\ r = IF c.answer = "Lost" THEN Without(q, i) ELSE [q EXCEPT ![i] = [q[i] EXCEPT !.waits = FALSE]]
  <2> DEFINE left == [q EXCEPT ![i] = [q[i] EXCEPT !.waits = FALSE]]
  <2>1. CASE c.answer = "Lost"
    <3>1. queues = Taken(l, i)
      BY <2>1
    <3>2. Taken(l, i)[l] = Without(q, i) /\ \A m \in Lots \ {l} : Taken(l, i)[m] = calls[m]
      BY <1>2 DEF Taken, Queues
    <3> QED BY <1>1, <2>1, <3>1, <3>2, TakenKeeps
  <2>2. CASE c.answer # "Lost"
    <3>1. [q[i] EXCEPT !.waits = FALSE] \in LotCalls
      BY <1>3 DEF LotCalls
    <3>2. left \in Seq(LotCalls)
      BY <1>1, <1>2, <3>1, ReplacedCall
    <3>3. queues = [calls EXCEPT ![l] = left]
      BY <2>2
    <3>4. [calls EXCEPT ![l] = left] \in Queues
      BY <1>2, <3>2, QueueType
    <3> HIDE DEF left
    <3>5. [calls EXCEPT ![l] = left][l] = left /\ \A m \in Lots \ {l} : [calls EXCEPT ![l] = left][m] = calls[m]
      BY <1>2 DEF Queues
    <3>6. queues[l] = left /\ queues \in Queues /\ \A m \in Lots \ {l} : queues[m] = calls[m]
      BY <3>3, <3>4, <3>5
    <3> QED BY <2>2, <3>6 DEF left
  <2> QED BY <2>1, <2>2
<1>5. GivenUp(q, i, r)
  <2>1. \A j \in DOMAIN q : j < i => j \in 1 .. i - 1
    BY <1>1, <1>2, CallsOf
  <2> QED BY <1>1, <1>4, <2>1 DEF GivenUp
<1> HIDE DEF excused, r
<1>6. CASE c.kind = "Remove"
  <2> DEFINE n == IF removals[l] > 0 THEN removals[l] - 1 ELSE 0
  <2>1. removals'[l] = n /\ \A m \in Lots \ {l} : removals'[m] = removals[m]
    BY <1>1, <1>2, <1>6 DEF RemovalOver
  <2>2. s = RemovalAnswered(know, l)
    BY <1>6
  <2>3. PICK k, kind : /\ Does(au, know, s, {l}, k, kind)
                       /\ \/ know[l] # "Held" /\ k = know[l] /\ kind = "None"
                          \/ know[l] = "Held" /\ k = "Asked" /\ kind = "Ask"
    <3> HIDE DEF s
    <3>1. CASE know[l] # "Held"
      BY <1>2, <2>2, <3>1, AnswerDoes
    <3>2. CASE know[l] = "Held"
      BY <1>2, <2>2, <3>2, AnswerDoes
    <3> QED BY <3>1, <3>2
  <2>4. LotHolds(au, settle, l, k, After(r, kind), lot[l], strays[l], n, excused)
    <3> HIDE DEF au, settle, q, s
    <3> QED BY <1>1, <1>2, <1>5, <1>6, <2>3, RemovalGivenUp DEF q
  <2> HIDE DEF n, s, queues
  <2>5. HoldsWith(l, k, After(queues[l], kind), removals'[l])
    BY <2>1, <2>4 DEF HoldsWith, excused, r
  <2> QED BY <1>1, <1>4, <2>1, <2>3, <2>5, RosterFollows
<1>7. CASE c.kind # "Remove"
  <2>1. PICK k : /\ Does(au, know, s, {l}, k, "None")
                 /\ \/ know[l] \in {"Asked", "Opening", "Closing", "Withdrawing"} /\ k = "Unanswered"
                    \/ /\ k = know[l]
                       /\ q[i].kind = "Resume" \/ know[l] \notin {"Asked", "Opening", "Closing", "Withdrawing"}
    <3>1. CASE c.kind = "Resume"
      <4>1. s = Unmoved(know)
        BY <3>1
      <4> HIDE DEF s
      <4> QED BY <1>2, <3>1, <4>1, NothingDoes
    <3>2. CASE c.kind # "Resume"
      <4>1. s = Unmoved(Unanswered(know, l))
        BY <1>7, <3>2
      <4> HIDE DEF s
      <4>2. PICK k \in {know[l], "Unanswered"} :
              /\ k = know[l] => know[l] \notin {"Asked", "Opening", "Closing", "Withdrawing"}
              /\ Does(au, know, s, {l}, k, "None")
        BY <1>2, <4>1, AnswerDoes
      <4>3. CASE k = know[l]
        BY <4>2, <4>3
      <4>4. CASE k # know[l] /\ know[l] \in {"Asked", "Opening", "Closing", "Withdrawing"}
        BY <4>2, <4>4
      <4>5. CASE k # know[l] /\ know[l] \notin {"Asked", "Opening", "Closing", "Withdrawing"}
        <5>1. s.know = know
          BY <4>1, <4>5 DEF Unmoved, Step, Unanswered
        <5>2. s.know[l] = k
          BY <4>2 DEF Does
        <5> QED BY <4>5, <5>1, <5>2
      <4> QED BY <4>3, <4>4, <4>5
    <3> QED BY <3>1, <3>2
  <2>2. q[i].kind = "Resume" /\ q[i].answer = "None" => au.phase \in FinalPhases
    <3>1. q[i].kind = "Resume" /\ q[i].answer = "None" => Resuming(calls[l])
      BY <1>1 DEF Resuming, Resumes
    <3> QED BY <3>1, ResumesInTheFinal
  <2>3. LotHolds(au, settle, l, k, r, lot[l], strays[l], removals[l], excused)
    <3> HIDE DEF au, settle, s
    <3> QED BY <1>1, <1>2, <1>5, <1>7, <2>1, <2>2, SilentHolds
  <2> HIDE DEF s, queues
  <2>4. removals' = removals
    BY <1>1, <1>7
  <2>5. HoldsWith(l, k, After(queues[l], "None"), removals'[l])
    BY <2>3, <2>4 DEF HoldsWith, excused, r, After
  <2> QED BY <1>1, <1>4, <2>1, <2>4, <2>5, RosterFollows
<1> QED BY <1>6, <1>7

LEMMA WithdrewPhase ==
  ASSUME Inv, PhaseInv, NEW l \in Lots, NEW i, LotWithdrew(l, i)
  PROVE  PhaseInv'
<1> DEFINE au == auction[AuctionOf[l]]
           settle == notes[AuctionOf[l]].settle
           q == calls[l]
           s == Withdrawn(know, l, q[i].answer)
           excused == l \in astray
<1>1. /\ AnsweredByLot(l, i, "Withdraw") /\ Follow(AuctionOf[l], Taken(l, i), s)
      /\ UNCHANGED <<auction, lot, strays, removals, astray>>
  BY DEF LotWithdrew
<1>2. /\ q \in Seq(LotCalls) /\ know \in Knowledge /\ removals[l] \in Nat
      /\ LotHolds(au, settle, l, know[l], q, lot[l], strays[l], removals[l], excused)
  BY LotView DEF HoldsNow
<1>3. /\ i \in DOMAIN q /\ q[i].kind = "Withdraw"
      /\ Taken(l, i) \in Queues /\ Taken(l, i)[l] = Without(q, i)
      /\ \A m \in Lots \ {l} : Taken(l, i)[m] = calls[m]
  BY <1>1, AnswerView
<1> HIDE DEF excused, s
<1>4. PICK k : Does(au, know, s, {l}, k, "None")
  <2>1. CASE know[l] # "Withdrawing"
    BY <1>2, <2>1, AnswerDoes DEF s
  <2>2. CASE know[l] = "Withdrawing"
    BY <1>2, <2>2, AnswerDoes DEF s
  <2> QED BY <2>1, <2>2
<1>5. LotHolds(au, settle, l, k, Without(q, i), lot[l], strays[l], removals[l], excused)
  <2> HIDE DEF au, settle, q
  <2> QED BY <1>2, <1>3, WithdrewHolds
<1>6. HoldsWith(l, k, After(Taken(l, i)[l], "None"), removals'[l])
  BY <1>1, <1>3, <1>5 DEF HoldsWith, After, excused
<1> QED BY <1>1, <1>3, <1>4, <1>6, RosterFollows

LEMMA ReturnedPhase ==
  ASSUME Inv, PhaseInv, NEW l \in Lots, NEW i, LotReturned(l, i)
  PROVE  PhaseInv'
<1> DEFINE a == AuctionOf[l]
           au == auction[a]
           settle == notes[a].settle
           q == calls[l]
           excused == l \in astray
           after == [au EXCEPT !.activated = Append(au.activated, l)]
<1>1. /\ AnsweredByLot(l, i, "Resume") /\ calls' = Taken(l, i)
      /\ \/ auction' = auction
         \/ auction' = [auction EXCEPT ![a] = after] /\ l \in NextLots(au)
      /\ UNCHANGED <<roster, lot, strays, astray>>
  BY DEF LotReturned, MayReturn
<1>2. /\ q \in Seq(LotCalls) /\ know \in Knowledge /\ removals[l] \in Nat /\ a \in Auctions
      /\ auction \in [Auctions -> AuctionStates]
      /\ LotHolds(au, settle, l, know[l], q, lot[l], strays[l], removals[l], excused)
  BY LotView DEF HoldsNow, Inv, Types, TypesOfAuctions
<1>3. /\ i \in DOMAIN q /\ q[i].kind = "Resume"
      /\ Taken(l, i)[l] = Without(q, i)
      /\ \A m \in Lots \ {l} : Taken(l, i)[m] = calls[m]
  BY <1>1, AnswerView
<1>4. Members(au.activated) \subseteq Members(au.order)
  BY <1>2 DEF PhaseInv, Registered
<1>5. /\ Onward(au, auction'[a]) /\ Members(auction'[a].activated) \subseteq Members(auction'[a].order)
      /\ \A b \in Auctions \ {a} : auction'[b] = auction[b]
  <2>1. CASE auction' = auction
    BY <1>4, <2>1 DEF Onward
  <2>2. CASE auction' = [auction EXCEPT ![a] = after] /\ l \in NextLots(au)
    <3>1. auction'[a] = after /\ \A b \in Auctions \ {a} : auction'[b] = auction[b]
      BY <1>2, <2>2
    <3>2. /\ after.phase = au.phase /\ after.registry = au.registry /\ after.order = au.order
          /\ after.activated = Append(au.activated, l) /\ au.activated \in Seq(Lots)
      BY <1>2 DEF AuctionStates
    <3>3. Members(Append(au.activated, l)) = Members(au.activated) \cup {l}
      <4>1. /\ Len(Append(au.activated, l)) = Len(au.activated) + 1
            /\ \A j \in 1 .. Len(au.activated) : Append(au.activated, l)[j] = au.activated[j]
            /\ Append(au.activated, l)[Len(au.activated) + 1] = l
            /\ Append(au.activated, l) \in Seq(Lots)
        BY <3>2, AppendProperties
      <4>2. /\ DOMAIN au.activated = 1 .. Len(au.activated) /\ Len(au.activated) \in Nat
            /\ DOMAIN Append(au.activated, l) = 1 .. Len(au.activated) + 1
        BY <3>2, <4>1, LenProperties
      <4>3. 1 .. Len(au.activated) + 1 = 1 .. Len(au.activated) \cup {Len(au.activated) + 1}
        BY <4>2
      <4> QED BY <4>1, <4>2, <4>3 DEF Members
    <3>4. l \in Members(au.order)
      BY <2>2 DEF NextLots, Members
    <3> QED BY <1>4, <3>1, <3>2, <3>3, <3>4 DEF Onward
  <2> QED BY <1>1, <2>1, <2>2
<1>6. HoldsThen(l, settle)
  <2> HIDE DEF excused, au, settle, q
  <2>1. LotHolds(au, settle, l, know[l], Without(q, i), lot[l], strays[l], removals[l], excused)
    BY <1>2, <1>3, TakenHolds
  <2>2. LotHolds(auction'[a], settle, l, know[l], Without(q, i), lot[l], strays[l], removals[l], excused)
    BY <1>5, <2>1, OnwardHolds
  <2>3. calls'[l] = Without(q, i) /\ know' = know /\ lot' = lot /\ strays' = strays /\ removals' = removals
    BY <1>1, <1>3 DEF roster
  <2> QED BY <1>1, <2>2, <2>3 DEF HoldsThen, excused
<1>7. notes' = notes /\ \A m \in Lots \ {l} : SameLot(m)
  BY <1>1, <1>3 DEF SameLot, roster
<1> QED BY <1>5, <1>6, <1>7, OneLotKept

LEMMA LostPhase ==
  ASSUME Inv, PhaseInv, NEW l \in Lots, NEW i, CallLost(l, i)
  PROVE  PhaseInv'
<1> DEFINE a == AuctionOf[l]
           au == auction[a]
           settle == notes[a].settle
           q == calls[l]
           c == [q[i] EXCEPT !.answer = "Lost"]
           r == [q EXCEPT ![i] = c]
           excused == l \in astray
<1>1. /\ i \in DOMAIN q /\ q[i].waits /\ calls' = [calls EXCEPT ![l] = r]
      /\ UNCHANGED <<auction, roster, lot, strays, astray>>
  BY DEF CallLost
<1>2. /\ q \in Seq(LotCalls) /\ removals[l] \in Nat /\ a \in Auctions /\ calls \in Queues
      /\ LotHolds(au, settle, l, know[l], q, lot[l], strays[l], removals[l], excused)
  BY LotView DEF HoldsNow
<1>3. q[i] \in LotCalls
  BY <1>1, <1>2, CallsOf
<1>4. c \in LotCalls /\ c.kind = q[i].kind /\ c.waits = q[i].waits /\ c.answer = "Lost"
  BY <1>3 DEF LotCalls, Answers
<1> HIDE DEF au, settle, q, c, excused
<1>5. InPhase(au, settle, l, r, lot[l], strays[l], removals[l], excused)
  <2>1. InPhase(au, settle, l, q, lot[l], strays[l], removals[l], excused)
    BY <1>2 DEF LotHolds
  <2>2. InLine(r)
    <3>1. InLine(q)
      BY <2>1 DEF InPhase
    <3> QED BY <1>1, <1>2, <1>4, <3>1, LineReplaced
  <2>3. au.phase \in Holding => Counted(r, removals[l])
    <3> SUFFICES ASSUME au.phase \in Holding PROVE Counted(r, removals[l])
      OBVIOUS
    <3>1. Counted(q, removals[l])
      BY <2>1 DEF InPhase
    <3>2. Removing(c) => Removing(q[i])
      BY <1>4 DEF Removing
    <3> QED BY <1>1, <1>2, <1>4, <3>1, <3>2, CountedReplaced
  <2> QED BY <1>1, <1>2, <1>4, <2>1, <2>2, <2>3, CallChanged
<1>6. IsKnown(au, settle, l, know[l], r, lot[l], excused)
  BY <1>1, <1>2, <1>4, KnownChanged DEF LotHolds
<1> HIDE DEF r
<1>7. calls'[l] = r /\ \A m \in Lots \ {l} : calls'[m] = calls[m]
  BY <1>1, <1>2 DEF Queues
<1>8. HoldsThen(l, settle)
  BY <1>1, <1>5, <1>6, <1>7 DEF HoldsThen, LotHolds, roster, au, excused
<1>9. /\ notes' = notes /\ \A m \in Lots \ {l} : SameLot(m)
      /\ \A b \in Auctions : auction'[b] = auction[b] /\ Onward(auction[b], auction'[b])
  BY <1>1, <1>7 DEF SameLot, roster, Onward
<1>10. Members(auction'[a].activated) \subseteq Members(auction'[a].order)
  BY <1>1, <1>2 DEF PhaseInv, Registered
<1> QED BY <1>2, <1>8, <1>9, <1>10, OneLotKept DEF settle

LEMMA HandlesPhase ==
  ASSUME Inv, FinalInv, PhaseInv, NEW l \in Lots, NEW i, LotHandles(l, i)
  PROVE  PhaseInv'
<1> DEFINE a == AuctionOf[l]
           au == auction[a]
           settle == notes[a].settle
           q == calls[l]
           excused == l \in astray
<1>1. PICK o \in Outcomes(lot[l], q[i].kind) :
        /\ i \in DOMAIN q /\ q[i].answer = "None" /\ \A j \in Unhandled(l) : i <= j
        /\ lot' = [lot EXCEPT ![l] = o.state]
        /\ strays' = [strays EXCEPT ![l] = StillMove(o.state, strays[l])]
        /\ calls' = [calls EXCEPT ![l] =
             IF q[i].waits THEN [q EXCEPT ![i] = [q[i] EXCEPT !.answer = o.answer]] ELSE Without(q, i)]
        /\ UNCHANGED <<auction, roster, astray>>
  BY DEF LotHandles, Unhandled
<1> DEFINE r == IF q[i].waits THEN [q EXCEPT ![i] = [q[i] EXCEPT !.answer = o.answer]] ELSE Without(q, i)
           fewer == StillMove(o.state, strays[l])
<1>2. /\ q \in Seq(LotCalls) /\ removals[l] \in Nat /\ a \in Auctions /\ calls \in Queues
      /\ lot \in [Lots -> LotStates] /\ lot[l] \in LotStates /\ strays \in [Lots -> SUBSET Kinds]
      /\ LotHolds(au, settle, l, know[l], q, lot[l], strays[l], removals[l], excused)
  BY LotView DEF HoldsNow, Inv, Types, TypesOfLots
<1>3. Oldest(q, i)
  <2>1. ASSUME NEW j \in DOMAIN q, j < i PROVE q[j].answer # "None"
    <3>1. j \in Nat /\ i \in Nat
      BY <1>1, <1>2, CallsOf
    <3>2. j \notin Unhandled(l)
      BY <1>1, <2>1, <3>1
    <3> QED BY <3>2 DEF Unhandled
  <2> QED BY <1>1, <2>1 DEF Oldest
<1>4. q[i] \in LotCalls /\ q[i].kind \in Kinds
  <2>1. q[i] \in LotCalls
    BY <1>1, <1>2, CallsOf
  <2> QED BY <2>1 DEF LotCalls
<1>5. o.answer \in Answers \ {"None", "Lost"}
  <2>1. RecordedIsOver(lot[l])
    BY DEF Inv, OverIsTrue
  <2> QED BY <1>2, <1>4, <2>1, OutcomeFits DEF Fits
<1>6. q[i].kind = "Resume" => au.phase \in FinalPhases
  <2>1. q[i].kind = "Resume" => Resuming(calls[l])
    BY <1>1 DEF Resuming, Resumes
  <2> QED BY <2>1, ResumesInTheFinal
<1>7. fewer \in SUBSET strays[l]
  BY DEF StillMove
<1>8. LotHolds(au, settle, l, know[l], r, o.state, fewer, removals[l], excused)
  <2> DEFINE s == lot[l]
             st == strays[l]
  <2>1. InPhase(au, settle, l, q, s, st, removals[l], excused) /\ IsKnown(au, settle, l, know[l], q, s, excused)
    BY <1>2 DEF LotHolds
  <2>2. s \in LotStates /\ o \in Outcomes(s, q[i].kind) /\ fewer \in SUBSET st
    BY <1>1, <1>2, <1>7
  <2>3. r = IF q[i].waits THEN [q EXCEPT ![i] = [q[i] EXCEPT !.answer = o.answer]] ELSE Without(q, i)
    OBVIOUS
  <2> HIDE DEF au, settle, q, r, fewer, excused, s, st
  <2> QED BY <1>1, <1>2, <1>3, <1>5, <1>6, <2>1, <2>2, <2>3, Handled DEF LotHolds
<1> HIDE DEF r, fewer, q
<1>9. /\ calls'[l] = r /\ lot'[l] = o.state /\ strays'[l] = fewer
      /\ \A m \in Lots \ {l} : calls'[m] = calls[m] /\ lot'[m] = lot[m] /\ strays'[m] = strays[m]
  BY <1>1, <1>2 DEF Queues, r, fewer
<1>10. HoldsThen(l, settle)
  BY <1>1, <1>8, <1>9 DEF HoldsThen, roster
<1>11. /\ notes' = notes /\ \A m \in Lots \ {l} : SameLot(m)
       /\ \A b \in Auctions : auction'[b] = auction[b] /\ Onward(auction[b], auction'[b])
  BY <1>1, <1>9 DEF SameLot, roster, Onward
<1>12. Members(auction'[a].activated) \subseteq Members(auction'[a].order)
  BY <1>1, <1>2 DEF PhaseInv, Registered
<1> QED BY <1>2, <1>10, <1>11, <1>12, OneLotKept

LEMMA StrayPhase ==
  ASSUME Inv, FinalInv, PhaseInv, NEW l \in Lots, NEW kind, StrayArrives(l, kind)
  PROVE  PhaseInv'
<1> DEFINE a == AuctionOf[l]
           au == auction[a]
           settle == notes[a].settle
           q == calls[l]
           excused == l \in astray
<1>1. PICK o \in Outcomes(lot[l], kind) :
        /\ kind \in strays[l] /\ lot' = [lot EXCEPT ![l] = o.state]
        /\ strays' = [strays EXCEPT ![l] = StillMove(o.state, strays[l] \ {kind})]
        /\ astray' = astray \cup
             {m \in {l} : o.state # lot[l] /\ (kind = "Sale" \/ (kind = "Open" /\ ~WillHear(l)))}
        /\ UNCHANGED <<auction, roster, calls>>
  BY DEF StrayArrives
<1> DEFINE fewer == StillMove(o.state, strays[l] \ {kind})
           freed == l \in astray'
           s == lot[l]
           st == strays[l]
<1>2. /\ q \in Seq(LotCalls) /\ removals[l] \in Nat /\ a \in Auctions
      /\ lot \in [Lots -> LotStates] /\ s \in LotStates /\ strays \in [Lots -> SUBSET Kinds]
      /\ LotHolds(au, settle, l, know[l], q, s, st, removals[l], excused)
  BY LotView DEF HoldsNow, Inv, Types, TypesOfLots
<1>3. kind \in st \cap Kinds /\ fewer \in SUBSET st /\ o \in Outcomes(s, kind)
  BY <1>1, <1>2 DEF StillMove
<1>4. kind = "Resume" => au.phase \in FinalPhases
  BY <1>1, ResumesInTheFinal
<1>5. excused => freed
  BY <1>1
<1>6. StrayExcused(au, q, kind, s, o.state, freed)
  BY <1>1 DEF StrayExcused, WillHear, Unhandled
<1>7. LotHolds(au, settle, l, know[l], q, o.state, fewer, removals[l], freed)
  <2>1. InPhase(au, settle, l, q, s, st, removals[l], excused) /\ IsKnown(au, settle, l, know[l], q, s, excused)
    BY <1>2 DEF LotHolds
  <2> HIDE DEF au, settle, q, fewer, excused, freed, s, st
  <2> QED BY <1>2, <1>3, <1>4, <1>5, <1>6, <2>1, StrayHandled DEF LotHolds
<1>8. HoldsThen(l, settle)
  <2> HIDE DEF au, settle, fewer
  <2>1. lot'[l] = o.state /\ strays'[l] = fewer
    BY <1>1, <1>2 DEF fewer
  <2> QED BY <1>1, <1>7, <2>1 DEF HoldsThen, roster, au
<1>9. /\ notes' = notes /\ \A m \in Lots \ {l} : SameLot(m)
      /\ \A b \in Auctions : auction'[b] = auction[b] /\ Onward(auction[b], auction'[b])
  BY <1>1, <1>2 DEF SameLot, roster, Onward
<1>10. Members(auction'[a].activated) \subseteq Members(auction'[a].order)
  BY <1>1, <1>2 DEF PhaseInv, Registered
<1> QED BY <1>2, <1>8, <1>9, <1>10, OneLotKept

-----------------------------------------------------------------------------
(* A lot when its auction moves on.                                        *)

(* The auction has handled its notes.                                      *)
LEMMA FewerNotes ==
  ASSUME NEW au, NEW settle, NEW l, NEW k, NEW q, NEW s, NEW st, NEW n, NEW excused,
         LotHolds(au, settle, l, k, q, s, st, n, excused), NEW fewer \in SUBSET settle
  PROVE  LotHolds(au, fewer, l, k, q, s, st, n, excused)
<1>1. HasNoted(au, fewer) => HasNoted(au, settle)
  BY DEF HasNoted
<1>2. TradedOnline(au, fewer) => TradedOnline(au, settle)
  BY <1>1 DEF TradedOnline
<1>3. Noted(k, q, s, settle) => Noted(k, q, s, fewer)
  BY DEF Noted
<1>4. InPhase(au, fewer, l, q, s, st, n, excused)
  BY <1>2 DEF LotHolds, InPhase, Placed
<1>5. IsKnown(au, fewer, l, k, q, s, excused)
  BY <1>1, <1>3 DEF LotHolds, IsKnown
<1> QED BY <1>4, <1>5 DEF LotHolds

(* A lot that has not answered is asked again.                             *)
LEMMA AskedHolds ==
  ASSUME NEW au, NEW settle, NEW l, NEW k, NEW q \in Seq(LotCalls), NEW s, NEW st, NEW n \in Nat, NEW excused,
         LotHolds(au, settle, l, k, q, s, st, n, excused),
         k = "Unanswered" \/ (~Aside(au, l) /\ au.phase = "Prebidding")
  PROVE  LotHolds(au, settle, l, "Asked", After(q, "Ask"), s, st, n, excused)
<1>1. /\ ~Aside(au, l)
      /\ \/ excused \/ ~HasNoted(au, settle)
         \/ k \in {"Held", "Asked", "Unanswered"} /\ Noted(k, q, s, settle)
  <2>1. CASE k = "Unanswered"
    BY <2>1, Dealt DEF LotHolds
  <2>2. CASE ~Aside(au, l) /\ au.phase = "Prebidding"
    BY <2>2 DEF HasNoted
  <2> QED BY <2>1, <2>2
<1>2. InPhase(au, settle, l, Append(q, Call("Ask")), s, st, n, excused)
  BY <1>1, AskSent DEF LotHolds
<1>3. IsKnown(au, settle, l, "Asked", Append(q, Call("Ask")), s, excused)
  BY <1>1, AskedNow
<1> QED BY <1>2, <1>3 DEF LotHolds, After

(* A cancelled auction withdraws a lot.                                    *)
LEMMA WithdrawHolds ==
  ASSUME NEW au, NEW settle, NEW l, NEW k, NEW q \in Seq(LotCalls), NEW s, NEW st, NEW n \in Nat, NEW excused,
         InPhase(au, settle, l, q, s, st, n, excused), ~Aside(au, l), au.phase = "Cancelled"
  PROVE  LotHolds(au, settle, l, k, After(q, "Withdraw"), s, st, n, excused)
<1>1. "Withdraw" \in Kinds /\ MaySend(au, settle, l, q, "Withdraw", excused)
  BY DEF Kinds, MaySend
<1>2. InPhase(au, settle, l, Append(q, Call("Withdraw")), s, st, n, excused)
  <2>1. InPhase(au, settle, l, Append(q, Call("Withdraw")), s, st, IF "Withdraw" = "Remove" THEN n + 1 ELSE n,
                excused)
    BY <1>1, CallSent
  <2> QED BY <2>1
<1>3. IsKnown(au, settle, l, k, Append(q, Call("Withdraw")), s, excused)
  BY KnowsFreely DEF Asking
<1> QED BY <1>2, <1>3 DEF LotHolds, After

(* An auction is cancelled: nothing is promised of its lots any more.      *)
LEMMA CancelledInPhase ==
  ASSUME NEW au, NEW settle, NEW l, NEW q, NEW s, NEW st, NEW n, NEW excused,
         InPhase(au, settle, l, q, s, st, n, excused), au.phase \in Holding,
         NEW after, after.phase = "Cancelled", after.registry = au.registry, NEW m
  PROVE  /\ InPhase(after, settle, l, q, s, st, m, excused)
         /\ Aside(after, l) <=> Aside(au, l)
<1>1. Aside(after, l) <=> Aside(au, l)
  BY DEF Aside, Unplanned, Holding, Asking
<1>2. Placed(after, settle, l, q, s, st)
  BY DEF Placed, TradedOnline, HasNoted, AwaitsItsTurn
<1>3. InPhase(after, settle, l, q, s, st, m, excused)
  BY <1>1, <1>2 DEF InPhase, Holding, Asking
<1> QED BY <1>1, <1>3

(* The prebidding begins: the lots are as they were planned.               *)
LEMMA BegunInPhase ==
  ASSUME NEW au, NEW settle, NEW l, NEW k, NEW q \in Seq(LotCalls), NEW s, NEW st, NEW n, NEW excused,
         LotHolds(au, settle, l, k, q, s, st, n, excused), au.phase \in Unplanned,
         NEW after, after.phase = "Prebidding"
  PROVE  InPhase(after, {}, l, q, s, st, 0, excused)
<1>1. Apart(q, s, st) /\ Consistent(s)
  BY DEF LotHolds, InPhase, Aside
<1>2. Counted(q, 0)
  <2>1. \A i \in DOMAIN q : ~Removing(q[i])
    BY <1>1 DEF Apart, Members, Removing
  <2>2. [i \in DOMAIN q |-> 0] \in [DOMAIN q -> Nat]
    OBVIOUS
  <2> QED BY <2>1, <2>2 DEF Counted
<1>3. Unsold(q, s, st)
  BY <1>1 DEF Apart, Consistent, Unsold
<1>4. Placed(after, {}, l, q, s, st)
  BY <1>3 DEF Placed, TradedOnline, HasNoted, AwaitsItsTurn
<1>5. after.phase \notin {"Cancelled"} /\ au.phase # "Cancelled"
  BY DEF Unplanned
<1> QED BY <1>1, <1>2, <1>4, <1>5 DEF LotHolds, InPhase

(* An auction is planned anew.                                             *)
LEMMA PlannedHolds ==
  ASSUME NEW au, NEW settle, NEW l, NEW k, NEW q, NEW s, NEW st, NEW n, NEW excused,
         LotHolds(au, settle, l, k, q, s, st, n, excused), au.phase \in Unplanned,
         NEW after, after.phase \in Unplanned
  PROVE  LotHolds(after, settle, l, k, q, s, st, n, excused)
<1>1. Aside(au, l) /\ Aside(after, l)
  BY DEF Aside
<1>2. Placed(after, settle, l, q, s, st)
  BY DEF Placed, TradedOnline, HasNoted, AwaitsItsTurn, Unplanned
<1>3. after.phase \notin Holding \cup {"Cancelled"} /\ au.phase # "Cancelled"
  BY DEF Holding, Asking, Unplanned
<1>4. InPhase(after, settle, l, q, s, st, n, excused)
  BY <1>1, <1>2, <1>3 DEF LotHolds, InPhase
<1>5. IsKnown(after, settle, l, k, q, s, excused)
  BY <1>1 DEF LotHolds, IsKnown
<1> QED BY <1>4, <1>5 DEF LotHolds

(* A restart: no call is waited for, and any that was sent may be late.    *)
MayArrive(late, st, q) == \A kind \in late : kind \in st \/ \E c \in Members(q) : c.kind = kind

LEMMA EmptiedInPhase ==
  ASSUME NEW au, NEW settle, NEW l, NEW q \in Seq(LotCalls), NEW s, NEW st, NEW n, NEW excused,
         InPhase(au, settle, l, q, s, st, n, excused),
         NEW late, MayArrive(late, st, q)
  PROVE  InPhase(au, {}, l, <<>>, s, late, 0, excused)
<1>1. DOMAIN <<>> = {} /\ Members(<<>>) = {}
  BY DEF Members
<1>2. InLine(<<>>)
  BY <1>1 DEF InLine
<1>3. Counted(<<>>, 0)
  <2>1. [i \in DOMAIN <<>> |-> 0] \in [DOMAIN <<>> -> Nat]
    OBVIOUS
  <2> QED BY <1>1, <2>1 DEF Counted
<1>4. Aside(au, l) => Apart(<<>>, s, late)
  BY <1>1 DEF InPhase, Apart, MayArrive
<1>5. au.phase # "Cancelled" => "Withdraw" \notin late
  BY DEF InPhase, MayArrive
<1>6. TradedOnline(au, {}) => TradedOnline(au, settle)
  BY DEF TradedOnline, HasNoted
<1>7. Placed(au, settle, l, q, s, st) => Placed(au, {}, l, <<>>, s, late)
  BY <1>1, <1>6 DEF Placed, Unsold, Offline, Frozen, MayArrive
<1> QED BY <1>1, <1>2, <1>3, <1>4, <1>5, <1>7 DEF InPhase

(* The prebidding is over.                                                 *)
LEMMA PrebiddingHolds ==
  ASSUME NEW au, NEW l, NEW k, NEW q, NEW s, NEW st, NEW n, NEW excused,
         LotHolds(au, {}, l, k, q, s, st, n, excused), au.phase = "Prebidding",
         NEW after, after.phase = "Settling", after.registry = au.registry
  PROVE  LotHolds(after, {}, l, k, q, s, st, n, excused)
<1>1. Aside(after, l) <=> Aside(au, l)
  BY DEF Aside, Unplanned
<1>2. {au.phase, after.phase} \subseteq Holding \cap Asking
  BY DEF Holding, Asking
<1>3. Placed(au, {}, l, q, s, st) => Placed(after, {}, l, q, s, st)
  BY DEF Placed, TradedOnline, HasNoted, AwaitsItsTurn
<1>4. InPhase(after, {}, l, q, s, st, n, excused)
  BY <1>1, <1>2, <1>3 DEF LotHolds, InPhase
<1>5. Known(au.phase, k, q, s) => Known(after.phase, k, q, s)
  BY DEF Known
<1>6. IsKnown(after, {}, l, k, q, s, excused)
  BY <1>1, <1>2, <1>5 DEF LotHolds, IsKnown, HasNoted
<1> QED BY <1>4, <1>6 DEF LotHolds

(* The break begins, or without held lots the auction is over.             *)
LEMMA SettledHolds ==
  ASSUME NEW au, NEW settle, NEW l, NEW k, NEW q, NEW s, NEW st, NEW n, NEW excused,
         LotHolds(au, settle, l, k, q, s, st, n, excused), HasNoted(au, settle),
         NEW after, after.registry = au.registry, NEW fewer,
         after.phase = "Break" \/ (after.phase = "Finished" /\ FALSE \in settle)
  PROVE  LotHolds(after, fewer, l, k, q, s, st, n, excused)
<1>1. Aside(after, l) <=> Aside(au, l)
  BY DEF Aside, Unplanned, HasNoted
<1>2. au.phase = "Settling" /\ au.phase \in Asking \cap Holding /\ TradedOnline(au, settle)
  BY DEF HasNoted, TradedOnline, Asking, Holding
<1>3. ASSUME ~excused, ~Aside(au, l)
      PROVE  Known(au.phase, k, q, s) /\ Noted(k, q, s, settle)
  BY <1>2, <1>3 DEF LotHolds, IsKnown
<1>4. ASSUME ~excused, FALSE \in settle
      PROVE  s.phase \in BeforeTrade \cup Over
  <2>1. CASE Aside(au, l)
    BY <2>1 DEF LotHolds, InPhase, Apart
  <2>2. CASE ~Aside(au, l)
    <3>1. k \in {"Closed", "Declined", "NotOpened"}
      BY <1>3, <1>4, <2>2 DEF Noted
    <3> QED BY <1>3, <1>4, <2>2, <3>1 DEF Known
  <2> QED BY <2>1, <2>2
<1>5. excused \/ Placed(after, fewer, l, q, s, st)
  <2> SUFFICES ASSUME ~excused PROVE Placed(after, fewer, l, q, s, st)
    OBVIOUS
  <2>1. Offline(q, s)
    BY <1>2 DEF LotHolds, InPhase, Placed
  <2> QED BY <1>4, <2>1 DEF Placed, AwaitsItsTurn
<1>6. InPhase(after, fewer, l, q, s, st, n, excused)
  BY <1>1, <1>2, <1>5 DEF LotHolds, InPhase
<1>7. ~excused /\ ~Aside(au, l) => Known("Break", k, q, s)
  BY <1>2, <1>3 DEF Known
<1>8. after.phase \in Asking => after.phase = "Break"
  BY DEF Asking
<1>9. IsKnown(after, fewer, l, k, q, s, excused)
  BY <1>1, <1>7, <1>8 DEF LotHolds, IsKnown, HasNoted
<1> QED BY <1>6, <1>9 DEF LotHolds

(* In the break nobody is left to wait for: what is known of a lot.        *)
LEMMA KnownInTheBreak ==
  ASSUME NEW au, NEW settle, NEW l, NEW k, NEW q, NEW s, NEW st, NEW n, NEW excused,
         LotHolds(au, settle, l, k, q, s, st, n, excused), au.phase = "Break", ~excused,
         ~Aside(au, l) => k \in Settled
  PROVE  /\ Offline(q, s)
         /\ Aside(au, l) \/ k # "Held" => s.phase \in BeforeTrade \cup Over
         /\ ~Aside(au, l) /\ k = "Held" =>
              /\ Calm(q) /\ s.phase = "Held"
              /\ \A c \in Members(q) : c.answer # "Lost" => c.waits
<1>1. Offline(q, s)
  BY DEF LotHolds, InPhase, Placed, TradedOnline
<1>2. Aside(au, l) => s.phase \in BeforeTrade
  BY DEF LotHolds, InPhase, Apart
<1>3. ~Aside(au, l) => Known("Break", k, q, s)
  BY DEF LotHolds, IsKnown, Asking
<1> QED BY <1>1, <1>2, <1>3 DEF Known, Settled

(* An auction is over once all of its lots are.                            *)
LEMMA FinishedHolds ==
  ASSUME NEW au, NEW settle, NEW l, NEW k, NEW q, NEW s, NEW st, NEW n, NEW excused,
         LotHolds(au, settle, l, k, q, s, st, n, excused), au.phase \in {"Break", "Final"},
         excused \/ s.phase \in BeforeTrade \cup Over,
         NEW after, after.phase = "Finished", after.registry = au.registry
  PROVE  LotHolds(after, settle, l, k, q, s, st, n, excused)
<1>1. Aside(after, l) <=> Aside(au, l)
  BY DEF Aside, Unplanned
<1>2. after.phase \notin Holding \cup Asking
  BY DEF Holding, Asking
<1>3. Placed(au, settle, l, q, s, st) => Offline(q, s)
  BY DEF Placed, TradedOnline
<1>4. excused \/ Placed(after, settle, l, q, s, st)
  BY <1>3 DEF LotHolds, InPhase, Placed, AwaitsItsTurn
<1>5. InPhase(after, settle, l, q, s, st, n, excused)
  BY <1>1, <1>2, <1>4 DEF LotHolds, InPhase
<1>6. IsKnown(after, settle, l, k, q, s, excused)
  BY <1>1, <1>2 DEF LotHolds, IsKnown, HasNoted
<1> QED BY <1>5, <1>6 DEF LotHolds

(* The line-up is frozen: each lot that is known as held is held, and no   *)
(* sale and no removal is on its way to it.                                *)
LEMMA FrozenHolds ==
  ASSUME NEW au, NEW settle, NEW l, NEW k, NEW q \in Seq(LotCalls), NEW s, NEW st, NEW excused, NEW n,
         LotHolds(au, settle, l, k, q, s, st, n, excused), au.phase = "Break",
         ~Aside(au, l) => k \in Settled /\ n = 0,
         NEW after, after.phase = "LineupFrozen", after.registry = au.registry,
         l \in Members(after.order) <=> ~Aside(au, l) /\ k = "Held"
  PROVE  LotHolds(after, settle, l, k, q, s, st, n, excused)
<1>1. Aside(after, l) <=> Aside(au, l)
  BY DEF Aside, Unplanned
<1>2. {au.phase, after.phase} \subseteq Holding /\ after.phase \notin Asking
  BY DEF Holding, Asking
<1>3. excused \/ Placed(after, settle, l, q, s, st)
  <2> SUFFICES ASSUME ~excused PROVE Placed(after, settle, l, q, s, st)
    OBVIOUS
  <2>1. /\ Offline(q, s)
        /\ Aside(au, l) \/ k # "Held" => s.phase \in BeforeTrade \cup Over
        /\ ~Aside(au, l) /\ k = "Held" =>
             /\ Calm(q) /\ s.phase = "Held"
             /\ \A c \in Members(q) : c.answer # "Lost" => c.waits
    BY KnownInTheBreak
  <2>2. ASSUME l \in Members(after.order) PROVE Frozen(q, s)
    <3>1. Counted(q, 0)
      BY <1>2, <2>2 DEF LotHolds, InPhase
    <3>2. \A i \in DOMAIN q : ~Removing(q[i])
      <4>1. \A j : j \notin 1 .. 0
        OBVIOUS
      <4> QED BY <3>1, <4>1 DEF Counted
    <3>3. \A c \in Members(q) : ~Removing(c)
      BY <3>2 DEF Members
    <3> QED BY <2>1, <2>2, <3>3 DEF Frozen, Calm, Removing
  <2>3. l \notin Members(after.order) => s.phase # "Held"
    BY <2>1 DEF BeforeTrade, Over
  <2> QED BY <2>1, <2>2, <2>3 DEF Placed, AwaitsItsTurn
<1>4. InPhase(after, settle, l, q, s, st, n, excused)
  BY <1>1, <1>2, <1>3 DEF LotHolds, InPhase
<1>5. IsKnown(after, settle, l, k, q, s, excused)
  BY <1>1, <1>2 DEF LotHolds, IsKnown, HasNoted
<1> QED BY <1>4, <1>5 DEF LotHolds

LEMMA FinalHolds ==
  ASSUME NEW au, NEW settle, NEW l, NEW k, NEW q, NEW s, NEW st, NEW n, NEW excused,
         LotHolds(au, settle, l, k, q, s, st, n, excused), au.phase = "LineupFrozen",
         NEW after, after.phase = "Final", after.registry = au.registry, after.order = au.order,
         after.activated = au.activated
  PROVE  LotHolds(after, settle, l, k, q, s, st, n, excused)
<1>1. Aside(after, l) <=> Aside(au, l)
  BY DEF Aside, Unplanned
<1>2. {au.phase, after.phase} \subseteq Holding /\ after.phase \notin Asking
  BY DEF Holding, Asking
<1>3. Placed(au, settle, l, q, s, st) => Placed(after, settle, l, q, s, st)
  BY DEF Placed, TradedOnline, HasNoted, AwaitsItsTurn
<1>4. InPhase(after, settle, l, q, s, st, n, excused)
  BY <1>1, <1>2, <1>3 DEF LotHolds, InPhase
<1>5. IsKnown(after, settle, l, k, q, s, excused)
  BY <1>1, <1>2 DEF LotHolds, IsKnown, HasNoted
<1> QED BY <1>4, <1>5 DEF LotHolds

-----------------------------------------------------------------------------
(* An auction deals with several of its lots at once.                      *)

(* A lot of an auction, as the auction would know it and call it.          *)
HoldsAs(au, settle, l, k, q, n) == LotHolds(au, settle, l, k, q, lot[l], strays[l], n, l \in astray)

LEMMA AuctionView ==
  ASSUME Inv, PhaseInv, NEW a \in Auctions
  PROVE  /\ Roster(auction[a], LotsOf(a), know) /\ know \in Knowledge
         /\ auction[a] \in AuctionStates /\ auction[a].registry \subseteq LotsOf(a)
         /\ Registered(auction[a], notes[a].settle) /\ notes[a] \in Notes
         /\ \A l \in LotsOf(a) :
              /\ l \in Lots /\ AuctionOf[l] = a /\ calls[l] \in Seq(LotCalls) /\ removals[l] \in Nat
              /\ HoldsAs(auction[a], notes[a].settle, l, know[l], calls[l], removals[l])
<1>1. Roster(auction[a], LotsOf(a), know)
  BY RosterOf DEF Inv
<1>2. /\ know \in Knowledge /\ auction[a] \in AuctionStates /\ auction[a].registry \subseteq LotsOf(a)
      /\ notes[a] \in Notes
  BY <1>1 DEF Roster, Owns, Inv, Types, TypesOfRosters
<1>3. Registered(auction[a], notes[a].settle)
  BY DEF PhaseInv
<1>4. ASSUME NEW l \in LotsOf(a)
      PROVE  /\ l \in Lots /\ AuctionOf[l] = a /\ calls[l] \in Seq(LotCalls) /\ removals[l] \in Nat
             /\ HoldsAs(auction[a], notes[a].settle, l, know[l], calls[l], removals[l])
  <2>1. l \in Lots /\ AuctionOf[l] = a
    BY DEF LotsOf
  <2> QED BY <2>1, LotView DEF HoldsNow, HoldsAs
<1> QED BY <1>1, <1>2, <1>3, <1>4

(* A step of the roster about some lots of an auction.                     *)
LEMMA LotsFollow ==
  ASSUME Inv, PhaseInv, NEW a \in Auctions,
         NEW known, \A l \in Lots \ LotsOf(a) : known[l] = know[l],
         NEW s, NEW lots \in SUBSET LotsOf(a), NEW k, NEW kind,
         Does(auction'[a], known, s, lots, k, kind), Follow(a, calls, s),
         \A b \in Auctions \ {a} : auction'[b] = auction[b],
         UNCHANGED <<lot, strays, astray>>,
         \A l \in Lots \ LotsOf(a) : removals'[l] = removals[l],
         Registered(auction'[a], notes[a].settle),
         \A l \in lots : HoldsAs(auction'[a], notes[a].settle, l, k, After(calls[l], kind), removals'[l]),
         \A l \in LotsOf(a) \ lots :
           HoldsAs(auction'[a], notes[a].settle, l, known[l], calls[l], removals'[l])
  PROVE  PhaseInv'
<1>1. \A l \in Lots : /\ know'[l] = IF l \in lots THEN k ELSE known[l]
                      /\ calls'[l] = IF l \in lots THEN After(calls[l], kind) ELSE calls[l]
  BY DEF Follow, Sent, Does, After
<1>2. \A l \in Lots \ LotsOf(a) : SameLot(l)
  BY <1>1 DEF SameLot
<1>3. ASSUME NEW l \in LotsOf(a) PROVE HoldsThen(l, notes[a].settle)
  <2>1. l \in Lots /\ AuctionOf[l] = a
    BY DEF LotsOf
  <2>2. HoldsAs(auction'[a], notes[a].settle, l, know'[l], calls'[l], removals'[l])
    BY <1>1, <2>1
  <2> QED BY <2>1, <2>2 DEF HoldsThen, HoldsAs
<1>4. StepOK(s) /\ Candid(auction'[a], s)
  BY DEF Does
<1> QED BY <1>2, <1>3, <1>4, FollowKeepsPhase

(* Some lots are asked again, and nothing else changes.                    *)
LEMMA LotsAsked ==
  ASSUME Inv, PhaseInv, NEW a \in Auctions, NEW lots \in SUBSET LotsOf(a), NEW s,
         NEW kind \in {"None", "Ask"}, kind = "None" => lots = {},
         Does(auction[a], know, s, lots, "Asked", kind), Follow(a, calls, s),
         UNCHANGED <<auction, lot, strays, astray, removals>>,
         \A l \in lots : \/ know[l] = "Unanswered"
                         \/ ~Aside(auction[a], l) /\ auction[a].phase = "Prebidding"
  PROVE  PhaseInv'
<1> DEFINE au == auction[a]
           settle == notes[a].settle
<1>1. Registered(auction'[a], settle)
  BY AuctionView
<1>2. ASSUME NEW l \in lots
      PROVE  HoldsAs(auction'[a], settle, l, "Asked", After(calls[l], kind), removals'[l])
  <2> DEFINE excused == l \in astray
             q == calls[l]
  <2>1. /\ LotHolds(au, settle, l, know[l], q, lot[l], strays[l], removals[l], excused)
        /\ q \in Seq(LotCalls) /\ removals[l] \in Nat
    BY AuctionView DEF HoldsAs
  <2> HIDE DEF excused, q
  <2>2. LotHolds(au, settle, l, "Asked", After(q, "Ask"), lot[l], strays[l], removals[l], excused)
    BY <2>1, AskedHolds
  <2> QED BY <2>2 DEF HoldsAs, excused, q
<1>3. \A l \in LotsOf(a) \ lots : HoldsAs(auction'[a], settle, l, know[l], calls[l], removals'[l])
  BY AuctionView
<1> QED BY <1>1, <1>2, <1>3, LotsFollow

(* Some lots of a cancelled auction are withdrawn.                         *)
LEMMA LotsWithdrawn ==
  ASSUME Inv, PhaseInv, NEW a \in Auctions, auction[a].phase = "Cancelled",
         NEW lots \in SUBSET auction[a].registry, NEW s,
         Does(auction[a], know, s, lots, "Withdrawing", "Withdraw"), Follow(a, calls, s),
         UNCHANGED <<auction, lot, strays, astray, removals>>
  PROVE  PhaseInv'
<1> DEFINE au == auction[a]
           settle == notes[a].settle
<1>1. Registered(auction'[a], settle) /\ lots \subseteq LotsOf(a)
  BY AuctionView
<1>2. ASSUME NEW l \in lots
      PROVE  HoldsAs(auction'[a], settle, l, "Withdrawing", After(calls[l], "Withdraw"), removals'[l])
  <2> DEFINE excused == l \in astray
             q == calls[l]
  <2>1. /\ LotHolds(au, settle, l, know[l], q, lot[l], strays[l], removals[l], excused)
        /\ q \in Seq(LotCalls) /\ removals[l] \in Nat
    BY <1>1, AuctionView DEF HoldsAs
  <2>2. ~Aside(au, l)
    BY DEF Aside, Unplanned
  <2> HIDE DEF excused, q
  <2>3. LotHolds(au, settle, l, "Withdrawing", After(q, "Withdraw"), lot[l], strays[l], removals[l], excused)
    BY <2>1, <2>2, WithdrawHolds DEF LotHolds
  <2> QED BY <2>3 DEF HoldsAs, excused, q
<1>3. \A l \in LotsOf(a) \ lots : HoldsAs(auction'[a], settle, l, know[l], calls[l], removals'[l])
  BY AuctionView
<1> QED BY <1>1, <1>2, <1>3, LotsFollow

LEMMA RepeatPhase ==
  ASSUME Inv, PhaseInv, NEW a \in Auctions, NEW pending, Repeat(a, pending)
  PROVE  PhaseInv'
<1>1. /\ Follow(a, calls, Resume(auction[a], know)) /\ auction[a].phase \notin Unplanned
      /\ UNCHANGED <<auction, lot, strays, astray, removals>>
  BY DEF Repeat
<1>2. /\ Roster(auction[a], LotsOf(a), know) /\ know \in Knowledge /\ auction[a].registry \subseteq LotsOf(a)
  BY AuctionView
<1>3. CASE auction[a].phase = "Prebidding"
  <2>1. PICK lots \in SUBSET Pending(auction[a], know), kind \in {"None", "Ask"} :
          /\ Does(auction[a], know, Resume(auction[a], know), lots, "Asked", kind)
          /\ kind = "None" => lots = {}
    BY <1>2, AskingDoes
  <2>2. lots \subseteq LotsOf(a) /\ \A l \in lots : ~Aside(auction[a], l)
    BY <1>1, <1>2 DEF Pending, Aside
  <2> QED BY <1>1, <1>3, <2>1, <2>2, LotsAsked
<1>4. CASE auction[a].phase # "Prebidding"
  <2>1. Resume(auction[a], know) = Unmoved(know)
    BY <1>4 DEF Resume
  <2>2. Does(auction[a], know, Unmoved(know), {}, "Asked", "None")
    BY <1>2, NothingDoes
  <2> QED BY <1>1, <2>1, <2>2, LotsAsked
<1> QED BY <1>3, <1>4

LEMMA RecheckPhase ==
  ASSUME Inv, PhaseInv, NEW a \in Auctions, Recheck(a)
  PROVE  PhaseInv'
<1> DEFINE s == AskSilent(auction[a], know)
           silent == {l \in auction[a].registry : know[l] = "Unanswered"}
<1>1. Follow(a, calls, s) /\ UNCHANGED <<auction, lot, strays, astray, removals>>
  BY DEF Recheck
<1>2. /\ Roster(auction[a], LotsOf(a), know) /\ know \in Knowledge /\ auction[a].registry \subseteq LotsOf(a)
  BY AuctionView
<1>3. silent \subseteq LotsOf(a) /\ silent \subseteq auction[a].registry /\ \A l \in silent : know[l] = "Unanswered"
  BY <1>2
<1>4. /\ auction[a].phase = "Cancelled" => Does(auction[a], know, s, silent, "Withdrawing", "Withdraw")
      /\ auction[a].phase \in Asking => Does(auction[a], know, s, silent, "Asked", "Ask")
      /\ auction[a].phase = "Final" => Does(auction[a], know, s, silent, "Asked", "Ask")
      /\ auction[a].phase \notin Asking \cup {"Final", "Cancelled"} =>
           Does(auction[a], know, s, {}, "Asked", "None")
  BY <1>2, AskingDoes
<1> HIDE DEF s, silent
<1>5. CASE auction[a].phase = "Cancelled"
  BY <1>1, <1>3, <1>4, <1>5, LotsWithdrawn
<1>6. CASE auction[a].phase \in Asking \cup {"Final"}
  BY <1>1, <1>3, <1>4, <1>6, LotsAsked
<1>7. CASE auction[a].phase \notin Asking \cup {"Final", "Cancelled"}
  BY <1>1, <1>4, <1>7, LotsAsked
<1> QED BY <1>5, <1>6, <1>7

LEMMA CancelAgainPhase ==
  ASSUME Inv, PhaseInv, NEW a \in Auctions, CancelAgain(a)
  PROVE  PhaseInv'
<1>1. /\ Follow(a, calls, WithdrawAgain(auction[a], know)) /\ auction[a].phase = "Cancelled"
      /\ UNCHANGED <<auction, lot, strays, astray, removals>>
  BY DEF CancelAgain
<1>2. Roster(auction[a], LotsOf(a), know)
  BY AuctionView
<1>3. Does(auction[a], know, WithdrawAgain(auction[a], know), Pending(auction[a], know), "Withdrawing", "Withdraw")
  BY <1>2, AskingDoes
<1>4. Pending(auction[a], know) \subseteq auction[a].registry
  BY DEF Pending
<1> QED BY <1>1, <1>3, <1>4, LotsWithdrawn

-----------------------------------------------------------------------------
(* An auction begins, restarts, is cancelled, and its prebidding ends.     *)

LEMMA PrebiddingPhase ==
  ASSUME Inv, PhaseInv, NEW a \in Auctions, PrebiddingDue(a)
  PROVE  PhaseInv'
<1> DEFINE au == auction[a]
           after == [au EXCEPT !.phase = "Settling"]
           s == Settling(after, Unmoved(know))
<1>1. /\ au.phase = "Prebidding" /\ auction' = [auction EXCEPT ![a] = after] /\ Follow(a, calls, s)
      /\ UNCHANGED <<lot, strays, astray, removals>>
  BY DEF PrebiddingDue
<1>2. /\ au \in AuctionStates /\ know \in Knowledge /\ Registered(au, notes[a].settle)
      /\ \A l \in LotsOf(a) : HoldsAs(au, notes[a].settle, l, know[l], calls[l], removals[l])
  BY AuctionView
<1>3. notes[a].settle = {}
  BY <1>1, <1>2 DEF Registered
<1>4. /\ auction'[a] = after /\ \A b \in Auctions \ {a} : auction'[b] = auction[b]
      /\ after.phase = "Settling" /\ after.registry = au.registry /\ after.order = au.order
      /\ after.activated = au.activated
  BY <1>1, <1>2 DEF AuctionStates, Inv, Types, TypesOfAuctions
<1> HIDE DEF after
<1>5. Registered(after, {})
  BY <1>1, <1>2, <1>4 DEF Registered
<1>6. Does(after, know, s, {}, "None", "None")
  BY <1>2, NothingDoes, NotedDoes
<1>7. ASSUME NEW l \in LotsOf(a) PROVE HoldsAs(after, {}, l, know[l], calls[l], removals'[l])
  <2> DEFINE excused == l \in astray
  <2>1. LotHolds(au, {}, l, know[l], calls[l], lot[l], strays[l], removals[l], excused)
    BY <1>2, <1>3 DEF HoldsAs
  <2> HIDE DEF excused
  <2>2. LotHolds(after, {}, l, know[l], calls[l], lot[l], strays[l], removals[l], excused)
    BY <1>1, <1>4, <2>1, PrebiddingHolds
  <2> QED BY <1>1, <2>2 DEF HoldsAs, excused
<1> HIDE DEF s
<1> DEFINE none == {}
<1>8. /\ \A l \in LotsOf(a) \ none : HoldsAs(auction'[a], notes[a].settle, l, know[l], calls[l], removals'[l])
      /\ \A l \in none :
           HoldsAs(auction'[a], notes[a].settle, l, "None", After(calls[l], "None"), removals'[l])
  BY <1>3, <1>4, <1>7
<1>9. /\ none \in SUBSET LotsOf(a) /\ Does(auction'[a], know, s, none, "None", "None")
      /\ Registered(auction'[a], notes[a].settle)
  BY <1>3, <1>4, <1>5, <1>6
<1>10. \A l \in Lots \ LotsOf(a) : removals'[l] = removals[l]
  BY <1>1
<1>11. Follow(a, calls, s) /\ UNCHANGED <<lot, strays, astray>>
  BY <1>1
<1>12. \A l \in Lots \ LotsOf(a) : know[l] = know[l]
  OBVIOUS
<1> HIDE DEF none
<1> QED BY <1>4, <1>8, <1>9, <1>10, <1>11, <1>12, LotsFollow

(* What a roster that begins anew makes of a lot.                          *)
Surveys(au, l, k, kind) ==
  \/ /\ kind = "None" /\ (Aside(au, l) => k = "None")
     /\ Aside(au, l) \/ au.phase \notin Asking
  \/ kind = "Ask" /\ k = "Asked" /\ ~Aside(au, l)
  \/ kind = "Withdraw" /\ ~Aside(au, l) /\ au.phase = "Cancelled"

LEMMA SurveyDoes ==
  ASSUME NEW au, NEW S, NEW empty, Roster(au, S, empty), NEW settle, Registered(au, settle),
         \A l \in S : empty[l] = "None"
  PROVE  \E lots \in SUBSET S : \E k, kind :
           /\ Does(au, empty, Survey(au, empty), lots, k, kind)
           /\ \A l \in S : IF l \in lots THEN Surveys(au, l, k, kind) ELSE Surveys(au, l, "None", "None")
<1> DEFINE s == Survey(au, empty)
<1>1. /\ au.phase = "Cancelled" => Does(au, empty, s, au.registry, "Withdrawing", "Withdraw")
      /\ au.phase \in Asking => Does(au, empty, s, au.registry, "Asked", "Ask")
      /\ au.phase \notin Asking \cup {"Cancelled"} =>
           \E lots \in SUBSET ActiveLots(au), kind \in {"None", "Ask"} :
             Does(au, empty, s, lots, "Asked", kind)
  BY AskingDoes
<1>2. au.registry \subseteq S /\ Owns(au, S)
  BY DEF Roster, Owns
<1> HIDE DEF s
<1>3. CASE au.phase = "Cancelled"
  <2>1. \A l \in S : IF l \in au.registry THEN Surveys(au, l, "Withdrawing", "Withdraw")
                                          ELSE Surveys(au, l, "None", "None")
    BY <1>3 DEF Surveys, Aside, Unplanned
  <2> QED BY <1>1, <1>2, <1>3, <2>1 DEF s
<1>4. CASE au.phase \in Asking
  <2>1. \A l \in S : IF l \in au.registry THEN Surveys(au, l, "Asked", "Ask")
                                          ELSE Surveys(au, l, "None", "None")
    BY <1>4 DEF Surveys, Aside, Unplanned, Asking
  <2> QED BY <1>1, <1>2, <1>4, <2>1 DEF s
<1>5. CASE au.phase \notin Asking \cup {"Cancelled"}
  <2>1. PICK lots \in SUBSET ActiveLots(au), kind \in {"None", "Ask"} : Does(au, empty, s, lots, "Asked", kind)
    BY <1>1, <1>5
  <2>2. lots \subseteq S
    BY <1>2, <2>1, ActiveLotsOwned DEF Roster
  <2>3. ASSUME NEW l \in lots PROVE ~Aside(au, l)
    <3>1. au.phase = "Final"
      BY <2>1 DEF ActiveLots
    <3>2. l \in Members(au.activated)
      BY <2>1, ActiveIsLast DEF Roster
    <3> QED BY <3>1, <3>2 DEF Registered, Aside, Unplanned
  <2>4. \A l \in S : IF l \in lots THEN Surveys(au, l, "Asked", kind) ELSE Surveys(au, l, "None", "None")
    BY <1>5, <2>3 DEF Surveys
  <2> QED BY <2>1, <2>2, <2>4 DEF s
<1> QED BY <1>3, <1>4, <1>5

LEMMA SurveyHolds ==
  ASSUME NEW au, NEW settle, NEW l, NEW k, NEW q \in Seq(LotCalls), NEW s, NEW st, NEW n \in Nat, NEW excused,
         InPhase(au, settle, l, q, s, st, n, excused), ~HasNoted(au, settle),
         NEW kind, Surveys(au, l, k, kind)
  PROVE  LotHolds(au, settle, l, k, After(q, kind), s, st, n, excused)
<1>1. CASE kind = "None" /\ (Aside(au, l) => k = "None") /\ (Aside(au, l) \/ au.phase \notin Asking)
  BY <1>1 DEF LotHolds, IsKnown, After
<1>2. CASE kind = "Ask" /\ k = "Asked" /\ ~Aside(au, l)
  <2>1. InPhase(au, settle, l, Append(q, Call("Ask")), s, st, n, excused)
    BY <1>2, AskSent
  <2>2. IsKnown(au, settle, l, "Asked", Append(q, Call("Ask")), s, excused)
    BY <1>2, AskedNow
  <2> QED BY <1>2, <2>1, <2>2 DEF LotHolds, After
<1>3. CASE kind = "Withdraw" /\ ~Aside(au, l) /\ au.phase = "Cancelled"
  BY <1>3, WithdrawHolds
<1> QED BY <1>1, <1>2, <1>3 DEF Surveys

(* A roster begins anew with the journal of its auction.                   *)
CallsInPhase(au, settle, l) == InPhase(au, settle, l, calls[l], lot[l], strays[l], 0, l \in astray)

LEMMA SurveyFollows ==
  ASSUME Inv, PhaseInv, NEW a \in Auctions, NEW au, au = auction'[a],
         Roster(au, LotsOf(a), Forgotten(a)), Registered(au, notes[a].settle),
         ~HasNoted(au, notes[a].settle), Follow(a, calls, Survey(au, Forgotten(a))),
         \A b \in Auctions \ {a} : auction'[b] = auction[b],
         UNCHANGED <<lot, strays, astray>>, removals' = Uncounted(a),
         \A l \in LotsOf(a) : CallsInPhase(au, notes[a].settle, l)
  PROVE  PhaseInv'
<1> DEFINE s == Survey(au, Forgotten(a))
           settle == notes[a].settle
<1>1. /\ \A l \in LotsOf(a) : Forgotten(a)[l] = "None" /\ Uncounted(a)[l] = 0
      /\ \A l \in Lots \ LotsOf(a) : Forgotten(a)[l] = know[l] /\ Uncounted(a)[l] = removals[l]
  BY AuctionView DEF Forgotten, Marked, Uncounted, LotsOf, Knowledge
<1>2. PICK lots \in SUBSET LotsOf(a) : \E k, kind :
        /\ Does(au, Forgotten(a), s, lots, k, kind)
        /\ \A l \in LotsOf(a) : IF l \in lots THEN Surveys(au, l, k, kind) ELSE Surveys(au, l, "None", "None")
  BY <1>1, SurveyDoes
<1>3. PICK k, kind :
        /\ Does(au, Forgotten(a), s, lots, k, kind)
        /\ \A l \in LotsOf(a) : IF l \in lots THEN Surveys(au, l, k, kind) ELSE Surveys(au, l, "None", "None")
  BY <1>2
<1>4. ASSUME NEW l \in LotsOf(a), NEW kNow, NEW kindNow, Surveys(au, l, kNow, kindNow)
      PROVE  HoldsAs(au, settle, l, kNow, After(calls[l], kindNow), 0)
  <2> DEFINE excused == l \in astray
             q == calls[l]
  <2>1. InPhase(au, settle, l, q, lot[l], strays[l], 0, excused) /\ q \in Seq(LotCalls)
    BY AuctionView DEF CallsInPhase
  <2> HIDE DEF excused, q, settle
  <2>2. LotHolds(au, settle, l, kNow, After(q, kindNow), lot[l], strays[l], 0, excused)
    BY <1>4, <2>1, SurveyHolds DEF settle
  <2> QED BY <2>2 DEF HoldsAs, excused, q
<1>5. \A l \in lots : HoldsAs(au, settle, l, k, After(calls[l], kind), removals'[l])
  BY <1>1, <1>3, <1>4
<1>6. \A l \in LotsOf(a) \ lots : HoldsAs(au, settle, l, Forgotten(a)[l], calls[l], removals'[l])
  <2>1. \A q : After(q, "None") = q
    BY DEF After
  <2> QED BY <1>1, <1>3, <1>4, <2>1
<1> HIDE DEF s
<1>7. Follow(a, calls, s)
  BY DEF s
<1> QED BY <1>1, <1>3, <1>5, <1>6, <1>7, LotsFollow

LEMMA StartPhase ==
  ASSUME Inv, PhaseInv, NEW a \in Auctions, NEW c, StartAccepted(a, c)
  PROVE  PhaseInv'
<1> DEFINE au == auction[a]
           after == [au EXCEPT !.phase = "Prebidding"]
<1>1. /\ au.phase = "Scheduled" /\ auction' = [auction EXCEPT ![a] = after]
      /\ Follow(a, calls, Survey(after, Forgotten(a))) /\ removals' = Uncounted(a)
      /\ UNCHANGED <<lot, strays, astray>>
  BY DEF StartAccepted
<1>2. /\ au \in AuctionStates /\ Registered(au, notes[a].settle)
      /\ \A l \in LotsOf(a) : /\ HoldsAs(au, notes[a].settle, l, know[l], calls[l], removals[l])
                              /\ calls[l] \in Seq(LotCalls)
  BY AuctionView
<1>3. notes[a].settle = {}
  BY <1>1, <1>2 DEF Registered, Unplanned
<1>4. /\ auction'[a] = after /\ \A b \in Auctions \ {a} : auction'[b] = auction[b]
      /\ after.phase = "Prebidding" /\ after.registry = au.registry /\ after.order = au.order
      /\ after.activated = au.activated
  BY <1>1, <1>2 DEF AuctionStates, Inv, Types, TypesOfAuctions
<1>5. Roster(after, LotsOf(a), Forgotten(a))
  <2>1. after \in AuctionStates /\ Owns(after, LotsOf(a))
    BY PhaseType DEF Inv, Phases, Holding, Asking
  <2> QED BY <2>1, RosterOf DEF Roster, Inv
<1> HIDE DEF after
<1>6. Registered(after, {}) /\ ~HasNoted(after, {})
  BY <1>1, <1>2, <1>4 DEF Registered, HasNoted
<1>7. ASSUME NEW l \in LotsOf(a) PROVE CallsInPhase(after, {}, l)
  <2> DEFINE excused == l \in astray
             q == calls[l]
  <2>1. LotHolds(au, {}, l, know[l], q, lot[l], strays[l], removals[l], excused) /\ q \in Seq(LotCalls)
    BY <1>2, <1>3 DEF HoldsAs
  <2>2. au.phase \in Unplanned
    BY <1>1 DEF Unplanned
  <2> HIDE DEF excused, q, au
  <2>3. InPhase(after, {}, l, q, lot[l], strays[l], 0, excused)
    BY <1>4, <2>1, <2>2, BegunInPhase
  <2> QED BY <2>3 DEF CallsInPhase, excused, q
<1> QED BY <1>1, <1>3, <1>4, <1>5, <1>6, <1>7, SurveyFollows

LEMMA CancelPhase ==
  ASSUME Inv, PhaseInv, NEW a \in Auctions, Cancel(a)
  PROVE  PhaseInv'
<1> DEFINE au == auction[a]
           settle == notes[a].settle
           after == [au EXCEPT !.phase = "Cancelled"]
<1>1. /\ au.phase \in Holding /\ auction' = [auction EXCEPT ![a] = after]
      /\ Follow(a, calls, Survey(after, Forgotten(a))) /\ removals' = Uncounted(a)
      /\ UNCHANGED <<lot, strays, astray>>
  BY DEF Cancel
<1>2. /\ au \in AuctionStates /\ Registered(au, settle)
      /\ \A l \in LotsOf(a) : HoldsAs(au, settle, l, know[l], calls[l], removals[l])
  BY AuctionView
<1>3. /\ auction'[a] = after /\ \A b \in Auctions \ {a} : auction'[b] = auction[b]
      /\ after.phase = "Cancelled" /\ after.registry = au.registry /\ after.order = au.order
      /\ after.activated = au.activated
  BY <1>1, <1>2 DEF AuctionStates, Inv, Types, TypesOfAuctions
<1>4. Roster(after, LotsOf(a), Forgotten(a))
  <2>1. after \in AuctionStates /\ Owns(after, LotsOf(a))
    BY PhaseType DEF Inv, Phases
  <2> QED BY <2>1, RosterOf DEF Roster, Inv
<1> HIDE DEF after
<1>5. Registered(after, settle) /\ ~HasNoted(after, settle)
  BY <1>2, <1>3 DEF Registered, HasNoted, Unplanned
<1>6. ASSUME NEW l \in LotsOf(a) PROVE CallsInPhase(after, settle, l)
  <2> DEFINE excused == l \in astray
             q == calls[l]
  <2>1. InPhase(au, settle, l, q, lot[l], strays[l], removals[l], excused)
    BY <1>2 DEF HoldsAs, LotHolds
  <2> HIDE DEF excused, q, au, settle
  <2>2. InPhase(after, settle, l, q, lot[l], strays[l], 0, excused)
    BY <1>1, <1>3, <2>1, CancelledInPhase
  <2> QED BY <2>2 DEF CallsInPhase, excused, q
<1> QED BY <1>1, <1>3, <1>4, <1>5, <1>6, SurveyFollows

LEMMA RestartPhase ==
  ASSUME Inv, PhaseInv, NEW a \in Auctions, AuctionRestarts(a)
  PROVE  PhaseInv'
<1> DEFINE au == auction[a]
           s == Survey(au, Forgotten(a))
           late(l) == StillMove(lot[l], strays[l] \cup ({calls[l][i].kind : i \in Unhandled(l)} \ {"Ask"}))
           queues == [l \in Lots |-> IF l \in LotsOf(a) THEN <<>> ELSE calls[l]]
<1>1. /\ strays' = [l \in Lots |-> IF l \in LotsOf(a) THEN late(l) ELSE strays[l]]
      /\ removals' = Uncounted(a) /\ know' = s.know /\ calls' = Sent(queues, s.calls)
      /\ notes' = [notes EXCEPT ![a] = s.notes] /\ UNCHANGED <<auction, lot, astray>>
  BY DEF AuctionRestarts
<1>2. /\ Registered(au, notes[a].settle)
      /\ \A l \in LotsOf(a) : /\ HoldsAs(au, notes[a].settle, l, know[l], calls[l], removals[l])
                              /\ l \in Lots /\ AuctionOf[l] = a /\ calls[l] \in Seq(LotCalls)
  BY AuctionView
<1>3. /\ notes'[a] = s.notes /\ \A b \in Auctions \ {a} : notes'[b] = notes[b]
  BY <1>1 DEF Inv, Types, TypesOfRosters
<1>4. /\ \A l \in LotsOf(a) : Forgotten(a)[l] = "None" /\ Uncounted(a)[l] = 0
      /\ \A l \in Lots \ LotsOf(a) : Forgotten(a)[l] = know[l] /\ Uncounted(a)[l] = removals[l]
  BY AuctionView DEF Forgotten, Marked, Uncounted, LotsOf, Knowledge
<1>5. PICK lots, k, kind :
        /\ lots \in SUBSET LotsOf(a)
        /\ Does(au, Forgotten(a), s, lots, k, kind)
        /\ \A l \in LotsOf(a) : IF l \in lots THEN Surveys(au, l, k, kind) ELSE Surveys(au, l, "None", "None")
  <2>1. Roster(au, LotsOf(a), Forgotten(a))
    BY RosterOf DEF Inv
  <2> QED BY <1>2, <1>4, <2>1, SurveyDoes
<1> HIDE DEF s, late
<1>6. \A l \in Lots : /\ know'[l] = IF l \in lots THEN k ELSE Forgotten(a)[l]
                      /\ calls'[l] = IF l \in lots THEN After(queues[l], kind) ELSE queues[l]
  BY <1>1, <1>5 DEF Sent, Does, After
<1>7. Elsewhere(a)
  <2>1. \A l \in Lots \ LotsOf(a) : SameLot(l)
    BY <1>1, <1>4, <1>5, <1>6 DEF SameLot
  <2> QED BY <1>1, <1>3, <2>1 DEF Elsewhere
<1>8. Candid(au, s) /\ StepOK(s)
  BY <1>5 DEF Does
<1>9. Registered(auction'[a], notes'[a].settle)
  BY <1>1, <1>2, <1>3, <1>8 DEF Candid, Registered, Unplanned
<1>10. ASSUME NEW l \in LotsOf(a), NEW excused, excused = (l \in astray)
       PROVE  LotHolds(au, {}, l, know'[l], calls'[l], lot[l], late(l), 0, excused)
  <2> DEFINE q == calls[l]
             st == strays[l]
             settle == notes[a].settle
  <2>1. InPhase(au, settle, l, q, lot[l], st, removals[l], excused) /\ q \in Seq(LotCalls) /\ l \in Lots
    BY <1>2, <1>10 DEF HoldsAs, LotHolds
  <2>2. MayArrive(late(l), st, q)
    BY DEF late, StillMove, Unhandled, Members, MayArrive
  <2> DEFINE delayed == late(l)
  <2>3. InPhase(au, {}, l, <<>>, lot[l], late(l), 0, excused)
    <3>1. MayArrive(delayed, st, q)
      BY <2>2
    <3> HIDE DEF q, st, settle, au, delayed
    <3>2. InPhase(au, {}, l, <<>>, lot[l], delayed, 0, excused)
      BY <2>1, <3>1, EmptiedInPhase
    <3> QED BY <3>2 DEF delayed
  <2>4. ASSUME NEW kNow, NEW kindNow, Surveys(au, l, kNow, kindNow)
        PROVE  LotHolds(au, {}, l, kNow, After(<<>>, kindNow), lot[l], late(l), 0, excused)
    <3>1. <<>> \in Seq(LotCalls) /\ ~HasNoted(au, {})
      BY DEF HasNoted
    <3> HIDE DEF au
    <3> QED BY <2>3, <2>4, <3>1, SurveyHolds
  <2>5. CASE l \in lots
    BY <1>5, <1>6, <2>1, <2>4, <2>5
  <2>6. CASE l \notin lots
    <3>1. know'[l] = "None" /\ calls'[l] = After(<<>>, "None")
      BY <1>4, <1>6, <2>1, <2>6 DEF After
    <3> QED BY <1>5, <2>4, <2>6, <3>1
  <2> QED BY <2>5, <2>6
<1>11. ASSUME NEW l \in LotsOf(a) PROVE HoldsThen(l, notes'[a].settle)
  <2> DEFINE excused == l \in astray
  <2>1. LotHolds(au, {}, l, know'[l], calls'[l], lot[l], late(l), 0, excused)
    BY <1>10
  <2>2. /\ strays'[l] = late(l) /\ removals'[l] = 0 /\ lot' = lot /\ astray' = astray
        /\ auction'[AuctionOf[l]] = au
    BY <1>1, <1>2, <1>4
  <2> HIDE DEF excused, au
  <2>3. CASE s.notes.settle = {}
    BY <1>3, <2>1, <2>2, <2>3 DEF HoldsThen, excused
  <2>4. CASE s.notes.settle # {}
    <3>1. PICK held \in BOOLEAN :
            /\ s.notes.settle = {held} /\ (HeldLots(au, s.know) # {} => held)
            /\ au.phase = "Settling" /\ Complete(au, s.know)
      BY <1>8, <2>4 DEF Candid
    <3>2. ~Aside(au, l) => know'[l] \in Settled /\ (know'[l] = "Held" => held)
      BY <1>1, <3>1 DEF Aside, Complete, HeldLots
    <3>3. LotHolds(au, {} \cup {held}, l, know'[l], calls'[l], lot[l], late(l), 0, excused)
      BY <2>1, <3>1, <3>2, NotePosted DEF LotHolds
    <3>4. {} \cup {held} = notes'[a].settle
      BY <1>3, <3>1
    <3> QED BY <2>2, <3>3, <3>4 DEF HoldsThen, excused
  <2> QED BY <2>3, <2>4
<1> QED BY <1>7, <1>9, <1>11, PhaseKept

-----------------------------------------------------------------------------
(* The journal of an auction goes on.                                      *)

(* The journal of an auction goes on, its lots and its roster stay.        *)
JournalHolds(a) ==
  /\ \A b \in Auctions \ {a} : auction'[b] = auction[b] /\ notes'[b] = notes[b]
  /\ UNCHANGED <<know, removals, lot, calls, strays, astray>>
  /\ Registered(auction'[a], notes'[a].settle)
  /\ \A l \in LotsOf(a) : HoldsAs(auction'[a], notes'[a].settle, l, know[l], calls[l], removals[l])

LEMMA JournalPhase ==
  ASSUME PhaseInv, NEW a \in Auctions, JournalHolds(a)
  PROVE  PhaseInv'
<1>1. Elsewhere(a)
  BY DEF JournalHolds, Elsewhere, SameLot
<1>2. ASSUME NEW l \in LotsOf(a) PROVE HoldsThen(l, notes'[a].settle)
  <2>1. AuctionOf[l] = a
    BY DEF LotsOf
  <2> QED BY <2>1 DEF JournalHolds, HoldsAs, HoldsThen
<1> QED BY <1>1, <1>2, PhaseKept DEF JournalHolds

(* Nothing that the phases are about changes.                              *)
LEMMA ViewStays ==
  ASSUME PhaseInv, UNCHANGED <<auction, know, removals, notes, lot, calls, strays, astray>>
  PROVE  PhaseInv'
BY DEF PhaseInv

(* The phase of an auction changes, and its notes in it.                   *)
LEMMA AuctionIs ==
  ASSUME Inv, NEW a \in Auctions, NEW after, auction' = [auction EXCEPT ![a] = after]
  PROVE  auction'[a] = after /\ \A b \in Auctions \ {a} : auction'[b] = auction[b]
BY DEF Inv, Types, TypesOfAuctions

LEMMA PlannedPhase ==
  ASSUME Inv, PhaseInv, NEW a \in Auctions, NEW after \in AuctionStates, Record(a, after),
         auction[a].phase \in Unplanned, after.phase \in Unplanned,
         after.order = auction[a].order, after.activated = auction[a].activated
  PROVE  PhaseInv'
<1> DEFINE au == auction[a]
           settle == notes[a].settle
<1>1. /\ auction'[a] = after /\ \A b \in Auctions \ {a} : auction'[b] = auction[b]
      /\ UNCHANGED <<know, removals, notes, lot, calls, strays, astray>>
  BY AuctionIs DEF Record, roster, lotSide
<1>2. /\ Registered(au, settle)
      /\ \A l \in LotsOf(a) : HoldsAs(au, settle, l, know[l], calls[l], removals[l])
  BY AuctionView
<1>3. Registered(after, settle)
  BY <1>2 DEF Registered, Unplanned
<1>4. ASSUME NEW l \in LotsOf(a) PROVE HoldsAs(after, settle, l, know[l], calls[l], removals[l])
  <2> DEFINE excused == l \in astray
             q == calls[l]
  <2>1. LotHolds(au, settle, l, know[l], q, lot[l], strays[l], removals[l], excused)
    BY <1>2 DEF HoldsAs
  <2> HIDE DEF excused, q, settle
  <2>2. LotHolds(after, settle, l, know[l], q, lot[l], strays[l], removals[l], excused)
    BY <2>1, PlannedHolds
  <2> QED BY <2>2 DEF HoldsAs, excused, q
<1> QED BY <1>1, <1>3, <1>4, JournalPhase DEF JournalHolds

LEMMA PlanPhase ==
  ASSUME Inv, PhaseInv, NEW a \in Auctions, Plan(a)
  PROVE  PhaseInv'
<1> DEFINE au == auction[a]
<1>1. au \in AuctionStates
  BY AuctionView
<1>2. CASE Draft(a)
  <2> DEFINE after == [au EXCEPT !.phase = "Draft"]
  <2>1. Record(a, after) /\ after \in AuctionStates /\ after.order = au.order /\ after.activated = au.activated
    BY <1>1, <1>2 DEF Draft, AuctionStates, Phases
  <2>2. au.phase \in Unplanned /\ after.phase \in Unplanned
    BY <1>1, <1>2 DEF Draft, AuctionStates, Unplanned
  <2> HIDE DEF after
  <2> QED BY <2>1, <2>2, PlannedPhase
<1>3. CASE Schedule(a)
  <2> DEFINE after == [au EXCEPT !.phase = "Scheduled"]
  <2>1. Record(a, after) /\ after \in AuctionStates /\ after.order = au.order /\ after.activated = au.activated
    BY <1>1, <1>3 DEF Schedule, AuctionStates, Phases
  <2>2. au.phase \in Unplanned /\ after.phase \in Unplanned
    BY <1>1, <1>3 DEF Schedule, AuctionStates, Unplanned
  <2> HIDE DEF after
  <2> QED BY <2>1, <2>2, PlannedPhase
<1>4. CASE Discard(a)
  <2> DEFINE after == [au EXCEPT !.phase = "Initial", !.registry = {}]
  <2>1. Record(a, after) /\ after \in AuctionStates /\ after.order = au.order /\ after.activated = au.activated
    BY <1>1, <1>4 DEF Discard, AuctionStates, Phases
  <2>2. au.phase \in Unplanned /\ after.phase \in Unplanned
    BY <1>1, <1>4 DEF Discard, AuctionStates, Unplanned
  <2>3. after.registry = {}
    BY <1>1 DEF AuctionStates
  <2> HIDE DEF after
  <2> QED BY <2>1, <2>2, <2>3, PlannedPhase
<1>5. CASE Start(a)
  BY <1>5, ViewStays DEF Start, roster, lotSide
<1>6. CASE StartAgain(a)
  BY <1>6, RepeatPhase DEF StartAgain
<1> QED BY <1>2, <1>3, <1>4, <1>5, <1>6 DEF Plan

LEMMA ClaimsPhase ==
  ASSUME Inv, PhaseInv, NEW a \in Auctions, Claims(a)
  PROVE  PhaseInv'
<1>1. PICK c \in slotCalls[a] :
        \/ StartRefused(a, c) \/ StartDecidedAnew(a, c) \/ StartAccepted(a, c)
        \/ StartRepeated(a, c) \/ SlotConfirmed(a, c) \/ SlotReleased(a, c)
        \/ \E lost \in BOOLEAN : SlotSilent(a, c, lost)
  BY DEF Claims
<1>2. CASE StartAccepted(a, c)
  BY <1>2, StartPhase
<1>3. CASE StartRepeated(a, c)
  BY <1>3, RepeatPhase DEF StartRepeated
<1>4. CASE StartRefused(a, c) \/ StartDecidedAnew(a, c)
  BY <1>4, ViewStays DEF StartRefused, StartDecidedAnew, roster, lotSide
<1>5. CASE SlotConfirmed(a, c) \/ SlotReleased(a, c)
  BY <1>5, ViewStays DEF SlotConfirmed, SlotReleased, roster, lotSide
<1>6. CASE \E lost \in BOOLEAN : SlotSilent(a, c, lost)
  BY <1>6, ViewStays DEF SlotSilent, roster, lotSide
<1> QED BY <1>1, <1>2, <1>3, <1>4, <1>5, <1>6

LEMMA LotsSettledPhase ==
  ASSUME Inv, PhaseInv, NEW a \in Auctions, NEW held \in BOOLEAN, LotsSettled(a, held)
  PROVE  PhaseInv'
<1> DEFINE au == auction[a]
           settle == notes[a].settle
           after == [au EXCEPT !.phase = IF held THEN "Break" ELSE "Finished"]
           fewer == settle \ {held}
<1>1. /\ held \in settle /\ notes' = [notes EXCEPT ![a].settle = fewer]
      /\ \/ au.phase = "Settling" /\ auction' = [auction EXCEPT ![a] = after]
         \/ au.phase # "Settling" /\ UNCHANGED auction
      /\ UNCHANGED <<know, removals, lot, calls, strays, astray>>
  BY DEF LotsSettled, lotSide
<1>2. /\ au \in AuctionStates /\ Registered(au, settle) /\ notes[a] \in Notes
      /\ \A l \in LotsOf(a) : HoldsAs(au, settle, l, know[l], calls[l], removals[l])
  BY AuctionView
<1>3. /\ notes'[a].settle = fewer /\ \A b \in Auctions \ {a} : notes'[b] = notes[b]
  BY <1>1, <1>2 DEF Inv, Types, TypesOfRosters, Notes
<1>4. CASE au.phase = "Settling"
  <2>1. /\ auction'[a] = after /\ \A b \in Auctions \ {a} : auction'[b] = auction[b]
    BY <1>1, <1>4, AuctionIs
  <2>2. /\ after.phase = IF held THEN "Break" ELSE "Finished"
        /\ after.registry = au.registry /\ after.order = au.order /\ after.activated = au.activated
    BY <1>2 DEF AuctionStates
  <2>3. HasNoted(au, settle) /\ (after.phase = "Break" \/ (after.phase = "Finished" /\ FALSE \in settle))
    BY <1>1, <1>4, <2>2 DEF HasNoted
  <2>4. Registered(after, fewer)
    BY <1>2, <1>4, <2>2 DEF Registered, Unplanned
  <2> HIDE DEF after, fewer
  <2>5. ASSUME NEW l \in LotsOf(a) PROVE HoldsAs(after, fewer, l, know[l], calls[l], removals[l])
    <3> DEFINE excused == l \in astray
               q == calls[l]
    <3>1. LotHolds(au, settle, l, know[l], q, lot[l], strays[l], removals[l], excused)
      BY <1>2 DEF HoldsAs
    <3> HIDE DEF excused, q, settle, au
    <3>2. LotHolds(after, fewer, l, know[l], q, lot[l], strays[l], removals[l], excused)
      BY <2>2, <2>3, <3>1, SettledHolds
    <3> QED BY <3>2 DEF HoldsAs, excused, q
  <2> QED BY <1>1, <1>3, <2>1, <2>4, <2>5, JournalPhase DEF JournalHolds
<1>5. CASE au.phase # "Settling"
  <2>1. auction' = auction
    BY <1>1, <1>5
  <2>2. Registered(au, fewer) /\ fewer \in SUBSET settle
    BY <1>2 DEF Registered
  <2> HIDE DEF fewer
  <2>3. ASSUME NEW l \in LotsOf(a) PROVE HoldsAs(au, fewer, l, know[l], calls[l], removals[l])
    <3> DEFINE excused == l \in astray
               q == calls[l]
    <3>1. LotHolds(au, settle, l, know[l], q, lot[l], strays[l], removals[l], excused)
      BY <1>2 DEF HoldsAs
    <3> HIDE DEF excused, q, settle, au
    <3>2. LotHolds(au, fewer, l, know[l], q, lot[l], strays[l], removals[l], excused)
      BY <2>2, <3>1, FewerNotes
    <3> QED BY <3>2 DEF HoldsAs, excused, q
  <2> QED BY <1>1, <1>3, <2>1, <2>2, <2>3, JournalPhase DEF JournalHolds
<1> QED BY <1>4, <1>5

-----------------------------------------------------------------------------
(* The break, the final and the end of an auction.                         *)

LEMMA FinalLotEndedPhase ==
  ASSUME Inv, PhaseInv, NEW a \in Auctions, NEW l \in LotsOf(a), FinalLotEnded(a, l)
  PROVE  PhaseInv'
<1> DEFINE au == auction[a]
           settle == notes[a].settle
           after == Completed(a, l)
<1>1. /\ auction' = [auction EXCEPT ![a] = after]
      /\ UNCHANGED <<know, removals, lot, calls, strays, astray>>
  BY DEF FinalLotEnded, lotSide
<1>2. /\ au \in AuctionStates /\ Registered(au, settle) /\ notes[a] \in Notes
      /\ \A m \in LotsOf(a) : HoldsAs(au, settle, m, know[m], calls[m], removals[m])
  BY AuctionView
<1>3. /\ notes'[a].settle = settle /\ \A b \in Auctions \ {a} : notes'[b] = notes[b]
  BY <1>2 DEF FinalLotEnded, Inv, Types, TypesOfRosters, Notes
<1>4. auction'[a] = after /\ \A b \in Auctions \ {a} : auction'[b] = auction[b]
  <2> HIDE DEF after
  <2> QED BY <1>1, AuctionIs
<1>5. Onward(au, after) /\ Registered(after, settle)
  BY <1>2 DEF AuctionStates, Completed, Onward, Registered
<1> HIDE DEF after
<1>6. ASSUME NEW m \in LotsOf(a) PROVE HoldsAs(after, settle, m, know[m], calls[m], removals[m])
  <2> DEFINE excused == m \in astray
             q == calls[m]
  <2>1. LotHolds(au, settle, m, know[m], q, lot[m], strays[m], removals[m], excused)
    BY <1>2 DEF HoldsAs
  <2> HIDE DEF excused, q, settle, au
  <2>2. LotHolds(after, settle, m, know[m], q, lot[m], strays[m], removals[m], excused)
    BY <1>5, <2>1, OnwardHolds
  <2> QED BY <2>2 DEF HoldsAs, excused, q
<1> QED BY <1>1, <1>3, <1>4, <1>5, <1>6, JournalPhase DEF JournalHolds

(* All lots of the line-up are completed: they are over.  A lot outside of *)
(* it was not held, and cannot have come back into trade.                  *)
LEMMA CompletedAreOver ==
  ASSUME Inv, FinalInv, PhaseInv, NEW a \in Auctions, LineupCompleted(auction[a]),
         NEW l \in LotsOf(a), l \notin astray
  PROVE  lot[l].phase \in BeforeTrade \cup Over
<1> DEFINE au == auction[a]
<1>1. au.phase = "Final" /\ Members(au.order) \subseteq au.completed
  BY DEF LineupCompleted
<1>2. /\ au \in AuctionStates /\ Registered(au, notes[a].settle) /\ l \in Lots
      /\ HoldsAs(au, notes[a].settle, l, know[l], calls[l], removals[l])
  BY AuctionView
<1>3. /\ FinalInOrder(a) /\ lot[l].phase \in {"Draft", "Scheduled", "Online", "Held", "Live"} \cup Over
  BY <1>2 DEF FinalInv, Inv, Types, TypesOfLots, LotStates
<1>4. CASE l \in Members(au.order)
  BY <1>1, <1>3, <1>4 DEF FinalInOrder, OverLots
<1>5. CASE l \notin Members(au.order)
  <2>1. Placed(au, notes[a].settle, l, calls[l], lot[l], strays[l])
    BY <1>2 DEF HoldsAs, LotHolds, InPhase
  <2>2. lot[l].phase \notin {"Online", "Held"}
    BY <1>1, <1>5, <2>1 DEF Placed, TradedOnline, Offline
  <2>3. lot[l].phase # "Live"
    <3>1. Coming(l) => l \in Members(au.activated) \/ l \in NextLots(au)
      BY <1>3 DEF FinalInOrder, MayCome
    <3>2. NextLots(au) \subseteq Members(au.order) /\ Members(au.activated) \subseteq Members(au.order)
      BY <1>2 DEF NextLots, Members, Registered
    <3> QED BY <1>5, <3>1, <3>2 DEF Coming
  <2> QED BY <1>3, <2>2, <2>3 DEF BeforeTrade
<1> QED BY <1>4, <1>5

(* An empty break: each lot has answered, and none is held.                *)
LEMMA SoldAreOver ==
  ASSUME Inv, PhaseInv, NEW a \in Auctions, Sold(a), NEW l \in LotsOf(a), l \notin astray
  PROVE  lot[l].phase \in BeforeTrade \cup Over
<1> DEFINE au == auction[a]
           excused == l \in astray
           q == calls[l]
           settle == notes[a].settle
<1>1. /\ au.phase = "Break" /\ Complete(au, know) /\ HeldLots(au, know) = {}
  BY DEF Sold, LineupKnown
<1>2. LotHolds(au, settle, l, know[l], q, lot[l], strays[l], removals[l], excused) /\ ~excused
  BY AuctionView DEF HoldsAs
<1>3. ~Aside(au, l) => know[l] \in Settled /\ know[l] # "Held"
  BY <1>1 DEF Aside, Complete, HeldLots
<1> HIDE DEF excused, q, settle, au
<1> QED BY <1>1, <1>2, <1>3, KnownInTheBreak

LEMMA FinishPhase ==
  ASSUME Inv, FinalInv, PhaseInv, NEW a \in Auctions, FinishDue(a)
  PROVE  PhaseInv'
<1> DEFINE au == auction[a]
           settle == notes[a].settle
           after == [au EXCEPT !.phase = "Finished"]
<1>1. /\ notes' = [notes EXCEPT ![a].finish = FALSE]
      /\ \/ (LineupCompleted(au) \/ Sold(a)) /\ auction' = [auction EXCEPT ![a] = after]
         \/ UNCHANGED auction
      /\ UNCHANGED <<know, removals, lot, calls, strays, astray>>
  BY DEF FinishDue, lotSide
<1>2. /\ au \in AuctionStates /\ Registered(au, settle) /\ notes[a] \in Notes
      /\ \A l \in LotsOf(a) : HoldsAs(au, settle, l, know[l], calls[l], removals[l])
  BY AuctionView
<1>3. /\ notes'[a].settle = settle /\ \A b \in Auctions \ {a} : notes'[b] = notes[b]
  BY <1>1, <1>2 DEF Inv, Types, TypesOfRosters, Notes
<1>4. CASE (LineupCompleted(au) \/ Sold(a)) /\ auction' = [auction EXCEPT ![a] = after]
  <2>1. auction'[a] = after /\ \A b \in Auctions \ {a} : auction'[b] = auction[b]
    BY <1>4, AuctionIs
  <2>2. /\ after.phase = "Finished" /\ after.registry = au.registry /\ after.order = au.order
        /\ after.activated = au.activated
    BY <1>2 DEF AuctionStates
  <2>3. au.phase \in {"Break", "Final"}
    BY <1>4 DEF LineupCompleted, Sold, LineupKnown
  <2>4. Registered(after, settle)
    BY <1>2, <2>2 DEF Registered, Unplanned
  <2> HIDE DEF after
  <2>5. ASSUME NEW l \in LotsOf(a) PROVE HoldsAs(after, settle, l, know[l], calls[l], removals[l])
    <3> DEFINE excused == l \in astray
               q == calls[l]
    <3>1. LotHolds(au, settle, l, know[l], q, lot[l], strays[l], removals[l], excused)
      BY <1>2 DEF HoldsAs
    <3>2. excused \/ lot[l].phase \in BeforeTrade \cup Over
      BY <1>4, CompletedAreOver, SoldAreOver
    <3> HIDE DEF excused, q, settle, au
    <3>3. LotHolds(after, settle, l, know[l], q, lot[l], strays[l], removals[l], excused)
      BY <2>2, <2>3, <3>1, <3>2, FinishedHolds
    <3> QED BY <3>3 DEF HoldsAs, excused, q
  <2> QED BY <1>1, <1>3, <2>1, <2>4, <2>5, JournalPhase DEF JournalHolds
<1>5. CASE UNCHANGED auction
  BY <1>1, <1>2, <1>3, <1>5, JournalPhase DEF JournalHolds
<1> QED BY <1>1, <1>4, <1>5

LEMMA FreezePhase ==
  ASSUME Inv, PhaseInv, NEW a \in Auctions, NEW order, Freeze(a, order)
  PROVE  PhaseInv'
<1> DEFINE au == auction[a]
           settle == notes[a].settle
           after == [au EXCEPT !.phase = "LineupFrozen", !.order = order]
<1>1. /\ LineupKnown(au, know, removals) /\ order \in Orders(HeldLots(au, know))
      /\ auction' = [auction EXCEPT ![a].phase = "LineupFrozen", ![a].order = order]
      /\ UNCHANGED <<know, removals, notes, lot, calls, strays, astray>>
  BY DEF Freeze, roster, lotSide
<1>2. /\ au \in AuctionStates /\ Registered(au, settle)
      /\ \A l \in LotsOf(a) : /\ HoldsAs(au, settle, l, know[l], calls[l], removals[l])
                              /\ calls[l] \in Seq(LotCalls)
  BY AuctionView
<1>3. auction'[a] = after /\ \A b \in Auctions \ {a} : auction'[b] = auction[b]
  BY <1>1, <1>2 DEF AuctionStates, Inv, Types, TypesOfAuctions
<1>4. /\ after.phase = "LineupFrozen" /\ after.registry = au.registry /\ after.order = order
      /\ after.activated = au.activated
  BY <1>2 DEF AuctionStates
<1>5. /\ au.phase = "Break" /\ Complete(au, know) /\ \A l \in au.registry : removals[l] = 0
      /\ Members(order) = HeldLots(au, know)
  BY <1>1 DEF LineupKnown, Orders
<1> HIDE DEF after
<1>6. Registered(after, settle)
  BY <1>2, <1>4, <1>5 DEF Registered, HeldLots, Unplanned
<1>7. ASSUME NEW l \in LotsOf(a) PROVE HoldsAs(after, settle, l, know[l], calls[l], removals[l])
  <2> DEFINE excused == l \in astray
             q == calls[l]
  <2>1. LotHolds(au, settle, l, know[l], q, lot[l], strays[l], removals[l], excused) /\ q \in Seq(LotCalls)
    BY <1>2 DEF HoldsAs
  <2>2. /\ ~Aside(au, l) => know[l] \in Settled /\ removals[l] = 0
        /\ l \in Members(after.order) <=> ~Aside(au, l) /\ know[l] = "Held"
    BY <1>4, <1>5 DEF Aside, Complete, HeldLots, Unplanned
  <2> HIDE DEF excused, q, settle, au
  <2>3. LotHolds(after, settle, l, know[l], q, lot[l], strays[l], removals[l], excused)
    BY <1>4, <1>5, <2>1, <2>2, FrozenHolds
  <2> QED BY <2>3 DEF HoldsAs, excused, q
<1> QED BY <1>1, <1>3, <1>6, <1>7, JournalPhase DEF JournalHolds

LEMMA BeginFinalPhase ==
  ASSUME Inv, PhaseInv, NEW a \in Auctions, BeginFinal(a)
  PROVE  PhaseInv'
<1> DEFINE au == auction[a]
           settle == notes[a].settle
           after == [au EXCEPT !.phase = "Final"]
<1>1. /\ au.phase = "LineupFrozen" /\ auction' = [auction EXCEPT ![a] = after]
      /\ UNCHANGED <<know, removals, notes, lot, calls, strays, astray>>
  BY DEF BeginFinal, Advance, roster, lotSide
<1>2. /\ au \in AuctionStates /\ Registered(au, settle)
      /\ \A l \in LotsOf(a) : HoldsAs(au, settle, l, know[l], calls[l], removals[l])
  BY AuctionView
<1>3. auction'[a] = after /\ \A b \in Auctions \ {a} : auction'[b] = auction[b]
  BY <1>1, AuctionIs
<1>4. /\ after.phase = "Final" /\ after.registry = au.registry /\ after.order = au.order
      /\ after.activated = au.activated
  BY <1>2 DEF AuctionStates
<1> HIDE DEF after
<1>5. Registered(after, settle)
  BY <1>2, <1>4 DEF Registered, Unplanned
<1>6. ASSUME NEW l \in LotsOf(a) PROVE HoldsAs(after, settle, l, know[l], calls[l], removals[l])
  <2> DEFINE excused == l \in astray
             q == calls[l]
  <2>1. LotHolds(au, settle, l, know[l], q, lot[l], strays[l], removals[l], excused)
    BY <1>2 DEF HoldsAs
  <2> HIDE DEF excused, q, settle, au
  <2>2. LotHolds(after, settle, l, know[l], q, lot[l], strays[l], removals[l], excused)
    BY <1>1, <1>4, <2>1, FinalHolds DEF au
  <2> QED BY <2>2 DEF HoldsAs, excused, q
<1> QED BY <1>1, <1>3, <1>5, <1>6, JournalPhase DEF JournalHolds

-----------------------------------------------------------------------------
(* Each step keeps the phases.                                             *)

(* A person adds a call to a lot.                                          *)
LEMMA PressKept ==
  ASSUME Inv, PhaseInv, NEW l \in Lots, NEW kind, Sends(l, kind),
         UNCHANGED <<auction, notes, lot, strays, astray>>,
         \A m \in Lots \ {l} : know'[m] = know[m] /\ removals'[m] = removals[m],
         HoldsWith(l, know'[l], Append(calls[l], Call(kind)), removals'[l])
  PROVE  PhaseInv'
<1>1. /\ AuctionOf[l] \in Auctions /\ calls \in Queues
  BY OwnLot DEF Inv, Types, TypesOfLots
<1>2. /\ calls'[l] = Append(calls[l], Call(kind)) /\ \A m \in Lots \ {l} : calls'[m] = calls[m]
  BY <1>1 DEF Sends, Queues
<1>3. \A m \in Lots \ {l} : SameLot(m)
  BY <1>2 DEF SameLot
<1>4. HoldsThen(l, notes[AuctionOf[l]].settle)
  BY <1>2 DEF HoldsWith, HoldsThen
<1>5. Onward(auction[AuctionOf[l]], auction'[AuctionOf[l]])
  BY DEF Onward
<1>6. Members(auction'[AuctionOf[l]].activated) \subseteq Members(auction'[AuctionOf[l]].order)
  BY <1>1 DEF PhaseInv, Registered
<1> QED BY <1>3, <1>4, <1>5, <1>6, OneLotKept

LEMMA NextLotPhase ==
  ASSUME Inv, PhaseInv, NEW a \in Auctions, NEW l \in LotsOf(a), NextLot(a, l)
  PROVE  PhaseInv'
<1> DEFINE au == auction[a]
           settle == notes[a].settle
           q == calls[l]
           excused == l \in astray
<1>1. /\ au.phase = "Final" /\ l \in NextLots(au) /\ Sends(l, "Resume")
      /\ UNCHANGED <<auction, know, removals, notes, lot, strays, astray>>
  BY DEF NextLot, MayReturn, roster
<1>2. /\ LotHolds(au, settle, l, know[l], q, lot[l], strays[l], removals[l], excused)
      /\ q \in Seq(LotCalls) /\ removals[l] \in Nat /\ l \in Lots /\ AuctionOf[l] = a
      /\ Registered(au, settle)
  BY AuctionView DEF HoldsAs
<1>3. l \in Members(au.order)
  BY <1>1 DEF NextLots, Members
<1>4. ~Aside(au, l) /\ au.phase \in FinalPhases
  BY <1>1, <1>2, <1>3 DEF Aside, Registered, Unplanned, FinalPhases
<1>5. LotHolds(au, settle, l, know[l], Append(q, Call("Resume")), lot[l], strays[l], removals[l], excused)
  <2> HIDE DEF au, settle, q, excused
  <2> QED BY <1>2, <1>4, PressHolds
<1>6. HoldsWith(l, know'[l], Append(q, Call("Resume")), removals'[l])
  BY <1>1, <1>2, <1>5 DEF HoldsWith
<1> QED BY <1>1, <1>2, <1>6, PressKept

LEMMA SalePhase ==
  ASSUME Inv, PhaseInv, NEW a \in Auctions, NEW l \in LotsOf(a), CloseByAuctioneer(a, l)
  PROVE  PhaseInv'
<1> DEFINE au == auction[a]
           settle == notes[a].settle
           q == calls[l]
           excused == l \in astray
           k == IF au.phase = "Break" \/ l \in ActiveLots(au) THEN "Closing" ELSE know[l]
<1>1. /\ l \in au.registry /\ au.phase \notin {"Prebidding", "Settling"} /\ ~AwaitsItsTurn(au, l)
      /\ know' = ClosingByAuctioneer(au, know, l) /\ Sends(l, "Sale")
      /\ UNCHANGED <<auction, removals, notes, lot, strays, astray>>
  BY DEF CloseByAuctioneer, Presses
<1>2. /\ LotHolds(au, settle, l, know[l], q, lot[l], strays[l], removals[l], excused)
      /\ q \in Seq(LotCalls) /\ removals[l] \in Nat /\ l \in Lots /\ AuctionOf[l] = a
      /\ know \in Knowledge
  BY AuctionView DEF HoldsAs
<1>3. know'[l] = k /\ \A m \in Lots \ {l} : know'[m] = know[m]
  BY <1>1, <1>2 DEF ClosingByAuctioneer, Marked, Knowledge
<1>4. /\ k = know[l] \/ (k = "Closing" /\ au.phase \in {"Break", "Final"})
      /\ au.phase = "Break" => k = "Closing"
  BY DEF ActiveLots
<1> HIDE DEF k
<1>5. LotHolds(au, settle, l, k, Append(q, Call("Sale")), lot[l], strays[l], removals[l], excused)
  <2> HIDE DEF au, settle, q, excused
  <2> QED BY <1>1, <1>2, <1>4, SaleHolds
<1>6. HoldsWith(l, know'[l], Append(q, Call("Sale")), removals'[l])
  BY <1>1, <1>2, <1>3, <1>5 DEF HoldsWith
<1> QED BY <1>1, <1>2, <1>3, <1>6, PressKept

LEMMA RemovePhase ==
  ASSUME Inv, PhaseInv, NEW a \in Auctions, NEW l \in LotsOf(a), RemoveParticipant(a, l)
  PROVE  PhaseInv'
<1> DEFINE au == auction[a]
           settle == notes[a].settle
           q == calls[l]
           excused == l \in astray
<1>1. /\ l \in au.registry /\ au.phase \in Holding /\ ~AwaitsItsTurn(au, l)
      /\ removals' = [removals EXCEPT ![l] = @ + 1] /\ Sends(l, "Remove")
      /\ UNCHANGED <<auction, know, notes, lot, strays, astray>>
  BY DEF RemoveParticipant, Presses
<1>2. /\ LotHolds(au, settle, l, know[l], q, lot[l], strays[l], removals[l], excused)
      /\ q \in Seq(LotCalls) /\ removals[l] \in Nat /\ l \in Lots /\ AuctionOf[l] = a
  BY AuctionView DEF HoldsAs
<1>3. removals'[l] = removals[l] + 1 /\ \A m \in Lots \ {l} : removals'[m] = removals[m]
  BY <1>1, <1>2 DEF Inv, Types, TypesOfRosters
<1>4. ~Aside(au, l)
  BY <1>1 DEF Aside, Unplanned, Holding, Asking
<1>5. LotHolds(au, settle, l, know[l], Append(q, Call("Remove")), lot[l], strays[l], removals[l] + 1, excused)
  <2> HIDE DEF au, settle, q, excused
  <2> QED BY <1>1, <1>2, <1>4, PressHolds
<1>6. HoldsWith(l, know'[l], Append(q, Call("Remove")), removals'[l])
  BY <1>1, <1>2, <1>3, <1>5 DEF HoldsWith
<1> QED BY <1>1, <1>2, <1>3, <1>6, PressKept

LEMMA CoursePhase ==
  ASSUME Inv, FinalInv, PhaseInv, NEW a \in Auctions, Course(a)
  PROVE  PhaseInv'
<1>1. CASE PrebiddingDue(a) \/ FinishDue(a) \/ Recheck(a) \/ AuctionRestarts(a)
  BY <1>1, PrebiddingPhase, FinishPhase, RecheckPhase, RestartPhase
<1>2. CASE \E held \in BOOLEAN : LotsSettled(a, held)
  BY <1>2, LotsSettledPhase
<1>3. CASE BeginFinal(a) \/ Cancel(a) \/ CancelAgain(a)
  BY <1>3, BeginFinalPhase, CancelPhase, CancelAgainPhase
<1>4. CASE \E order \in Orders(HeldLots(auction[a], know)) : Freeze(a, order)
  BY <1>4, FreezePhase
<1>5. CASE \E l \in LotsOf(a) :
             FinalLotEnded(a, l) \/ NextLot(a, l) \/ CloseByAuctioneer(a, l) \/ RemoveParticipant(a, l)
  BY <1>5, FinalLotEndedPhase, NextLotPhase, SalePhase, RemovePhase
<1> QED BY <1>1, <1>2, <1>3, <1>4, <1>5 DEF Course

LEMMA LotsPhase ==
  ASSUME Inv, FinalInv, PhaseInv, NEW l \in Lots, DeadlineDue(l) \/ LotNext(l)
  PROVE  PhaseInv'
<1>1. CASE DeadlineDue(l)
  BY <1>1, DeadlinePhase
<1>2. ASSUME NEW kind \in strays[l], StrayArrives(l, kind)
      PROVE  PhaseInv'
  BY <1>2, StrayPhase
<1>3. ASSUME NEW i \in DOMAIN calls[l],
             \/ LotHandles(l, i) \/ LotWithdrew(l, i) \/ LotEnded(l, i) \/ LotReturned(l, i)
             \/ CallLost(l, i) \/ LotSilent(l, i)
      PROVE  PhaseInv'
  BY <1>3, HandlesPhase, WithdrewPhase, EndedPhase, ReturnedPhase, LostPhase, SilentPhase
<1>4. ASSUME NEW i \in DOMAIN calls[l],
             \/ LotObserved(l, i) \/ LotAnswered(l, i) \/ LotClosed(l, i) \/ LotParticipantRemoved(l, i)
      PROVE  PhaseInv'
  BY <1>4, ObservedPhase, OpenedPhase, ClosedPhase, RemovedPhase
<1> QED BY <1>1, <1>2, <1>3, <1>4 DEF LotNext

LEMMA SlotPhase ==
  ASSUME PhaseInv, SlotNext
  PROVE  PhaseInv'
<1>1. UNCHANGED <<auction, roster, lotSide>>
  BY DEF SlotNext, HolderAnswers, SlotGrants, SlotAsksHolder, SlotReleases, SlotDecides,
         HolderSilent, SlotRestarts
<1> QED BY <1>1, ViewStays DEF roster, lotSide

LEMMA PhaseStep == Inv /\ FinalInv /\ PhaseInv /\ [Next]_auctionVars => PhaseInv'
<1> SUFFICES ASSUME Inv, FinalInv, PhaseInv, [Next]_auctionVars PROVE PhaseInv'
  OBVIOUS
<1>1. CASE SlotNext
  BY <1>1, SlotPhase
<1>2. ASSUME NEW a \in Auctions, Plan(a) \/ Claims(a) \/ Course(a)
      PROVE  PhaseInv'
  BY <1>2, PlanPhase, ClaimsPhase, CoursePhase
<1>3. ASSUME NEW l \in Lots, DeadlineDue(l) \/ LotNext(l)
      PROVE  PhaseInv'
  BY <1>3, LotsPhase
<1>4. CASE UNCHANGED auctionVars
  BY <1>4, ViewStays DEF auctionVars, roster, lotSide
<1> QED BY <1>1, <1>2, <1>3, <1>4 DEF Next

(* At first every queue is empty, and no lot is in trade.                  *)
LEMMA InitPhase == Init => PhaseInv
<1> SUFFICES ASSUME Init PROVE PhaseInv
  OBVIOUS
<1>1. ASSUME NEW a \in Auctions
      PROVE  /\ auction[a].phase \in {"Scheduled", "Finished"} /\ auction[a].order = <<>>
             /\ auction[a].activated = <<>> /\ notes[a].settle = {}
  BY DEF Init, NoNotes
<1>2. ASSUME NEW l \in Lots
      PROVE  /\ AuctionOf[l] \in Auctions /\ know[l] = "None" /\ removals[l] = 0
             /\ lot[l].phase \in BeforeTrade /\ lot[l].seen = {} /\ calls[l] = <<>> /\ strays[l] = {}
  BY OwnLot DEF Init, BeforeTrade
<1>3. DOMAIN <<>> = {} /\ Members(<<>>) = {}
  BY DEF Members
<1>4. \A a \in Auctions : Registered(auction[a], notes[a].settle)
  BY <1>1, <1>3 DEF Registered
<1>5. ASSUME NEW l \in Lots PROVE HoldsNow(l)
  <2> DEFINE au == auction[AuctionOf[l]]
             excused == l \in astray
             s == lot[l]
  <2>1. au.phase \in {"Scheduled", "Finished"} /\ au.order = <<>> /\ s.phase \in BeforeTrade /\ s.seen = {}
    BY <1>1, <1>2
  <2> HIDE DEF au, excused, s
  <2>2. InLine(<<>>) /\ Consistent(s) /\ Apart(<<>>, s, {}) /\ au.phase \notin Holding
    BY <1>3, <2>1 DEF InLine, Consistent, Apart, BeforeTrade, Holding, Asking
  <2>3. Placed(au, {}, l, <<>>, s, {})
    BY <1>3, <2>1 DEF Placed, Offline, AwaitsItsTurn, BeforeTrade
  <2>4. IsKnown(au, {}, l, "None", <<>>, s, excused)
    BY <2>1 DEF IsKnown, Asking, HasNoted
  <2>5. LotHolds(au, {}, l, "None", <<>>, s, {}, 0, excused)
    BY <1>3, <2>2, <2>3, <2>4 DEF LotHolds, InPhase
  <2> QED BY <1>1, <1>2, <2>5 DEF HoldsNow, au, excused, s
<1> QED BY <1>4, <1>5 DEF PhaseInv, HoldsNow

(* The three invariants hold together.                                     *)
LEMMA AlwaysInPhase == Spec => [](Inv /\ FinalInv /\ PhaseInv)
<1>1. Init => FinalInv /\ PhaseInv
  BY InitFinal, InitPhase
<1>2. Inv /\ FinalInv /\ PhaseInv /\ [Next]_auctionVars => FinalInv' /\ PhaseInv'
  BY FinalStep, PhaseStep
<1> QED BY <1>1, <1>2, Always, PTL DEF Spec

(* What the phase of an auction says of a lot that is not excused.         *)
LEMMA PlacedNow ==
  ASSUME Inv, FinalInv, PhaseInv, NEW l \in Lots \ astray
  PROVE  LET au == auction[AuctionOf[l]]
         IN  /\ au.phase \in Phases /\ (au.phase \in Unplanned => lot[l].phase \in BeforeTrade)
             /\ Placed(au, notes[AuctionOf[l]].settle, l, calls[l], lot[l], strays[l])
             /\ lot[l].phase = "Live" => MayCome(au, l)
<1> DEFINE a == AuctionOf[l]
<1>1. a \in Auctions /\ l \in LotsOf(a)
  BY OwnLot
<1>2. auction[a].phase \in Phases
  BY <1>1, AuctionView DEF AuctionStates
<1>3. InPhase(auction[a], notes[a].settle, l, calls[l], lot[l], strays[l], removals[l], l \in astray)
  BY DEF PhaseInv, LotHolds
<1>4. lot[l].phase = "Live" => MayCome(auction[a], l)
  BY <1>1 DEF FinalInv, FinalInOrder, Coming
<1> QED BY <1>2, <1>3, <1>4 DEF InPhase, Aside, Apart

(* И-14, AuctionEntity.scala: an auction goes by what its lots answered,   *)
(* and they move on meanwhile; yet for any number of auctions and lots,    *)
(* whatever is lost, late or restarted, no lot is online in the break,     *)
(* live before the final or left in trade by a finished auction, but one   *)
(* that a call of a lost incarnation moved or an old answer stood for.     *)
THEOREM PhaseIsKept == Spec => []LotsKeepThePhase
<1>1. ASSUME Inv, FinalInv, PhaseInv PROVE LotsKeepThePhase
  <2> SUFFICES ASSUME NEW l \in Lots \ astray
               PROVE  LET phase == auction[AuctionOf[l]].phase
                      IN  /\ lot[l].phase = "Online" => phase \in {"Prebidding", "Settling", "Cancelled"}
                          /\ lot[l].phase = "Live" => phase \in {"Final", "Cancelled"}
                          /\ lot[l].phase = "Held" => phase \in (Holding \cup {"Cancelled"})
    BY DEF LotsKeepThePhase
  <2> DEFINE au == auction[AuctionOf[l]]
  <2>1. /\ au.phase \in Phases /\ (au.phase \in Unplanned => lot[l].phase \in BeforeTrade)
        /\ Placed(au, notes[AuctionOf[l]].settle, l, calls[l], lot[l], strays[l])
        /\ lot[l].phase = "Live" => MayCome(au, l)
    BY <1>1, PlacedNow
  <2>2. lot[l].phase = "Online" => au.phase \in {"Prebidding", "Settling", "Cancelled"}
    BY <2>1 DEF Placed, TradedOnline, Offline, Phases, Holding, Asking, Unplanned, BeforeTrade
  <2>3. lot[l].phase = "Live" => au.phase \in {"Final", "Cancelled"}
    BY <2>1 DEF Placed, MayCome, FinalPhases, BeforeTrade, Over
  <2>4. lot[l].phase = "Held" => au.phase \in (Holding \cup {"Cancelled"})
    BY <2>1 DEF Placed, Phases, Unplanned, BeforeTrade, Over
  <2> QED BY <2>2, <2>3, <2>4
<1> QED BY <1>1, AlwaysInPhase, PTL

(* И-19: a lot of the frozen line-up is held until its turn, though sales, *)
(* removals and questions of before the freeze may be handled after it;    *)
(* only the next one can have returned before its auction hears of it.     *)
THEOREM LineupStands == Spec => []FrozenLineupStands
<1>1. ASSUME Inv, FinalInv, PhaseInv PROVE FrozenLineupStands
  <2> SUFFICES ASSUME NEW l \in Lots \ astray, AwaitsItsTurn(auction[AuctionOf[l]], l)
               PROVE  \/ lot[l].phase = "Held"
                      \/ lot[l].phase = "Live" /\ l \in NextLots(auction[AuctionOf[l]])
    BY DEF FrozenLineupStands
  <2>1. /\ Placed(auction[AuctionOf[l]], notes[AuctionOf[l]].settle, l, calls[l], lot[l], strays[l])
        /\ lot[l].phase = "Live" => MayCome(auction[AuctionOf[l]], l)
    BY <1>1, PlacedNow
  <2>2. lot[l].phase \in {"Held", "Live"}
    BY <2>1 DEF Placed, Frozen
  <2>3. l \notin Members(auction[AuctionOf[l]].activated)
    BY DEF AwaitsItsTurn
  <2> QED BY <2>1, <2>2, <2>3 DEF MayCome
<1> QED BY <1>1, AlwaysInPhase, PTL

(* What a lost incarnation has left for a lot was under way before: only a *)
(* restart leaves calls behind.                                            *)
NoneAdded == \A l \in Lots : strays'[l] \subseteq strays[l] \cup {calls[l][i].kind : i \in Unhandled(l)}

LEMMA SlotAddsNone ==
  ASSUME SlotNext
  PROVE  strays' = strays
BY DEF SlotNext, HolderAnswers, SlotGrants, SlotAsksHolder, SlotReleases, SlotDecides, HolderSilent,
       SlotRestarts, lotSide

LEMMA PlanAddsNone ==
  ASSUME NEW a \in Auctions, Plan(a) \/ Claims(a)
  PROVE  strays' = strays
<1>1. CASE Plan(a)
  BY <1>1 DEF Plan, Draft, Schedule, Discard, Start, StartAgain, Record, Repeat, lotSide
<1>2. CASE Claims(a)
  BY <1>2 DEF Claims, StartRefused, StartDecidedAnew, StartAccepted, StartRepeated, SlotConfirmed,
              SlotReleased, SlotSilent, Repeat, lotSide
<1> QED BY <1>1, <1>2

LEMMA CourseAddsNone ==
  ASSUME Inv, NEW a \in Auctions, Course(a)
  PROVE  NoneAdded
<1>1. CASE AuctionRestarts(a)
  <2> DEFINE sentByIt(l) == {calls[l][i].kind : i \in Unhandled(l)} \ {"Ask"}
  <2>1. strays' = [l \in Lots |-> IF l \in LotsOf(a) THEN StillMove(lot[l], strays[l] \cup sentByIt(l))
                                  ELSE strays[l]]
    BY <1>1 DEF AuctionRestarts
  <2> QED BY <2>1 DEF StillMove, NoneAdded
<1>2. CASE ~AuctionRestarts(a)
  <2>1. strays' = strays
    BY <1>2 DEF Course, PrebiddingDue, FinishDue, Recheck, LotsSettled, BeginFinal, Cancel, CancelAgain,
                Freeze, FinalLotEnded, NextLot, CloseByAuctioneer, RemoveParticipant, lotSide
  <2> QED BY <2>1 DEF NoneAdded
<1> QED BY <1>1, <1>2

LEMMA LotsAddNone ==
  ASSUME Inv, NEW l \in Lots, DeadlineDue(l) \/ LotNext(l)
  PROVE  NoneAdded
<1>1. strays \in [Lots -> SUBSET Kinds]
  BY DEF Inv, Types, TypesOfLots
<1>2. ASSUME NEW left \in SUBSET strays[l], strays' = [strays EXCEPT ![l] = left]
      PROVE  NoneAdded
  BY <1>1, <1>2 DEF NoneAdded
<1>3. ASSUME NEW kind \in strays[l], StrayArrives(l, kind) PROVE NoneAdded
  <2>1. PICK o \in Outcomes(lot[l], kind) :
          strays' = [strays EXCEPT ![l] = StillMove(o.state, strays[l] \ {kind})]
    BY <1>3 DEF StrayArrives
  <2>2. StillMove(o.state, strays[l] \ {kind}) \in SUBSET strays[l]
    BY DEF StillMove
  <2> QED BY <1>2, <2>1, <2>2
<1>4. ASSUME NEW i \in DOMAIN calls[l], LotHandles(l, i) PROVE NoneAdded
  <2>1. PICK o \in Outcomes(lot[l], calls[l][i].kind) :
          strays' = [strays EXCEPT ![l] = StillMove(o.state, strays[l])]
    BY <1>4 DEF LotHandles
  <2>2. StillMove(o.state, strays[l]) \in SUBSET strays[l]
    BY DEF StillMove
  <2> QED BY <1>2, <2>1, <2>2
<1>5. CASE DeadlineDue(l)
  <2>1. strays' = strays
    BY <1>5 DEF DeadlineDue, OnlyFollow
  <2> QED BY <2>1 DEF NoneAdded
<1>6. ASSUME NEW i \in DOMAIN calls[l],
             \/ LotObserved(l, i) \/ LotAnswered(l, i) \/ LotClosed(l, i) \/ LotParticipantRemoved(l, i)
             \/ LotWithdrew(l, i) \/ LotEnded(l, i) \/ LotReturned(l, i)
             \/ CallLost(l, i) \/ LotSilent(l, i)
      PROVE  NoneAdded
  <2>1. strays' = strays
    BY <1>6 DEF LotObserved, LotAnswered, LotClosed, LotParticipantRemoved, OnlyFollow, LotWithdrew,
                LotEnded, LotReturned, CallLost, LotSilent
  <2> QED BY <2>1 DEF NoneAdded
<1> QED BY <1>3, <1>4, <1>5, <1>6 DEF LotNext

LEMMA NextAddsNone ==
  ASSUME Inv, [Next]_auctionVars
  PROVE  NoneAdded
<1>1. CASE SlotNext
  BY <1>1, SlotAddsNone DEF NoneAdded
<1>2. ASSUME NEW a \in Auctions, Plan(a) \/ Claims(a) PROVE NoneAdded
  BY <1>2, PlanAddsNone DEF NoneAdded
<1>3. CASE UNCHANGED auctionVars
  BY <1>3 DEF auctionVars, lotSide, NoneAdded
<1> QED BY <1>1, <1>2, <1>3, CourseAddsNone, LotsAddNone DEF Next

(* PER-658, PER-607: the answer that let the line-up be frozen stood       *)
(* behind every sale and removal of the same incarnation, for every        *)
(* history of losses, silences, repeated questions and restarts.  None of  *)
(* them is left behind by a restart after the freeze; one left by an       *)
(* earlier restart may still come.                                         *)
THEOREM LineupIsClosed == Spec => FrozenLineupIsClosed
<1> DEFINE NoneUnderWay ==
             \A l \in FrozenLineup \ astray :
               \A i \in Unhandled(l) : calls[l][i].kind \notin {"Sale", "Remove"}
           IsClosed ==
             \A l \in FrozenLineup \ astray :
               /\ \A i \in Unhandled(l) : calls[l][i].kind \notin {"Sale", "Remove"}
               /\ strays'[l] \cap {"Sale", "Remove"} \subseteq strays[l]
<1>1. ASSUME Inv, FinalInv, PhaseInv PROVE NoneUnderWay
  <2> SUFFICES ASSUME NEW l \in FrozenLineup \ astray, NEW i \in Unhandled(l)
               PROVE  calls[l][i].kind \notin {"Sale", "Remove"}
    OBVIOUS
  <2>1. l \in Lots \ astray /\ AwaitsItsTurn(auction[AuctionOf[l]], l)
    BY DEF FrozenLineup
  <2>2. Placed(auction[AuctionOf[l]], notes[AuctionOf[l]].settle, l, calls[l], lot[l], strays[l])
    BY <1>1, <2>1, PlacedNow
  <2>3. calls[l][i] \in Members(calls[l]) /\ calls[l][i].answer = "None"
    BY DEF Unhandled, Members
  <2> QED BY <2>1, <2>2, <2>3 DEF Placed, Frozen
<1>2. ASSUME Inv, FinalInv, PhaseInv, [Next]_auctionVars PROVE IsClosed
  <2>1. NoneAdded /\ NoneUnderWay /\ FrozenLineup \subseteq Lots
    BY <1>1, <1>2, NextAddsNone DEF FrozenLineup
  <2> QED BY <2>1 DEF NoneAdded
<1>3. Spec => [][IsClosed]_auctionVars
  BY <1>2, AlwaysInPhase, PTL DEF Spec
<1> QED BY <1>3 DEF FrozenLineupIsClosed
=============================================================================
