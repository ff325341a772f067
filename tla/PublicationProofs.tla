------------------------- MODULE PublicationProofs -------------------------
(***************************************************************************)
(* Proofs about module Publication, for any nodes, lots, private events,   *)
(* batches and faults: its types, that nothing folded is lost before the   *)
(* stream has it, and that the stream is one feed of each lot (LotFeed).   *)
(*                                                                         *)
(* A relay publishes the oldest row it has in hand, and whatever comes     *)
(* before that row is on the stream or in hand too: a batch leaves out no  *)
(* older row of the outbox, and what has left the outbox was published.    *)
(***************************************************************************)
EXTENDS Publication, WellFoundedInduction, FiniteSetTheorems, TLAPS

-----------------------------------------------------------------------------
(* The inductive invariant.                                                *)

Hands == UNION {tick[n].pending : n \in Nodes}

Known == outbox \cup Hands

(* A row holds a public event that is folded, and has a position drawn.    *)
Folded(r) ==
  r.position <= drawn /\ r.fact.version <= row[r.fact.lot] /\ IsPublic(r.fact)

(* Rows differ in position, and those of a lot follow its versions.        *)
InOrder(r, q) ==
  /\ r.position = q.position => r = q
  /\ r.fact.lot = q.fact.lot /\ r.fact.version < q.fact.version => r.position < q.position

Earlier(f) ==
  {g \in Facts : g.lot = f.lot /\ g.version < f.version /\ IsPublic(g)}

(* Whatever is earlier than a message that arrived is on the stream.       *)
NoneOvertakes ==
  \A f \in Members(stream) \cup late : IsPublic(f) /\ \A g \in Earlier(f) : OnTheStream(g)

InHand(n) ==
  /\ tick[n].acked => \A f \in Current(n) : OnTheStream(f)
  /\ \A r \in tick[n].pending : \A g \in Earlier(r.fact) :
       OnTheStream(g) \/ \E q \in tick[n].pending : q.fact = g

Orderly ==
  /\ IsFiniteSet(outbox)
  /\ \A r \in Known : Folded(r)
  /\ \A r, q \in Known : InOrder(r, q)
  /\ KeptUntilPublished
  /\ NoneOvertakes
  /\ \A n \in Nodes : InHand(n)

Inv == TypeOK /\ Orderly

-----------------------------------------------------------------------------
(* Types.                                                                  *)

JournalRows ==
  [lot : Lots \cup Others, version : 1 .. MaxRows, fate : {"Open", "Committed", "RolledBack"}]

Ticks == [pending : SUBSET Rows, acked : BOOLEAN]

(* Every set of naturals that is not empty has a least member.             *)
LEMMA LeastNatural ==
  ASSUME NEW T, T \subseteq Nat, T # {}
  PROVE  \E m \in T : \A k \in T : m <= k
<1> DEFINE Below == {pair \in Nat \X Nat : pair[1] < pair[2]}
<1>1. IsWellFoundedOn(Below, Nat)
  BY NatLessThanWellFounded DEF OpToRel
<1> HIDE DEF Below
<1>2. PICK m \in T : \A k \in T : <<k, m>> \notin Below
  BY <1>1, WFMin
<1>3. \A k \in T : ~(k < m)
  BY <1>2 DEF Below
<1> QED BY <1>3

LEMMA LeastIsLeast ==
  ASSUME NEW S, S \subseteq Nat, S # {}
  PROVE  Least(S) \in S /\ \A j \in S : Least(S) <= j
<1> DEFINE P(i) == \A j \in S : i <= j
<1>1. \E i \in S : P(i)
  BY LeastNatural
<1>2. (CHOOSE i \in S : P(i)) \in S /\ P(CHOOSE i \in S : P(i))
  <2> HIDE DEF P
  <2> QED BY <1>1
<1> QED BY <1>2, Zenon DEF Least

LEMMA MissingIsANumber ==
  ASSUME TypeOK, NEW n \in Nodes
  PROVE  Missing(n) \in 1 .. Len(journal) + 1
<1> DEFINE S == {i \in DOMAIN journal : ~Seen(i) /\ i \notin holes[n]} \cup {Len(journal) + 1}
<1>1. Len(journal) \in Nat /\ DOMAIN journal = 1 .. Len(journal)
  BY DEF TypeOK
<1>2. S \subseteq 1 .. Len(journal) + 1 /\ S # {}
  BY <1>1
<1>3. Least(S) \in S
  <2>1. S \subseteq Nat
    BY <1>1
  <2> HIDE DEF S
  <2> QED BY <1>2, <2>1, LeastIsLeast
<1> QED BY <1>2, <1>3 DEF Missing

(* The version of the next row is within the bound of the journal.         *)
LEMMA NextVersion ==
  ASSUME TypeOK, NEW l, Len(journal) < MaxRows
  PROVE  Cardinality(RowsOf(l)) + 1 \in 1 .. MaxRows
<1>1. Len(journal) \in Nat /\ DOMAIN journal = 1 .. Len(journal) /\ MaxRows \in Nat
  BY PublicationAssumption DEF TypeOK
<1>2. RowsOf(l) \subseteq 1 .. Len(journal)
  BY <1>1 DEF RowsOf
<1>3. IsFiniteSet(1 .. Len(journal)) /\ Cardinality(1 .. Len(journal)) = Len(journal)
  <2>1. 1 \in Int /\ Len(journal) \in Int
    BY <1>1
  <2>2. /\ IsFiniteSet(1 .. Len(journal))
        /\ Cardinality(1 .. Len(journal)) = IF 1 > Len(journal) THEN 0 ELSE Len(journal) - 1 + 1
    BY <2>1, FS_Interval
  <2> QED BY <1>1, <2>2
<1>4. Cardinality(RowsOf(l)) <= Len(journal) /\ IsFiniteSet(RowsOf(l))
  BY <1>2, <1>3, FS_Subset
<1>5. Cardinality(RowsOf(l)) \in Nat
  BY <1>4, FS_CardinalityType
<1> QED BY <1>1, <1>4, <1>5

LEMMA NextRead ==
  ASSUME TypeOK, NEW n \in Nodes
  PROVE  Missing(n) - 1 \in 0 .. MaxRows
BY MissingIsANumber, PublicationAssumption DEF TypeOK

LEMMA WriteType ==
  ASSUME TypeOK, NEW l \in Lots \cup Others, Write(l)
  PROVE  TypeOK'
<1> DEFINE next == [lot |-> l, version |-> Cardinality(RowsOf(l)) + 1, fate |-> "Open"]
<1>1. Len(journal) < MaxRows /\ journal' = Append(journal, next)
  BY DEF Write
<1>2. next \in JournalRows
  BY <1>1, NextVersion DEF JournalRows
<1>3. journal \in Seq(JournalRows) /\ MaxRows \in Nat
  BY PublicationAssumption DEF TypeOK, JournalRows
<1> HIDE DEF next
<1>4. journal' \in Seq(JournalRows) /\ Len(journal') <= MaxRows
  BY <1>1, <1>2, <1>3
<1>5. UNCHANGED <<offset, row, outbox, drawn, read, holes, tick, stream, late, faults>>
  BY DEF Write, projectionVars, busVars
<1> QED BY <1>4, <1>5 DEF TypeOK, JournalRows, Within

LEMMA EndType ==
  ASSUME TypeOK, NEW i \in DOMAIN journal, NEW fate \in {"Committed", "RolledBack"}, End(i, fate)
  PROVE  TypeOK'
<1>1. journal \in Seq(JournalRows) /\ journal' = [journal EXCEPT ![i].fate = fate]
  BY DEF TypeOK, JournalRows, End
<1>2. journal[i] \in JournalRows /\ [journal[i] EXCEPT !.fate = fate] \in JournalRows
  <2>1. journal[i] \in JournalRows
    BY <1>1
  <2>2. \A r \in JournalRows : [r EXCEPT !.fate = fate] \in JournalRows
    BY DEF JournalRows
  <2> QED BY <2>1, <2>2
<1>3. journal' = [journal EXCEPT ![i] = [journal[i] EXCEPT !.fate = fate]]
  BY <1>1
<1>4. journal' \in Seq(JournalRows) /\ Len(journal') = Len(journal)
  BY <1>1, <1>2, <1>3
<1>5. UNCHANGED <<offset, row, outbox, drawn, read, holes, tick, stream, late, faults>>
  BY DEF End, projectionVars, busVars
<1> QED BY <1>4, <1>5 DEF TypeOK, JournalRows, Within

LEMMA ReaderType ==
  ASSUME TypeOK, NEW n \in Nodes, GiveUp(n) \/ PassOthers(n) \/ Restart(n)
  PROVE  TypeOK'
<1>1. /\ UNCHANGED <<journal, offset, row, outbox, drawn, tick, stream, late>>
      /\ faults' \in 0 .. MaxFaults
  BY PublicationAssumption DEF GiveUp, PassOthers, Restart, Fault, busVars, TypeOK
<1>2. read' \in [Nodes -> 0 .. MaxRows]
  BY NextRead DEF GiveUp, PassOthers, Restart, TypeOK
<1>3. holes' \in [Nodes -> SUBSET (1 .. MaxRows)]
  <2>1. CASE GiveUp(n)
    <3>1. PICK i \in DOMAIN journal : i > Missing(n)
      BY <2>1 DEF GiveUp
    <3>2. i \in 1 .. Len(journal) /\ Len(journal) \in Nat /\ Len(journal) <= MaxRows
      BY DEF TypeOK
    <3>3. Missing(n) \in 1 .. MaxRows
      BY <3>1, <3>2, MissingIsANumber, PublicationAssumption
    <3>4. holes' = [holes EXCEPT ![n] = @ \cup {Missing(n)}]
      BY <2>1 DEF GiveUp
    <3> QED BY <3>3, <3>4 DEF TypeOK
  <2>2. CASE PassOthers(n) \/ Restart(n)
    BY <2>2 DEF PassOthers, Restart, TypeOK
  <2> QED BY <2>1, <2>2
<1> QED BY <1>1, <1>2, <1>3 DEF TypeOK, Within

(* The row processed, as the proofs use it.                                *)
Processing(n, i, l, version) ==
  /\ i \in 1 .. MaxRows /\ l \in Lots /\ version \in 1 .. MaxRows
  /\ row' = [row EXCEPT ![l] = Greater(@, version)]
  /\ outbox' = outbox \cup
       {[position |-> drawn + f.version - row[l], fact |-> f] :
          f \in FactsOf(l, row[l] + 1, version)}
  /\ drawn' = drawn + Greater(row[l], version) - row[l]
  /\ offset' = i
  /\ read' = [read EXCEPT ![n] = i]
  /\ UNCHANGED <<journal, holes, tick, stream, late, faults>>

LEMMA ProcessIs ==
  ASSUME TypeOK, NEW n \in Nodes, Process(n)
  PROVE  \E i, l, version : Processing(n, i, l, version)
<1>1. PICK i \in Ahead(n) :
        LET l == journal[i].lot
            version == journal[i].version
        IN  /\ row' = [row EXCEPT ![l] = Greater(@, version)]
            /\ outbox' = outbox \cup
                 {[position |-> drawn + f.version - row[l], fact |-> f] :
                    f \in FactsOf(l, row[l] + 1, version)}
            /\ drawn' = drawn + Greater(row[l], version) - row[l]
            /\ offset' = i
            /\ read' = [read EXCEPT ![n] = i]
            /\ UNCHANGED <<journal, holes, tick, stream, late, faults>>
  BY DEF Process, FoldsFrom, busVars
<1>2. i \in 1 .. Len(journal) /\ Len(journal) \in Nat /\ Len(journal) <= MaxRows
  BY DEF Ahead, TypeOK
<1>3. journal[i] \in JournalRows /\ journal[i].lot \in Lots
  <2>1. journal \in Seq(JournalRows)
    BY DEF TypeOK, JournalRows
  <2>2. journal[i] \in JournalRows
    BY <1>2, <2>1
  <2> QED BY <2>2 DEF Ahead
<1>4. i \in 1 .. MaxRows /\ journal[i].version \in 1 .. MaxRows
  BY <1>2, <1>3, PublicationAssumption DEF JournalRows
<1>5. Processing(n, i, journal[i].lot, journal[i].version)
  BY <1>1, <1>3, <1>4 DEF Processing
<1> QED BY <1>5

LEMMA Enqueued ==
  ASSUME TypeOK, NEW l \in Lots, NEW version \in 1 .. MaxRows, NEW f \in FactsOf(l, row[l] + 1, version)
  PROVE  /\ f \in Facts /\ f.lot = l /\ IsPublic(f) /\ row[l] < f.version /\ f.version <= version
         /\ drawn + f.version - row[l] \in Nat /\ row[l] \in Nat
<1>1. PICK v \in row[l] + 1 .. version : f = [lot |-> l, version |-> v]
  BY DEF FactsOf
<1>2. row[l] \in 0 .. MaxRows /\ drawn \in Nat /\ MaxRows \in Nat
  BY PublicationAssumption DEF TypeOK
<1>3. v \in 1 .. MaxRows /\ row[l] < v
  BY <1>1, <1>2
<1>4. f \in Facts /\ f.lot = l /\ f.version = v
  BY <1>1, <1>3 DEF Facts
<1>5. IsPublic(f)
  BY DEF FactsOf
<1> QED BY <1>1, <1>2, <1>3, <1>4, <1>5

LEMMA ProcessType ==
  ASSUME TypeOK, NEW n \in Nodes, NEW i, NEW l, NEW version, Processing(n, i, l, version)
  PROVE  TypeOK'
<1>1. i \in 1 .. MaxRows /\ l \in Lots /\ version \in 1 .. MaxRows /\ MaxRows \in Nat
  BY PublicationAssumption DEF Processing
<1>2. row[l] \in 0 .. MaxRows /\ Greater(row[l], version) \in 0 .. MaxRows
      /\ Greater(row[l], version) >= row[l]
  BY <1>1 DEF TypeOK, Greater
<1>3. row' \in [Lots -> 0 .. MaxRows] /\ drawn' \in Nat
  BY <1>1, <1>2 DEF Processing, TypeOK
<1>4. outbox' \subseteq Rows
  <2>1. \A f \in FactsOf(l, row[l] + 1, version) :
          [position |-> drawn + f.version - row[l], fact |-> f] \in Rows
    BY <1>1, Enqueued DEF Rows
  <2>2. outbox \subseteq Rows
    BY DEF TypeOK
  <2> QED BY <2>1, <2>2 DEF Processing
<1>5. offset' \in 0 .. MaxRows /\ read' \in [Nodes -> 0 .. MaxRows]
  BY <1>1 DEF Processing, TypeOK
<1> QED BY <1>3, <1>4, <1>5 DEF Processing, TypeOK, Within

(* A fact at the relay or on its way is one of a lot of the tag.           *)
LEMMA CurrentIsHeld ==
  ASSUME TypeOK, NEW n \in Nodes
  PROVE  /\ Oldest(tick[n].pending) \subseteq tick[n].pending /\ tick[n].pending \subseteq Rows
         /\ Current(n) \subseteq Facts /\ Rest(n) \subseteq tick[n].pending
BY DEF TypeOK, Current, Rest, Oldest, Rows

(* Some row has the least position.                                        *)
LEMMA OldestExists ==
  ASSUME NEW pending, pending \subseteq Rows, pending # {}
  PROVE  Oldest(pending) # {}
<1> DEFINE positions == {r.position : r \in pending}
<1>1. positions \subseteq Nat /\ positions # {}
  BY DEF Rows
<1>2. PICK p \in positions : \A q \in positions : p <= q
  <2> HIDE DEF positions
  <2> QED BY <1>1, LeastNatural
<1>3. PICK r \in pending : r.position = p
  OBVIOUS
<1>4. r \in Oldest(pending)
  BY <1>2, <1>3 DEF Oldest
<1> QED BY <1>4

LEMMA StreamTakes ==
  ASSUME TypeOK, NEW f \in Facts, Arrived(f)
  PROVE  stream' \in Seq(Facts) /\ Members(stream') = Members(stream) \cup {f}
<1>1. stream \in Seq(Facts)
  BY DEF TypeOK
<1>2. CASE Dropped(f)
  BY <1>1, <1>2 DEF Dropped
<1>3. CASE Stored(f)
  <2>1. stream' = Append(stream, f) /\ Len(stream) \in Nat
    BY <1>1, <1>3 DEF Stored
  <2>2. /\ stream' \in Seq(Facts) /\ Len(stream') = Len(stream) + 1
        /\ \A i \in 1 .. Len(stream) : stream'[i] = stream[i]
        /\ stream'[Len(stream) + 1] = f
    BY <1>1, <2>1
  <2>3. DOMAIN stream = 1 .. Len(stream) /\ DOMAIN stream' = 1 .. Len(stream) + 1
    BY <1>1, <2>2
  <2>4. DOMAIN stream' = DOMAIN stream \cup {Len(stream) + 1}
    BY <2>1, <2>3
  <2> QED BY <2>2, <2>3, <2>4 DEF Members
<1> QED BY <1>2, <1>3 DEF Arrived

LEMMA RelayType ==
  ASSUME TypeOK, NEW n \in Nodes,
         Crash(n) \/ Begin(n) \/ Acknowledged(n) \/ Declined(n) \/ TimedOut(n)
           \/ RemovePublished(n) \/ RemoveFails(n)
  PROVE  TypeOK'
<1>1. UNCHANGED <<journal, offset, row, drawn>>
  BY DEF Crash, Begin, Acknowledged, Declined, TimedOut, RemovePublished, RemoveFails, projectionVars
<1>2. faults' \in 0 .. MaxFaults
  BY PublicationAssumption
     DEF Crash, Begin, Acknowledged, Declined, TimedOut, RemovePublished, RemoveFails, Fault, TypeOK
<1>3. read' \in [Nodes -> 0 .. MaxRows] /\ holes' \in [Nodes -> SUBSET (1 .. MaxRows)]
  BY DEF Crash, Begin, Acknowledged, Declined, TimedOut, RemovePublished, RemoveFails,
         projectionVars, TypeOK
<1>4. outbox' \subseteq Rows
  BY DEF Crash, Begin, Acknowledged, Declined, TimedOut, RemovePublished, RemoveFails, Removed, TypeOK
<1>5. stream' \in Seq(Facts) /\ late' \subseteq Facts
  <2>1. CASE Acknowledged(n)
    BY <2>1, CurrentIsHeld, StreamTakes DEF Acknowledged, TypeOK
  <2>2. CASE TimedOut(n)
    BY <2>2, CurrentIsHeld DEF TimedOut, TypeOK
  <2>3. CASE Crash(n) \/ Begin(n) \/ Declined(n) \/ RemovePublished(n) \/ RemoveFails(n)
    BY <2>3 DEF Crash, Begin, Declined, RemovePublished, RemoveFails, busVars, TypeOK
  <2> QED BY <2>1, <2>2, <2>3
<1>6. /\ tick' \in [Nodes -> Ticks]
      /\ \A m \in Nodes : Within(m)'
  <2>1. tick \in [Nodes -> Ticks] /\ \A m \in Nodes : Within(m)
    BY DEF TypeOK, Ticks
  <2>2. PICK next : /\ tick' = [tick EXCEPT ![n] = next] /\ next \in Ticks
                    /\ next.acked => next.pending # {}
    <3>1. tick[n] \in Ticks /\ tick[n].pending \subseteq Rows /\ outbox \subseteq Rows
      BY <2>1 DEF Ticks, TypeOK
    <3>2. Resting \in Ticks /\ ~Resting.acked
      BY DEF Resting, Ticks
    <3>3. CASE Crash(n) \/ Declined(n) \/ TimedOut(n) \/ RemoveFails(n)
      BY <3>2, <3>3 DEF Crash, Declined, TimedOut, RemoveFails
    <3>4. CASE Begin(n)
      <4>1. [tick[n] EXCEPT !.pending = Batched] \in Ticks /\ ~[tick[n] EXCEPT !.pending = Batched].acked
        BY <3>1, <3>4, <2>1 DEF Begin, Batched, Ticks, Within
      <4>2. tick' = [tick EXCEPT ![n] = [tick[n] EXCEPT !.pending = Batched]]
        BY <3>4, <2>1 DEF Begin
      <4> QED BY <4>1, <4>2
    <3>5. CASE Acknowledged(n)
      <4>1. /\ [tick[n] EXCEPT !.acked = TRUE] \in Ticks
            /\ [tick[n] EXCEPT !.acked = TRUE].pending # {}
        BY <3>1, <3>5 DEF Acknowledged, Publishing, Ticks
      <4>2. tick' = [tick EXCEPT ![n] = [tick[n] EXCEPT !.acked = TRUE]]
        BY <3>5, <2>1 DEF Acknowledged
      <4> QED BY <4>1, <4>2
    <3>6. CASE RemovePublished(n)
      <4>1. /\ [pending |-> Rest(n), acked |-> FALSE] \in Ticks
            /\ ~[pending |-> Rest(n), acked |-> FALSE].acked
        BY <3>1, CurrentIsHeld DEF Ticks
      <4>2. tick' = [tick EXCEPT ![n] = [pending |-> Rest(n), acked |-> FALSE]]
        BY <3>6 DEF RemovePublished
      <4> QED BY <4>1, <4>2
    <3> QED BY <3>3, <3>4, <3>5, <3>6
  <2> QED BY <2>1, <2>2 DEF Within
<1> QED BY <1>1, <1>2, <1>3, <1>4, <1>5, <1>6 DEF TypeOK, Ticks

LEMMA LateType ==
  ASSUME TypeOK, NEW f \in late, ArriveLate(f)
  PROVE  TypeOK'
<1>1. stream' \in Seq(Facts)
  BY StreamTakes DEF ArriveLate, TypeOK
<1> QED BY <1>1 DEF ArriveLate, projectionVars, TypeOK, Within

LEMMA InitType == Init => TypeOK
BY PublicationAssumption DEF Init, TypeOK, Resting, Within

LEMMA TypeStep == TypeOK /\ [Next]_vars => TypeOK'
<1> SUFFICES ASSUME TypeOK, [Next]_vars PROVE TypeOK'
  OBVIOUS
<1>1. ASSUME NEW l \in Lots \cup Others, Write(l) PROVE TypeOK'
  BY <1>1, WriteType
<1>2. ASSUME NEW i \in DOMAIN journal, Commit(i) \/ RollBack(i) PROVE TypeOK'
  BY <1>2, EndType DEF Commit, RollBack
<1>3. ASSUME NEW n \in Readers, GiveUp(n) \/ PassOthers(n) \/ Process(n) \/ Restart(n) PROVE TypeOK'
  BY <1>3, PublicationAssumption, ReaderType, ProcessIs, ProcessType
<1>4. ASSUME NEW n \in Nodes,
             Crash(n) \/ Begin(n) \/ Acknowledged(n) \/ Declined(n) \/ TimedOut(n)
               \/ RemovePublished(n) \/ RemoveFails(n)
      PROVE  TypeOK'
  BY <1>4, RelayType
<1>5. ASSUME NEW f \in late, ArriveLate(f) PROVE TypeOK'
  BY <1>5, LateType
<1>6. CASE UNCHANGED vars
  BY <1>6 DEF vars, projectionVars, busVars, TypeOK, Within
<1> QED BY <1>1, <1>2, <1>3, <1>4, <1>5, <1>6 DEF Next

-----------------------------------------------------------------------------
(* The order of the outbox, of the batches and of the stream.              *)

LEMMA InitOrderly == Init => Orderly
<1> SUFFICES ASSUME Init PROVE Orderly
  OBVIOUS
<1>1. Known = {} /\ IsFiniteSet(outbox)
  BY FS_EmptySet DEF Init, Known, Hands, Resting
<1>2. \A l \in Lots, v \in 1 .. MaxRows : ~(v <= row[l])
  BY PublicationAssumption DEF Init
<1>3. KeptUntilPublished
  BY <1>2 DEF KeptUntilPublished
<1>4. NoneOvertakes
  BY DEF Init, NoneOvertakes, Members
<1>5. \A n \in Nodes : InHand(n)
  BY DEF Init, InHand, Resting
<1> QED BY <1>1, <1>3, <1>4, <1>5 DEF Orderly

(* Neither the journal nor the readers touch it.                           *)
LEMMA QuietOrderly ==
  ASSUME Orderly, UNCHANGED <<row, outbox, drawn, tick, stream, late>>
  PROVE  Orderly'
BY DEF Orderly, Known, Hands, Folded, KeptUntilPublished, Waits, OnTheStream, NoneOvertakes,
       InHand, Current

(* What a relay publishes has nothing before it that is still to come.     *)
LEMMA FirstInTurn ==
  ASSUME Inv, NEW n \in Nodes, NEW f \in Current(n)
  PROVE  /\ f \in Facts /\ IsPublic(f)
         /\ \A g \in Earlier(f) : OnTheStream(g)
<1>1. PICK r \in Oldest(tick[n].pending) : f = r.fact
  BY DEF Current
<1>2. r \in tick[n].pending /\ \A q \in tick[n].pending : r.position <= q.position
  BY <1>1 DEF Oldest
<1>3. tick[n].pending \subseteq Rows /\ \A q \in tick[n].pending : q \in Known
  BY DEF Inv, TypeOK, Known, Hands
<1>4. f \in Facts /\ IsPublic(f)
  BY <1>1, <1>2, <1>3 DEF Rows, Inv, Orderly, Folded
<1>5. ASSUME NEW g \in Earlier(f), ~OnTheStream(g)
      PROVE  FALSE
  <2>1. PICK q \in tick[n].pending : q.fact = g
    BY <1>1, <1>2, <1>5 DEF Inv, Orderly, InHand
  <2>2. InOrder(q, r)
    BY <1>2, <1>3 DEF Inv, Orderly
  <2>3. q.position < r.position
    BY <1>1, <2>1, <2>2 DEF InOrder, Earlier
  <2>4. r.position <= q.position /\ r.position \in Nat /\ q.position \in Nat
    BY <1>2, <1>3, <2>1 DEF Rows
  <2> QED BY <2>3, <2>4
<1> QED BY <1>4, <1>5

(* A tick ends.                                                            *)
LEMMA RestingOrderly ==
  ASSUME Inv, NEW n \in Nodes, tick' = [tick EXCEPT ![n] = Resting],
         UNCHANGED <<row, outbox, drawn, stream>>, late' = late \/ late' = late \cup Current(n)
  PROVE  Orderly'
<1>1. \A m \in Nodes : tick'[m] = IF m = n THEN Resting ELSE tick[m]
  BY DEF Inv, TypeOK
<1>2. Known' \subseteq Known
  BY <1>1 DEF Known, Hands, Resting
<1>3. \A r \in Known' : Folded(r)'
  BY <1>2 DEF Inv, Orderly, Folded
<1>4. \A r, q \in Known' : InOrder(r, q)
  BY <1>2 DEF Inv, Orderly
<1>5. KeptUntilPublished'
  BY DEF Inv, Orderly, KeptUntilPublished, Waits, OnTheStream
<1>6. NoneOvertakes'
  BY FirstInTurn DEF Inv, Orderly, NoneOvertakes, OnTheStream
<1>7. ASSUME NEW m \in Nodes PROVE InHand(m)'
  <2>1. CASE m = n
    BY <1>1, <2>1 DEF InHand, Resting
  <2>2. CASE m # n
    BY <1>1, <2>2 DEF Inv, Orderly, InHand, OnTheStream, Current
  <2> QED BY <2>1, <2>2
<1> QED BY <1>3, <1>4, <1>5, <1>6, <1>7 DEF Inv, Orderly, InOrder

LEMMA LateOrderly ==
  ASSUME Inv, NEW f \in late, ArriveLate(f)
  PROVE  Orderly'
<1>1. Members(stream') = Members(stream) \cup {f} /\ late' = late \ {f}
  BY StreamTakes DEF Inv, TypeOK, ArriveLate
<1>2. UNCHANGED <<row, outbox, drawn, tick>> /\ Known' = Known
  BY DEF ArriveLate, projectionVars, Known, Hands
<1>3. \A g : OnTheStream(g) => OnTheStream(g)'
  BY <1>1 DEF OnTheStream
<1>4. (\A r \in Known' : Folded(r)') /\ (\A r, q \in Known' : InOrder(r, q))
  BY <1>2 DEF Inv, Orderly, Folded
<1>5. KeptUntilPublished'
  BY <1>2, <1>3 DEF Inv, Orderly, KeptUntilPublished, Waits
<1>6. NoneOvertakes'
  <2>1. Members(stream') \cup late' \subseteq Members(stream) \cup late
    BY <1>1
  <2> QED BY <1>3, <2>1 DEF Inv, Orderly, NoneOvertakes
<1>7. ASSUME NEW m \in Nodes PROVE InHand(m)'
  BY <1>2, <1>3 DEF Inv, Orderly, InHand, Current
<1> QED BY <1>2, <1>4, <1>5, <1>6, <1>7 DEF Inv, Orderly, InOrder

LEMMA AcknowledgedOrderly ==
  ASSUME Inv, NEW n \in Nodes, Acknowledged(n)
  PROVE  Orderly'
<1>1. PICK f \in Current(n) : Arrived(f)
  BY DEF Acknowledged
<1>2. f \in Facts /\ IsPublic(f) /\ \A g \in Earlier(f) : OnTheStream(g)
  BY FirstInTurn
<1>3. Members(stream') = Members(stream) \cup {f}
  BY <1>1, <1>2, StreamTakes DEF Inv
<1>4. /\ UNCHANGED <<row, outbox, drawn, late>>
      /\ \A m \in Nodes : tick'[m].pending = tick[m].pending /\ (m # n => tick'[m] = tick[m])
  BY DEF Acknowledged, projectionVars, Inv, TypeOK
<1>5. Known' = Known /\ \A m \in Nodes : Current(m)' = Current(m)
  BY <1>4 DEF Known, Hands, Current
<1>6. \A g : OnTheStream(g) => OnTheStream(g)'
  BY <1>3 DEF OnTheStream
<1>7. (\A r \in Known' : Folded(r)') /\ (\A r, q \in Known' : InOrder(r, q))
  BY <1>4, <1>5 DEF Inv, Orderly, Folded
<1>8. KeptUntilPublished'
  BY <1>4, <1>6 DEF Inv, Orderly, KeptUntilPublished, Waits
<1>9. NoneOvertakes'
  <2>1. Members(stream') \cup late' = Members(stream) \cup late \cup {f}
    BY <1>3, <1>4
  <2> QED BY <1>2, <1>6, <2>1 DEF Inv, Orderly, NoneOvertakes
<1>10. \A g \in Current(n) : g = f
  <2>1. \A r, q \in Oldest(tick[n].pending) : r = q
    <3> SUFFICES ASSUME NEW r \in Oldest(tick[n].pending), NEW q \in Oldest(tick[n].pending)
                 PROVE  r = q
      OBVIOUS
    <3>1. r \in tick[n].pending /\ q \in tick[n].pending /\ tick[n].pending \subseteq Rows
      BY DEF Oldest, Inv, TypeOK
    <3>2. r.position <= q.position /\ q.position <= r.position
      BY <3>1 DEF Oldest
    <3>3. r.position = q.position
      BY <3>1, <3>2 DEF Rows
    <3>4. r \in Known /\ q \in Known
      BY <3>1 DEF Known, Hands
    <3> QED BY <3>3, <3>4 DEF Inv, Orderly, InOrder
  <2> QED BY <1>1, <2>1 DEF Current
<1>11. ASSUME NEW m \in Nodes PROVE InHand(m)'
  <2>1. tick'[m].acked => \A g \in Current(m)' : OnTheStream(g)'
    <3>1. CASE m = n
      BY <1>3, <1>5, <1>10, <3>1 DEF OnTheStream
    <3>2. CASE m # n
      BY <1>4, <1>5, <1>6, <3>2 DEF Inv, Orderly, InHand
    <3> QED BY <3>1, <3>2
  <2>2. \A r \in tick'[m].pending : \A g \in Earlier(r.fact) :
          OnTheStream(g)' \/ \E q \in tick'[m].pending : q.fact = g
    BY <1>4, <1>6 DEF Inv, Orderly, InHand
  <2> QED BY <2>1, <2>2 DEF InHand
<1> QED BY <1>4, <1>7, <1>8, <1>9, <1>11 DEF Inv, Orderly, InOrder

LEMMA RemoveOrderly ==
  ASSUME Inv, NEW n \in Nodes, RemovePublished(n)
  PROVE  Orderly'
<1> DEFINE next == [pending |-> Rest(n), acked |-> FALSE]
<1>1. /\ UNCHANGED <<row, drawn, stream, late>>
      /\ outbox' = {r \in outbox : r.fact \notin Current(n)}
      /\ \A m \in Nodes : tick'[m] = IF m = n THEN next ELSE tick[m]
      /\ tick[n].acked
  BY DEF RemovePublished, Removed, projectionVars, busVars, Inv, TypeOK
<1>2. \A f \in Current(n) : OnTheStream(f)
  BY <1>1 DEF Inv, Orderly, InHand
<1>3. Known' \subseteq Known /\ IsFiniteSet(outbox')
  BY <1>1, FS_Subset DEF Known, Hands, Rest, Inv, Orderly
<1>4. (\A r \in Known' : Folded(r)') /\ (\A r, q \in Known' : InOrder(r, q))
  BY <1>1, <1>3 DEF Inv, Orderly, Folded
<1>5. KeptUntilPublished'
  BY <1>1, <1>2 DEF Inv, Orderly, KeptUntilPublished, Waits, OnTheStream
<1>6. NoneOvertakes'
  BY <1>1 DEF Inv, Orderly, NoneOvertakes, OnTheStream
<1>7. ASSUME NEW m \in Nodes PROVE InHand(m)'
  <2>1. CASE m = n
    <3>1. \A r \in Rest(n) : \A g \in Earlier(r.fact) :
            OnTheStream(g) \/ \E q \in Rest(n) : q.fact = g
      BY <1>2 DEF Inv, Orderly, InHand, Rest, Current
    <3> QED BY <1>1, <2>1, <3>1 DEF InHand, OnTheStream
  <2>2. CASE m # n
    BY <1>1, <2>2 DEF Inv, Orderly, InHand, OnTheStream, Current
  <2> QED BY <2>1, <2>2
<1> QED BY <1>3, <1>4, <1>5, <1>6, <1>7 DEF Inv, Orderly, InOrder

(* A batch leaves out no row that is older than one it takes.              *)
LEMMA BatchIsOldest ==
  ASSUME Inv, NEW r \in Batched, NEW q \in outbox, q.position < r.position
  PROVE  q \in Batched
<1> DEFINE Before(p) == {s \in outbox : s.position < p.position}
<1>1. outbox \subseteq Rows /\ \A s \in outbox : s.position \in Nat
  BY DEF Inv, TypeOK, Rows
<1>2. r \in outbox
  BY DEF Batched
<1>3. Before(q) \subseteq Before(r)
  BY <1>1, <1>2
<1>4. IsFiniteSet(Before(r))
  <2>1. Before(r) \subseteq outbox /\ IsFiniteSet(outbox)
    BY DEF Inv, Orderly
  <2> HIDE DEF Before
  <2> QED BY <2>1, FS_Subset
<1>5. /\ Cardinality(Before(q)) <= Cardinality(Before(r))
      /\ Cardinality(Before(q)) \in Nat /\ Cardinality(Before(r)) \in Nat
  <2> HIDE DEF Before
  <2> QED BY <1>3, <1>4, FS_Subset, FS_CardinalityType
<1>6. Cardinality(Before(r)) < Batch /\ Batch \in Nat
  BY PublicationAssumption DEF Batched
<1>7. Cardinality(Before(q)) < Batch
  <2> HIDE DEF Before
  <2> QED BY <1>5, <1>6
<1> QED BY <1>7 DEF Batched

LEMMA BeginOrderly ==
  ASSUME Inv, NEW n \in Nodes, Begin(n)
  PROVE  Orderly'
<1>1. /\ UNCHANGED <<row, outbox, drawn, stream, late>>
      /\ \A m \in Nodes : m # n => tick'[m] = tick[m]
      /\ tick'[n].pending = Batched /\ tick'[n].acked = tick[n].acked
      /\ tick[n].pending = {} /\ ~tick[n].acked
  BY DEF Begin, projectionVars, busVars, Inv, TypeOK, Within
<1>2. Batched \subseteq outbox
  BY DEF Batched
<1>3. Known' \subseteq Known
  <2>1. ASSUME NEW m \in Nodes PROVE tick'[m].pending \subseteq Known
    BY <1>1, <1>2 DEF Known, Hands
  <2> QED BY <1>1, <2>1 DEF Known, Hands
<1>4. (\A r \in Known' : Folded(r)') /\ (\A r, q \in Known' : InOrder(r, q))
  BY <1>1, <1>3 DEF Inv, Orderly, Folded
<1>5. KeptUntilPublished' /\ NoneOvertakes'
  BY <1>1 DEF Inv, Orderly, KeptUntilPublished, Waits, NoneOvertakes, OnTheStream
<1>6. ASSUME NEW r \in Batched, NEW g \in Earlier(r.fact), ~OnTheStream(g)
      PROVE  \E q \in Batched : q.fact = g
  <2>1. /\ r \in outbox /\ r \in Known /\ r.fact \in Facts
        /\ g \in Facts /\ g.lot = r.fact.lot /\ g.version < r.fact.version /\ IsPublic(g)
    BY <1>2, <1>6 DEF Known, Earlier, Inv, TypeOK, Rows
  <2>2. r.fact.version <= row[r.fact.lot]
    BY <2>1 DEF Inv, Orderly, Folded
  <2>3. /\ g.lot \in Lots /\ g.version \in 1 .. MaxRows /\ g = [lot |-> g.lot, version |-> g.version]
        /\ r.fact.version \in 1 .. MaxRows /\ row[g.lot] \in 0 .. MaxRows
    BY <2>1 DEF Facts, Inv, TypeOK
  <2>4. g.version <= row[g.lot]
    BY <2>1, <2>2, <2>3, PublicationAssumption
  <2>5. Waits(g)
    BY <1>6, <2>1, <2>3, <2>4 DEF Inv, Orderly, KeptUntilPublished
  <2>6. PICK q \in outbox : q.fact = g
    BY <2>5 DEF Waits
  <2>7. q.position < r.position
    BY <2>1, <2>6 DEF Inv, Orderly, InOrder, Known
  <2> QED BY <2>6, <2>7, BatchIsOldest
<1>7. ASSUME NEW m \in Nodes PROVE InHand(m)'
  <2>1. CASE m = n
    BY <1>1, <1>6, <2>1 DEF InHand, OnTheStream
  <2>2. CASE m # n
    BY <1>1, <2>2 DEF Inv, Orderly, InHand, OnTheStream, Current
  <2> QED BY <2>1, <2>2
<1> QED BY <1>1, <1>4, <1>5, <1>7 DEF Inv, Orderly, InOrder

LEMMA FiniteImage ==
  ASSUME NEW S, IsFiniteSet(S), NEW h, DOMAIN h = S
  PROVE  IsFiniteSet({h[x] : x \in S})
<1> DEFINE T == {h[x] : x \in S}
           onto == [x \in S |-> h[x]]
<1>1. onto \in Surjection(S, T)
  BY DEF Surjection
<1>2. IsFiniteSet(T)
  <2> HIDE DEF onto, T
  <2> QED BY <1>1, FS_Surjection
<1> QED BY <1>2

LEMMA ProcessOrderly ==
  ASSUME Inv, NEW n \in Nodes, NEW i, NEW l, NEW version, Processing(n, i, l, version)
  PROVE  Orderly'
<1> DEFINE facts == FactsOf(l, row[l] + 1, version)
           Placed(f) == [position |-> drawn + f.version - row[l], fact |-> f]
           last == Greater(row[l], version)
<1>1. /\ l \in Lots /\ version \in 1 .. MaxRows /\ MaxRows \in Nat
      /\ row \in [Lots -> 0 .. MaxRows] /\ row[l] \in 0 .. MaxRows /\ drawn \in Nat
  BY PublicationAssumption DEF Processing, Inv, TypeOK
<1>2. /\ row' = [row EXCEPT ![l] = last] /\ drawn' = drawn + last - row[l]
      /\ outbox' = outbox \cup {Placed(f) : f \in facts}
      /\ UNCHANGED <<tick, stream, late>>
  BY DEF Processing
<1>3. last \in 0 .. MaxRows /\ last >= row[l] /\ last >= version /\ (last = row[l] \/ last = version)
  BY <1>1 DEF Greater
<1>4. \A f \in facts :
        /\ f \in Facts /\ f.lot = l /\ IsPublic(f) /\ row[l] < f.version /\ f.version <= version
        /\ f.version \in Nat
        /\ Placed(f).position = drawn + f.version - row[l] /\ Placed(f).fact = f
  BY <1>1, Enqueued DEF Inv, Facts
<1>5. IsFiniteSet(outbox')
  <2>1. facts \subseteq {[lot |-> l, version |-> v] : v \in row[l] + 1 .. version}
    BY DEF FactsOf
  <2>2. IsFiniteSet(row[l] + 1 .. version)
    BY <1>1, FS_Interval
  <2> DEFINE made == [v \in row[l] + 1 .. version |-> [lot |-> l, version |-> v]]
             put == [f \in facts |-> Placed(f)]
  <2>3. IsFiniteSet({made[v] : v \in row[l] + 1 .. version})
    <3>1. DOMAIN made = row[l] + 1 .. version
      OBVIOUS
    <3> HIDE DEF made
    <3> QED BY <2>2, <3>1, FiniteImage
  <2>4. IsFiniteSet(facts)
    <3>1. {made[v] : v \in row[l] + 1 .. version}
            = {[lot |-> l, version |-> v] : v \in row[l] + 1 .. version}
      OBVIOUS
    <3> HIDE DEF made, facts
    <3> QED BY <2>1, <2>3, <3>1, FS_Subset
  <2>5. IsFiniteSet({put[f] : f \in facts})
    <3>1. DOMAIN put = facts
      OBVIOUS
    <3> HIDE DEF put, facts
    <3> QED BY <2>4, <3>1, FiniteImage
  <2>6. {put[f] : f \in facts} = {Placed(f) : f \in facts}
    OBVIOUS
  <2> HIDE DEF put, facts, Placed
  <2> QED BY <1>2, <2>5, <2>6, FS_Union DEF Inv, Orderly
<1> HIDE DEF facts, Placed, last
<1>6. Known' = Known \cup {Placed(f) : f \in facts} /\ Known \subseteq Rows
  BY <1>2 DEF Known, Hands, Inv, TypeOK
<1>7. \A k \in Lots : row'[k] = IF k = l THEN last ELSE row[k]
  BY <1>1, <1>2
<1>8. \A r \in Known : r.position \in Nat /\ r.fact \in Facts /\ r.fact.lot \in Lots
                       /\ r.fact.version \in 1 .. MaxRows
  BY <1>6 DEF Rows, Facts
<1>9. ASSUME NEW r \in Known' PROVE Folded(r)'
  <2>1. CASE r \in Known
    <3>1. r.position <= drawn /\ r.fact.version <= row[r.fact.lot] /\ IsPublic(r.fact)
      BY <2>1 DEF Inv, Orderly, Folded
    <3>2. r.position <= drawn'
      BY <1>1, <1>2, <1>3, <1>8, <2>1, <3>1
    <3>3. r.fact.version <= row'[r.fact.lot]
      BY <1>1, <1>3, <1>7, <1>8, <2>1, <3>1
    <3> QED BY <3>1, <3>2, <3>3 DEF Folded
  <2>2. CASE r \notin Known
    <3>1. PICK f \in facts : r = Placed(f)
      BY <1>6, <1>9, <2>2
    <3>2. r.fact = f /\ f.lot = l /\ IsPublic(f) /\ f.version <= last /\ f.version \in Nat
          /\ r.position = drawn + f.version - row[l]
      BY <1>1, <1>3, <1>4, <3>1
    <3>3. r.position <= drawn'
      BY <1>1, <1>2, <1>3, <3>2
    <3> QED BY <1>1, <1>7, <3>2, <3>3 DEF Folded
  <2> QED BY <2>1, <2>2
<1>10. ASSUME NEW r \in Known', NEW q \in Known' PROVE InOrder(r, q)
  <2>1. \A s \in Known : s.position <= drawn /\ s.fact.version <= row[s.fact.lot]
    BY DEF Inv, Orderly, Folded
  <2>2. CASE r \in Known /\ q \in Known
    BY <2>2 DEF Inv, Orderly
  <2>3. CASE r \in Known /\ q \notin Known
    <3>1. PICK f \in facts : q = Placed(f)
      BY <1>6, <1>10, <2>3
    <3>2. r.position < q.position
      BY <1>1, <1>4, <1>8, <2>1, <2>3, <3>1
    <3> QED BY <1>8, <2>3, <3>2 DEF InOrder
  <2>4. CASE r \notin Known /\ q \in Known
    <3>1. PICK f \in facts : r = Placed(f)
      BY <1>6, <1>10, <2>4
    <3>2. r.position # q.position
      BY <1>1, <1>4, <1>8, <2>1, <2>4, <3>1
    <3>3. r.fact.lot = q.fact.lot => ~(r.fact.version < q.fact.version)
      BY <1>1, <1>4, <1>8, <2>1, <2>4, <3>1
    <3> QED BY <3>2, <3>3 DEF InOrder
  <2>5. CASE r \notin Known /\ q \notin Known
    <3>1. PICK f \in facts, g \in facts : r = Placed(f) /\ q = Placed(g)
      BY <1>6, <1>10, <2>5
    <3>2. /\ r.fact = f /\ q.fact = g /\ f \in Facts /\ g \in Facts /\ f.lot = g.lot
          /\ r.position = drawn + f.version - row[l] /\ q.position = drawn + g.version - row[l]
          /\ f.version \in Nat /\ g.version \in Nat
      BY <1>4, <3>1
    <3>3. f.version = g.version => f = g
      BY <3>2 DEF Facts
    <3>4. r.position = q.position => f = g
      BY <1>1, <3>2, <3>3
    <3> QED BY <1>1, <3>1, <3>2, <3>4 DEF InOrder
  <2> QED BY <2>2, <2>3, <2>4, <2>5
<1>11. KeptUntilPublished'
  <2> SUFFICES ASSUME NEW k \in Lots, NEW v \in 1 .. MaxRows, v <= row'[k],
                      IsPublic([lot |-> k, version |-> v])
               PROVE  Waits([lot |-> k, version |-> v])' \/ OnTheStream([lot |-> k, version |-> v])'
    BY DEF KeptUntilPublished
  <2>1. CASE v <= row[k]
    BY <1>2, <2>1 DEF Inv, Orderly, KeptUntilPublished, Waits, OnTheStream
  <2>2. CASE ~(v <= row[k])
    <3>1. k = l /\ v <= version /\ row[l] < v
      BY <1>1, <1>3, <1>7, <2>2
    <3>2. [lot |-> k, version |-> v] \in facts
      BY <1>1, <3>1 DEF facts, FactsOf
    <3>3. Placed([lot |-> k, version |-> v]) \in outbox'
      BY <1>2, <3>2
    <3> QED BY <1>4, <3>2, <3>3 DEF Waits
  <2> QED BY <2>1, <2>2
<1>12. NoneOvertakes' /\ \A m \in Nodes : InHand(m)'
  BY <1>2 DEF Inv, Orderly, NoneOvertakes, OnTheStream, InHand, Current
<1> QED BY <1>5, <1>9, <1>10, <1>11, <1>12 DEF Orderly, InOrder

LEMMA Step == Inv /\ [Next]_vars => Inv'
<1> SUFFICES ASSUME Inv, [Next]_vars PROVE Orderly'
  BY TypeStep DEF Inv
<1>1. ASSUME NEW l \in Lots \cup Others, Write(l) PROVE Orderly'
  BY <1>1, QuietOrderly DEF Inv, Write, projectionVars, busVars
<1>2. ASSUME NEW i \in DOMAIN journal, Commit(i) \/ RollBack(i) PROVE Orderly'
  BY <1>2, QuietOrderly DEF Inv, Commit, RollBack, End, projectionVars, busVars
<1>3. ASSUME NEW n \in Readers, GiveUp(n) \/ PassOthers(n) \/ Restart(n) PROVE Orderly'
  BY <1>3, QuietOrderly DEF Inv, GiveUp, PassOthers, Restart, busVars
<1>4. ASSUME NEW n \in Readers, Process(n) PROVE Orderly'
  BY <1>4, PublicationAssumption, ProcessIs, ProcessOrderly DEF Inv
<1>5. ASSUME NEW n \in Nodes, Crash(n) \/ Declined(n) \/ TimedOut(n) \/ RemoveFails(n) PROVE Orderly'
  <2>1. /\ tick' = [tick EXCEPT ![n] = Resting] /\ UNCHANGED <<row, outbox, drawn, stream>>
        /\ late' = late \/ late' = late \cup Current(n)
    BY <1>5 DEF Crash, Declined, TimedOut, RemoveFails, projectionVars, busVars
  <2> QED BY <2>1, RestingOrderly
<1>6. ASSUME NEW n \in Nodes, Begin(n) \/ Acknowledged(n) \/ RemovePublished(n) PROVE Orderly'
  BY <1>6, BeginOrderly, AcknowledgedOrderly, RemoveOrderly
<1>7. ASSUME NEW f \in late, ArriveLate(f) PROVE Orderly'
  BY <1>7, LateOrderly
<1>8. CASE UNCHANGED vars
  BY <1>8, QuietOrderly DEF Inv, vars, projectionVars, busVars
<1> QED BY <1>1, <1>2, <1>3, <1>4, <1>5, <1>6, <1>7, <1>8 DEF Next

LEMMA Always == Safety => []Inv
<1>1. Init => Inv
  BY InitType, InitOrderly DEF Inv
<1> QED BY <1>1, Step, PTL DEF Safety

-----------------------------------------------------------------------------
(* What is shown of the specification.                                     *)

(* The journal, the rows of the projection, the outbox and the stream keep *)
(* their types, and a relay with an acknowledgement in hand has the row it *)
(* is for (LotPublicationHandler, LotOutbox, OutboxRelay).                 *)
THEOREM PublicationTypes == Safety => []TypeOK
<1>1. Inv => TypeOK
  BY DEF Inv
<1> QED BY <1>1, Always, PTL

(* ADR-050: a public event that LotPublicationHandler has folded stays in  *)
(* the outbox until the stream has it, whatever crashes and whoever else   *)
(* relays.                                                                 *)
THEOREM NothingFoldedIsLost == Safety => []KeptUntilPublished
<1>1. Inv => KeptUntilPublished
  BY DEF Inv, Orderly
<1> QED BY <1>1, Always, PTL

(* What a reader of the stream has met of each lot.                        *)
Met == [l \in Lots |-> {f.version : f \in {g \in Members(stream) : g.lot = l}}]

(* A message that arrives is the next of its lot, or a repeat.             *)
LEMMA ArrivalMeets ==
  ASSUME Inv, NEW f \in Facts, IsPublic(f), \A g \in Earlier(f) : OnTheStream(g), Arrived(f)
  PROVE  Feed!Next \/ UNCHANGED Met
<1>1. Members(stream') = Members(stream) \cup {f}
  BY StreamTakes DEF Inv
<1>2. f.lot \in Lots /\ f.version \in 1 .. MaxRows /\ f = [lot |-> f.lot, version |-> f.version]
  BY DEF Facts
<1>3. Members(stream) \subseteq Facts
  BY DEF Inv, TypeOK, Members
<1>4. CASE f \in Members(stream)
  BY <1>1, <1>4 DEF Met
<1>5. CASE f \notin Members(stream)
  <2>1. f.version \in PublicVersions[f.lot] \ Met[f.lot]
    <3>1. f.version \in PublicVersions[f.lot]
      BY <1>2 DEF PublicVersions
    <3>2. f.version \notin Met[f.lot]
      <4> SUFFICES ASSUME NEW g \in Members(stream), g.lot = f.lot, g.version = f.version PROVE FALSE
        BY <1>2 DEF Met
      <4>1. g = f
        BY <1>3 DEF Facts
      <4> QED BY <1>5, <4>1
    <3> QED BY <3>1, <3>2
  <2>2. ASSUME NEW u \in PublicVersions[f.lot], u < f.version
        PROVE  u \in Met[f.lot]
    <3> DEFINE g == [lot |-> f.lot, version |-> u]
    <3>1. u \in 1 .. MaxRows /\ IsPublic(g)
      BY <1>2 DEF PublicVersions
    <3>2. g \in Earlier(f)
      BY <1>2, <2>2, <3>1 DEF Earlier, Facts
    <3>3. g \in Members(stream) /\ g.lot = f.lot /\ g.version = u
      BY <3>2 DEF OnTheStream
    <3> HIDE DEF g
    <3> QED BY <1>2, <3>3 DEF Met
  <2>3. Met' = [Met EXCEPT ![f.lot] = @ \cup {f.version}]
    <3>1. ASSUME NEW l \in Lots
          PROVE  Met'[l] = IF l = f.lot THEN Met[l] \cup {f.version} ELSE Met[l]
      BY <1>1 DEF Met
    <3> QED BY <1>2, <3>1 DEF Met
  <2>4. Feed!Meet(f.lot, f.version)
    BY <2>1, <2>2, <2>3 DEF Feed!Meet, Met
  <2> QED BY <1>2, <2>1, <2>4 DEF Feed!Next
<1> QED BY <1>4, <1>5

LEMMA StepMeets == Inv /\ [Next]_vars => [Feed!Next]_Met
<1> SUFFICES ASSUME Inv, [Next]_vars PROVE Feed!Next \/ UNCHANGED Met
  OBVIOUS
<1>1. stream' = stream => UNCHANGED Met
  BY DEF Met
<1>2. ASSUME NEW n \in Nodes, Acknowledged(n) PROVE Feed!Next \/ UNCHANGED Met
  BY <1>2, FirstInTurn, ArrivalMeets DEF Acknowledged
<1>3. ASSUME NEW f \in late, ArriveLate(f) PROVE Feed!Next \/ UNCHANGED Met
  BY <1>3, ArrivalMeets DEF Inv, TypeOK, Orderly, NoneOvertakes, ArriveLate
<1>4. CASE \E l \in Lots \cup Others : Write(l)
  BY <1>1, <1>4 DEF Write, busVars
<1>5. CASE \E i \in DOMAIN journal : Commit(i) \/ RollBack(i)
  BY <1>1, <1>5 DEF Commit, RollBack, End, busVars
<1>6. CASE \E n \in Readers : GiveUp(n) \/ PassOthers(n) \/ Process(n) \/ Restart(n)
  BY <1>1, <1>6 DEF GiveUp, PassOthers, Process, Restart, busVars
<1>7. CASE \E n \in Nodes : Crash(n) \/ Begin(n) \/ Declined(n) \/ TimedOut(n)
                              \/ RemovePublished(n) \/ RemoveFails(n)
  BY <1>1, <1>7 DEF Crash, Begin, Declined, TimedOut, RemovePublished, RemoveFails, busVars
<1>8. CASE UNCHANGED vars
  BY <1>1, <1>8 DEF vars, busVars
<1> QED BY <1>2, <1>3, <1>4, <1>5, <1>6, <1>7, <1>8 DEF Next

(* integration.md, "Auction NATS": repeats aside, OutboxRelay and the      *)
(* stream hand over the facts of each lot in the order of its journal,     *)
(* none left out, with any number of relays, readers and late messages.    *)
THEOREM StreamIsOneFeed == Safety => IsOneFeed
<1>1. Init => Feed!Init
  BY DEF Init, Feed!Init, Members
<1>2. Inv /\ [Next]_vars
        => [Feed!Next]_[l \in Lots |-> {f.version : f \in {g \in Members(stream) : g.lot = l}}]
  BY StepMeets DEF Met
<1> QED BY <1>1, <1>2, Always, PTL DEF Safety, IsOneFeed, Feed!Spec
=============================================================================
