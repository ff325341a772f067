---------------------------- MODULE Publication ----------------------------
(***************************************************************************)
(* The way of a lot's events from the journal to the bus (auction/         *)
(* publication, auction/projection): a projection per tag folds the rows   *)
(* it is given and puts the public facts into an outbox, and the relay of  *)
(* every node takes the outbox to a stream that drops repeats for a while. *)
(*                                                                         *)
(* A number of the journal (`ordering`) is drawn when its row is written   *)
(* and seen when the transaction commits, so that a later number may be    *)
(* seen first.  The reader waits for a missing number and then counts it   *)
(* as a hole for ever (application.conf, journal-sequence-retrieval).      *)
(*                                                                         *)
(* Abstracted: a fact is a lot and a version, its body is not; one tag is  *)
(* modelled, and the lots of other tags only draw numbers; a transaction   *)
(* of several rows is several of one row.                                  *)
(***************************************************************************)
EXTENDS Integers, Sequences, FiniteSets

CONSTANTS
  Nodes,      \* the nodes of the service: each relays
  Readers,    \* the nodes that run an instance of the projection for the tag
  Lots,       \* the lots of the tag
  Others,     \* lots of other tags in the same journal
  Private,    \* the events [lot, version] that are no facts (proxy limits)
  Batch,      \* facts one tick of the relay takes
  MaxRows,    \* bound: numbers drawn from the journal
  MaxFaults   \* bound: restarts, crashes and answers lost on the way

ASSUME PublicationAssumption ==
  /\ Readers \subseteq Nodes
  /\ Lots \cap Others = {}
  /\ Batch \in Nat \ {0}
  /\ MaxRows \in Nat
  /\ MaxFaults \in Nat

VARIABLES
  journal,    \* the rows by their number: lot, version and fate
  offset,     \* the offset of the projection in the database
  row,        \* lot_publication: the version each lot is folded up to
  outbox,     \* lot_outbox: the facts that wait for the bus, each with its position
  drawn,      \* the last position drawn
  read,       \* the number each node's reader has come to
  holes,      \* the numbers each node's reader counts as missing for ever
  tick,       \* the tick of each node's relay: rows in hand, first acknowledged
  stream,     \* AUCTION_EVENTS
  late,       \* publications whose answer did not come in time
  faults

projectionVars == <<offset, row, read, holes, drawn>>
busVars        == <<stream, late>>
vars           == <<journal, projectionVars, outbox, tick, busVars, faults>>

Resting == [pending |-> {}, acked |-> FALSE]

Least(S)      == CHOOSE i \in S : \A j \in S : i <= j
Greater(i, j) == IF i < j THEN j ELSE i
Members(s)    == {s[i] : i \in DOMAIN s}

Init ==
  /\ journal = <<>>
  /\ offset = 0
  /\ row = [l \in Lots |-> 0]
  /\ outbox = {}
  /\ drawn = 0
  /\ read = [n \in Nodes |-> 0]
  /\ holes = [n \in Nodes |-> {}]
  /\ tick = [n \in Nodes |-> Resting]
  /\ stream = <<>>
  /\ late = {}
  /\ faults = 0

Fault == faults < MaxFaults /\ faults' = faults + 1

-----------------------------------------------------------------------------
(* The journal: the entity of a lot writes one row after another.          *)

Seen(i) == journal[i].fate = "Committed"

RowsOf(l) == {i \in DOMAIN journal : journal[i].lot = l /\ journal[i].fate # "RolledBack"}

Write(l) ==
  /\ Len(journal) < MaxRows
  /\ \A i \in RowsOf(l) : Seen(i)
  /\ journal' = Append(journal, [lot |-> l, version |-> Cardinality(RowsOf(l)) + 1, fate |-> "Open"])
  /\ UNCHANGED <<projectionVars, outbox, tick, busVars, faults>>

End(i, fate) ==
  /\ journal[i].fate = "Open"
  /\ journal' = [journal EXCEPT ![i].fate = fate]
  /\ UNCHANGED <<projectionVars, outbox, tick, busVars, faults>>

Commit(i) == End(i, "Committed")
RollBack(i) == End(i, "RolledBack")

-----------------------------------------------------------------------------
(* The projection of the tag.                                              *)

(* The first number a reader has to wait for.                              *)
Missing(n) ==
  Least({i \in DOMAIN journal : ~Seen(i) /\ i \notin holes[n]} \cup {Len(journal) + 1})

GiveUp(n) ==
  /\ \E i \in DOMAIN journal : i > Missing(n) /\ Seen(i)
  /\ holes' = [holes EXCEPT ![n] = @ \cup {Missing(n)}]
  /\ UNCHANGED <<journal, offset, row, drawn, outbox, read, tick, busVars, faults>>

(* What the tag has for a reader.                                          *)
Ahead(n) ==
  {i \in DOMAIN journal : read[n] < i /\ i < Missing(n) /\ Seen(i) /\ journal[i].lot \in Lots}

PassOthers(n) ==
  /\ Ahead(n) = {}
  /\ read[n] < Missing(n) - 1
  /\ read' = [read EXCEPT ![n] = Missing(n) - 1]
  /\ UNCHANGED <<journal, offset, row, drawn, outbox, holes, tick, busVars, faults>>

(* Slip: a gap is not read again from the journal of the lot.              *)
FoldsOnlyItself(l, version) == Greater(version, row[l] + 1)

(* A repeat folds nothing; before an event after a gap its missing ones are *)
(* folded.                                                                 *)
FoldsFrom(l, version) == row[l] + 1

IsPublic(event) == event \notin Private

FactsOf(l, first, last) == {f \in {[lot |-> l, version |-> v] : v \in first .. last} : IsPublic(f)}

(* One event, its row, its facts and the offset in one transaction.        *)
Process(n) ==
  \E i \in Ahead(n) :
    LET l == journal[i].lot
        version == journal[i].version
        Enqueued(f) == [position |-> drawn + f.version - row[l], fact |-> f]
    IN  /\ \A j \in Ahead(n) : i <= j
        /\ row' = [row EXCEPT ![l] = Greater(@, version)]
        /\ outbox' = outbox \cup {Enqueued(f) : f \in FactsOf(l, FoldsFrom(l, version), version)}
        /\ drawn' = drawn + Greater(row[l], version) - row[l]
        /\ offset' = i
        /\ read' = [read EXCEPT ![n] = i]
        /\ UNCHANGED <<journal, holes, tick, busVars, faults>>

(* A transaction fails: the projection starts again from its offset.       *)
Restart(n) ==
  /\ Fault
  /\ read[n] # offset
  /\ read' = [read EXCEPT ![n] = offset]
  /\ UNCHANGED <<journal, offset, row, drawn, outbox, holes, tick, busVars>>

Crash(n) ==
  /\ Fault
  /\ read' = [read EXCEPT ![n] = offset]
  /\ holes' = [holes EXCEPT ![n] = {}]
  /\ tick' = [tick EXCEPT ![n] = Resting]
  /\ UNCHANGED <<journal, offset, row, drawn, outbox, busVars>>

-----------------------------------------------------------------------------
(* The relay of a node: one tick after another.                            *)

(* The rows of least position.                                             *)
Oldest(pending) == {r \in pending : \A q \in pending : r.position <= q.position}

Batched == {r \in outbox : Cardinality({q \in outbox : q.position < r.position}) < Batch}

Begin(n) ==
  /\ tick[n].pending = {}
  /\ outbox # {}
  /\ tick' = [tick EXCEPT ![n].pending = Batched]
  /\ UNCHANGED <<journal, projectionVars, outbox, busVars, faults>>

(* The fact the relay of a node publishes.                                 *)
Current(n)    == {r.fact : r \in Oldest(tick[n].pending)}
Publishing(n) == tick[n].pending # {} /\ ~tick[n].acked

(* The stream takes a message; a repeat it drops within duplicate_window.  *)
Dropped(f) == f \in Members(stream) /\ UNCHANGED stream
Stored(f)  == stream' = Append(stream, f)
Arrived(f) == Dropped(f) \/ Stored(f)

(* Slip: a repeat is no acknowledgement.                                   *)
AcknowledgedOnce(n) ==
  /\ Publishing(n)
  /\ \E f \in Current(n) :
       \/ Dropped(f) /\ tick' = [tick EXCEPT ![n] = Resting]
       \/ Stored(f) /\ tick' = [tick EXCEPT ![n].acked = TRUE]
  /\ UNCHANGED <<journal, projectionVars, outbox, late, faults>>

Acknowledged(n) ==
  /\ Publishing(n)
  /\ \E f \in Current(n) : Arrived(f)
  /\ tick' = [tick EXCEPT ![n].acked = TRUE]
  /\ UNCHANGED <<journal, projectionVars, outbox, late, faults>>

(* What is in hand without the row in turn.                                *)
Rest(n) == tick[n].pending \ Oldest(tick[n].pending)

(* Slip: the tick goes on with the next fact.                              *)
DeclinedAlone(n) ==
  /\ Publishing(n)
  /\ tick' = [tick EXCEPT ![n].pending = Rest(n)]
  /\ UNCHANGED <<journal, projectionVars, outbox, busVars, faults>>

(* No acknowledgement: the tick ends, lest the next facts overtake it.     *)
Declined(n) ==
  /\ Publishing(n)
  /\ tick' = [tick EXCEPT ![n] = Resting]
  /\ UNCHANGED <<journal, projectionVars, outbox, busVars, faults>>

(* The message is on its way when the relay stops waiting for the answer.  *)
TimedOut(n) ==
  /\ Publishing(n)
  /\ Fault
  /\ late' = late \cup Current(n)
  /\ tick' = [tick EXCEPT ![n] = Resting]
  /\ UNCHANGED <<journal, projectionVars, outbox, stream>>

ArriveLate(f) ==
  /\ Arrived(f)
  /\ late' = late \ {f}
  /\ UNCHANGED <<journal, projectionVars, outbox, tick, faults>>

(* By event_id: another relay may have removed the row before.             *)
Removed(n) == outbox' = {r \in outbox : r.fact \notin Current(n)}

(* Slip: the tick is not done with a fact it has removed.                  *)
RemoveAgain(n) ==
  /\ tick[n].acked
  /\ Removed(n)
  /\ tick' = [tick EXCEPT ![n].pending = Rest(n)]
  /\ UNCHANGED <<journal, projectionVars, busVars, faults>>

RemovePublished(n) ==
  /\ tick[n].acked
  /\ Removed(n)
  /\ tick' = [tick EXCEPT ![n] = [pending |-> Rest(n), acked |-> FALSE]]
  /\ UNCHANGED <<journal, projectionVars, busVars, faults>>

RemoveFails(n) ==
  /\ tick[n].acked
  /\ Fault
  /\ tick' = [tick EXCEPT ![n] = Resting]
  /\ UNCHANGED <<journal, projectionVars, outbox, busVars>>

Next ==
  \/ \E l \in Lots \cup Others : Write(l)
  \/ \E i \in DOMAIN journal : Commit(i) \/ RollBack(i)
  \/ \E n \in Readers : GiveUp(n) \/ PassOthers(n) \/ Process(n) \/ Restart(n)
  \/ \E n \in Nodes :
       \/ Crash(n) \/ Begin(n) \/ Acknowledged(n) \/ Declined(n) \/ TimedOut(n)
       \/ RemovePublished(n) \/ RemoveFails(n)
  \/ \E f \in late : ArriveLate(f)

(* Readers poll and relays tick for ever; the bus may decline any number   *)
(* of publications, but not every one from some moment on.                 *)
Fairness ==
  /\ \A n \in Readers :
       WF_vars(GiveUp(n)) /\ WF_vars(PassOthers(n)) /\ WF_vars(Process(n))
  /\ \A n \in Nodes :
       WF_vars(Begin(n)) /\ SF_vars(Acknowledged(n)) /\ WF_vars(RemovePublished(n))

Safety == Init /\ [][Next]_vars

Spec == Safety /\ Fairness

-----------------------------------------------------------------------------
(* Correctness.                                                            *)

Facts == [lot : Lots, version : 1 .. MaxRows]
Rows  == [position : Nat, fact : Facts]

Within(n) == tick[n].acked => tick[n].pending # {}

(* Every variable has its type; a relay with an acknowledgement in hand    *)
(* has the fact it is for (OutboxRelay.pass).                              *)
TypeOK ==
  /\ journal \in Seq([lot : Lots \cup Others, version : 1 .. MaxRows,
                      fate : {"Open", "Committed", "RolledBack"}])
  /\ Len(journal) <= MaxRows
  /\ offset \in 0 .. MaxRows
  /\ row \in [Lots -> 0 .. MaxRows]
  /\ outbox \subseteq Rows
  /\ drawn \in Nat
  /\ read \in [Nodes -> 0 .. MaxRows]
  /\ holes \in [Nodes -> SUBSET (1 .. MaxRows)]
  /\ tick \in [Nodes -> [pending : SUBSET Rows, acked : BOOLEAN]]
  /\ \A n \in Nodes : Within(n)
  /\ stream \in Seq(Facts)
  /\ late \subseteq Facts
  /\ faults \in 0 .. MaxFaults

Waits(f)       == \E r \in outbox : r.fact = f
OnTheStream(f) == f \in Members(stream)

(* ADR-050, at least once: a public event that the projection has folded   *)
(* is in the outbox until the stream has it, whatever crashes and whoever  *)
(* else relays (LotPublicationHandler.process, OutboxRelay.pass).          *)
KeptUntilPublished ==
  \A l \in Lots, v \in 1 .. MaxRows :
    LET f == [lot |-> l, version |-> v]
    IN  v <= row[l] /\ IsPublic(f) => Waits(f) \/ OnTheStream(f)

(* Repeats aside, the stream is one feed of each lot: two readers of the   *)
(* tag, two relays, late messages and an expired window put no fact before *)
(* an earlier one, and leave none out (Module LotFeed).                    *)
PublicVersions ==
  [l \in Lots |-> {v \in 1 .. MaxRows : IsPublic([lot |-> l, version |-> v])}]

Feed == INSTANCE LotFeed WITH
  Facts <- PublicVersions,
  met <- [l \in Lots |-> {f.version : f \in {g \in Members(stream) : g.lot = l}}]

IsOneFeed == Feed!Spec

(* Whatever is in the outbox is published and leaves it at last, if the    *)
(* bus answers again and again (OutboxRelay.start).                        *)
OutboxDrains ==
  \A f \in [lot : Lots, version : 1 .. MaxRows] :
    Waits(f) ~> (~Waits(f) /\ OnTheStream(f))

(* LotPublicationHandler: an omission in the stream of the tag is read     *)
(* again from the journal, and the omitted events are published as well.   *)
(* The last event of a lot has no later one to find the omission by.       *)
OmittedArePublished ==
  \A l \in Lots, v \in 1 .. MaxRows :
    LET f == [lot |-> l, version |-> v]
    IN  IsPublic(f)
          => ((\E i \in DOMAIN journal : Seen(i) /\ journal[i].lot = l /\ journal[i].version = v)
                ~> OnTheStream(f))
=============================================================================
