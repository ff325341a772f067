----------------------------- MODULE LotEntity -----------------------------
(***************************************************************************)
(* The event-sourced entity of a lot (entity/LotEntity.scala) between its  *)
(* senders and its journal.  Cluster sharding keeps one instance of the    *)
(* entity, but does not exclude two for a while (ADR-045): the journal's   *)
(* primary key decides between them.  An instance is recovered from the    *)
(* journal, handles one command at a time and stops when an append fails;  *)
(* commands and replies may be lost, and a sender without a reply repeats  *)
(* its command under the same op_id.                                       *)
(*                                                                         *)
(* What a command does to a lot is module Lot; here the decision is left   *)
(* open: a command may be refused, or accepted with up to MaxDerived       *)
(* derived events.                                                         *)
(***************************************************************************)
EXTENDS Integers, Sequences

CONSTANTS
  Nodes,        \* the nodes that may hold an instance of the entity
  Commands,     \* records [op, participant, kind]
  NoCommand,    \* no command is being written
  MaxDerived    \* bound: the events a command derives from its own one

ASSUME CommandsAssumption ==
  /\ \A c \in Commands :
       c = [op |-> c.op, participant |-> c.participant, kind |-> c.kind]
  /\ \A c \in Commands : c.kind # "Derived"
  /\ NoCommand \notin Commands
  /\ MaxDerived \in Nat

VARIABLES
  journal,      \* the rows of the lot's persistence id, by sequence number
  up,           \* which nodes hold a running instance
  known,        \* the rows an instance has folded: its State
  writing,      \* the command an instance persists, its rows and how far it is
  inFlight,     \* the commands sent and not lost
  expected,     \* expectedVersion of a removal: what its preview was made on
  answer        \* the reply each sender has received

vars == <<journal, up, known, writing, inFlight, expected, answer>>

NotShown == -1
NotWriting == [command |-> NoCommand, rows |-> <<>>, stored |-> FALSE]
NoAnswer == [outcome |-> "None", first |-> 0, version |-> 0]
Refused == [outcome |-> "Refused", first |-> 0, version |-> 0]
Accepted(first, version) == [outcome |-> "Accepted", first |-> first, version |-> version]

Init ==
  /\ journal = <<>>
  /\ up = [n \in Nodes |-> FALSE]
  /\ known = [n \in Nodes |-> <<>>]
  /\ writing = [n \in Nodes |-> NotWriting]
  /\ inFlight = {}
  /\ expected = [c \in Commands |-> NotShown]
  /\ answer = [c \in Commands |-> NoAnswer]

-----------------------------------------------------------------------------
(* The deduplication window: `seen` keeps the first row of an operation.   *)

Seen(rows, op) == \E i \in 1 .. Len(rows) : rows[i].op = op

FirstOf(rows, op) ==
  CHOOSE i \in 1 .. Len(rows) :
    rows[i].op = op /\ \A j \in 1 .. i - 1 : rows[j].op # op

(* Slip: any command of the same op_id is answered with the envelope.      *)
OwnByOp(row, c) == TRUE

Own(row, c) == row.kind = c.kind /\ row.participant = c.participant

(* What a command of a known op_id is answered.                            *)
Repeated(n, c) ==
  LET first == FirstOf(known[n], c.op)
  IN  IF Own(known[n][first], c) THEN Accepted(first, Len(known[n])) ELSE Refused

RowsOf(c, first, derived) ==
  [i \in 1 .. 1 + derived |->
     [op |-> c.op, participant |-> c.participant,
      kind |-> IF i = 1 THEN c.kind ELSE "Derived", first |-> first]]

-----------------------------------------------------------------------------
(* Senders and the network.                                                *)

(* A reply reaches the sender, or is lost or finds its ask expired.        *)
Tell(c, reply) ==
  \/ answer[c] = NoAnswer /\ answer' = [answer EXCEPT ![c] = reply]
  \/ UNCHANGED answer

(* Any answer is final at the edge; without one the command is repeated.   *)
Ask(c) ==
  /\ c \notin inFlight
  /\ answer[c] = NoAnswer
  /\ c.kind = "Remove" => expected[c] # NotShown
  /\ inFlight' = inFlight \cup {c}
  /\ UNCHANGED <<journal, up, known, writing, expected, answer>>

Lose(c) ==
  /\ c \in inFlight
  /\ inFlight' = inFlight \ {c}
  /\ UNCHANGED <<journal, up, known, writing, expected, answer>>

-----------------------------------------------------------------------------
(* The life of an instance.                                                *)

(* Recovery replays the whole journal; commands wait in the stash for it.  *)
Recover(n) ==
  /\ ~up[n]
  /\ up' = [up EXCEPT ![n] = TRUE]
  /\ known' = [known EXCEPT ![n] = journal]
  /\ UNCHANGED <<journal, writing, inFlight, expected, answer>>

(* Slip: an instance that stops leaves its append behind.                  *)
StopMidway(n) ==
  /\ up[n]
  /\ up' = [up EXCEPT ![n] = FALSE]
  /\ known' = [known EXCEPT ![n] = <<>>]
  /\ UNCHANGED <<journal, writing, inFlight, expected, answer>>

(* An instance stops with its node, or because its append failed: what was *)
(* being written may be in the journal or not, and nobody is answered.     *)
Stop(n) ==
  /\ up[n]
  /\ up' = [up EXCEPT ![n] = FALSE]
  /\ known' = [known EXCEPT ![n] = <<>>]
  /\ writing' = [writing EXCEPT ![n] = NotWriting]
  /\ UNCHANGED <<journal, inFlight, expected, answer>>

Idle(n) == up[n] /\ writing[n] = NotWriting

(* PreviewRemoval decides and writes nothing; its reply carries the number *)
(* of the last row.                                                        *)
Preview(n, c) ==
  /\ Idle(n)
  /\ c.kind = "Remove"
  /\ expected[c] = NotShown
  /\ expected' = [expected EXCEPT ![c] = Len(known[n])]
  /\ UNCHANGED <<journal, up, known, writing, inFlight, answer>>

-----------------------------------------------------------------------------
(* Handling a command: LotEntity.handle and LotEntity.recordWith.          *)

(* The sender may already have sent the command again.                     *)
Taken(c) == c \in inFlight /\ inFlight' = inFlight \ {c}

Repeat(n, c) ==
  /\ Idle(n)
  /\ Taken(c)
  /\ Seen(known[n], c.op)
  /\ Tell(c, Repeated(n, c))
  /\ UNCHANGED <<journal, up, known, writing, expected>>

Refuse(n, c) ==
  /\ Idle(n)
  /\ Taken(c)
  /\ ~Seen(known[n], c.op)
  /\ Tell(c, Refused)
  /\ UNCHANGED <<journal, up, known, writing, expected>>

(* LotChanged is decided on the number of the row the instance knows last. *)
Unchanged(n, c) == c.kind = "Remove" => expected[c] = Len(known[n])

(* Slip: a removal lands on whatever the lot has become.                   *)
AcceptChanged(n, c) ==
  /\ Idle(n)
  /\ Taken(c)
  /\ ~Seen(known[n], c.op)
  /\ \E derived \in 0 .. MaxDerived :
       writing' = [writing EXCEPT ![n] =
         [command |-> c, rows |-> RowsOf(c, Len(known[n]) + 1, derived), stored |-> FALSE]]
  /\ UNCHANGED <<journal, up, known, expected, answer>>

Accept(n, c) ==
  /\ Idle(n)
  /\ Taken(c)
  /\ ~Seen(known[n], c.op)
  /\ Unchanged(n, c)
  /\ \E derived \in 0 .. MaxDerived :
       writing' = [writing EXCEPT ![n] =
         [command |-> c, rows |-> RowsOf(c, Len(known[n]) + 1, derived), stored |-> FALSE]]
  /\ UNCHANGED <<journal, up, known, expected, answer>>

(* The journal refuses a row whose number is taken: the append is one      *)
(* database transaction, so none of the rows is stored then (Stop).        *)
Conflict(n) == Len(journal) > Len(known[n])

(* Slip: rows are appended wherever the journal ends.                      *)
PersistAnywhere(n) ==
  /\ writing[n].command # NoCommand
  /\ ~writing[n].stored
  /\ journal' = journal \o writing[n].rows
  /\ writing' = [writing EXCEPT ![n].stored = TRUE]
  /\ UNCHANGED <<up, known, inFlight, expected, answer>>

Persist(n) ==
  /\ writing[n].command # NoCommand
  /\ ~writing[n].stored
  /\ ~Conflict(n)
  /\ journal' = journal \o writing[n].rows
  /\ writing' = [writing EXCEPT ![n].stored = TRUE]
  /\ UNCHANGED <<up, known, inFlight, expected, answer>>

(* Slip: the sender is answered before the rows are stored.                *)
ReplyUnstored(n) ==
  /\ writing[n].command # NoCommand
  /\ LET c == writing[n].command
         after == known[n] \o writing[n].rows
     IN  /\ known' = [known EXCEPT ![n] = after]
         /\ Tell(c, Accepted(FirstOf(after, c.op), Len(after)))
  /\ writing' = [writing EXCEPT ![n] = NotWriting]
  /\ UNCHANGED <<journal, up, inFlight, expected>>

(* The rows are folded and the sender is answered with the first envelope  *)
(* and the number of the last row.                                         *)
Reply(n) ==
  /\ writing[n].stored
  /\ LET c == writing[n].command
         after == known[n] \o writing[n].rows
     IN  /\ known' = [known EXCEPT ![n] = after]
         /\ Tell(c, Accepted(FirstOf(after, c.op), Len(after)))
  /\ writing' = [writing EXCEPT ![n] = NotWriting]
  /\ UNCHANGED <<journal, up, inFlight, expected>>

Next ==
  \/ \E c \in Commands : Ask(c) \/ Lose(c)
  \/ \E n \in Nodes : Recover(n) \/ Stop(n) \/ Persist(n) \/ Reply(n)
  \/ \E n \in Nodes, c \in Commands :
       Preview(n, c) \/ Repeat(n, c) \/ Refuse(n, c) \/ Accept(n, c)

Spec == Init /\ [][Next]_vars

-----------------------------------------------------------------------------
(* Correctness.                                                            *)

Row == [op : {c.op : c \in Commands}, participant : {c.participant : c \in Commands},
        kind : {c.kind : c \in Commands} \cup {"Derived"}, first : Nat]

Write == [command : Commands \cup {NoCommand}, rows : Seq(Row), stored : BOOLEAN]

Answer == [outcome : {"None", "Refused", "Accepted"}, first : Nat, version : Nat]

(* Every variable has its type, and an instance that has stopped neither   *)
(* knows nor writes anything (State, Recorded and the protocol of          *)
(* LotEntity.scala).                                                       *)
TypeOK ==
  /\ journal \in Seq(Row)
  /\ up \in [Nodes -> BOOLEAN]
  /\ known \in [Nodes -> Seq(Row)]
  /\ writing \in [Nodes -> Write]
  /\ inFlight \subseteq Commands
  /\ expected \in [Commands -> Nat \cup {NotShown}]
  /\ answer \in [Commands -> Answer]
  /\ \A n \in Nodes : ~up[n] => known[n] = <<>> /\ writing[n] = NotWriting

(* P-06, I-08: whatever is repeated, lost or raced by a second instance,   *)
(* an operation has the rows of one transaction (Lot.repeatOf, and the     *)
(* stop of an instance whose append fails).                                *)
OneTransactionPerOp ==
  \A i, j \in 1 .. Len(journal) :
    journal[i].op = journal[j].op => journal[i].first = journal[j].first

(* What an instance has folded is a beginning of the journal: the number   *)
(* it counts is the number of a row, even in an instance left behind       *)
(* (LotEntity.State).                                                      *)
KnowsThePast ==
  \A n \in Nodes :
    /\ Len(known[n]) <= Len(journal)
    /\ \A i \in 1 .. Len(known[n]) : known[n][i] = journal[i]

(* An accepted answer points at the sender's own first row, and its        *)
(* version shows the command whole: no row of it comes later, and the      *)
(* journal has got as far (LotEntity.Recorded, PER-470).                   *)
AnswersShowTheCommand ==
  \A c \in Commands : answer[c].outcome = "Accepted" =>
    /\ answer[c].version <= Len(journal)
    /\ answer[c].first \in 1 .. Len(journal)
    /\ journal[answer[c].first] =
         [op |-> c.op, participant |-> c.participant, kind |-> c.kind,
          first |-> answer[c].first]
    /\ \A i \in 1 .. Len(journal) : journal[i].op = c.op => i <= answer[c].version

(* The journal is one ledger, whichever instances wrote it, and its        *)
(* senders are told nothing else.                                          *)
Ledger == INSTANCE LotLedger WITH
  accepted <- [c \in Commands |-> answer[c].first]

IsOneLedger == Ledger!Spec
=============================================================================
