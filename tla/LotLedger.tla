----------------------------- MODULE LotLedger -----------------------------
(***************************************************************************)
(* What the entity of a lot promises to whoever sends it commands: one     *)
(* ledger of rows, to which an operation is written once and whole, a      *)
(* removal only on top of the rows its sender was shown, and accepted      *)
(* answers that point at the operation's own first row (RFC-011, P-06,     *)
(* I-08; ADR-072 on LotChanged).  Module LotEntity implements it.          *)
(***************************************************************************)
EXTENDS Integers, Sequences

CONSTANTS
  Commands,     \* records [op, participant, kind]
  MaxDerived    \* the most rows a command derives from its own one

VARIABLES
  journal,      \* the rows of the lot
  expected,     \* the number of rows the sender of a removal was shown
  accepted      \* the first row each sender knows its command by, 0 if none

vars == <<journal, expected, accepted>>

NotShown == -1

(* The rows of one command: its own event and what it derives, all under   *)
(* its operation and the number of the first of them.                      *)
Transaction(c, first, derived) ==
  [i \in 1 .. 1 + derived |->
     [op |-> c.op, participant |-> c.participant,
      kind |-> IF i = 1 THEN c.kind ELSE "Derived", first |-> first]]

Recorded(rows, op) == \E i \in 1 .. Len(rows) : rows[i].op = op

Init ==
  /\ journal = <<>>
  /\ expected = [c \in Commands |-> NotShown]
  /\ accepted = [c \in Commands |-> 0]

(* A removal is previewed on rows that may be no longer the last.          *)
Show(c) ==
  /\ expected[c] = NotShown
  /\ \E known \in 0 .. Len(journal) : expected' = [expected EXCEPT ![c] = known]
  /\ UNCHANGED <<journal, accepted>>

Write(c) ==
  /\ ~Recorded(journal, c.op)
  /\ c.kind = "Remove" => expected[c] = Len(journal)
  /\ \E derived \in 0 .. MaxDerived :
       journal' = journal \o Transaction(c, Len(journal) + 1, derived)
  /\ UNCHANGED <<expected, accepted>>

(* Only a command's own sender learns of its rows.                         *)
Confirm(c) ==
  /\ accepted[c] = 0
  /\ \E i \in 1 .. Len(journal) :
       /\ journal[i] = [op |-> c.op, participant |-> c.participant,
                        kind |-> c.kind, first |-> i]
       /\ accepted' = [accepted EXCEPT ![c] = i]
  /\ UNCHANGED <<journal, expected>>

Next == \E c \in Commands : Show(c) \/ Write(c) \/ Confirm(c)

Spec == Init /\ [][Next]_vars
=============================================================================
