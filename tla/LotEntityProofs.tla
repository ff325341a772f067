--------------------------- MODULE LotEntityProofs ---------------------------
(***************************************************************************)
(* Proofs about module LotEntity, for any nodes, any commands and any      *)
(* number of derived events: an operation is recorded once, answers show   *)
(* their commands, and the instances together implement module LotLedger.  *)
(***************************************************************************)
EXTENDS LotEntity, WellFoundedInduction, TLAPS

-----------------------------------------------------------------------------
(* The inductive invariant.                                                *)

(* The rows are a beginning of the journal that ends between two           *)
(* transactions: no operation has rows both in it and after it.            *)
Behind(rows) ==
  /\ Len(rows) <= Len(journal)
  /\ \A i \in 1 .. Len(rows) : rows[i] = journal[i]
  /\ \A i \in 1 .. Len(rows), j \in Len(rows) + 1 .. Len(journal) :
       journal[i].op # journal[j].op

(* A command's own row is the first of its transaction.                    *)
Numbered ==
  \A i \in 1 .. Len(journal) : journal[i].kind # "Derived" => journal[i].first = i

(* What an instance writes was decided on what it knows; once stored it is *)
(* in the journal right after that.                                        *)
WritesSound(n) ==
  LET w == writing[n]
  IN  /\ w.command = NoCommand => w = NotWriting
      /\ w.command # NoCommand =>
           /\ ~Seen(known[n], w.command.op)
           /\ Unchanged(n, w.command)
           /\ \E derived \in 0 .. MaxDerived :
                w.rows = RowsOf(w.command, Len(known[n]) + 1, derived)
      /\ w.stored => Behind(known[n] \o w.rows)

Shown(c) ==
  /\ expected[c] <= Len(journal)
  /\ answer[c].outcome # "Accepted" => answer[c].first = 0

IInv ==
  /\ TypeOK
  /\ Numbered
  /\ OneTransactionPerOp
  /\ \A n \in Nodes : Behind(known[n]) /\ WritesSound(n)
  /\ \A c \in Commands : Shown(c)
  /\ AnswersShowTheCommand

-----------------------------------------------------------------------------
(* Sequences and transactions.                                             *)

LEMMA Concatenation ==
  ASSUME NEW S, NEW s \in Seq(S), NEW t \in Seq(S)
  PROVE  /\ s \o t \in Seq(S)
         /\ Len(s \o t) = Len(s) + Len(t)
         /\ \A i \in 1 .. Len(s) : (s \o t)[i] = s[i]
         /\ \A i \in Len(s) + 1 .. Len(s) + Len(t) : (s \o t)[i] = t[i - Len(s)]
OBVIOUS

LEMMA Rows ==
  ASSUME NEW c \in Commands, NEW first \in Nat, NEW derived \in 0 .. MaxDerived
  PROVE  /\ RowsOf(c, first, derived) \in Seq(Row)
         /\ Len(RowsOf(c, first, derived)) = 1 + derived
         /\ \A i \in 1 .. 1 + derived :
              RowsOf(c, first, derived)[i] =
                [op |-> c.op, participant |-> c.participant,
                 kind |-> IF i = 1 THEN c.kind ELSE "Derived", first |-> first]
<1>1. 1 + derived \in Nat
  BY CommandsAssumption
<1>2. \A i \in 1 .. 1 + derived :
        [op |-> c.op, participant |-> c.participant,
         kind |-> IF i = 1 THEN c.kind ELSE "Derived", first |-> first] \in Row
  BY DEF Row
<1>3. RowsOf(c, first, derived) \in [1 .. 1 + derived -> Row]
  BY <1>2 DEF RowsOf
<1> QED
  BY <1>1, <1>3 DEF RowsOf

(* Every set of naturals that is not empty has a least member.             *)
LEMMA LeastNatural ==
  ASSUME NEW T, T \subseteq Nat, T # {}
  PROVE  \E m \in T : \A k \in T : m <= k
<1> DEFINE Below == {pair \in Nat \X Nat : pair[1] < pair[2]}
<1>1. IsWellFoundedOn(Below, Nat)
  BY NatLessThanWellFounded DEF OpToRel
<1> HIDE DEF Below
<1>2. PICK m \in T : \A k \in T : <<k, m>> \notin Below
  BY <1>1, WFMin
<1>3. \A k \in T : ~(k < m)
  BY <1>2 DEF Below
<1> QED BY <1>3

(* FirstOf returns the first row of an operation that has one.             *)
LEMMA FirstExists ==
  ASSUME NEW rows \in Seq(Row), NEW op, Seen(rows, op)
  PROVE  /\ FirstOf(rows, op) \in 1 .. Len(rows)
         /\ rows[FirstOf(rows, op)].op = op
         /\ \A j \in 1 .. FirstOf(rows, op) - 1 : rows[j].op # op
<1> DEFINE T == {i \in 1 .. Len(rows) : rows[i].op = op}
<1>1. PICK m \in T : \A k \in T : m <= k
  <2>1. T \subseteq Nat /\ T # {}
    BY DEF Seen
  <2> HIDE DEF T
  <2> QED BY <2>1, LeastNatural
<1>2. \A j \in 1 .. m - 1 : rows[j].op # op
  BY <1>1
<1> QED
  BY <1>1, <1>2 DEF FirstOf

(* The first row of an operation that is written after others.             *)
LEMMA FirstWritten ==
  ASSUME NEW rows \in Seq(Row), NEW c \in Commands, NEW derived \in 0 .. MaxDerived,
         ~Seen(rows, c.op)
  PROVE  LET after == rows \o RowsOf(c, Len(rows) + 1, derived)
         IN  /\ FirstOf(after, c.op) = Len(rows) + 1
             /\ after[Len(rows) + 1] = [op |-> c.op, participant |-> c.participant,
                                        kind |-> c.kind, first |-> Len(rows) + 1]
<1> DEFINE new == RowsOf(c, Len(rows) + 1, derived)
           after == rows \o new
<1>1. /\ new \in Seq(Row)
      /\ Len(new) = 1 + derived
      /\ new[1] = [op |-> c.op, participant |-> c.participant,
                   kind |-> c.kind, first |-> Len(rows) + 1]
  <2>1. Len(rows) + 1 \in Nat /\ 1 \in 1 .. 1 + derived
    BY CommandsAssumption
  <2> QED BY <2>1, Rows
<1>2. /\ after \in Seq(Row)
      /\ Len(after) = Len(rows) + 1 + derived
      /\ \A i \in 1 .. Len(rows) : after[i] = rows[i]
      /\ after[Len(rows) + 1] = new[1]
  <2> HIDE DEF new
  <2>1. Len(rows) + 1 \in Len(rows) + 1 .. Len(rows) + Len(new)
    BY <1>1, CommandsAssumption
  <2> QED BY <1>1, <2>1, Concatenation
<1>3. after[Len(rows) + 1].op = c.op
  BY <1>1, <1>2
<1>4. \A i \in 1 .. Len(rows) : after[i].op # c.op
  BY <1>2 DEF Seen
<1>5. Len(rows) + 1 \in 1 .. Len(after)
  BY <1>2, CommandsAssumption
<1>6. Seen(after, c.op)
  BY <1>3, <1>5 DEF Seen
<1>7. FirstOf(after, c.op) = Len(rows) + 1
  <2> DEFINE f == FirstOf(after, c.op)
  <2>1. /\ f \in 1 .. Len(after)
        /\ after[f].op = c.op
        /\ \A j \in 1 .. f - 1 : after[j].op # c.op
    <3> HIDE DEF after
    <3> QED BY <1>2, <1>6, FirstExists
  <2>2. f \notin 1 .. Len(rows)
    BY <1>4, <2>1
  <2>3. ~(Len(rows) + 1 \in 1 .. f - 1)
    BY <1>3, <2>1
  <2>4. f = Len(rows) + 1
    <3> HIDE DEF f, after
    <3> QED BY <1>2, <2>1, <2>2, <2>3
  <2> QED BY <2>4 DEF f
<1> QED BY <1>1, <1>2, <1>7

-----------------------------------------------------------------------------
(* The invariant is inductive.                                             *)

LEMMA Initially == Init => IInv
<1> SUFFICES ASSUME Init PROVE IInv
  OBVIOUS
<1>1. TypeOK
  BY DEF Init, TypeOK, NotWriting, Write, NoAnswer, Answer, NotShown
<1>2. ASSUME NEW n \in Nodes PROVE Behind(known[n]) /\ WritesSound(n)
  <2>1. known[n] = <<>> /\ writing[n] = NotWriting
    BY DEF Init
  <2>2. Behind(known[n])
    BY <2>1 DEF Init, Behind
  <2>3. NotWriting.command = NoCommand /\ ~NotWriting.stored
    BY DEF NotWriting
  <2> QED BY <2>1, <2>2, <2>3 DEF WritesSound
<1>3. Numbered /\ OneTransactionPerOp /\ AnswersShowTheCommand
  BY DEF Init, Numbered, OneTransactionPerOp, AnswersShowTheCommand, NoAnswer
<1>4. \A c \in Commands : Shown(c)
  BY DEF Init, Shown, NoAnswer, NotShown
<1> QED BY <1>1, <1>2, <1>3, <1>4 DEF IInv

(* An instance that a step does not concern.                               *)
LEMMA InstanceUntouched ==
  ASSUME NEW n \in Nodes, Behind(known[n]), WritesSound(n),
         UNCHANGED <<journal, expected>>,
         known'[n] = known[n], writing'[n] = writing[n]
  PROVE  Behind(known[n])' /\ WritesSound(n)'
<1>1. Behind(known[n])'
  BY DEF Behind
<1>2. WritesSound(n)'
  <2> DEFINE w == writing[n]
  <2>1. w.command # NoCommand => Unchanged(n, w.command)'
    BY DEF WritesSound, Unchanged
  <2>2. w.stored => Behind(known[n] \o w.rows)'
    BY DEF WritesSound, Behind
  <2> QED BY <2>1, <2>2 DEF WritesSound
<1> QED BY <1>1, <1>2

(* Steps that leave the journal, the answers and the versions shown alone. *)
LEMMA JournalUntouched ==
  ASSUME IInv, TypeOK', UNCHANGED <<journal, expected, answer>>,
         \A n \in Nodes : Behind(known[n])' /\ WritesSound(n)'
  PROVE  IInv'
<1>1. Numbered' /\ OneTransactionPerOp' /\ AnswersShowTheCommand'
  BY DEF IInv, Numbered, OneTransactionPerOp, AnswersShowTheCommand
<1>2. \A c \in Commands : Shown(c)'
  BY DEF IInv, Shown
<1> QED BY <1>1, <1>2 DEF IInv

LEMMA SendersKeep ==
  ASSUME IInv, NEW c \in Commands, Ask(c) \/ Lose(c)
  PROVE  IInv'
<1>1. TypeOK'
  BY DEF IInv, TypeOK, Ask, Lose
<1>2. UNCHANGED <<journal, known, writing, expected, answer>>
  BY DEF Ask, Lose
<1>3. \A n \in Nodes : Behind(known[n])' /\ WritesSound(n)'
  BY <1>2, InstanceUntouched DEF IInv
<1> QED BY <1>1, <1>2, <1>3, JournalUntouched

LEMMA RecoverKeeps ==
  ASSUME IInv, NEW n \in Nodes, Recover(n)
  PROVE  IInv'
<1>1. TypeOK'
  <2>1. up' \in [Nodes -> BOOLEAN] /\ known' \in [Nodes -> Seq(Row)]
    BY DEF IInv, TypeOK, Recover
  <2>2. ASSUME NEW m \in Nodes, ~up'[m]
        PROVE  known'[m] = <<>> /\ writing'[m] = NotWriting
    BY <2>2 DEF IInv, TypeOK, Recover
  <2>3. UNCHANGED <<journal, writing, inFlight, expected, answer>>
    BY DEF Recover
  <2> QED BY <2>1, <2>2, <2>3 DEF IInv, TypeOK
<1>2. UNCHANGED <<journal, writing, expected, answer>>
  BY DEF Recover
<1>3. ASSUME NEW m \in Nodes PROVE Behind(known[m])' /\ WritesSound(m)'
  <2>1. CASE m = n
    <3>1. known'[m] = journal /\ writing'[m] = NotWriting
      BY <2>1 DEF IInv, TypeOK, Recover
    <3>2. journal \in Seq(Row)
      BY DEF IInv, TypeOK
    <3>3. Behind(known[m])'
      BY <1>2, <3>1, <3>2 DEF Behind
    <3>4. NotWriting.command = NoCommand /\ ~NotWriting.stored
      BY DEF NotWriting
    <3> QED BY <3>1, <3>3, <3>4 DEF WritesSound
  <2>2. CASE m # n
    <3>1. known'[m] = known[m]
      BY <2>2 DEF IInv, TypeOK, Recover
    <3> QED BY <1>2, <3>1, InstanceUntouched DEF IInv
  <2> QED BY <2>1, <2>2
<1> QED BY <1>1, <1>2, <1>3, JournalUntouched

LEMMA StopKeeps ==
  ASSUME IInv, NEW n \in Nodes, Stop(n)
  PROVE  IInv'
<1>1. TypeOK'
  <2>1. NotWriting \in Write /\ <<>> \in Seq(Row)
    BY DEF NotWriting, Write
  <2>2. /\ up' \in [Nodes -> BOOLEAN]
        /\ known' \in [Nodes -> Seq(Row)]
        /\ writing' \in [Nodes -> Write]
    BY <2>1 DEF IInv, TypeOK, Stop
  <2>3. ASSUME NEW m \in Nodes, ~up'[m]
        PROVE  known'[m] = <<>> /\ writing'[m] = NotWriting
    BY <2>3 DEF IInv, TypeOK, Stop
  <2>4. UNCHANGED <<journal, inFlight, expected, answer>>
    BY DEF Stop
  <2> QED BY <2>2, <2>3, <2>4 DEF IInv, TypeOK
<1>2. UNCHANGED <<journal, expected, answer>>
  BY DEF Stop
<1>3. ASSUME NEW m \in Nodes PROVE Behind(known[m])' /\ WritesSound(m)'
  <2>1. CASE m = n
    <3>1. known'[m] = <<>> /\ writing'[m] = NotWriting
      BY <2>1 DEF IInv, TypeOK, Stop
    <3>2. Behind(known[m])'
      BY <1>2, <3>1 DEF IInv, TypeOK, Behind
    <3>3. NotWriting.command = NoCommand /\ ~NotWriting.stored
      BY DEF NotWriting
    <3> QED BY <3>1, <3>2, <3>3 DEF WritesSound
  <2>2. CASE m # n
    <3>1. known'[m] = known[m] /\ writing'[m] = writing[m]
      BY <2>2 DEF IInv, TypeOK, Stop
    <3> QED BY <1>2, <3>1, InstanceUntouched DEF IInv
  <2> QED BY <2>1, <2>2
<1> QED BY <1>1, <1>2, <1>3, JournalUntouched

(* A preview: the number of the last row an instance knows is shown.       *)
LEMMA PreviewKeeps ==
  ASSUME IInv, NEW n \in Nodes, NEW c \in Commands, Preview(n, c)
  PROVE  IInv'
<1>1. /\ UNCHANGED <<journal, up, known, writing, inFlight, answer>>
      /\ expected' = [expected EXCEPT ![c] = Len(known[n])]
      /\ expected[c] = NotShown /\ c.kind = "Remove"
      /\ Len(known[n]) \in Nat /\ Len(known[n]) <= Len(journal)
  BY DEF Preview, IInv, TypeOK, Behind
<1>2. TypeOK'
  BY <1>1 DEF IInv, TypeOK
<1>3. Numbered' /\ OneTransactionPerOp' /\ AnswersShowTheCommand'
  BY <1>1 DEF IInv, Numbered, OneTransactionPerOp, AnswersShowTheCommand
<1>4. \A d \in Commands : Shown(d)'
  BY <1>1 DEF IInv, TypeOK, Shown
<1>5. ASSUME NEW m \in Nodes PROVE Behind(known[m])' /\ WritesSound(m)'
  <2> DEFINE w == writing[m]
  <2>1. Behind(known[m])'
    BY <1>1 DEF IInv, Behind
  <2>2. w.command \in Commands \cup {NoCommand}
    BY DEF IInv, TypeOK, Write
  <2>3. w.command # NoCommand => Unchanged(m, w.command)'
    <3>1. w.command # NoCommand => Unchanged(m, w.command)
      BY DEF IInv, WritesSound
    <3>2. Len(known[m]) \in Nat
      BY DEF IInv, TypeOK
    <3>3. \A d \in Commands \ {c} : expected'[d] = expected[d]
      BY <1>1 DEF IInv, TypeOK
    <3>4. w.command # NoCommand => w.command # c
      <4> SUFFICES ASSUME w.command # NoCommand, w.command = c PROVE FALSE
        OBVIOUS
      <4>1. expected[c] = Len(known[m])
        BY <1>1, <3>1 DEF Unchanged
      <4> QED BY <1>1, <3>2, <4>1 DEF NotShown
    <3>5. w.command # NoCommand => expected'[w.command] = expected[w.command]
      BY <2>2, <3>3, <3>4
    <3> QED BY <1>1, <3>1, <3>5 DEF Unchanged
  <2>4. w.stored => Behind(known[m] \o w.rows)'
    <3>1. w.stored => Behind(known[m] \o w.rows)
      BY DEF IInv, WritesSound
    <3> QED BY <1>1, <3>1 DEF Behind
  <2> QED BY <1>1, <2>1, <2>3, <2>4 DEF IInv, WritesSound
<1> QED BY <1>2, <1>3, <1>4, <1>5 DEF IInv

(* A reply that shows the command, or is no acceptance of it.              *)
Honest(c, reply) ==
  /\ reply \in Answer
  /\ reply.outcome # "Accepted" => reply.first = 0
  /\ reply.outcome = "Accepted" =>
       /\ reply.version <= Len(journal)
       /\ reply.first \in 1 .. Len(journal)
       /\ journal[reply.first] = [op |-> c.op, participant |-> c.participant,
                                  kind |-> c.kind, first |-> reply.first]
       /\ \A i \in 1 .. Len(journal) : journal[i].op = c.op => i <= reply.version

(* An answer that shows the command keeps the invariant.                   *)
LEMMA TellKeeps ==
  ASSUME IInv, NEW c \in Commands, NEW reply, Honest(c, reply), Tell(c, reply),
         UNCHANGED <<journal, expected>>
  PROVE  /\ answer' \in [Commands -> Answer]
         /\ \A d \in Commands : Shown(d)'
         /\ AnswersShowTheCommand'
<1>1. answer' \in [Commands -> Answer]
  BY DEF IInv, TypeOK, Tell, Honest
<1>2. ASSUME NEW d \in Commands
      PROVE  \/ answer'[d] = answer[d]
             \/ d = c /\ answer'[d] = reply
  BY DEF IInv, TypeOK, Tell
<1>3. \A d \in Commands : Shown(d)'
  BY <1>2 DEF IInv, Shown, Honest
<1>4. AnswersShowTheCommand'
  BY <1>2 DEF IInv, AnswersShowTheCommand, Honest
<1> QED BY <1>1, <1>3, <1>4

LEMMA RefuseKeeps ==
  ASSUME IInv, NEW n \in Nodes, NEW c \in Commands, Refuse(n, c)
  PROVE  IInv'
<1>1. Honest(c, Refused)
  BY DEF Refused, Answer, Honest
<1>2. UNCHANGED <<journal, up, known, writing, expected>> /\ inFlight' \subseteq Commands
  BY DEF Refuse, Taken, IInv, TypeOK
<1>3. /\ answer' \in [Commands -> Answer]
      /\ \A d \in Commands : Shown(d)'
      /\ AnswersShowTheCommand'
  BY <1>1, <1>2, TellKeeps DEF Refuse
<1>4. TypeOK'
  BY <1>2, <1>3 DEF IInv, TypeOK
<1>5. \A m \in Nodes : Behind(known[m])' /\ WritesSound(m)'
  BY <1>2, InstanceUntouched DEF IInv
<1>6. Numbered' /\ OneTransactionPerOp'
  BY <1>2 DEF IInv, Numbered, OneTransactionPerOp
<1> QED BY <1>3, <1>4, <1>5, <1>6 DEF IInv

(* What a repeat is answered: the first row the instance knows of the      *)
(* operation is a row of the journal, and no later row is of it.           *)
LEMMA RepeatedShows ==
  ASSUME IInv, NEW n \in Nodes, NEW c \in Commands, Seen(known[n], c.op)
  PROVE  Honest(c, Repeated(n, c))
<1> DEFINE first == FirstOf(known[n], c.op)
<1>1. /\ known[n] \in Seq(Row)
      /\ journal \in Seq(Row)
      /\ Behind(known[n])
  BY DEF IInv, TypeOK
<1>2. first \in 1 .. Len(known[n]) /\ known[n][first].op = c.op
  BY <1>1, FirstExists
<1>3. /\ first \in 1 .. Len(journal)
      /\ journal[first] = known[n][first]
      /\ Len(known[n]) \in Nat
      /\ Len(known[n]) <= Len(journal)
  <2> HIDE DEF first
  <2> QED BY <1>1, <1>2 DEF Behind
<1>4. \A i \in 1 .. Len(journal) : journal[i].op = c.op => i <= Len(known[n])
  <2> SUFFICES ASSUME NEW i \in 1 .. Len(journal), journal[i].op = c.op,
                      ~(i <= Len(known[n]))
               PROVE  FALSE
    BY <1>3
  <2>1. i \in Len(known[n]) + 1 .. Len(journal)
    BY <1>1, <1>3
  <2>2. journal[first].op # journal[i].op
    <3> HIDE DEF first
    <3> QED BY <1>1, <1>2, <2>1 DEF Behind
  <2> QED BY <1>2, <1>3, <2>2
<1>5. CASE Own(known[n][first], c)
  <2>1. /\ journal[first].kind = c.kind
        /\ journal[first].participant = c.participant
        /\ journal[first].op = c.op
    BY <1>2, <1>3, <1>5 DEF Own
  <2>2. journal[first].first = first
    <3>1. c.kind # "Derived"
      BY CommandsAssumption
    <3> HIDE DEF first
    <3> QED BY <1>3, <2>1, <3>1 DEF IInv, Numbered
  <2>3. journal[first] \in Row
    <3> HIDE DEF first
    <3> QED BY <1>1, <1>3
  <2>4. journal[first] = [op |-> c.op, participant |-> c.participant,
                          kind |-> c.kind, first |-> first]
    <3> HIDE DEF first
    <3> QED BY <2>1, <2>2, <2>3 DEF Row
  <2>5. Repeated(n, c) = Accepted(first, Len(known[n]))
    BY <1>5 DEF Repeated
  <2> HIDE DEF first
  <2> QED BY <1>3, <1>4, <2>4, <2>5 DEF Accepted, Answer, Honest
<1>6. CASE ~Own(known[n][first], c)
  BY <1>6 DEF Repeated, Refused, Answer, Honest
<1> QED BY <1>5, <1>6

LEMMA RepeatKeeps ==
  ASSUME IInv, NEW n \in Nodes, NEW c \in Commands, Repeat(n, c)
  PROVE  IInv'
<1>1. UNCHANGED <<journal, up, known, writing, expected>> /\ inFlight' \subseteq Commands
  BY DEF Repeat, Taken, IInv, TypeOK
<1>2. Seen(known[n], c.op) /\ Tell(c, Repeated(n, c))
  BY DEF Repeat
<1>3. /\ answer' \in [Commands -> Answer]
      /\ \A d \in Commands : Shown(d)'
      /\ AnswersShowTheCommand'
  BY <1>1, <1>2, RepeatedShows, TellKeeps
<1>4. TypeOK'
  BY <1>1, <1>3 DEF IInv, TypeOK
<1>5. \A m \in Nodes : Behind(known[m])' /\ WritesSound(m)'
  BY <1>1, InstanceUntouched DEF IInv
<1>6. Numbered' /\ OneTransactionPerOp'
  BY <1>1 DEF IInv, Numbered, OneTransactionPerOp
<1> QED BY <1>3, <1>4, <1>5, <1>6 DEF IInv

LEMMA AcceptKeeps ==
  ASSUME IInv, NEW n \in Nodes, NEW c \in Commands, Accept(n, c)
  PROVE  IInv'
<1>1. /\ UNCHANGED <<journal, up, known, expected, answer>>
      /\ inFlight' \subseteq Commands
      /\ up[n]
      /\ ~Seen(known[n], c.op)
      /\ Unchanged(n, c)
  BY DEF Accept, Idle, Taken, IInv, TypeOK
<1>2. PICK derived \in 0 .. MaxDerived :
        writing' = [writing EXCEPT ![n] =
          [command |-> c, rows |-> RowsOf(c, Len(known[n]) + 1, derived), stored |-> FALSE]]
  BY DEF Accept
<1> DEFINE rows == RowsOf(c, Len(known[n]) + 1, derived)
           new == [command |-> c, rows |-> rows, stored |-> FALSE]
<1>3. rows \in Seq(Row) /\ new \in Write
  <2>1. Len(known[n]) + 1 \in Nat
    BY DEF IInv, TypeOK
  <2>2. rows \in Seq(Row)
    BY <2>1, Rows
  <2> HIDE DEF rows
  <2> QED BY <2>2 DEF Write
<1>4. writing'[n] = new /\ \A m \in Nodes \ {n} : writing'[m] = writing[m]
  BY <1>2 DEF IInv, TypeOK
<1>5. TypeOK'
  <2>1. writing' \in [Nodes -> Write]
    <3> HIDE DEF new
    <3> QED BY <1>2, <1>3 DEF IInv, TypeOK, new
  <2>2. ASSUME NEW m \in Nodes, ~up'[m]
        PROVE  known'[m] = <<>> /\ writing'[m] = NotWriting
    BY <1>1, <1>4, <2>2 DEF IInv, TypeOK
  <2> QED BY <1>1, <2>1, <2>2 DEF IInv, TypeOK
<1>6. ASSUME NEW m \in Nodes PROVE Behind(known[m])' /\ WritesSound(m)'
  <2>1. CASE m = n
    <3>1. Behind(known[n])'
      BY <1>1 DEF IInv, Behind
    <3>2. new.command = c /\ ~new.stored /\ new.rows = rows /\ c # NoCommand
      BY CommandsAssumption
    <3>3. Unchanged(n, c)'
      BY <1>1 DEF Unchanged
    <3> HIDE DEF new
    <3> QED BY <1>1, <1>4, <2>1, <3>1, <3>2, <3>3 DEF WritesSound
  <2>2. CASE m # n
    BY <1>1, <1>4, <2>2, InstanceUntouched DEF IInv
  <2> QED BY <2>1, <2>2
<1> QED BY <1>1, <1>5, <1>6, JournalUntouched

(* What a successful append makes of the journal: all the instance knew    *)
(* and its new rows, under an operation that had none.                     *)
LEMMA Persisted ==
  ASSUME IInv, NEW n \in Nodes, Persist(n)
  PROVE  LET c == writing[n].command
         IN  /\ c \in Commands
             /\ Len(known[n]) = Len(journal)
             /\ ~Seen(journal, c.op)
             /\ Unchanged(n, c)
             /\ \E derived \in 0 .. MaxDerived :
                  /\ writing[n].rows = RowsOf(c, Len(journal) + 1, derived)
                  /\ journal' = journal \o RowsOf(c, Len(journal) + 1, derived)
             /\ known[n] = journal
<1> DEFINE c == writing[n].command
<1>1. /\ journal \in Seq(Row) /\ known[n] \in Seq(Row)
      /\ writing[n] \in Write
      /\ Behind(known[n]) /\ WritesSound(n)
  BY DEF IInv, TypeOK
<1>2. c # NoCommand /\ ~Conflict(n) /\ journal' = journal \o writing[n].rows
  BY DEF Persist
<1>3. c \in Commands
  BY <1>1, <1>2 DEF Write
<1>4. Len(known[n]) = Len(journal) /\ Len(journal) \in Nat
  BY <1>1, <1>2 DEF Behind, Conflict
<1>5. known[n] = journal
  <2>1. \A i \in 1 .. Len(known[n]) : known[n][i] = journal[i]
    BY <1>1 DEF Behind
  <2> QED BY <1>1, <1>4, <2>1
<1>6. /\ ~Seen(known[n], c.op)
      /\ Unchanged(n, c)
      /\ \E derived \in 0 .. MaxDerived :
           writing[n].rows = RowsOf(c, Len(known[n]) + 1, derived)
  BY <1>1, <1>2 DEF WritesSound
<1> QED BY <1>2, <1>3, <1>4, <1>5, <1>6

(* The rows a write adds to those there are.                               *)
LEMMA Grown ==
  ASSUME NEW s \in Seq(Row), NEW c \in Commands, NEW derived \in 0 .. MaxDerived
  PROVE  LET grown == s \o RowsOf(c, Len(s) + 1, derived)
         IN  /\ grown \in Seq(Row)
             /\ Len(grown) = Len(s) + 1 + derived
             /\ \A i \in 1 .. Len(s) : grown[i] = s[i]
             /\ \A i \in Len(s) + 1 .. Len(grown) :
                  /\ grown[i].op = c.op
                  /\ grown[i].first = Len(s) + 1
                  /\ grown[i].kind # "Derived" => i = Len(s) + 1
<1> DEFINE new == RowsOf(c, Len(s) + 1, derived)
           grown == s \o new
<1>1. Len(s) \in Nat /\ derived \in Nat
  BY CommandsAssumption
<1>2. /\ new \in Seq(Row)
      /\ Len(new) = 1 + derived
      /\ \A i \in 1 .. 1 + derived :
           new[i] = [op |-> c.op, participant |-> c.participant,
                     kind |-> IF i = 1 THEN c.kind ELSE "Derived",
                     first |-> Len(s) + 1]
  BY <1>1, Rows
<1>3. \A i \in 1 .. 1 + derived :
        /\ new[i].op = c.op
        /\ new[i].first = Len(s) + 1
        /\ new[i].kind # "Derived" => i = 1
  <2> HIDE DEF new
  <2> QED BY <1>2
<1>4. /\ grown \in Seq(Row)
      /\ Len(grown) = Len(s) + Len(new)
      /\ \A i \in 1 .. Len(s) : grown[i] = s[i]
      /\ \A i \in Len(s) + 1 .. Len(s) + Len(new) : grown[i] = new[i - Len(s)]
  <2> HIDE DEF new
  <2> QED BY <1>2, Concatenation
<1>5. Len(grown) = Len(s) + 1 + derived
  <2> HIDE DEF new, grown
  <2> QED BY <1>1, <1>2, <1>4
<1>6. ASSUME NEW i \in Len(s) + 1 .. Len(grown)
      PROVE  /\ grown[i].op = c.op
             /\ grown[i].first = Len(s) + 1
             /\ grown[i].kind # "Derived" => i = Len(s) + 1
  <2> HIDE DEF new, grown
  <2>1. i - Len(s) \in 1 .. 1 + derived /\ i \in Len(s) + 1 .. Len(s) + Len(new)
    BY <1>1, <1>2, <1>5
  <2>2. grown[i] = new[i - Len(s)]
    BY <1>4, <2>1
  <2>3. i - Len(s) = 1 => i = Len(s) + 1
    BY <1>1, <2>1
  <2> QED BY <1>3, <2>1, <2>2, <2>3
<1> HIDE DEF grown
<1>7. /\ grown \in Seq(Row)
      /\ Len(grown) = Len(s) + 1 + derived
      /\ \A i \in 1 .. Len(s) : grown[i] = s[i]
      /\ \A i \in Len(s) + 1 .. Len(grown) :
           /\ grown[i].op = c.op
           /\ grown[i].first = Len(s) + 1
           /\ grown[i].kind # "Derived" => i = Len(s) + 1
  BY <1>4, <1>5, <1>6
<1> QED BY <1>7 DEF grown

(* How the journal differs from the one before an append.                  *)
Appended(c, derived) ==
  /\ journal' \in Seq(Row)
  /\ Len(journal') = Len(journal) + 1 + derived
  /\ \A i \in 1 .. Len(journal) : journal'[i] = journal[i] /\ journal[i].op # c.op
  /\ \A i \in Len(journal) + 1 .. Len(journal') :
       /\ journal'[i].op = c.op
       /\ journal'[i].first = Len(journal) + 1
       /\ journal'[i].kind # "Derived" => i = Len(journal) + 1

LEMMA WriteAppends ==
  ASSUME journal \in Seq(Row), NEW c \in Commands, ~Seen(journal, c.op),
         NEW derived \in 0 .. MaxDerived,
         journal' = journal \o RowsOf(c, Len(journal) + 1, derived)
  PROVE  Appended(c, derived)
<1>1. \A i \in 1 .. Len(journal) : journal[i].op # c.op
  BY DEF Seen
<1> DEFINE grown == journal \o RowsOf(c, Len(journal) + 1, derived)
<1>2. /\ grown \in Seq(Row)
      /\ Len(grown) = Len(journal) + 1 + derived
      /\ \A i \in 1 .. Len(journal) : grown[i] = journal[i]
      /\ \A i \in Len(journal) + 1 .. Len(grown) :
           /\ grown[i].op = c.op
           /\ grown[i].first = Len(journal) + 1
           /\ grown[i].kind # "Derived" => i = Len(journal) + 1
  BY Grown
<1>3. journal' = grown
  OBVIOUS
<1> HIDE DEF grown
<1> QED BY <1>1, <1>2, <1>3 DEF Appended

(* What was behind the journal stays behind it.                            *)
LEMMA StaysBehind ==
  ASSUME NEW c \in Commands, NEW derived \in 0 .. MaxDerived, Appended(c, derived),
         journal \in Seq(Row), NEW rows \in Seq(Row), Behind(rows)
  PROVE  /\ Len(rows) <= Len(journal')
         /\ \A i \in 1 .. Len(rows) : rows[i] = journal'[i]
         /\ \A i \in 1 .. Len(rows), j \in Len(rows) + 1 .. Len(journal') :
              journal'[i].op # journal'[j].op
<1>1. /\ Len(journal) \in Nat /\ derived \in Nat /\ Len(rows) \in Nat
      /\ Len(rows) <= Len(journal) /\ Len(journal') = Len(journal) + 1 + derived
  BY CommandsAssumption DEF Behind, Appended
<1>2. \A i \in 1 .. Len(rows) : rows[i] = journal[i] /\ journal'[i] = journal[i]
  BY <1>1 DEF Behind, Appended
<1>3. ASSUME NEW i \in 1 .. Len(rows), NEW j \in Len(rows) + 1 .. Len(journal')
      PROVE  journal'[i].op # journal'[j].op
  <2>0. i \in 1 .. Len(journal)
    BY <1>1
  <2>1. CASE j \in Len(rows) + 1 .. Len(journal)
    <3>1. j \in 1 .. Len(journal)
      BY <1>1, <2>1
    <3>2. journal'[j] = journal[j]
      BY <3>1 DEF Appended
    <3> QED BY <1>2, <2>1, <3>2 DEF Behind
  <2>2. CASE j \in Len(journal) + 1 .. Len(journal')
    BY <1>2, <2>0, <2>2 DEF Appended
  <2> QED BY <1>1, <2>1, <2>2
<1> QED BY <1>1, <1>2, <1>3

LEMMA PersistKeeps ==
  ASSUME IInv, NEW n \in Nodes, Persist(n)
  PROVE  IInv'
<1>1. PICK c \in Commands :
        /\ c = writing[n].command
        /\ ~Seen(journal, c.op)
        /\ Unchanged(n, c)
        /\ known[n] = journal
        /\ writing[n] \in Write
        /\ journal \in Seq(Row) /\ Len(journal) \in Nat
        /\ \E derived \in 0 .. MaxDerived :
             /\ writing[n].rows = RowsOf(c, Len(journal) + 1, derived)
             /\ journal' = journal \o RowsOf(c, Len(journal) + 1, derived)
  <2> DEFINE w == writing[n]
  <2>1. /\ w.command \in Commands
        /\ ~Seen(journal, w.command.op)
        /\ Unchanged(n, w.command)
        /\ known[n] = journal
        /\ \E derived \in 0 .. MaxDerived :
             /\ w.rows = RowsOf(w.command, Len(journal) + 1, derived)
             /\ journal' = journal \o RowsOf(w.command, Len(journal) + 1, derived)
    BY Persisted
  <2>2. w \in Write /\ journal \in Seq(Row) /\ Len(journal) \in Nat
    BY DEF IInv, TypeOK
  <2> QED BY <2>1, <2>2
<1>2. PICK derived \in 0 .. MaxDerived :
        /\ writing[n].rows = RowsOf(c, Len(journal) + 1, derived)
        /\ journal' = journal \o RowsOf(c, Len(journal) + 1, derived)
  BY <1>1
<1>3. /\ UNCHANGED <<up, known, inFlight, expected, answer>>
      /\ writing' = [writing EXCEPT ![n].stored = TRUE]
  BY DEF Persist
<1>4. Appended(c, derived) /\ derived \in Nat
  <2>1. Appended(c, derived)
    BY <1>1, <1>2, WriteAppends
  <2>2. derived \in Nat
    BY CommandsAssumption
  <2> QED BY <2>1, <2>2
<1>5. /\ writing'[n] = [writing[n] EXCEPT !.stored = TRUE]
      /\ writing'[n].command = c /\ writing'[n].rows = writing[n].rows
      /\ \A m \in Nodes \ {n} : writing'[m] = writing[m]
      /\ writing' \in [Nodes -> Write]
  BY <1>1, <1>3 DEF IInv, TypeOK, Write
<1>6. TypeOK'
  <2>1. ASSUME NEW m \in Nodes, ~up'[m]
        PROVE  known'[m] = <<>> /\ writing'[m] = NotWriting
    <3>1. writing[m] = NotWriting /\ known[m] = <<>>
      BY <1>3, <2>1 DEF IInv, TypeOK
    <3>2. m # n
      BY <1>1, <3>1, CommandsAssumption DEF NotWriting
    <3> QED BY <1>3, <1>5, <3>1, <3>2
  <2> QED BY <1>3, <1>4, <1>5, <2>1 DEF IInv, TypeOK, Appended
<1>7. Numbered'
  <2> SUFFICES ASSUME NEW i \in 1 .. Len(journal'), journal'[i].kind # "Derived"
               PROVE  journal'[i].first = i
    BY DEF Numbered
  <2>1. CASE i \in 1 .. Len(journal)
    BY <1>4, <2>1 DEF IInv, Numbered, Appended
  <2>2. CASE i \in Len(journal) + 1 .. Len(journal')
    BY <1>4, <2>2 DEF Appended
  <2> QED BY <1>1, <2>1, <2>2
<1>8. OneTransactionPerOp'
  <2> SUFFICES ASSUME NEW i \in 1 .. Len(journal'), NEW j \in 1 .. Len(journal'),
                      journal'[i].op = journal'[j].op
               PROVE  journal'[i].first = journal'[j].first
    BY DEF OneTransactionPerOp
  <2>1. ASSUME NEW k \in 1 .. Len(journal')
        PROVE  \/ /\ k \in 1 .. Len(journal)
                  /\ journal'[k] = journal[k] /\ journal'[k].op # c.op
               \/ journal'[k].op = c.op /\ journal'[k].first = Len(journal) + 1
    <3>1. CASE k \in 1 .. Len(journal)
      BY <1>4, <3>1 DEF Appended
    <3>2. CASE k \in Len(journal) + 1 .. Len(journal')
      BY <1>4, <3>2 DEF Appended
    <3> QED BY <1>1, <3>1, <3>2
  <2>2. CASE journal'[i].op = c.op
    BY <2>1, <2>2
  <2>3. CASE journal'[i].op # c.op
    <3>1. /\ i \in 1 .. Len(journal) /\ j \in 1 .. Len(journal)
          /\ journal'[i] = journal[i] /\ journal'[j] = journal[j]
      BY <2>1, <2>3
    <3> QED BY <3>1 DEF IInv, OneTransactionPerOp
  <2> QED BY <2>2, <2>3
<1>9. ASSUME NEW m \in Nodes PROVE Behind(known[m])' /\ WritesSound(m)'
  <2>1. \A rows \in Seq(Row) : Behind(rows) =>
          /\ Len(rows) <= Len(journal')
          /\ \A i \in 1 .. Len(rows) : rows[i] = journal'[i]
          /\ \A i \in 1 .. Len(rows), j \in Len(rows) + 1 .. Len(journal') :
               journal'[i].op # journal'[j].op
    BY <1>1, <1>4, StaysBehind
  <2>2. Behind(known[m])'
    <3>1. known[m] \in Seq(Row) /\ Behind(known[m])
      BY DEF IInv, TypeOK
    <3> QED BY <1>3, <2>1, <3>1 DEF Behind
  <2>3. CASE m = n
    <3>1. /\ writing'[n].command = c /\ writing'[n].rows = writing[n].rows
          /\ c # NoCommand
      BY <1>1, <1>5, CommandsAssumption
    <3>2. Behind(known[n] \o writing[n].rows)'
      <4>1. known'[n] \o writing'[n].rows = journal'
        BY <1>1, <1>2, <1>3, <3>1
      <4>2. /\ Len(journal') <= Len(journal')
            /\ ~ \E j \in Len(journal') + 1 .. Len(journal') : TRUE
        BY <1>1, <1>4 DEF Appended
      <4> QED BY <4>1, <4>2 DEF Behind
    <3>3. Unchanged(n, c)'
      BY <1>1, <1>3 DEF Unchanged
    <3>4. /\ ~Seen(known'[n], c.op)
          /\ writing'[n].rows = RowsOf(c, Len(known'[n]) + 1, derived)
      BY <1>1, <1>2, <1>3, <3>1
    <3> QED BY <2>2, <2>3, <3>1, <3>2, <3>3, <3>4 DEF WritesSound
  <2>4. CASE m # n
    <3> DEFINE w == writing[m]
    <3>1. writing'[m] = w /\ known'[m] = known[m] /\ w \in Write /\ known[m] \in Seq(Row)
      BY <1>3, <1>5, <2>4 DEF IInv, TypeOK
    <3>2. w.stored => Behind(known[m] \o w.rows)'
      <4>1. known[m] \o writing[m].rows \in Seq(Row)
        BY <3>1, Concatenation DEF Write
      <4>2. writing[m].stored => Behind(known[m] \o writing[m].rows)
        BY DEF IInv, WritesSound
      <4>3. known'[m] \o writing'[m].rows = known[m] \o writing[m].rows
        BY <3>1
      <4> DEFINE rows == known[m] \o writing[m].rows
      <4>4. writing[m].stored =>
              /\ Len(rows) <= Len(journal')
              /\ \A i \in 1 .. Len(rows) : rows[i] = journal'[i]
              /\ \A i \in 1 .. Len(rows), j \in Len(rows) + 1 .. Len(journal') :
                   journal'[i].op # journal'[j].op
        <5> HIDE DEF rows
        <5> QED BY <2>1, <4>1, <4>2 DEF rows
      <4> QED BY <3>1, <4>3, <4>4 DEF Behind
    <3>3. w.command # NoCommand => Unchanged(m, w.command)'
      BY <1>3, <3>1 DEF IInv, WritesSound, Unchanged
    <3> QED BY <2>2, <3>1, <3>2, <3>3 DEF IInv, WritesSound
  <2> QED BY <2>2, <2>3, <2>4
<1>10. \A d \in Commands : Shown(d)'
  <2>1. Len(journal) \in Nat /\ Len(journal') = Len(journal) + 1 + derived
    BY <1>1, <1>4 DEF Appended
  <2>2. ASSUME NEW d \in Commands PROVE Shown(d)'
    <3>1. expected[d] \in Int /\ Shown(d)
      BY DEF IInv, TypeOK, NotShown
    <3> QED BY <1>3, <1>4, <2>1, <3>1 DEF Shown
  <2> QED BY <2>2
<1>11. AnswersShowTheCommand'
  <2> SUFFICES ASSUME NEW d \in Commands, answer[d].outcome = "Accepted"
               PROVE  /\ answer[d].version <= Len(journal')
                      /\ answer[d].first \in 1 .. Len(journal')
                      /\ journal'[answer[d].first] =
                           [op |-> d.op, participant |-> d.participant, kind |-> d.kind,
                            first |-> answer[d].first]
                      /\ \A i \in 1 .. Len(journal') :
                           journal'[i].op = d.op => i <= answer[d].version
    BY <1>3 DEF AnswersShowTheCommand
  <2>1. /\ answer[d].version <= Len(journal) /\ answer[d].version \in Nat
        /\ answer[d].first \in 1 .. Len(journal)
        /\ journal[answer[d].first] =
             [op |-> d.op, participant |-> d.participant, kind |-> d.kind,
              first |-> answer[d].first]
        /\ \A i \in 1 .. Len(journal) : journal[i].op = d.op => i <= answer[d].version
    BY DEF IInv, TypeOK, Answer, AnswersShowTheCommand
  <2>2. d.op # c.op
    BY <1>1, <2>1 DEF Seen
  <2>3. ASSUME NEW i \in 1 .. Len(journal'), journal'[i].op = d.op
        PROVE  i <= answer[d].version
    <3>1. CASE i \in 1 .. Len(journal)
      BY <1>4, <2>1, <2>3, <3>1 DEF Appended
    <3>2. CASE i \in Len(journal) + 1 .. Len(journal')
      BY <1>4, <2>2, <2>3, <3>2 DEF Appended
    <3> QED BY <1>1, <3>1, <3>2
  <2>4. Len(journal') = Len(journal) + 1 + derived
    BY <1>4 DEF Appended
  <2>5. journal'[answer[d].first] = journal[answer[d].first]
    BY <1>4, <2>1 DEF Appended
  <2>6. answer[d].version <= Len(journal') /\ answer[d].first \in 1 .. Len(journal')
    BY <1>1, <1>4, <2>1, <2>4
  <2> QED BY <2>1, <2>3, <2>5, <2>6
<1> QED BY <1>6, <1>7, <1>8, <1>9, <1>10, <1>11 DEF IInv

(* A command whose rows are stored: what the instance knows with them is a *)
(* beginning of the journal, and the reply shows the command.              *)
LEMMA ReplySound ==
  ASSUME IInv, NEW n \in Nodes, Reply(n)
  PROVE  LET c == writing[n].command
             after == known[n] \o writing[n].rows
         IN  /\ c \in Commands
             /\ after \in Seq(Row)
             /\ Behind(after)
             /\ Tell(c, Accepted(FirstOf(after, c.op), Len(after)))
             /\ Honest(c, Accepted(FirstOf(after, c.op), Len(after)))
<1>1. /\ journal \in Seq(Row) /\ known[n] \in Seq(Row)
      /\ writing[n] \in Write
      /\ Behind(known[n]) /\ WritesSound(n)
      /\ writing[n].stored
  BY DEF IInv, TypeOK, Reply
<1>2. writing[n].command # NoCommand
  BY <1>1 DEF WritesSound, NotWriting
<1>3. PICK c \in Commands : c = writing[n].command
  BY <1>1, <1>2 DEF Write
<1>4. PICK derived \in 0 .. MaxDerived :
        writing[n].rows = RowsOf(c, Len(known[n]) + 1, derived)
  BY <1>1, <1>2, <1>3 DEF WritesSound
<1> DEFINE after == known[n] \o writing[n].rows
           own == Len(known[n]) + 1
<1>5. ~Seen(known[n], c.op) /\ Behind(after)
  BY <1>1, <1>2, <1>3 DEF WritesSound
<1>6. /\ FirstOf(after, c.op) = own
      /\ after[own] = [op |-> c.op, participant |-> c.participant,
                       kind |-> c.kind, first |-> own]
  <2> DEFINE written == known[n] \o RowsOf(c, Len(known[n]) + 1, derived)
  <2>1. /\ FirstOf(written, c.op) = Len(known[n]) + 1
        /\ written[Len(known[n]) + 1] = [op |-> c.op, participant |-> c.participant,
                                         kind |-> c.kind, first |-> Len(known[n]) + 1]
    BY <1>1, <1>5, FirstWritten
  <2>2. after = written
    BY <1>4
  <2> HIDE DEF after, written
  <2> QED BY <2>1, <2>2
<1>7. /\ after \in Seq(Row) /\ Len(after) \in Nat
      /\ own \in 1 .. Len(after)
  <2>1. /\ after \in Seq(Row)
        /\ Len(after) = Len(known[n]) + 1 + derived
    <3> DEFINE written == known[n] \o RowsOf(c, Len(known[n]) + 1, derived)
    <3>1. written \in Seq(Row) /\ Len(written) = Len(known[n]) + 1 + derived
      BY <1>1, Grown
    <3>2. after = written
      BY <1>4
    <3> HIDE DEF after, written
    <3> QED BY <3>1, <3>2
  <2>2. derived \in Nat /\ Len(known[n]) \in Nat
    BY <1>1, CommandsAssumption
  <2> HIDE DEF after
  <2> QED BY <2>1, <2>2
<1> HIDE DEF own, after
<1>8. own \in 1 .. Len(journal) /\ journal[own] = after[own] /\ own \in Nat
  BY <1>1, <1>5, <1>7 DEF Behind
<1>9. ASSUME NEW i \in 1 .. Len(journal), journal[i].op = c.op
      PROVE  i <= Len(after)
  <2>1. journal[own].op = c.op
    BY <1>6, <1>8
  <2>2. i \notin Len(after) + 1 .. Len(journal)
    BY <1>5, <1>7, <1>9, <2>1 DEF Behind
  <2> QED BY <1>1, <1>7, <2>2
<1>10. Honest(c, Accepted(own, Len(after)))
  BY <1>5, <1>6, <1>7, <1>8, <1>9 DEF Honest, Accepted, Answer, Behind
<1>11. Tell(c, Accepted(FirstOf(after, c.op), Len(after)))
  BY <1>3 DEF Reply, after
<1> QED BY <1>3, <1>5, <1>6, <1>7, <1>10, <1>11 DEF after

LEMMA ReplyKeeps ==
  ASSUME IInv, NEW n \in Nodes, Reply(n)
  PROVE  IInv'
<1> DEFINE after == known[n] \o writing[n].rows
<1>1. PICK c \in Commands, reply \in Answer :
        /\ Tell(c, reply) /\ Honest(c, reply)
        /\ after \in Seq(Row) /\ Behind(after)
  BY ReplySound DEF Honest
<1>2. /\ UNCHANGED <<journal, up, inFlight, expected>>
      /\ known' = [known EXCEPT ![n] = after]
      /\ writing' = [writing EXCEPT ![n] = NotWriting]
      /\ writing[n].stored
  BY DEF Reply
<1>3. /\ answer' \in [Commands -> Answer]
      /\ \A d \in Commands : Shown(d)'
      /\ AnswersShowTheCommand'
  BY <1>1, <1>2, TellKeeps
<1>4. NotWriting \in Write /\ NotWriting.command = NoCommand /\ ~NotWriting.stored
  BY DEF NotWriting, Write
<1>5. TypeOK'
  <2>1. known' \in [Nodes -> Seq(Row)] /\ writing' \in [Nodes -> Write]
    BY <1>1, <1>2, <1>4 DEF IInv, TypeOK
  <2>2. ASSUME NEW m \in Nodes, ~up'[m]
        PROVE  known'[m] = <<>> /\ writing'[m] = NotWriting
    BY <1>2, <1>4, <2>2 DEF IInv, TypeOK
  <2> QED BY <1>2, <1>3, <2>1, <2>2 DEF IInv, TypeOK
<1>6. ASSUME NEW m \in Nodes PROVE Behind(known[m])' /\ WritesSound(m)'
  <2>1. CASE m = n
    <3>1. known'[n] = after /\ writing'[n] = NotWriting
      BY <1>2 DEF IInv, TypeOK
    <3>2. Behind(known[n])'
      BY <1>1, <1>2, <3>1 DEF Behind
    <3> QED BY <1>4, <2>1, <3>1, <3>2 DEF WritesSound
  <2>2. CASE m # n
    <3>1. known'[m] = known[m] /\ writing'[m] = writing[m]
      BY <1>2, <2>2 DEF IInv, TypeOK
    <3> QED BY <1>2, <3>1, InstanceUntouched DEF IInv
  <2> QED BY <2>1, <2>2
<1>7. Numbered' /\ OneTransactionPerOp'
  BY <1>2 DEF IInv, Numbered, OneTransactionPerOp
<1> QED BY <1>3, <1>5, <1>6, <1>7 DEF IInv

(* Every step keeps the invariant.                                         *)
LEMMA Inductive == IInv /\ [Next]_vars => IInv'
<1> SUFFICES ASSUME IInv, [Next]_vars PROVE IInv'
  OBVIOUS
<1>1. CASE \E c \in Commands : Ask(c) \/ Lose(c)
  BY <1>1, SendersKeep
<1>2. CASE \E n \in Nodes : Recover(n) \/ Stop(n) \/ Persist(n) \/ Reply(n)
  BY <1>2, RecoverKeeps, StopKeeps, PersistKeeps, ReplyKeeps
<1>3. CASE \E n \in Nodes, c \in Commands :
             Preview(n, c) \/ Repeat(n, c) \/ Refuse(n, c) \/ Accept(n, c)
  BY <1>3, PreviewKeeps, RepeatKeeps, RefuseKeeps, AcceptKeeps
<1>4. CASE UNCHANGED vars
  <2>1. UNCHANGED <<journal, up, known, writing, inFlight, expected, answer>>
    BY <1>4 DEF vars
  <2>2. TypeOK'
    BY <2>1 DEF IInv, TypeOK
  <2>3. \A n \in Nodes : Behind(known[n])' /\ WritesSound(n)'
    BY <2>1, InstanceUntouched DEF IInv
  <2> QED BY <2>1, <2>2, <2>3, JournalUntouched
<1> QED BY <1>1, <1>2, <1>3, <1>4 DEF Next

LEMMA Always == Spec => []IInv
BY Initially, Inductive, PTL DEF Spec

-----------------------------------------------------------------------------
(* The results.                                                            *)

(* Every variable of the entity keeps its type, and an instance that has   *)
(* stopped neither knows nor writes anything (State and the protocol of    *)
(* LotEntity.scala).                                                       *)
THEOREM EntityTypeCorrect == Spec => []TypeOK
<1>1. IInv => TypeOK
  BY DEF IInv
<1> QED BY <1>1, Always, PTL

(* However many instances race and however often a command is repeated, an *)
(* operation has the rows of one transaction (Lot.repeatOf and the stop of *)
(* an instance whose append fails, LotEntity.scala).                       *)
THEOREM RecordedOnce == Spec => []OneTransactionPerOp
<1>1. IInv => OneTransactionPerOp
  BY DEF IInv
<1> QED BY <1>1, Always, PTL

(* What any instance has folded is a beginning of the journal, so the      *)
(* number it counts is the number of a row (LotEntity.State).              *)
THEOREM KnownIsPast == Spec => []KnowsThePast
<1>1. IInv => KnowsThePast
  BY DEF IInv, KnowsThePast, Behind
<1> QED BY <1>1, Always, PTL

(* An accepted answer points at the sender's own first row and its version *)
(* shows the whole command (LotEntity.Recorded and recordWith).            *)
THEOREM AnswersShow == Spec => []AnswersShowTheCommand
<1>1. IInv => AnswersShowTheCommand
  BY DEF IInv
<1> QED BY <1>1, Always, PTL

-----------------------------------------------------------------------------
(* The instances together are one ledger.                                  *)

(* An honest reply confirms a command in the ledger or tells it nothing.   *)
LEMMA TellConfirms ==
  ASSUME IInv, NEW c \in Commands, NEW reply, Honest(c, reply), Tell(c, reply),
         UNCHANGED <<journal, expected>>
  PROVE  [Ledger!Next]_(Ledger!vars)
<1> DEFINE accepted == [d \in Commands |-> answer[d].first]
<1>1. CASE UNCHANGED answer
  BY <1>1 DEF Ledger!vars
<1>2. CASE answer[c] = NoAnswer /\ answer' = [answer EXCEPT ![c] = reply]
  <2>1. answer[c].first = 0
    BY <1>2 DEF NoAnswer
  <2>2. \A d \in Commands : answer'[d] = IF d = c THEN reply ELSE answer[d]
    BY <1>2 DEF IInv, TypeOK
  <2>3. CASE reply.outcome # "Accepted"
    <3>1. \A d \in Commands : answer'[d].first = answer[d].first
      BY <2>1, <2>2, <2>3 DEF Honest
    <3> QED BY <3>1 DEF Ledger!vars
  <2>4. CASE reply.outcome = "Accepted"
    <3>1. /\ reply.first \in 1 .. Len(journal)
          /\ journal[reply.first] = [op |-> c.op, participant |-> c.participant,
                                     kind |-> c.kind, first |-> reply.first]
      BY <2>4 DEF Honest
    <3>2. accepted' = [accepted EXCEPT ![c] = reply.first]
      BY <2>2
    <3>3. accepted[c] = 0
      BY <2>1
    <3>4. Ledger!Confirm(c)
      BY <3>1, <3>2, <3>3 DEF Ledger!Confirm
    <3> QED BY <3>4 DEF Ledger!Next
  <2> QED BY <2>3, <2>4
<1> QED BY <1>1, <1>2 DEF Tell

LEMMA PreviewShows ==
  ASSUME IInv, NEW n \in Nodes, NEW c \in Commands, Preview(n, c)
  PROVE  Ledger!Show(c)
<1>1. /\ UNCHANGED <<journal, answer>>
      /\ expected[c] = NotShown
      /\ expected' = [expected EXCEPT ![c] = Len(known[n])]
  BY DEF Preview
<1>2. Len(known[n]) \in 0 .. Len(journal)
  BY DEF IInv, TypeOK, Behind
<1> QED BY <1>1, <1>2 DEF Ledger!Show, Ledger!NotShown, NotShown

LEMMA PersistWrites ==
  ASSUME IInv, NEW n \in Nodes, Persist(n)
  PROVE  Ledger!Next
<1> DEFINE w == writing[n]
<1>1. /\ w.command \in Commands
      /\ ~Seen(journal, w.command.op)
      /\ Unchanged(n, w.command)
      /\ known[n] = journal
      /\ \E derived \in 0 .. MaxDerived :
           journal' = journal \o RowsOf(w.command, Len(journal) + 1, derived)
  BY Persisted
<1>2. UNCHANGED <<expected, answer>>
  BY DEF Persist
<1>3. PICK c \in Commands : c = w.command
  BY <1>1
<1>4. \A derived \in 0 .. MaxDerived :
        RowsOf(c, Len(journal) + 1, derived)
          = Ledger!Transaction(c, Len(journal) + 1, derived)
  BY DEF RowsOf, Ledger!Transaction
<1>5. ~Ledger!Recorded(journal, c.op)
  BY <1>1, <1>3 DEF Seen, Ledger!Recorded
<1>6. c.kind = "Remove" => expected[c] = Len(journal)
  BY <1>1, <1>3 DEF Unchanged
<1>7. \E derived \in 0 .. MaxDerived :
        journal' = journal \o Ledger!Transaction(c, Len(journal) + 1, derived)
  BY <1>1, <1>3, <1>4
<1>8. Ledger!Write(c)
  BY <1>2, <1>5, <1>6, <1>7 DEF Ledger!Write
<1> QED BY <1>8 DEF Ledger!Next

LEMMA StepRefines == IInv /\ [Next]_vars => [Ledger!Next]_(Ledger!vars)
<1> SUFFICES ASSUME IInv, [Next]_vars PROVE [Ledger!Next]_(Ledger!vars)
  OBVIOUS
<1>1. UNCHANGED <<journal, expected, answer>> => UNCHANGED Ledger!vars
  BY DEF Ledger!vars
<1>2. CASE \E c \in Commands : Ask(c) \/ Lose(c)
  BY <1>1, <1>2 DEF Ask, Lose
<1>3. ASSUME NEW n \in Nodes, Recover(n) \/ Stop(n)
      PROVE  UNCHANGED Ledger!vars
  BY <1>1, <1>3 DEF Recover, Stop
<1>4. ASSUME NEW n \in Nodes, Persist(n)
      PROVE  Ledger!Next
  BY <1>4, PersistWrites
<1>5. ASSUME NEW n \in Nodes, Reply(n)
      PROVE  [Ledger!Next]_(Ledger!vars)
  <2>1. PICK c \in Commands, reply \in Answer : Tell(c, reply) /\ Honest(c, reply)
    BY <1>5, ReplySound DEF Honest
  <2>2. UNCHANGED <<journal, expected>>
    BY <1>5 DEF Reply
  <2> QED BY <2>1, <2>2, TellConfirms
<1>6. ASSUME NEW n \in Nodes, NEW c \in Commands, Preview(n, c)
      PROVE  Ledger!Next
  BY <1>6, PreviewShows DEF Ledger!Next
<1>7. ASSUME NEW n \in Nodes, NEW c \in Commands, Repeat(n, c)
      PROVE  [Ledger!Next]_(Ledger!vars)
  <2>1. Honest(c, Repeated(n, c)) /\ Tell(c, Repeated(n, c))
    BY <1>7, RepeatedShows DEF Repeat
  <2>2. UNCHANGED <<journal, expected>>
    BY <1>7 DEF Repeat
  <2> QED BY <2>1, <2>2, TellConfirms
<1>8. ASSUME NEW n \in Nodes, NEW c \in Commands, Refuse(n, c)
      PROVE  [Ledger!Next]_(Ledger!vars)
  <2>1. Honest(c, Refused) /\ Tell(c, Refused)
    BY <1>8 DEF Refuse, Refused, Answer, Honest
  <2>2. UNCHANGED <<journal, expected>>
    BY <1>8 DEF Refuse
  <2> QED BY <2>1, <2>2, TellConfirms
<1>9. ASSUME NEW n \in Nodes, NEW c \in Commands, Accept(n, c)
      PROVE  UNCHANGED Ledger!vars
  BY <1>1, <1>9 DEF Accept
<1>10. CASE UNCHANGED vars
  BY <1>1, <1>10 DEF vars
<1> QED BY <1>2, <1>3, <1>4, <1>5, <1>6, <1>7, <1>8, <1>9, <1>10 DEF Next

(* The entity implements the ledger: whichever instances write to the      *)
(* journal of LotEntity.scala, an operation is written once and whole, a   *)
(* removal only on the rows its sender was shown, and a sender is told     *)
(* only of its own first row.                                              *)
THEOREM EntityIsOneLedger == Spec => IsOneLedger
<1>1. Init => Ledger!Init
  BY DEF Init, Ledger!Init, NoAnswer, NotShown, Ledger!NotShown
<1>2. IInv /\ [Next]_vars => [Ledger!Next]_(Ledger!vars)
  BY StepRefines
<1> QED BY <1>1, <1>2, Always, PTL DEF Spec, IsOneLedger, Ledger!Spec
=============================================================================
