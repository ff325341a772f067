------------------------- MODULE BotDeliveryProofs -------------------------
(***************************************************************************)
(* Proofs about module BotDelivery, for any number of notifications,       *)
(* attempts and faults.  Neither theorem is inductive by itself: what a    *)
(* handler is about to record or to answer, and what the journal says,     *)
(* must be true of the past (Truthful, Minded), and between the reading of *)
(* the journal and the sending nobody else writes it (StillOpen).          *)
(***************************************************************************)
EXTENDS BotDelivery, TLAPS

Settled(n) == sent[n] > 0 \/ abandoned[n]

(* A final record of the journal is true.                                  *)
Truthful ==
  \A n \in Notifications :
    /\ journal[n] = "Delivered" => sent[n] > 0
    /\ journal[n] = "Dropped" => abandoned[n]

(* So is the record the handler writes, and the answer it gives.           *)
Minded ==
  handling # Idle =>
    /\ handling.record = "Delivered" => sent[handling.note] > 0
    /\ handling.record = "Dropped" => abandoned[handling.note]
    /\ handling.answer \in {"ack", "term"} /\ Kind[handling.note] \in {"Own", "Unrendered"}
         => Settled(handling.note)

(* On the way to Telegram the journal still says what it said when read.   *)
StillOpen ==
  handling.step \in {"Resolve", "Render", "Send"} => journal[handling.note] \notin Final

IInv == TypeOK /\ NeverLost /\ Truthful /\ Minded /\ StillOpen

LEMMA Started == Init => IInv
  BY NotificationsAssumption
  DEF Init, IInv, TypeOK, NeverLost, Truthful, Minded, StillOpen, NoCopy, Idle, Final,
      Handlings, Copies, Steps

(* The steps of the bus leave the handler alone.                           *)
LEMMA BusKeeps ==
  ASSUME IInv, NEW n \in Notifications,
         Deliver(n) \/ Expire(n) \/ Overrun(n) \/ PassDeadline(n)
  PROVE  IInv'
<1>0. IInv
  OBVIOUS
<1>1. CASE Deliver(n)
  <2>1. bus[n].deliveries \in 0 .. MaxAttempts
    BY DEF IInv, TypeOK
  <2>2. Lesser(bus[n].deliveries + 1, MaxAttempts) \in 1 .. MaxAttempts
    BY <2>1, NotificationsAssumption DEF Lesser
  <2>3. bus' = [bus EXCEPT ![n] = [state |-> "Out",
                  deliveries |-> Lesser(bus[n].deliveries + 1, MaxAttempts)]]
    BY <1>1 DEF Deliver
  <2>4. waiting' \in Copies
    BY <1>1, <2>2 DEF Deliver, Copies
  <2>5. UNCHANGED <<handling, journal, expired, historyVars, faults>>
    BY <1>1 DEF Deliver
  <2>6. TypeOK'
    BY <2>2, <2>3, <2>4, <2>5, <1>0 DEF IInv, TypeOK, historyVars
  <2>7. NeverLost'
    BY <2>3, <2>5, <1>0 DEF IInv, TypeOK, NeverLost, historyVars
  <2> QED
    BY <2>5, <2>6, <2>7, <1>0
    DEF IInv, Truthful, Minded, StillOpen, Settled, historyVars
<1>2. CASE Expire(n) \/ Overrun(n)
  <2>1. bus' = [bus EXCEPT ![n].state = "Ready"]
    BY <1>2 DEF Expire, Overrun
  <2>2. UNCHANGED <<waiting, handling, journal, expired, historyVars>>
    BY <1>2 DEF Expire, Overrun
  <2>3. faults' \in 0 .. MaxFaults
    BY <1>0, <1>2, NotificationsAssumption DEF Expire, Overrun, Fault, IInv, TypeOK
  <2>4. TypeOK'
    BY <2>1, <2>2, <2>3, <1>0 DEF IInv, TypeOK, historyVars
  <2>5. NeverLost'
    BY <2>1, <2>2, <1>0 DEF IInv, TypeOK, NeverLost, historyVars
  <2> QED
    BY <2>2, <2>4, <2>5, <1>0
    DEF IInv, Truthful, Minded, StillOpen, Settled, historyVars
<1>3. CASE PassDeadline(n)
  BY <1>0, <1>3
  DEF PassDeadline, IInv, TypeOK, NeverLost, Truthful, Minded, StillOpen, Settled,
      busVars, historyVars
<1> QED
  BY <1>1, <1>2, <1>3

(* A handler that has gone promises nothing.                               *)
LEMMA LossKeeps ==
  ASSUME IInv, Crash \/ LoseAnswer
  PROVE  IInv'
<1>1. handling' = Idle /\ UNCHANGED <<bus, journal, expired, historyVars>>
  BY DEF Crash, LoseAnswer, busVars
<1>2. waiting' \in {waiting, NoCopy}
  BY DEF Crash, LoseAnswer, busVars
<1>3. faults' \in 0 .. MaxFaults
  BY NotificationsAssumption DEF Crash, LoseAnswer, Fault, IInv, TypeOK
<1>4. TypeOK'
  BY <1>1, <1>2, <1>3 DEF IInv, TypeOK, historyVars, Idle
<1> QED
  BY <1>1, <1>4
  DEF IInv, NeverLost, Truthful, Minded, StillOpen, historyVars, Idle

LEMMA TakeKeeps ==
  ASSUME IInv, Take
  PROVE  IInv'
<1> DEFINE n == waiting.note
<1>1. n \in Notifications /\ waiting.attempt \in 1 .. MaxAttempts
  BY DEF Take, IInv, TypeOK, Copies
<1>2. handling' \in Handlings /\ handling'.note = n /\ handling'.record = "None"
  BY <1>1 DEF Take, Handlings, Steps, Final
<1>3. \/ handling'.step = "Read" /\ handling'.answer = "none"
      \/ /\ handling'.step = "Answer" /\ handling'.answer # "none"
         /\ Kind[n] \notin {"Own", "Unrendered"}
  BY <1>1, NotificationsAssumption DEF Take, Kinds
<1>4. waiting' = NoCopy /\ UNCHANGED <<bus, journal, expired, historyVars, faults>>
  BY DEF Take
<1>5. TypeOK'
  BY <1>2, <1>3, <1>4 DEF IInv, TypeOK, historyVars
<1>6. Minded' /\ StillOpen'
  BY <1>2, <1>3 DEF Minded, StillOpen, Final
<1> QED
  BY <1>4, <1>5, <1>6 DEF IInv, NeverLost, Truthful, historyVars

(* What the handler decides leaves the bus and the journal alone: it may   *)
(* have reached Telegram, and it may have given the notification up.       *)
LEMMA DecisionKeeps ==
  ASSUME IInv, handling # Idle, NEW m \in Notifications, m = handling.note,
         handling' \in Handlings, handling'.note = m,
         handling'.step \in {"Mark", "Answer"} => handling'.answer # "none",
         UNCHANGED <<busVars, journal, expired, marked, faults>>,
         sent' \in [Notifications -> 0 .. 2],
         \A n \in Notifications : sent[n] > 0 => sent'[n] > 0,
         abandoned' \in [Notifications -> BOOLEAN],
         \A n \in Notifications : abandoned[n] => abandoned'[n],
         Minded', StillOpen'
  PROVE  IInv'
<1>1. TypeOK'
  BY DEF IInv, TypeOK, busVars
<1>2. NeverLost' /\ Truthful'
  BY DEF IInv, NeverLost, Truthful, busVars
<1> QED
  BY <1>1, <1>2 DEF IInv

LEMMA DecidingKeeps ==
  ASSUME IInv, Read \/ Resolve \/ Render \/ Throw \/ Send
  PROVE  IInv'
<1> DEFINE m == handling.note
<1>1. handling # Idle
  BY DEF Read, Resolve, Render, Throw, Send, At, Idle
<1>2. m \in Notifications /\ handling \in Handlings
  BY <1>1 DEF IInv, TypeOK, Handlings
<1>3. sent \in [Notifications -> 0 .. 2] /\ abandoned \in [Notifications -> BOOLEAN]
  BY DEF IInv, TypeOK
<1>4. Lesser(sent[m] + 1, 2) \in 1 .. 2
  BY <1>2, <1>3 DEF Lesser
<1>5. UNCHANGED <<busVars, journal, expired, marked, faults>>
  BY DEF Read, Resolve, Render, Throw, Send
<1>6. /\ sent' \in [Notifications -> 0 .. 2]
      /\ \A n \in Notifications : sent[n] > 0 => sent'[n] > 0
  BY <1>2, <1>3, <1>4 DEF Read, Resolve, Render, Throw, Send, Taken
<1>7. ASSUME Drop
      PROVE  /\ handling' = [handling EXCEPT !.step = "Mark", !.record = "Dropped",
                               !.answer = "term"]
             /\ abandoned' = [abandoned EXCEPT ![m] = TRUE]
  BY <1>7 DEF Drop, Settle
<1>8. CASE Drop
  <2>1. /\ handling' \in Handlings /\ handling'.note = m /\ handling'.step = "Mark"
        /\ handling'.record = "Dropped" /\ handling'.answer = "term"
    BY <1>2, <1>7, <1>8 DEF Handlings, Steps, Final
  <2>2. abandoned' \in [Notifications -> BOOLEAN] /\ abandoned'[m]
    BY <1>2, <1>3, <1>7, <1>8
  <2>3. \A n \in Notifications : abandoned[n] => abandoned'[n]
    BY <1>2, <1>3, <1>7, <1>8
  <2>4. Minded' /\ StillOpen'
    BY <2>1, <2>2 DEF Minded, StillOpen, Settled
  <2> QED
    BY <1>1, <1>2, <1>5, <1>6, <2>1, <2>2, <2>3, <2>4, DecisionKeeps
<1>9. CASE Settle("Retrying", "nak") /\ UNCHANGED abandoned
  <2>1. /\ handling' \in Handlings /\ handling'.note = m /\ handling'.step = "Mark"
        /\ handling'.record = "Retrying" /\ handling'.answer = "nak"
    BY <1>2, <1>9 DEF Settle, Handlings, Steps, Final
  <2>2. Minded' /\ StillOpen'
    BY <2>1 DEF Minded, StillOpen
  <2> QED
    BY <1>1, <1>2, <1>3, <1>5, <1>6, <1>9, <2>1, <2>2, DecisionKeeps
<1>10. CASE At("Read") /\ journal[m] \in Final /\ Acknowledge /\ UNCHANGED sent
  <2>1. /\ handling' \in Handlings /\ handling'.note = m /\ handling'.step = "Answer"
        /\ handling'.record = handling.record /\ handling'.answer = "ack"
    BY <1>2, <1>10 DEF Acknowledge, Handlings, Steps
  <2>2. Settled(m)
    BY <1>2, <1>10 DEF IInv, Truthful, Final, Settled
  <2>3. UNCHANGED <<sent, abandoned>>
    BY <1>10 DEF Acknowledge
  <2>4. Minded' /\ StillOpen'
    BY <1>1, <2>1, <2>2, <2>3 DEF IInv, Minded, StillOpen, Settled
  <2> QED
    BY <1>1, <1>2, <1>3, <1>5, <1>6, <2>1, <2>3, <2>4, DecisionKeeps
<1>11. ASSUME NEW step \in {"Resolve", "Render", "Send"}, Go(step), UNCHANGED sent,
              journal[m] \notin Final
       PROVE  IInv'
  <2>1. /\ handling' \in Handlings /\ handling'.note = m /\ handling'.step = step
        /\ handling'.record = handling.record /\ handling'.answer = handling.answer
    BY <1>2, <1>11 DEF Go, Handlings, Steps
  <2>2. UNCHANGED <<sent, abandoned>>
    BY <1>11 DEF Go
  <2>3. Minded' /\ StillOpen'
    BY <1>1, <1>5, <1>11, <2>1, <2>2 DEF IInv, Minded, StillOpen, Settled
  <2> QED
    BY <1>1, <1>2, <1>3, <1>5, <1>6, <2>1, <2>2, <2>3, DecisionKeeps
<1>12. CASE Throw
  <2>1. /\ handling' \in Handlings /\ handling'.note = m /\ handling'.step = "Answer"
        /\ handling'.record = handling.record /\ handling'.answer \in {"term", "nak"}
        /\ handling'.answer = "term" => abandoned'[m]
        /\ abandoned' \in [Notifications -> BOOLEAN]
        /\ \A n \in Notifications : abandoned[n] => abandoned'[n]
        /\ UNCHANGED sent
    BY <1>2, <1>3, <1>12 DEF Throw, Handlings, Steps
  <2>2. Minded' /\ StillOpen'
    BY <1>1, <1>2, <2>1 DEF IInv, Minded, StillOpen, Settled
  <2> QED
    BY <1>1, <1>2, <1>5, <1>6, <2>1, <2>2, DecisionKeeps
<1>13. CASE Taken /\ Settle("Delivered", "ack") /\ UNCHANGED abandoned
  <2>1. /\ handling' \in Handlings /\ handling'.note = m /\ handling'.step = "Mark"
        /\ handling'.record = "Delivered" /\ handling'.answer = "ack"
    BY <1>2, <1>13 DEF Settle, Handlings, Steps, Final
  <2>2. sent'[m] > 0
    BY <1>2, <1>3, <1>4, <1>13 DEF Taken
  <2>3. Minded' /\ StillOpen'
    BY <2>1, <2>2 DEF Minded, StillOpen, Settled
  <2> QED
    BY <1>1, <1>2, <1>3, <1>5, <1>6, <1>13, <2>1, <2>3, DecisionKeeps
<1>14. Retry => Drop \/ (Settle("Retrying", "nak") /\ UNCHANGED abandoned)
  BY DEF Retry
<1>15. CASE Read
  <2>1. \/ Retry \/ Drop
        \/ At("Read") /\ journal[m] \in Final /\ Acknowledge /\ UNCHANGED sent
        \/ journal[m] \notin Final /\ Go("Resolve") /\ UNCHANGED sent
    BY <1>15 DEF Read
  <2> QED
    BY <2>1, <1>8, <1>9, <1>10, <1>11, <1>14
<1>16. CASE Resolve \/ Render
  <2>1. journal[m] \notin Final /\ UNCHANGED sent
    BY <1>16 DEF Resolve, Render, At, IInv, StillOpen
  <2>2. Go("Render") \/ Go("Send") \/ Drop \/ Retry
    BY <1>16 DEF Resolve, Render
  <2> QED
    BY <2>1, <2>2, <1>8, <1>9, <1>11, <1>14
<1>17. CASE Send
  BY <1>17, <1>8, <1>9, <1>13, <1>14 DEF Send
<1> QED
  BY <1>12, <1>15, <1>16, <1>17

LEMMA MarkKeeps ==
  ASSUME IInv, Mark
  PROVE  IInv'
<1> DEFINE m == handling.note
<1>1. handling # Idle /\ m \in Notifications /\ handling \in Handlings
  BY DEF Mark, At, Idle, IInv, TypeOK, Handlings
<1>2. UNCHANGED <<busVars, expired, sent, abandoned, faults>>
  BY DEF Mark
<1>3. /\ handling' \in Handlings /\ handling'.note = m /\ handling'.step = "Answer"
      /\ handling'.record = handling.record /\ handling'.answer = handling.answer
  BY <1>1 DEF Mark, Handlings, Steps
<1>4. \/ journal' = [journal EXCEPT ![m] = handling.record]
      \/ journal' = journal
  BY DEF Mark
<1>5. handling.record \in Final \cup {"None", "Retrying"}
  BY <1>1 DEF Handlings
<1>6. marked' \in [Notifications -> BOOLEAN]
  BY DEF Mark, IInv, TypeOK
<1>7. TypeOK'
  BY <1>1, <1>2, <1>3, <1>4, <1>5, <1>6 DEF IInv, TypeOK, busVars, Mark, At
<1>8. Truthful'
  BY <1>1, <1>2, <1>4 DEF IInv, TypeOK, Truthful, Minded
<1>9. Minded' /\ StillOpen'
  BY <1>1, <1>2, <1>3 DEF IInv, Minded, StillOpen, Settled
<1> QED
  BY <1>2, <1>7, <1>8, <1>9 DEF IInv, NeverLost, busVars

LEMMA AnswerKeeps ==
  ASSUME IInv, Answer
  PROVE  IInv'
<1> DEFINE m == handling.note
<1>1. handling # Idle /\ m \in Notifications /\ handling \in Handlings
  BY DEF Answer, At, Idle, IInv, TypeOK, Handlings
<1>2. handling' = Idle /\ UNCHANGED <<waiting, journal, expired, historyVars, faults>>
  BY DEF Answer
<1>3. bus' = [bus EXCEPT ![m].state =
        IF handling.answer \in {"ack", "term"} THEN "Done"
        ELSE IF @ = "Out" THEN "Ready" ELSE @]
  BY DEF Answer, Answered
<1>4. TypeOK'
  BY <1>1, <1>2, <1>3 DEF IInv, TypeOK, Idle, historyVars
<1>5. NeverLost'
  BY <1>1, <1>2, <1>3 DEF IInv, TypeOK, NeverLost, Minded, Settled, historyVars
<1> QED
  BY <1>2, <1>4, <1>5
  DEF IInv, Truthful, Minded, StillOpen, Idle, historyVars

LEMMA Inductive == IInv /\ [Next]_vars => IInv'
<1> SUFFICES ASSUME IInv, [Next]_vars PROVE IInv'
  OBVIOUS
<1>1. CASE \E n \in Notifications : Deliver(n) \/ Expire(n) \/ Overrun(n) \/ PassDeadline(n)
  BY <1>1, BusKeeps
<1>2. CASE Handle \/ Throw
  BY <1>2, TakeKeeps, DecidingKeeps, MarkKeeps, AnswerKeeps DEF Handle
<1>3. CASE Crash \/ LoseAnswer
  BY <1>3, LossKeeps
<1>4. CASE UNCHANGED vars
  BY <1>4
  DEF vars, busVars, historyVars, IInv, TypeOK, NeverLost, Truthful, Minded, StillOpen, Settled
<1> QED
  BY <1>1, <1>2, <1>3, <1>4 DEF Next

LEMMA Always == Spec => []IInv
  BY Started, Inductive, PTL DEF Spec

-----------------------------------------------------------------------------
(* The results.                                                            *)

(* The handler, the journal and the bus keep their types.                  *)
THEOREM DeliveryTypeCorrect == Spec => []TypeOK
<1>1. IInv => TypeOK
  BY DEF IInv
<1> QED
  BY <1>1, Always, PTL

(* ADR-052: no crash, lost answer or late redelivery loses a notification. *)
THEOREM NothingIsLost == Spec => []NeverLost
<1>1. IInv => NeverLost
  BY DEF IInv
<1> QED
  BY <1>1, Always, PTL

(* A final record that stands is never followed by a sending, however many *)
(* awaits lie between its reading and the sending.                         *)
THEOREM FinalIsSilent == Spec => FinalRecordSilences
<1> DEFINE Silent == \A n \in Notifications : sent'[n] # sent[n] => journal[n] \notin Final
<1>1. ASSUME IInv, [Next]_vars PROVE Silent
  <2>1. CASE Send
    <3>1. sent' = sent \/ sent' = [sent EXCEPT ![handling.note] = Lesser(@ + 1, 2)]
      BY <2>1 DEF Send, Taken
    <3>2. journal[handling.note] \notin Final
      BY <2>1, <1>1 DEF Send, At, IInv, StillOpen
    <3> QED
      BY <3>1, <3>2, <1>1 DEF IInv, TypeOK
  <2>2. CASE ~Send
    BY <1>1, <2>2
    DEF Next, Handle, Deliver, Expire, Overrun, PassDeadline, Take, Read, Resolve, Render,
        Mark, Answer, Throw, Crash, LoseAnswer, historyVars, vars
  <2> QED
    BY <2>1, <2>2
<1>2. IInv /\ [Next]_vars => [Silent]_vars
  BY <1>1
<1> QED
  BY <1>2, Always, PTL DEF Spec, FinalRecordSilences
=============================================================================
