---------------------------- MODULE BotDelivery ----------------------------
(***************************************************************************)
(* The delivery of notifications to Telegram by a bot of the hub           *)
(* (hub-bot/src/core/delivery): a durable of the bus hands out messages    *)
(* with a count of deliveries, one handler settles them in turn, and a     *)
(* journal in a key-value bucket remembers what has become of each         *)
(* notification.  The bus delivers again whatever was not answered in      *)
(* time; the process may crash at any await, and an answer may be lost.    *)
(*                                                                         *)
(* Abstracted: texts, recipients and delays; a count of deliveries beyond  *)
(* MaxAttempts is kept at MaxAttempts, the only value the code compares    *)
(* it with; `sent` tells never, once and more than once apart.             *)
(***************************************************************************)
EXTENDS Naturals

CONSTANTS
  Notifications,  \* the notifications of the stream
  Kind,           \* what the channel makes of each
  Dated,          \* the notifications that carry not_after
  MaxAttempts,    \* the policy: deliveries before the bot gives up
  MaxFaults       \* bound: crashes, lost answers and overrun deliveries

Kinds == {"Own", "Foreign", "Unrendered", "Malformed"}

ASSUME NotificationsAssumption ==
  /\ "none" \notin Notifications
  /\ Kind \in [Notifications -> Kinds]
  /\ Dated \subseteq Notifications
  /\ MaxAttempts \in Nat \ {0}
  /\ MaxFaults \in Nat

VARIABLES
  bus,        \* the durable: where each message is, and its deliveries
  waiting,    \* the copy the client has pulled and not handed over yet
  handling,   \* the copy in the handler, and how far the handler is
  journal,    \* the record of the bucket `<channel>-deliveries`
  expired,    \* whether not_after has passed
  sent,       \* history: how often Telegram has taken the message
  abandoned,  \* history: whether the bot has decided to drop it
  marked,     \* history: whether a record "delivered" was ever stored
  faults      \* how many faults there have been

busVars     == <<bus, waiting>>
historyVars == <<sent, abandoned, marked>>
vars        == <<bus, waiting, handling, journal, expired, historyVars, faults>>

NoCopy  == [note |-> "none", attempt |-> 0]
Idle    == [note |-> "none", attempt |-> 0, step |-> "Idle",
            record |-> "None", answer |-> "none"]
Final   == {"Delivered", "Dropped"}

Init ==
  /\ bus = [n \in Notifications |-> [state |-> "Ready", deliveries |-> 0]]
  /\ waiting = NoCopy
  /\ handling = Idle
  /\ journal = [n \in Notifications |-> "None"]
  /\ expired = [n \in Notifications |-> FALSE]
  /\ sent = [n \in Notifications |-> 0]
  /\ abandoned = [n \in Notifications |-> FALSE]
  /\ marked = [n \in Notifications |-> FALSE]
  /\ faults = 0

Lesser(a, b) == IF a < b THEN a ELSE b

Fault == faults < MaxFaults /\ faults' = faults + 1

-----------------------------------------------------------------------------
(* The bus and the client.                                                 *)

Deliver(n) ==
  /\ bus[n].state = "Ready"
  /\ waiting = NoCopy
  /\ LET count == Lesser(bus[n].deliveries + 1, MaxAttempts)
     IN  /\ bus' = [bus EXCEPT ![n] = [state |-> "Out", deliveries |-> count]]
         /\ waiting' = [note |-> n, attempt |-> count]
  /\ UNCHANGED <<handling, journal, expired, historyVars, faults>>

WithTheBot(n) == waiting.note = n \/ handling.note = n

(* ack_wait passes over a copy that is no longer anywhere.                 *)
Expire(n) ==
  /\ bus[n].state = "Out"
  /\ ~WithTheBot(n)
  /\ bus' = [bus EXCEPT ![n].state = "Ready"]
  /\ UNCHANGED <<waiting, handling, journal, expired, historyVars, faults>>

(* ack_wait passes while the bot still has the copy.                       *)
Overrun(n) ==
  /\ bus[n].state = "Out"
  /\ WithTheBot(n)
  /\ Fault
  /\ bus' = [bus EXCEPT ![n].state = "Ready"]
  /\ UNCHANGED <<waiting, handling, journal, expired, historyVars>>

Crash ==
  /\ waiting # NoCopy \/ handling # Idle
  /\ Fault
  /\ waiting' = NoCopy
  /\ handling' = Idle
  /\ UNCHANGED <<bus, journal, expired, historyVars>>

PassDeadline(n) ==
  /\ n \in Dated
  /\ ~expired[n]
  /\ expired' = [expired EXCEPT ![n] = TRUE]
  /\ UNCHANGED <<busVars, handling, journal, historyVars, faults>>

-----------------------------------------------------------------------------
(* What an await of the handler leads to.                                  *)

At(step) == handling.step = step

Go(step) == handling' = [handling EXCEPT !.step = step] /\ UNCHANGED abandoned

(* Slip: the record is written without an answer for the bus.              *)
SettleSilently(record, answer) ==
  handling' = [handling EXCEPT !.step = "Mark", !.record = record]

Settle(record, answer) ==
  handling' = [handling EXCEPT !.step = "Mark", !.record = record, !.answer = answer]

Acknowledge ==
  /\ handling' = [handling EXCEPT !.step = "Answer", !.answer = "ack"]
  /\ UNCHANGED abandoned

Drop ==
  /\ Settle("Dropped", "term")
  /\ abandoned' = [abandoned EXCEPT ![handling.note] = TRUE]

(* Slip: the last attempt is answered as if there were more of them.       *)
RetryForEver == Settle("Retrying", "nak") /\ UNCHANGED abandoned

Retry ==
  IF handling.attempt >= MaxAttempts THEN Drop
  ELSE Settle("Retrying", "nak") /\ UNCHANGED abandoned

-----------------------------------------------------------------------------
(* handleDeliveryMessage and the use case behind it, one await at a time.  *)

(* Slip: a message is acknowledged when it is received.                     *)
TakeAcknowledged ==
  /\ handling = Idle
  /\ waiting # NoCopy
  /\ waiting' = NoCopy
  /\ bus' = [bus EXCEPT ![waiting.note].state = "Done"]
  /\ handling' = [note |-> waiting.note, attempt |-> waiting.attempt, step |-> "Read",
                  record |-> "None", answer |-> "none"]
  /\ UNCHANGED <<journal, expired, historyVars, faults>>

Take ==
  /\ handling = Idle
  /\ waiting # NoCopy
  /\ waiting' = NoCopy
  /\ LET n == waiting.note
         Begun(step, answer) ==
           [note |-> n, attempt |-> waiting.attempt, step |-> step,
            record |-> "None", answer |-> answer]
     IN  \/ Kind[n] = "Malformed" /\ handling' = Begun("Answer", "term")
         \/ Kind[n] = "Foreign" /\ handling' = Begun("Answer", "ack")
         \/ Kind[n] \in {"Own", "Unrendered"} /\ handling' = Begun("Read", "none")
  /\ UNCHANGED <<bus, journal, expired, historyVars, faults>>

(* Slip: a dropped notification is taken up again.                         *)
ReadDelivered ==
  LET n == handling.note
  IN  /\ At("Read")
      /\ \/ Retry
         \/ journal[n] = "Delivered" /\ Acknowledge
         \/ journal[n] # "Delivered" /\ (expired[n] \/ Kind[n] = "Unrendered") /\ Drop
         \/ journal[n] # "Delivered" /\ ~expired[n] /\ Kind[n] # "Unrendered" /\ Go("Resolve")
      /\ UNCHANGED <<busVars, journal, expired, sent, marked, faults>>

(* Without the journal the delivery is put off, whatever has become of it. *)
Read ==
  LET n == handling.note
  IN  /\ At("Read")
      /\ \/ Retry
         \/ journal[n] \in Final /\ Acknowledge
         \/ journal[n] \notin Final /\ (expired[n] \/ Kind[n] = "Unrendered") /\ Drop
         \/ journal[n] \notin Final /\ ~expired[n] /\ Kind[n] # "Unrendered" /\ Go("Resolve")
      /\ UNCHANGED <<busVars, journal, expired, sent, marked, faults>>

(* Identity names the recipient, refuses them for good or is unavailable.  *)
Resolve ==
  /\ At("Resolve")
  /\ Go("Render") \/ Drop \/ Retry
  /\ UNCHANGED <<busVars, journal, expired, sent, marked, faults>>

Render ==
  /\ At("Render")
  /\ Go("Send") \/ Drop \/ Retry
  /\ UNCHANGED <<busVars, journal, expired, sent, marked, faults>>

(* A defect of the use case is answered without a record.                  *)
Throw ==
  /\ At("Resolve") \/ At("Render")
  /\ IF handling.attempt >= MaxAttempts
     THEN /\ handling' = [handling EXCEPT !.step = "Answer", !.answer = "term"]
          /\ abandoned' = [abandoned EXCEPT ![handling.note] = TRUE]
     ELSE /\ handling' = [handling EXCEPT !.step = "Answer", !.answer = "nak"]
          /\ UNCHANGED abandoned
  /\ UNCHANGED <<busVars, journal, expired, sent, marked, faults>>

Taken == sent' = [sent EXCEPT ![handling.note] = Lesser(@ + 1, 2)]

(* Telegram takes the message, refuses it or does not answer: what did not *)
(* answer may have been taken.                                             *)
Send ==
  /\ At("Send")
  /\ \/ Taken /\ Settle("Delivered", "ack") /\ UNCHANGED abandoned
     \/ Taken /\ Retry
     \/ UNCHANGED sent /\ (Drop \/ Retry)
  /\ UNCHANGED <<busVars, journal, expired, marked, faults>>

(* The outcome of the write changes no answer.                             *)
Mark ==
  /\ At("Mark")
  /\ handling' = [handling EXCEPT !.step = "Answer"]
  /\ \/ /\ journal' = [journal EXCEPT ![handling.note] = handling.record]
        /\ marked' = [marked EXCEPT ![handling.note] = @ \/ handling.record = "Delivered"]
     \/ UNCHANGED <<journal, marked>>
  /\ UNCHANGED <<busVars, expired, sent, abandoned, faults>>

Answered(n, answer) ==
  bus' = [bus EXCEPT ![n].state =
    IF answer \in {"ack", "term"} THEN "Done" ELSE IF @ = "Out" THEN "Ready" ELSE @]

Answer ==
  /\ At("Answer")
  /\ handling' = Idle
  /\ Answered(handling.note, handling.answer)
  /\ UNCHANGED <<waiting, journal, expired, historyVars, faults>>

LoseAnswer ==
  /\ At("Answer")
  /\ Fault
  /\ handling' = Idle
  /\ UNCHANGED <<busVars, journal, expired, historyVars>>

Handle == Take \/ Read \/ Resolve \/ Render \/ Send \/ Mark \/ Answer

Next ==
  \/ \E n \in Notifications : Deliver(n) \/ Expire(n) \/ Overrun(n) \/ PassDeadline(n)
  \/ Handle
  \/ Throw
  \/ Crash
  \/ LoseAnswer

(* The durable hands out what is ready and takes back what was not         *)
(* answered; every await of the handler has a timeout of its own.          *)
Fairness ==
  /\ \A n \in Notifications : WF_vars(Deliver(n)) /\ WF_vars(Expire(n))
  /\ WF_vars(Handle)

Spec == Init /\ [][Next]_vars /\ Fairness

-----------------------------------------------------------------------------
(* Correctness.                                                            *)

Steps == {"Read", "Resolve", "Render", "Send", "Mark", "Answer"}

Copies == [note : Notifications, attempt : 1 .. MaxAttempts]

Handlings ==
  [note : Notifications, attempt : 1 .. MaxAttempts, step : Steps,
   record : Final \cup {"None", "Retrying"}, answer : {"none", "ack", "nak", "term"}]

(* Every variable has its type, and a handler that is about to answer has  *)
(* an answer (DeliveryDecision, DeliveryRecord).                           *)
TypeOK ==
  /\ bus \in [Notifications ->
                [state : {"Ready", "Out", "Done"}, deliveries : 0 .. MaxAttempts]]
  /\ waiting \in Copies \cup {NoCopy}
  /\ handling \in Handlings \cup {Idle}
  /\ handling.step \in {"Mark", "Answer"} => handling.answer # "none"
  /\ journal \in [Notifications -> Final \cup {"None", "Retrying"}]
  /\ expired \in [Notifications -> BOOLEAN]
  /\ sent \in [Notifications -> 0 .. 2]
  /\ abandoned \in [Notifications -> BOOLEAN]
  /\ marked \in [Notifications -> BOOLEAN]
  /\ faults \in 0 .. MaxFaults

(* ADR-052, a duplicate rather than a loss: the bus forgets a notification *)
(* of this channel only after Telegram has taken it, or the bot has        *)
(* decided to drop it (createDeliverNotification).                         *)
NeverLost ==
  \A n \in Notifications :
    bus[n].state = "Done" /\ Kind[n] \in {"Own", "Unrendered"} =>
      sent[n] > 0 \/ abandoned[n]

(* A notification whose final record stands in the journal is not sent     *)
(* again, though the record was read several awaits before.                *)
FinalRecordSilences ==
  [][\A n \in Notifications : sent'[n] # sent[n] => journal[n] \notin Final]_vars

(* Whatever fails, and as often as the neighbours are unavailable, every   *)
(* message is settled at last: attempts run out and answers come again     *)
(* (DeliveryPolicy, consumer.ts apply).                                    *)
EverySettles == \A n \in Notifications : <>[](bus[n].state = "Done")

(* core/delivery/port.ts: a record "delivered" is final, and a message     *)
(* that comes again is confirmed without going to Telegram.  The attempt   *)
(* that could not read the journal writes its own record over it.          *)
DeliveredIsFinal ==
  [][\A n \in Notifications : sent'[n] # sent[n] => ~marked[n]]_vars
=============================================================================
