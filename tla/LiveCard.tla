------------------------------ MODULE LiveCard ------------------------------
(***************************************************************************)
(* The live card of a lot in one chat of a bot (core/auction/live-cards,   *)
(* core/bot/edit-limiter, core/auction/watch): a message of Telegram which *)
(* the presses of a person redraw and the stream of the auction edits as   *)
(* well.  The two race each other.  A watched card is also a record in a   *)
(* bucket, and a new process takes it up again.                            *)
(*                                                                         *)
(* The registry, the limiter and the feed of the auction are the memory of *)
(* one process: `registry`, which its operators below take and return, as  *)
(* the code between two awaits changes it.                                 *)
(*                                                                         *)
(* Abstracted: the auction is the course of its states; a screen is what   *)
(* of it tells a card from another; time is left out, so the limiter may   *)
(* start a waiting edit at any moment; the revision of a card is kept as   *)
(* the tie of each edit to it; the card of the chat is the only subscriber *)
(* of the auction.                                                         *)
(***************************************************************************)
EXTENDS Naturals, Sequences

CONSTANTS
  Messages,    \* the messages of the chat
  Lots,        \* the lots of the auction
  Course,      \* the states of the auction in turn; the last is its end
  NoMessage, NoLot,
  MaxEvents    \* bound: presses, restarts and whatever is refused or lost

States == DOMAIN Course
Last   == Len(Course)

ASSUME CourseAssumption ==
  /\ NoMessage \notin Messages
  /\ NoLot \notin Lots
  /\ Course \in Seq([active : Lots \cup {NoLot}, version : [Lots -> Nat]])
  /\ Course # <<>>
  /\ \A k \in States : Course[k].active \in Lots => Course[k].version[Course[k].active] > 0
  /\ MaxEvents \in Nat

VARIABLES
  now,        \* the state of the auction
  registry,   \* the memory of the process
  screen,     \* what Telegram shows in each message
  press,      \* the update in the handler, and how far the handler is
  record,     \* the record of the chat in the bucket
  restoring,  \* how far the restoration of a new process is
  events,     \* how many of the bounded events there have been
  strays,     \* calls to the bucket of processes that are gone
  late,       \* edits of processes that are gone, not at Telegram yet
  unheard,    \* history: what of a message the registry has not heard of
  astray,     \* history: whether the record has been left to chance
  misplaced   \* history: whether an older save has been done after a newer

leftBehind == <<strays, late>>
cardHistory == <<unheard, astray, misplaced>>
cardVars == <<now, registry, screen, press, record, restoring, events, leftBehind,
              cardHistory>>

-----------------------------------------------------------------------------
(* Values.                                                                 *)

Ties == {"Current", "Revised", "Orphan"}

NoCard ==
  [message |-> NoMessage, lot |-> NoLot, version |-> 0,
   watching |-> FALSE, ending |-> FALSE, outcome |-> FALSE]

(* A screen that is no card of a lot.                                      *)
Menu == [lot |-> NoLot, version |-> 0, mark |-> FALSE, outcome |-> FALSE, ended |-> FALSE]

NoEdit  == [step |-> "None", tie |-> "Orphan", body |-> Menu]
NoPress == [step |-> "None", message |-> NoMessage, body |-> Menu,
            live |-> FALSE, watch |-> "None"]

NoRecord == [message |-> NoMessage, lot |-> NoLot]
NotRestoring == [step |-> "None", found |-> NoRecord]

FreshRegistry ==
  [card |-> NoCard,
   latest |-> 0,            \* the state the feed has shown last, 0 when none
   saved |-> NoLot,         \* the lot under which the record was written
   writes |-> <<>>,         \* calls to the bucket under way
   released |-> {},         \* messages whose watch was taken off
   waiting |-> [m \in Messages |-> "None"],
   inFlight |-> [m \in Messages |-> NoEdit]]

Body(card) ==
  [lot |-> card.lot, version |-> card.version, mark |-> card.watching,
   outcome |-> card.outcome, ended |-> card.ending]

(* activeLot of the state, or the card's own lot in the line-up of it.     *)
LotOf(lot, k) == IF Course[k].active # NoLot THEN Course[k].active ELSE lot

Version(lot, k) == Course[k].version[lot]

Listed(lot, k) == Version(lot, k) > 0

-----------------------------------------------------------------------------
(* The registry and the bucket.                                            *)

Registered(r) == r.card.message # NoMessage

Superseded(writes) ==
  [i \in DOMAIN writes |->
     [writes[i] EXCEPT !.check = IF @ = "Latest" THEN "Superseded" ELSE @]]

Write(target, check) == [target |-> target, check |-> check]

Persist(r) ==
  IF ~r.card.watching \/ r.saved = r.card.lot THEN r
  ELSE [r EXCEPT
          !.saved = r.card.lot,
          !.writes = Append(Superseded(@),
             Write([message |-> r.card.message, lot |-> r.card.lot], "Latest"))]

(* A card of another revision than its edits: they are not for it any more. *)
Revised(tie) == IF tie = "Current" THEN "Revised" ELSE tie

Revise(r, m) == [r EXCEPT !.inFlight[m].tie = Revised(@), !.waiting[m] = Revised(@)]

Orphaned(edits) == [m \in Messages |-> [edits[m] EXCEPT !.tie = "Orphan"]]

(* Slip: a card is forgotten, and the last state of its feed is kept.      *)
ForgetAllButTheFeed(r, keepRecord) ==
  IF ~Registered(r) THEN r ELSE [r EXCEPT !.card = NoCard, !.saved = NoLot]

Forget(r, keepRecord) ==
  IF ~Registered(r) THEN r
  ELSE LET m == r.card.message
           dropped == [r EXCEPT
             !.card = NoCard, !.latest = 0, !.saved = NoLot,
             !.waiting[m] = "None", !.inFlight = Orphaned(@),
             !.writes = Superseded(@)]
       IN  IF ~r.card.watching \/ keepRecord THEN dropped
           ELSE [dropped EXCEPT !.released = @ \cup {m},
                                !.writes = Append(@, Write(NoRecord, "Latest"))]

(* Slip: the answer of a call is not looked at.                            *)
RecheckNothing(r, write) == r

(* The answer of the bucket to a call that is no longer the latest.        *)
Recheck(r, write) ==
  IF write.check # "Superseded" THEN r
  ELSE IF write.target = NoRecord
  THEN IF r.card.watching THEN Persist([r EXCEPT !.saved = NoLot]) ELSE r
  ELSE IF ~r.card.watching
  THEN [r EXCEPT !.writes = Append(@, Write(NoRecord, "Unchecked"))]
  ELSE IF r.card.lot = write.target.lot THEN r
  ELSE Persist([r EXCEPT !.saved = NoLot])

-----------------------------------------------------------------------------
(* The registry and the stream.                                            *)

Submit(r) == [r EXCEPT !.waiting[r.card.message] = "Current"]

Schedule(r, lot, version) ==
  Submit(Persist(Revise(
    [r EXCEPT !.card.outcome = @ /\ r.card.lot = lot,
              !.card.lot = lot,
              !.card.version = version], r.card.message)))

StateShown(r, lot, k) ==
  IF Listed(lot, k)
  THEN IF k = Last /\ r.card.watching
       THEN Schedule([r EXCEPT !.card.ending = TRUE], lot, Version(lot, k))
       ELSE IF lot = r.card.lot /\ Version(lot, k) <= r.card.version THEN r
       ELSE Schedule(r, lot, Version(lot, k))
  ELSE IF k = Last /\ r.card.watching THEN Forget(r, FALSE) ELSE r

OnState(r, k) == StateShown([r EXCEPT !.latest = k], LotOf(r.card.lot, k), k)

(* The feed has closed: an edit that ends a watch goes on without it.      *)
OnEnded(r) == IF r.card.ending THEN r ELSE Forget(r, FALSE)

-----------------------------------------------------------------------------
(* The registry and the presses.                                           *)

ApplyWatch(r, shown) ==
  IF shown.watch = "Start" /\ ~r.card.watching
  THEN Persist([r EXCEPT !.card.watching = TRUE, !.released = @ \ {r.card.message}])
  ELSE r

(* The press has drawn what the stream has already passed, or a watched    *)
(* card without its mark.                                                  *)
Outdrawn(r, body, lot) ==
  /\ Listed(lot, r.latest)
  /\ \/ lot # body.lot
     \/ Version(lot, r.latest) > body.version
     \/ r.card.watching /\ ~body.mark /\ Version(lot, r.latest) = body.version

(* Slip: what a press has drawn is left as it is.                          *)
RedrawNothing(r, body, lot) == r

Redraw(r, body, lot) ==
  IF Outdrawn(r, body, lot) THEN Schedule(r, lot, Version(lot, r.latest)) ELSE r

(* Slip: a press does not revise the card, and an edit under way may come  *)
(* after it unnoticed.                                                     *)
RefreshedUnrevised(r, shown) ==
  ApplyWatch([r EXCEPT !.card.lot = shown.body.lot,
                       !.card.version = shown.body.version,
                       !.card.outcome = shown.body.outcome], shown)

Refreshed(r, shown) ==
  [Revise(ApplyWatch(
     [r EXCEPT !.card.lot = shown.body.lot,
               !.card.version = shown.body.version,
               !.card.outcome = shown.body.outcome], shown),
     shown.message) EXCEPT !.waiting[shown.message] = "None"]

Refresh(r, shown) ==
  IF r.latest = 0 THEN Refreshed(r, shown)
  ELSE Redraw(Refreshed(r, shown), shown.body, LotOf(shown.body.lot, r.latest))

CardShown(shown) ==
  [NoCard EXCEPT !.message = shown.message, !.lot = shown.body.lot,
                 !.version = shown.body.version, !.outcome = shown.body.outcome]

(* A feed that is still open hands its last state to a new subscriber as   *)
(* soon as the code that subscribes has run.                               *)
CaughtUp(r, k) == IF k \in {0, Last} THEN r ELSE OnState(r, k)

Open(r, card, keepRecord) == [Forget(r, keepRecord) EXCEPT !.card = card]

Shown(r, shown) ==
  CASE shown.watch = "Stop" ->
         IF Registered(r) THEN Forget(r, FALSE)
         ELSE [r EXCEPT !.released = @ \cup {shown.message},
                        !.writes = Append(@, Write(NoRecord, "Unchecked"))]
    [] shown.watch # "Stop" /\ shown.body # Menu /\ r.card.message = shown.message ->
         Refresh(r, shown)
    [] shown.watch # "Stop" /\ shown.body # Menu /\ r.card.message # shown.message
         /\ shown.live ->
         CaughtUp(ApplyWatch(Open(r, CardShown(shown), shown.watch = "Start"), shown),
                  r.latest)
    [] OTHER -> IF r.card.message = shown.message THEN Forget(r, FALSE) ELSE r

LimitRow(r, drawn) ==
  IF r.latest # 0 /\ Listed(drawn, r.latest)
  THEN Schedule(r, drawn, Version(drawn, r.latest))
  ELSE Revise([r EXCEPT !.card.version = 0], r.card.message)

ProxyLimitSet(r, lot) ==
  IF r.card.lot # lot THEN r
  ELSE LimitRow(r, IF r.latest = 0 THEN lot ELSE LotOf(lot, r.latest))

-----------------------------------------------------------------------------
Reading == [step |-> "Reading", found |-> NoRecord]

(* A process starts, perhaps with a card its predecessor has watched.      *)
CardBefore ==
  [Menu EXCEPT !.lot = Course[1].active, !.mark = TRUE,
               !.version = Version(Course[1].active, 1)]

WatchedBefore(m) ==
  /\ Course[1].active # NoLot
  /\ record = [message |-> m, lot |-> Course[1].active]
  /\ screen = [other \in Messages |-> IF other = m THEN CardBefore ELSE Menu]

AllHeard == [m \in Messages |-> "Nothing"]

CardInit ==
  /\ now = 1
  /\ registry = FreshRegistry
  /\ press = NoPress
  /\ \/ record = NoRecord /\ screen = [m \in Messages |-> Menu]
     \/ \E m \in Messages : WatchedBefore(m)
  /\ restoring = Reading
  /\ events = 0
  /\ strays = <<>>
  /\ late = {}
  /\ unheard = AllHeard
  /\ astray = FALSE
  /\ misplaced = FALSE

Bounded == events < MaxEvents /\ events' = events + 1

(* The auction goes on by itself.                                          *)
AuctionMoves ==
  /\ now < Last
  /\ now' = now + 1
  /\ UNCHANGED <<registry, screen, press, record, restoring, events, leftBehind, cardHistory>>

-----------------------------------------------------------------------------
(* The feed.                                                               *)

FeedIsOpen == Registered(registry) /\ registry.latest < Last

(* A state on its way may be behind the auction; a feed that has been      *)
(* opened again repeats one.                                               *)
StreamShows(k) ==
  /\ FeedIsOpen
  /\ k \in registry.latest .. now
  /\ k \in States
  /\ registry' = IF k = Last THEN OnEnded(OnState(registry, k)) ELSE OnState(registry, k)
  /\ UNCHANGED <<now, screen, press, record, restoring, events, leftBehind, cardHistory>>

(* The only viewer of the feed is denied it: the feed closes.              *)
StreamDenied ==
  /\ FeedIsOpen
  /\ Bounded
  /\ registry' = OnEnded(registry)
  /\ UNCHANGED <<now, screen, press, record, restoring, leftBehind, cardHistory>>

(* Cards of other chats have filled the registry up: the oldest goes.      *)
Evicted ==
  /\ Registered(registry)
  /\ Bounded
  /\ registry' = Forget(registry, FALSE)
  /\ UNCHANGED <<now, screen, press, record, restoring, leftBehind, cardHistory>>

-----------------------------------------------------------------------------
(* The limiter and an edit, from await to await.                           *)

(* An edit that finds its card changed does nothing.                       *)
EditStarts(m) ==
  /\ registry.waiting[m] # "None"
  /\ registry.inFlight[m] = NoEdit
  /\ registry' = [registry EXCEPT
       !.waiting[m] = "None",
       !.inFlight[m] = IF registry.waiting[m] = "Current"
                       THEN [step |-> "Sent", tie |-> "Current", body |-> Body(registry.card)]
                       ELSE NoEdit]
  /\ UNCHANGED <<now, screen, press, record, restoring, events, leftBehind, cardHistory>>

(* Between the screen of a press and its `shown` the registry does not     *)
(* know what the message shows.                                            *)
Unregistered(m) == press.step = "Drawn" /\ press.message = m

EditLands(m) ==
  /\ registry.inFlight[m].step = "Sent"
  /\ registry' = [registry EXCEPT !.inFlight[m] = [@ EXCEPT !.step = "Done", !.body = Menu]]
  /\ screen' = [screen EXCEPT ![m] = registry.inFlight[m].body]
  /\ unheard' = [unheard EXCEPT
       ![m] = IF \/ registry.card.message = m /\ registry.inFlight[m].tie # "Current"
                 \/ Unregistered(m)
              THEN "Screen" ELSE "Nothing"]
  /\ UNCHANGED <<now, press, record, restoring, events, leftBehind, astray, misplaced>>

(* An edit of a process that is gone is done after all.                    *)
LateEditLands(edit) ==
  /\ late' = late \ {edit}
  /\ screen' = [screen EXCEPT ![edit.message] = edit.body]
  /\ unheard' = [unheard EXCEPT ![edit.message] = "Screen"]
  /\ UNCHANGED <<now, registry, press, record, restoring, events, strays, astray, misplaced>>

EditRefused(m, why) ==
  /\ registry.inFlight[m].step = "Sent"
  /\ Bounded
  /\ registry' = [registry EXCEPT !.inFlight[m] = [@ EXCEPT !.step = why, !.body = Menu]]
  /\ UNCHANGED <<now, screen, press, record, restoring, leftBehind, cardHistory>>

(* The message has been edited, and the answer was lost on its way.        *)
EditAnswerLost(m) ==
  /\ registry.inFlight[m].step = "Done"
  /\ Bounded
  /\ registry' = [registry EXCEPT !.inFlight[m].step = "RetryAfter"]
  /\ UNCHANGED <<now, screen, press, record, restoring, leftBehind, cardHistory>>

Landed(r, m) == [r EXCEPT !.inFlight[m] = NoEdit]

Own(r, m) == r.inFlight[m].tie # "Orphan"

Outcome(r, m) ==
  CASE r.inFlight[m].step = "Gone" -> IF Own(r, m) THEN Forget(r, FALSE) ELSE r
    [] r.inFlight[m].step = "Failed" ->
         IF ~Own(r, m) THEN r
         ELSE IF r.card.ending THEN Forget(r, FALSE)
         ELSE IF r.inFlight[m].tie = "Current" THEN [r EXCEPT !.card.version = 0] ELSE r
    [] r.inFlight[m].step = "RetryAfter" ->
         [r EXCEPT !.waiting[m] = IF @ = "None" THEN r.inFlight[m].tie ELSE @]
    [] OTHER -> IF Own(r, m) /\ r.card.ending THEN Forget(r, FALSE) ELSE r

EditAnswered(m) ==
  /\ registry.inFlight[m].step \in {"Done", "Gone", "Failed", "RetryAfter"}
  /\ registry' = Landed(Outcome(registry, m), m)
  /\ UNCHANGED <<now, screen, press, record, restoring, events, leftBehind, cardHistory>>

-----------------------------------------------------------------------------
(* A press, from await to await: the handler reads the lot, Telegram draws *)
(* the answer, and only then the registry hears of it.                     *)

CardBody(lot, outcome, watch) ==
  [lot |-> lot, version |-> Version(lot, now), outcome |-> outcome, ended |-> FALSE,
   mark |-> \/ watch = "Start"
            \/ watch # "Stop" /\ now # Last /\ registry.card.watching]

Pressed(m, body, watch) ==
  /\ press = NoPress
  /\ Bounded
  /\ press' = [step |-> "Read", message |-> m, body |-> body,
               live |-> now # Last, watch |-> watch]
  /\ UNCHANGED <<now, registry, screen, record, restoring, leftBehind, cardHistory>>

PressMenu(m) == Pressed(m, Menu, "None")

PressLot(m, lot) == Listed(lot, now) /\ Pressed(m, CardBody(lot, FALSE, "None"), "None")

PressBid(m, lot) ==
  /\ lot = Course[now].active
  /\ screen[m].lot = lot
  /\ Pressed(m, CardBody(lot, TRUE, "None"), "None")

PressWatch(m, lot) ==
  /\ lot = Course[now].active
  /\ screen[m].lot = lot
  /\ ~screen[m].mark
  /\ Pressed(m, CardBody(lot, FALSE, "Start"), "Start")

PressUnwatch(m, lot) ==
  /\ screen[m].lot = lot
  /\ screen[m].mark
  /\ Pressed(m, CardBody(lot, FALSE, "Stop"), "Stop")

PressIsDrawn ==
  /\ press.step = "Read"
  /\ screen' = [screen EXCEPT ![press.message] = press.body]
  /\ unheard' = [unheard EXCEPT ![press.message] = "Nothing"]
  /\ press' = [press EXCEPT !.step = "Drawn"]
  /\ UNCHANGED <<now, registry, record, restoring, events, leftBehind, astray, misplaced>>

(* The screen is drawn and the answer lost: the handler throws as well.    *)
PressAnswerLost ==
  /\ press.step = "Read"
  /\ Bounded
  /\ screen' = [screen EXCEPT ![press.message] = press.body]
  /\ unheard' = [unheard EXCEPT ![press.message] = "Screen"]
  /\ press' = NoPress
  /\ UNCHANGED <<now, registry, record, restoring, leftBehind, astray, misplaced>>

(* A press that asks a question takes the keyboard off the card, and the   *)
(* registry does not hear of it.                                           *)
PressAsk(m) ==
  /\ press = NoPress
  /\ screen[m].lot # NoLot
  /\ Bounded
  /\ screen' = [screen EXCEPT ![m].mark = FALSE]
  /\ unheard' = [unheard EXCEPT ![m] = IF @ = "Nothing" THEN "Keyboard" ELSE @]
  /\ UNCHANGED <<now, registry, press, record, restoring, leftBehind, astray, misplaced>>

(* Telegram refuses the screen: the handler throws.                        *)
PressFails ==
  /\ press.step = "Read"
  /\ Bounded
  /\ press' = NoPress
  /\ UNCHANGED <<now, registry, screen, record, restoring, leftBehind, cardHistory>>

(* The press has drawn a state the stream has yet to show: the registry    *)
(* leaves the message as it is until the stream is past that state.        *)
AheadOfStream(body) ==
  \/ registry.latest = 0
  \/ /\ LotOf(body.lot, registry.latest) = body.lot
     /\ Version(body.lot, registry.latest) < body.version

(* A watched card drawn without its mark, by a press that had been read    *)
(* before the watch was restored.                                          *)
Unmarked(body) ==
  registry'.card.watching /\ ~body.mark /\ AheadOfStream(body)

PressIsShown ==
  /\ press.step = "Drawn"
  /\ registry' = Shown(registry, press)
  /\ press' = NoPress
  /\ unheard' =
       IF registry'.card.message = press.message /\ Unmarked(press.body)
       THEN [unheard EXCEPT ![press.message] = IF @ = "Nothing" THEN "Keyboard" ELSE @]
       ELSE unheard
  /\ UNCHANGED <<now, screen, record, restoring, events, leftBehind, astray, misplaced>>

(* The auction has accepted a limit given in a message of its own.         *)
LimitAccepted(lot) ==
  /\ press = NoPress
  /\ Bounded
  /\ registry' = ProxyLimitSet(registry, lot)
  /\ UNCHANGED <<now, screen, press, record, restoring, leftBehind, cardHistory>>

-----------------------------------------------------------------------------
(* The bucket and the restart.                                             *)

Without(calls, i) ==
  [j \in 1 .. Len(calls) - 1 |-> IF j < i THEN calls[j] ELSE calls[j + 1]]

Answered(r, i) == Recheck([r EXCEPT !.writes = Without(@, i)], r.writes[i])

(* A save that has been overtaken, and whose answer the registry takes for *)
(* that of the record it wants: it compares the lot and not the message.   *)
Misplaces(write) ==
  /\ write.check = "Superseded" /\ write.target # NoRecord
  /\ registry.card.watching /\ write.target.lot = registry.card.lot
  /\ write.target # [message |-> registry.card.message, lot |-> registry.saved]

(* The calls under way are done in any order.                              *)
RecordIsWritten(i) ==
  /\ record' = registry.writes[i].target
  /\ registry' = Answered(registry, i)
  /\ astray' = (astray \/ (registry.card.watching /\ registry.writes[i].check = "Unchecked"))
  /\ misplaced' = ((misplaced /\ registry.writes[i].check # "Latest")
                     \/ Misplaces(registry.writes[i]))
  /\ UNCHANGED <<now, screen, press, restoring, events, leftBehind, unheard>>

(* A write that fails is only logged.                                      *)
WriteFails(i) ==
  /\ Bounded
  /\ registry' = Answered(registry, i)
  /\ astray' = TRUE
  /\ UNCHANGED <<now, screen, press, record, restoring, leftBehind, unheard, misplaced>>

(* What the process has sent is still on its way when the process is gone. *)
EditsUnderWay ==
  {[message |-> m, body |-> registry.inFlight[m].body] :
     m \in {each \in Messages : registry.inFlight[each].step = "Sent"}}

PressUnderWay ==
  IF press.step = "Read" THEN {[message |-> press.message, body |-> press.body]} ELSE {}

Restart ==
  /\ Bounded
  /\ registry' = FreshRegistry
  /\ press' = NoPress
  /\ restoring' = Reading
  /\ strays' = strays \o [i \in DOMAIN registry.writes |-> registry.writes[i].target]
  /\ late' = late \cup EditsUnderWay \cup PressUnderWay
  /\ unheard' = AllHeard
  /\ astray' = FALSE
  /\ misplaced' = FALSE
  /\ UNCHANGED <<now, screen, record>>

(* A call of a process that is gone is done: its successor will read the   *)
(* record, or never hears of it.                                           *)
StrayIsWritten(i) ==
  /\ record' = strays[i]
  /\ strays' = Without(strays, i)
  /\ astray' = \/ astray
               \/ record' # record
                  /\ ~(/\ restoring.step = "Reading"
                       /\ registry.writes = <<>> /\ ~registry.card.watching)
  /\ UNCHANGED <<now, registry, screen, press, restoring, events, late, unheard, misplaced>>

RecordsAreRead ==
  /\ restoring.step = "Reading"
  /\ restoring' = [step |-> "Read", found |-> record]
  /\ UNCHANGED <<now, registry, screen, press, record, events, leftBehind, cardHistory>>

ReadFails ==
  /\ restoring.step = "Reading"
  /\ Bounded
  /\ restoring' = NotRestoring
  /\ astray' = TRUE
  /\ UNCHANGED <<now, registry, screen, press, record, leftBehind, unheard, misplaced>>

Restored(r, found) ==
  IF found = NoRecord \/ Registered(r) THEN r
  ELSE IF found.message \in r.released
  THEN [r EXCEPT !.writes = Append(@, Write(NoRecord, "Unchecked"))]
  ELSE [Open(r, [NoCard EXCEPT !.message = found.message, !.lot = found.lot,
                               !.watching = TRUE], FALSE)
        EXCEPT !.saved = found.lot]

(* Between the reading of the record and its use a press has opened a card *)
(* that is not watched, or has watched another message and left it again:  *)
(* the record stays without a watch, or its watch without the record.      *)
Outrun(found) ==
  /\ found # NoRecord
  /\ IF Registered(registry) THEN ~registry.card.watching
     ELSE /\ found.message \notin registry.released
          /\ registry.writes # <<>> \/ record # found

RecordsAreRestored ==
  /\ restoring.step = "Read"
  /\ registry' = Restored(registry, restoring.found)
  /\ restoring' = NotRestoring
  /\ astray' = (astray \/ Outrun(restoring.found))
  /\ UNCHANGED <<now, screen, press, record, events, leftBehind, unheard, misplaced>>

-----------------------------------------------------------------------------
CardNext ==
  \/ AuctionMoves
  \/ \E k \in States : StreamShows(k)
  \/ StreamDenied
  \/ Evicted
  \/ \E m \in Messages :
       \/ EditStarts(m)
       \/ EditLands(m)
       \/ \E why \in {"Failed", "Gone", "RetryAfter"} : EditRefused(m, why)
       \/ EditAnswerLost(m)
       \/ EditAnswered(m)
       \/ PressMenu(m)
       \/ PressAsk(m)
       \/ \E lot \in Lots :
            \/ PressLot(m, lot)
            \/ PressBid(m, lot)
            \/ PressWatch(m, lot)
            \/ PressUnwatch(m, lot)
  \/ \E edit \in late : LateEditLands(edit)
  \/ PressIsDrawn
  \/ PressAnswerLost
  \/ PressFails
  \/ PressIsShown
  \/ \E lot \in Lots : LimitAccepted(lot)
  \/ \E i \in DOMAIN registry.writes : RecordIsWritten(i) \/ WriteFails(i)
  \/ Restart
  \/ \E i \in DOMAIN strays : StrayIsWritten(i)
  \/ RecordsAreRead
  \/ ReadFails
  \/ RecordsAreRestored

CardSpec == CardInit /\ [][CardNext]_cardVars

-----------------------------------------------------------------------------
(* Types, and what holds of a registry between two awaits: a card is of a  *)
(* lot, its edits are the only current ones, and without one nothing is    *)
(* left of the feed.                                                       *)
CardScreens ==
  [lot : Lots \cup {NoLot}, version : Nat, mark : BOOLEAN, outcome : BOOLEAN, ended : BOOLEAN]

Cards ==
  [message : Messages \cup {NoMessage}, lot : Lots \cup {NoLot}, version : Nat,
   watching : BOOLEAN, ending : BOOLEAN, outcome : BOOLEAN]

Edits ==
  [step : {"None", "Sent", "Done", "Gone", "Failed", "RetryAfter"}, tie : Ties,
   body : CardScreens]

Records == [message : Messages, lot : Lots] \cup {NoRecord}

Calls ==
  [target : Records, check : {"Latest", "Superseded"}]
    \cup [target : {NoRecord}, check : {"Unchecked"}]

Registries ==
  [card : Cards, latest : States \cup {0}, saved : Lots \cup {NoLot}, writes : Seq(Calls),
   released : SUBSET Messages, waiting : [Messages -> Ties \cup {"None"}],
   inFlight : [Messages -> Edits]]

CurrentIsOfTheCard(r) ==
  \A m \in Messages :
    (r.waiting[m] = "Current" \/ (r.inFlight[m] # NoEdit /\ r.inFlight[m].tie # "Orphan")) =>
      r.card.message = m

NothingIsLeft(r) ==
  ~Registered(r) => r.latest = 0 /\ r.saved = NoLot /\ ~r.card.watching /\ ~r.card.ending

(* The types of the variables, and the shape of the registry: a registered *)
(* card is of a lot, and a card forgotten leaves no edit of its own.       *)
CardTypeOK ==
  /\ now \in States
  /\ registry \in Registries
  /\ Registered(registry) <=> registry.card.lot # NoLot
  /\ CurrentIsOfTheCard(registry)
  /\ NothingIsLeft(registry)
  /\ screen \in [Messages -> CardScreens]
  /\ press \in [step : {"None", "Read", "Drawn"}, message : Messages \cup {NoMessage},
                body : CardScreens, live : BOOLEAN, watch : {"None", "Start", "Stop"}]
  /\ record \in Records
  /\ restoring \in [step : {"None", "Reading", "Read"}, found : Records]
  /\ events \in 0 .. MaxEvents
  /\ strays \in Seq(Records)
  /\ late \subseteq [message : Messages, body : CardScreens]
  /\ unheard \in [Messages -> {"Nothing", "Keyboard", "Screen"}]
  /\ astray \in BOOLEAN
  /\ misplaced \in BOOLEAN

Quiet(m) ==
  /\ press = NoPress
  /\ registry.waiting[m] = "None"
  /\ registry.inFlight[m] = NoEdit

(* Nothing being under way, a live card shows in Telegram just what the    *)
(* registry believes, with «Не следить» when it is watched: `revision`     *)
(* tells the edits under way that a press has replaced them, and a press   *)
(* drawn late is drawn over.  Excused is a card whose edit failed          *)
(* (version 0) and what nobody has told the registry: an edit that landed  *)
(* after the press which replaced it or after its own process, a press     *)
(* whose answer was lost, and a mark that a question took off or that a    *)
(* press read before the restoration did not draw.  The next edit or press *)
(* of the message puts an end to each of them.                             *)
SettledCardIsTrue ==
  \A m \in Messages :
    (registry.card.message = m /\ ~registry.card.ending /\ Quiet(m)) =>
      \/ unheard[m] = "Screen"
      \/ registry.card.version = 0
      \/ /\ [screen[m] EXCEPT !.mark = registry.card.watching] = Body(registry.card)
         /\ registry.card.watching /\ unheard[m] = "Nothing" => screen[m].mark

(* However presses, states of the stream, refused edits and limits follow  *)
(* each other, a live card is on the lot being traded in the last state    *)
(* the stream has shown, and no press that had read an older state rolls   *)
(* it back behind that state.                                              *)
SettledOnTheLot ==
  (Registered(registry) /\ registry.latest > 0) =>
    LET active == Course[registry.latest].active
    IN  /\ active # NoLot => registry.card.lot = active
        /\ registry.card.version # 0 =>
             registry.card.version >= Version(registry.card.lot, registry.latest)

(* The calls of the process all done, the bucket has a record of the chat  *)
(* just when the chat watches, and it is of the watched message and of the *)
(* lot the watch was saved with: the calls may be done in any order, and a *)
(* process takes up what it finds.  Excused, by `astray` until a restart:  *)
(* a call or a reading that failed, a removal nobody checks that is done   *)
(* while the chat watches, a call of a process that is gone done after the *)
(* reading, and a restoration outrun by presses; by `misplaced` until the  *)
(* next save: an older save that is done after a newer one, of another     *)
(* message but of the lot.                                                 *)
RecordFollowsTheWatch ==
  (registry.writes = <<>> /\ restoring = NotRestoring /\ ~astray) =>
    /\ record # NoRecord <=> registry.card.watching
    /\ (registry.card.watching /\ ~misplaced) =>
         record = [message |-> registry.card.message, lot |-> registry.saved]
=============================================================================
