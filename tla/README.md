# Solguficky hub in TLA+

This directory models the parts of the Solguficky hub whose correctness depends
on order, failure or arithmetic: the trade of a lot in the Auction, the entity
that records it, the auctions that lead their lots through the trade and take
turns at it, the way facts take to the bus, the delivery of a notification by a bot,
and the card of a lot a bot keeps alive in a chat. TLC checks the models on small instances; TLAPS proves
the main invariants for every value of the constants.

Contents: [the system](#the-system), [the modules](#the-modules),
[the runs](#the-runs), [bounds](#bounds), [fairness](#fairness),
[proofs](#proofs), [findings](#findings),
[what is not modelled](#what-is-not-modelled), [the plan](#the-plan).

## The system

The hub is a set of services in several languages around a bus (NATS JetStream)
and PostgreSQL. Paths below are under `src/`.

| component | state | operations | made correct by |
|---|---|---|---|
| **Lot** `apps/auction/.../lot` (Scala, pure) | `LotState` folded from events: phase, price, ask, leader, deadline, extensions, proxy limits, mark, step windows, history (`Course`), removed participants | draft, schedule, open, bid, set and withdraw a limit, close, mark, hold, resume, ask, withdraw, remove a participant, launch, set and clear windows | price never falls except by a removal; proxies are settled after each transaction; a removal undoes its participant and nothing else; the deadline freezes the line-up |
| **Lot entity** `.../entity/LotEntity.scala`, `LotGateway.scala` (Pekko, event-sourced) | journal rows; per instance: folded state, window of seen operations | handle, record, recover, stop, preview a removal, repeat | one transaction per `op_id`; answers belong to the command; two instances never make two journals |
| **Publication of lot facts** `.../publication`, `.../projection` | `lot_publication` row and offset, `lot_outbox`, stream `AUCTION_EVENTS` | fold a row, read a gap again, relay a batch, remove what was acknowledged | every folded public event reaches the stream, in the order of its lot |
| **Delivery of notifications** `apps/hub-bot/src/core/delivery` (TypeScript) | durable consumer, key-value journal of deliveries | read the journal, resolve, render, send, record, answer | no loss; a final record silences; everything settles |
| **Live cards** `apps/hub-bot/src/core/auction/live-cards` (TypeScript) | per process: registry of cards, limiter, copies of the stream; bucket of watched cards | press, watch, draw, edit, repeat, freshen, end, restore | a card left alone shows its lot as it is; the record that outlives a restart follows the watching |
| **Auction and its entity** `.../aggregate/Auction.scala`, `LotRoster.scala`, `.../entity/AuctionEntity.scala`, `AuctionLots.scala` | journal: phase, registry, frozen order, lots returned and completed; memory: standing of each lot, removals under way, confirmations of the slot | plan, start, ask, open, close, settle, freeze, begin the final, next lot, sell, remove, finish, cancel, recheck, recover | lots and auction agree after lost answers and restarts; the frozen line-up stands; one lot of the final at a time |
| **Trading slot** `.../slot` | holder; memory: a question to it | claim, ask the holder, decide, release | the auctions of the community trade one at a time |
| Settlement, raffle, predictions | aggregates fed by facts | sold lot to invoice, draw, scoring | one invoice per winner, one draw |
| Read models and screens of the Auction | `lot_view` and others, each with an offset | fold, query | the same fold as the publication's |
| Identity `apps/identity` (Go) | accounts, rights, outbox | commands, relay under an advisory lock | one relay at a time, or repeats |
| Meetups `apps/meetups` (F#) | meetups, due publications, undispatched events | commands, publish when due, dispatch | nothing is published twice or when cancelled |
| Notifications `apps/notifications` (C#) | replicas, reminders, keys of consumed events | consume, sweep, address | a reminder follows the current deadline; a fact is consumed once |
| Achievements `apps/achievements` (Elixir) | position, ledger of awards | fold facts | a fact counts once |
| Other screens of the bots, site, contracts, deployment | caches, static pages, schemas | – | – |

How they interact. A sender (bot, desk, auction entity) asks the lot's entity
through cluster sharding with a timeout; a missing answer is repeated under the
same `op_id`. An auction asks its lots where they are, opens and closes them under
ids derived from its own start, and keeps what they answer in memory only: after a restart it
asks again. Before it starts it claims the slot of the community, which asks the auction
it believes to hold it whether that one still trades. The entity of a lot lets the pure `Lot` decide, appends the events of one
command as one transaction, and answers. The rows of the journal are read by tag:
one projection folds them into `lot_publication` and writes public facts to
`lot_outbox` in the transaction that moves the offset; the relay of every node
takes the outbox to the stream. Notifications consume the stream and emit
notifications addressed to a channel; a bot reads those from a durable, sends them to Telegram and
records the outcome in a key-value bucket. Beside that, a card of a lot sent by a
press of a button is registered in the process, redrawn from the stream of
views of the auction, and written to a second bucket if it is watched.

What is hard here, and where it bites, is the list `hazards` of `PROJECT.json`:
replays of a history under rules that depend on time; two entities of one lot;
asks whose answer is lost after the write; journal numbers drawn before they
are seen; relays that overlap; handlers with an await between a check and the
send; two copies of the truth – the answer to a press and the stream – that
reach one message in any order; sums at the edge of a `Long`.

## The modules

| module | models | implements |
|---|---|---|
| `LotRules` | the pure rules: `StepPolicy`, windows, `minRequired`, `floor`, `resolve`, `strongest`, extensions, replay of a removal | |
| `Lot` | `Lot.decide` and `Lot.apply`: one action per accepted command with its whole transaction | `AscendingSale` |
| `LotWithout` | two lots in step, one without a participant | |
| `LotEntity` | `recordWith`, recovery, preview, repeats; two instances; the network | `LotLedger` |
| `Publication` | `LotPublicationHandler`, `LotOutbox`, `OutboxRelay`, the reader of the tag, the stream | `LotFeed` |
| `BotDelivery` | `createDeliverNotification` await by await, `consumer.ts`, the durable, the bucket | |
| `LiveCard` | `LiveCards` with its limiter and stream, the press that opens a card, the bucket of watched cards, restarts | |
| `LotRoster` | what an auction knows of its lots and asks of them next, as pure functions | |
| `TradingSlot` | the decisions of the slot, as pure functions | |
| `Auctions` | several auctions, their lots and the slot: every handler of the trading, calls under way, restarts | `TradingTurns` |
| `AscendingSale`, `LotLedger`, `LotFeed`, `TradingTurns` | what a watcher, a sender, a reader and a community are promised | |
| `LotProofs`, `LotWithoutProofs`, `LotEntityProofs`, `BotDeliveryProofs`, `LiveCardProofs`, `AuctionsProofs`, `AuctionPhaseProofs`, `PublicationProofs` | theorems | |
| `MC*` | constants of the runs | |

`map` in `PROJECT.json` gives the source lines of every definition.

### Lot

`lot` is the state folded from the journal as one record (an absent value is
`NoOne`, `NoLimit`, `NoSum`, `NoDeadline`), `sequence` the number of the last
event, `now` the clock a command reads once, `last` the kind and participant of
the transaction's first event. An action is one command that `Lot.decide`
accepts, together with everything it derives: the answer of the proxies
(`resolve`), and the extension of the deadline. A refused command records
nothing, and so is no step; its refusals are the guards.

* Money is an integer of `0 .. MoneyMax`; `plus` wraps around as a `Long` does and
  `saturatedPlus` saturates, as in `Money.scala`. `NoAsk` lies below every sum that
  arithmetic can come to, so that the floor is the greater of the price and the ask,
  as `askAbovePrice` has it.
* The replay of a removal (`rerun`) folds the kept entries of the history with
  the same functions, each under the windows known at its number.
* Ids of bids and operations are left to `LotEntity`; texts and currency are
  left out.

`AscendingSale` is the lot as a watcher sees it: the first bid may be below the
starting price (a window may lower it), every later one is above the price, a
removal alone takes the price down again, and the trade ends in a sale to the
leader at the price everybody sees, or without one.

`LotWithout` composes two instances of `Lot`: every command of the others goes
to both lots at the same instant, the intruder's to the first only. It is the
oracle `RemovalSpec.scala` applies to samples, and like it follows the histories
in which the second lot refuses nothing. The intruder is one of the participants
(`IntruderAssumption`).

### LotEntity

`journal` is the lot's rows; `known[n]`, `up[n]` and `writing[n]` belong to the
instance on node `n`; `inFlight`, `expected` and `answer` to senders.
An append is two steps: the rows get into the journal (or the primary key
refuses them, and the instance stops), and later the instance folds them and
answers. Between the two it may stop. What a command decides is `Lot`'s
business: here it may be refused, or be accepted with up to `MaxDerived` further
rows. `LotLedger` says what is promised: one transaction per operation, a
removal only on the rows its sender was shown, answers that name the command's
own first row.

### Auctions

`auction` is the journal of each auction; `know`, `removals`, `notes`, `confirmed`
and `released` are the memory of its entity, which a restart empties. A handler is one step:
an actor takes one message at a time, and a persist keeps the others waiting.
`calls[l]` are the calls of an auction to a lot, oldest first, each with its answer
once the lot has handled it: the lot takes them in order and the auction hears the answers in
order. A call or its answer may be lost (`CallLost`), and the oldest call that waits may be
given up (`LotSilent`), after which the lot may still handle it. After a restart the calls of
the dead incarnation go to `strays` and arrive in any order or never; its questions, which move nothing, are left out. `notes` are messages of
an auction to itself (`Settle`, `Complete`, `Finish`). `slotCalls` and `inquiry`
are the same for the slot; its restart loses the question and the calls it had put off.

A lot is the machine `Lot` has at its edge: a phase, and which commands with a
derived id it has recorded (`seen`). Whether its deadline has come, and whether it
is marked for the final, is the lot's to decide, so `CloseLot` has three outcomes.

Abstractions: time, so that every timer may fire at any moment; the registry is filled
before the model begins, and an auction begins scheduled or finished; predictions of the final (`BeginFinal` is the step after
they are closed) and the wiping of those of a discarded auction, while which its entity
stashes its messages; raffle, results, sets, layout, windows and the terms of periods. An
op_id of a person is fresh, but for the repeats of a start, a sale and a cancellation.
`astray` remembers lots that a call of a dead incarnation has opened late or sold, of which the
auction may never hear, and lots for which an answer to an earlier question stood while they were asked
once more. Properties excuse those lots; see the findings on both.

`TradingTurns` is the promise to the community: an auction waits, trades, is over, and two
never trade at once. An auction trades in a phase that holds the slot, and a cancelled one
as long as any of its lots does, whatever its memory says.

### Publication

A row has a number that is drawn at the write and seen at the commit, so that a
later number may be seen first; `End` commits or rolls back. A reader waits for a missing
number and then holds it for a hole for ever (`GiveUp`). `Process` is one transaction:
the row of the lot, its facts in the outbox, the offset; a later event of a lot
brings the missing ones with it, read from the journal of the lot. A tick of a
relay takes up to `Batch` facts and for each waits for an acknowledgement, then
removes the row; anything else ends the tick. A message whose answer timed out
may arrive later (`late`). The stream drops a repeat *or not*: the nondeterminism
stands for its finite deduplication window.

Abstractions: one tag is modelled, and lots of other tags only draw numbers; a
transaction of several rows is several of one row; positions are drawn in
the order of the transactions, and inversions between different lots are ignored, as every property is per lot;
`lot_publication` is locked by the transaction, so that two readers (possible
in a partition only, "second protection" of `LotRows.scala`) take turns.
`LotFeed` is the promise to a reader: repeats aside, the facts of each lot in
order, none left out.

### BotDelivery

The handler of one message is split at its awaits: `Take`, `Read`, `Resolve`,
`Render`, `Send`, `Mark`, `Answer`; every await may fail, and the process may
crash between any two. `bus` is the durable with the count of deliveries,
`waiting` the copy the client has pulled. A delivery not answered in time is
handed out again while the handler still works on the first (`Overrun`).
`sent`, `abandoned` and `marked` are history variables.

### LiveCard

One chat, two messages in it, one auction. `registry` is the memory of one process (the
card of each message, the latest state of the stream, what the limiter and the
bucket have under way): everything a JavaScript turn changes without an await, so a
step is one such turn. The operators that change it are named like the code:
`persist`, `forget`, `schedule`, `onState`, `onEnded`, `refresh`, `open`, `shown`,
`restore`. A press is split at its awaits – `Read`, `Drawn`, `Shown` – and so is an
edit – it is sent, then done, gone, refused, limited or unanswered. Telegram may refuse a press
(`PressFails`), or draw it and lose the answer (`PressAnswerLost`): in both cases `deliver` throws and the registry
hears of nothing. A press that asks a question (`PressAsk`) takes the keyboard off the card without a word to it. Calls to the
bucket are carried out in any order, each rechecked by the generation the code keeps
(`writeGen`). A restart loses the registry and lets go of what was under way: calls to the bucket
(`strays`), edits and the screen of a press (`late`) may be done at any later moment, or never.
`Evicted` is the oldest card that gives way in a full registry. `unheard`, `astray` and `misplaced` are history
variables: what of a message the registry was never told, whether the record was left to chance, and whether an older save was
done after a newer one.

Abstractions: the auction is a course of states (`Course`) that the stream
goes through, so `LiveCard` knows of the trade only what a card shows; time,
throttling and the limiter's rates are left out, so an edit may start at any time
but one at a time per message; a press reads the lot and the watch in one step; the
lookup of names is part of the start of an edit; the revision of an edit is its tie
to the card it was made for. Another subscriber of the stream is not modelled.

## The runs

| run | question | result |
|---|---|---|
| `lot_removal` | Three participants, bids, limits, launched and period windows, removals at any moment: does the replay keep the leader, the price and the windows it must keep? | passes |
| `lot_final` | From the draft to the live final and the sale: proxies, grid, deadline, hold, refinement of `AscendingSale` | passes |
| `lot_without` | Is a removal as if the participant had never come? | passes |
| `lot_entity` | Two instances, lost messages, repeats: one ledger? | passes |
| `publication` | Two readers, two relays, late commits, crashes, a forgetful stream: is anything lost or out of order? | passes |
| `publication_drains` | Does the outbox drain? | passes |
| `bot_delivery` | Is anything lost, sent over a final record, or never settled? | passes |
| `live_card` | Presses, questions, edits, refusals, lost answers, restarts and what they leave under way, denial: what does the chat show when all is quiet, and what does the bucket keep? | passes |
| `auctions` | Do auctions take turns, do lots and auction agree, and does the frozen line-up stand, with sales, removals, lost and late calls, and restarts of the auction and of the slot? | passes |
| `publication_omitted` | Are all omitted events published? | violated |
| `auction_empty_break` | Does a break with nothing held end by itself? | violated |
| `bot_duplicate` | Is a delivered record final? | violated |

Every property of a passing run has a mutant in `PROJECT.json`: a plausible
slip in one definition under which the same run finds the property violated.
Slips that need an operator of their own stand beside the definition they would
replace, with a comment that begins with "Slip".

### What the properties say

*Lot.* `ProxiesSettled`: in the online week no limit has anything left to
answer while nobody was removed (a removal may leave one, see [findings](#findings)).
`OneAnswerSettles`: in the final the one answer to a command settles all the limits that have
waited; the withdrawal of a limit alone leaves its rivals to the next command. `RemovedStayOut`, `KeptInputsKeepALeader`, `HistoryKnowsTheWindows`,
`RemovalUndoesTheIntruder`: the replay.
`PriceNeverFalls`, `ProxyBidsWithinLimits`, `LiveBidsOnTheGrid`: prices.
`ExtensionsAreEarned`, `DeadlineFreezesTheLineup`, `BegunWindowsStand`: time and phases.
`HeldLimitsDecideTheReturn`: a lot comes back from the hold by the limits it was held with. If one of them bids, it is the
strongest, the earlier of two equal ones; of the others none can pay the next price; and the price is at most a step above
the price of the hold or above a limit left behind. It holds for step policies whose steps do not fall (`StepsClimb`).
`StepPolicy.tiered` accepts others, and there a limit above the next price may stay unanswered: with a
step of 3 up to a price of 2 and of 1 from there on, a rival of the leader at price 1 does. `IsAnAscendingSale`: the whole.

*Entity.* `OneTransactionPerOp`, `KnowsThePast`, `AnswersShowTheCommand`,
`IsOneLedger`.

*Publication.* `KeptUntilPublished`, `IsOneFeed`, `OutboxDrains`.

*Delivery.* `NeverLost`, `FinalRecordSilences`, `EverySettles`.

*Live cards.* `SettledCardIsTrue`: a live card with nothing under way shows in Telegram what the
registry believes, with the mark of a watched card. It
names its excuses, each a situation the code permits: an edit that failed (version 0), a card
about to end, and what nobody has told the registry (`unheard`). That is a screen: an edit that landed after the press
which drew over it or between its drawing and its `shown`, an edit of a process that is gone, a press whose answer was lost. Or it is
the keyboard alone: a question took it off, or a press that had been read before the watch was restored drew it
without the mark. Both last until the next edit or press of the message. `SettledOnTheLot`: the card is on
the lot traded in the last state the stream has shown, and no press that had read an older
state rolls it back. `RecordFollowsTheWatch`: with no call of the process under way the bucket has a record exactly when the chat
watches, and it is of the watched message and of the lot the watch was last saved with. That need not be the lot on the card: `refresh`
moves the card to another lot without a save, and the next state of the stream saves it. It is not claimed (`astray`) after a failed call or list, an unchecked removal done while the chat
watches, a call of a process that is gone done once its successor has read the record or has begun to write, or a restoration that
presses outran; and the message and lot of the record are not claimed (`misplaced`) after saves of two messages were done in the other order, until the next save.

*Auctions.* `OneAuctionTrades`: of any two auctions one at most is in a phase that trades, or
cancelled with a lot still in trade. `IsTakingTurns` adds that the order of turns is never reversed:
what was over does not trade again. `LotsKeepThePhase`: a lot online, live or held only while
its auction is in a phase for it, though the auction changes phase on what it has heard and
each answer may be lost or late. `FrozenLineupStands` and `FrozenLineupIsClosed`: from the freeze until
its turn a lot is held, no sale or removal of the living incarnation is on its way to it, and a restart leaves none behind. One
that a restart *before* the freeze left behind may still come, and the property does not deny it (see [findings](#findings)). `OneLotInTheFinal`: one lot
live, and the completed ones over.

## Bounds

| bound | value | why it is enough |
|---|---|---|
| `MaxSequence` (events of a lot) | 9, 10 | three events bring a lot into trading; six or seven are left for window, bids, limits, their answers and a removal |
| `MaxTime` | 2, 3 | one instant before and one after a window or a deadline; removals between |
| windows of `lot_removal` | one launched; two forms of the window of one period, one of which lowers the start | they overlap, and the terms of a period change |
| participants | 2, 3 | a leader, a rival and one who goes; equal limits need two |
| `MoneyMax` | 100 | out of reach of the sums |
| step policy | one tier, two tiers | the tier changes between two prices that occur |
| `Commands` of the entity | 3 under 2 operations | a repeat by another sender under the same `op_id`, and a removal that races it |
| `MaxDerived` | 1 | a transaction of more than one row |
| `MaxRows` of the journal | 3 | a gap, the event that finds it and one of another tag |
| `MaxFaults` | 1, 2 | a fault and one while the first is being repaired |
| `Course` of a card's auction | 3 states | one lot in the final, then the other, then the end |
| messages of a card | 2 | one opens while the other ends or is restored |
| `MaxEvents` of a card (presses, questions, limits, restarts, refusals, lost answers, failed calls, a denial, an eviction) | 2 | a press or a fault, and another that meets it |
| auctions and lots | 2 and 2; one and one in `auction_empty_break` | a claim beside a holder; a lot held beside one sold, and an order of two in the final. The run has two situations (`MCAuctions`): two auctions that want the slot with a lot between them and no buttons pressed, and one auction with both lots and every button, beside one that is over |
| `MaxFaults` of the auctions | 1; 0 in `auction_empty_break` | a restart or a lost or late call, and everything it leaves behind; a call left behind is handled without a further fault |
| `MaxTickets` (calls of an auction to the slot at a time) | 1 | a claim, a confirmation or a release; a call given up still takes the ticket until the slot has handled it |
| `MaxPresses` (sales and removals) | 1; 2 in `auction_empty_break` | one that races the freeze or a cancellation |
| `MaxCalls` (calls to a lot when a person adds one) | 2 | a sale beside a question |
| `MaxAttempts` of the delivery | 3 | a first, a middle and a last attempt |

Symmetry is used over participants, nodes and messages in runs without liveness
properties; `Spec` treats them alike. The run of the live card compares states by a
`VIEW` (`CardView` in `MCLiveCard`), which leaves out what no later step and no
property reads: what is unheard of a message without a card, the messages
released once the restoration is over, and the bucket with its calls once its
record is left to chance (`astray`) and no restart is left to read it. `CHECK_DEADLOCK FALSE` stands in every
configuration: a lot ends in a terminal state, a bounded journal or clock comes
to its end, and a settled message has no step left.

Assumptions about the environment, which the code states: windows announced or launched belong to
no period and the announced ones do not overlap (`AuctionConfig.windowsInvalid`); the window of a period
begins when the period does, however its terms change (`HappyHours.scala`): `PeriodsAssumption`.
The properties that compare prices hold where every sum leaves room for the next step below the width
of a `Long` (`SumsLeaveRoom`): `Named` are the sums anybody names, `Sums` what is at most one of them, which
are the prices that occur. The theorems that need it say so, and `MCLot` has TLC evaluate it for the constants
of the runs. `KeptInputsKeepALeader`
is stated for windows that leave the starting price alone (see
[findings](#findings)). In `Auctions` an auction begins before its start or after its
end: auctions that traded before there was a slot, which the code logs and cannot mend, are left out.

## Fairness

* `BotDelivery`: weak fairness of `Deliver` and `Expire` – the durable hands out
  what is ready and takes back what was not acknowledged within `ack_wait` –
  and of the handler, each of whose awaits has a timeout. No fairness is asked of
  Telegram or of the bucket: attempts run out instead. Faults are finite.
* `Publication`: weak fairness of the reader's polling and of the relay's ticks
  (`scheduleWithFixedDelay`), strong fairness of `Acknowledged`: the bus may
  decline any number of publications, and each decline ends the tick and so
  disables the acknowledgement, but it must not decline every one from some moment on.
  None of the writers, and none of commits: a transaction may stay open.
* The specifications of `Lot`, `LotEntity`, `Auctions` and `LiveCard` have no fairness, and
  no liveness is claimed of them: a card is redrawn when Telegram lets it, and an auction goes on
  when people and lots do. `EmptyBreakFinishes` is the invariant behind the one step an
  auction owes itself.

## Proofs

`tlapm` checks every step of the proof modules, from the assumptions the
modules declare about their constants. All results hold for any
number of participants, nodes, commands, notifications, auctions or lots and for any bound;
a community has finitely many lots (`AuctionsAssumption`).

* **`LotProofs`** proves every property of `lot_removal` and `lot_final`: `TypeCorrect`, `RemovedNeverReturn`,
  `LineupIsFrozen`, `HistoryHasTheWindows`, `BegunWindowsStay`,
  `ProxiesStayWithinLimits`, `LimitsAreSettled`, `OneAnswerIsEnough`; and, where sums leave room for a step
  (`SumsLeaveRoom`), `PriceOnlyClimbs`, `ExtensionsAreForBids`, `LivePricesOnTheGrid`, `SomebodyKeptLeads` and
  `AnAscendingSale`, the refinement of `AscendingSale`; and, where steps do not fall either (`StepsClimb`), `ReturnIsForTheStrongest`. In layers, each an invariant that uses those before it:
  - `LotOK`, the record of a lot with its type and nobody removed with a limit or in the lead, together with the
    clock. The two must go together: the replay of a removal folds the
    history from types that hold and a set of removed people, and gives back a
    lot of the same type in which none of them has a place. The fold is a recursive function; lemmas
    on runs (`RunExists`, `RunInduction`) state what a run of entries keeps. Over the rules there is a lemma on the type of each
    (`StepAtType`, `LiveTargetType`, `ResolveType`).
  - `WindowsKnown`: the windows in force are those of the opening and those of the history, no two of them
    overlap, and the ones of the opening are of no period.
  - `Unopened`: a lot that was not opened has nothing but its terms, which is what the refinement needs of
    `OpenLot`.
  - `SeqsStand`: the limits in force were set at different numbers of the journal, none later than now. So the
    strongest of them is one, and not just some, which `Strongest` chooses (`StrongestExists`, `RivalFacts`).
    With it an answer in the online week raises the price to the highest limit that loses (`OnlineAnswerSettles`).
  - The steps by kind. `PursuedSteps` splits `Next` into the commands the limits answer and the others;
    `RaisingSteps` and `TradeSteps` say what each kind does to the price, the leader and the deadline.
  - The grid of the final: a point of the grid is the end of a walk of steps, walks join (`GridJoins`) and are continued
    (`GridNext`), and the greatest point below a limit is on one. A second answer in the final would need
    a target above the first, and `TargetFalls` shows there is none.
  - `InputsStand`, for the leader after a removal: no input is of the future or below the starting price, as long as the windows that
    have begun leave that price alone (`Calm`); the invariant is by windows begun and not by all of them, because the
    property speaks of the windows of now and the inputs came under those of then. The replay is a run of
    lots (`IsReplay`), and an induction over it (`ReplayedLeads`, `RerunLeads`) shows that one has a leader as soon
    as an entry of someone not removed was replayed.
* **`LotWithoutProofs`.** `RemovalUndoes`: `RemovalUndoesTheIntruder` for every history of the two
  lots. The invariant (`Together`) says that the replay of the first lot without the intruder and the second lot
  are at every moment alike: terms, price, ask, leader, and limits of the same maxima set in the same *order* (`Alike`), for
  the numbers of their journals differ. Three lemmas carry it. What the rules read of two lots alike is the same
  (`ResolveAlike`, `AnsweredAlike`), so an input entered in both leaves them alike (`InBoth`). A replay of a history
  that has grown by one entry is the replay of before and that entry (`RerunGrows`, an induction over both runs).
  And windows launched, set or cleared since change nothing an earlier entry reads (`PastOf`): a window that has begun is
  never replaced, and a new one has a later number. The second `Lot` is an instance, so its operators are first shown
  to be those of the first (`SameAnswers`).
* **`LotEntityProofs`.** `EntityTypeCorrect`, `RecordedOnce`, `KnownIsPast`,
  `AnswersShow`, and `EntityIsOneLedger`, the refinement of `LotLedger`. The
  invariant adds to the properties that rows are numbered by their transaction
  (`Numbered`), that what an instance knows is a prefix of the journal, and
  what it is writing continues what it knows or is already stored
  (`WritesSound`). From it every step is a step of the ledger or a stutter.
* **`BotDeliveryProofs`.** `DeliveryTypeCorrect`, `NothingIsLost`,
  `FinalIsSilent`. `NeverLost` needs that the journal and the handler's record
  and answer tell the truth about the past (`Truthful`, `Minded`);
  `FinalRecordSilences` that nobody writes the journal between the handler's
  read and its send (`StillOpen`).
* **`LiveCardProofs`.** `CardTypeCorrect`, `CardOnTheLot`, `RecordFollows` and `SettledIsTrue`, for any course, any
  number of messages and events. The record needs an invariant (`Kept`) of three cases: it
  suits the watch, or a call under way will renew it, or a new process has yet to
  take the record up. Each operator of the registry is first shown to leave what
  is in store for the bucket or to renew it (`Heeds`); a step is a composition of
  operators, and its proof a composition of those lemmas. A save done over a newer one leaves the watch with a record, but perhaps of
  another message; so which message the record is of is claimed of the last call done only (`Wanted`, `Fits`), and `misplaced` says when
  it may be wrong. The screen has an invariant of its own (`ScreenInv`): what a message shows is
  what the registry believes, or an edit under way or waiting will make it so, or the registry was not told; and a watched
  card without its mark has the edit that restores it still ahead.
* **`AuctionsProofs`.** `AuctionTypes`, `OneTradesAtATime`, `AuctionsTakeTurns`, the refinement
  of `TradingTurns`, and `FinalIsOneByOne`. That one auction trades cannot be inductive alone: nobody who begins to
  trade sees the others. The invariant says that whoever trades, or has a grant that may still begin a
  trade, holds the slot (`HolderTrades`), and that the two words on which the slot hands over
  stay true until they are used: a holder that answered "idle" neither trades nor has a grant
  (`IdleIsIdle`), and a release under way is of an auction that is past its trade
  (`ReleasedIsPast`). The last needs what a cancelled auction believes of its lots to be so:
  one it counts as gone is over (`KnowsTheGone`), and an answer that says "over", or "withdrawn", or
  "sold", is from a lot that is over (`OverIsTrue`), after losses and restarts too. All actions but those of the slot
  and the accepted start are shown to begin no trading and to give no grant (`Kept`), one lemma per
  handler; the rest then holds of them together (`SlotKept`, `KeptTakesTurns`).

  In the final the lots run ahead of the journal: a lot is live before the auction has heard that it
  returned, and still called after it is sold. `OneLotInTheFinal` therefore needs an invariant of what may come
  (`FinalInOrder`): a lot that is live, or that a call on its way or of a lost incarnation would bring back, has had its
  turn in the journal, or is the next one while all that had a turn are completed; of the lots that had a turn
  all but the last are completed; and what is completed, or noted as ended (`NotedAreOver`), is over, which is where
  `OverIsTrue` comes in. Every handler but two is shown to bring no lot back (`Quiet`); the two are the
  call to the next lot and its answer. It needs no timing: a late answer may only leave the turn to the same lot.
* **`AuctionPhaseProofs`.** `PhaseIsKept`, `LineupStands` and `LineupIsClosed`: the phase of an auction and its lots agree,
  and the frozen line-up stands and is closed. The auction moves on by what it has heard (`know`), a lot moves when it handles a
  call, and the two are tied by the queue between them (`PhaseInv`, for one lot `LotHolds`). A lot handles its queue in order
  and its auction gives calls up in order (`InLine`), so a sale or removal sent before a question is handled before it. What
  is known as held is held, and only removals are on their way to it, all of them waited for (`Calm`); the roster counts at least
  as many as are waited for (`Counted`, shown with an explicit numbering, as cardinalities are hard on the provers),
  so that with a count of zero a line-up is frozen over none. The last question to a lot has nothing but removals behind it, and
  its answer is still true when it is heard (`LastAsked`). The note "all settled" is handled some messages later: what it said is true by
  then (`Noted`), though the lot may have been asked once more meanwhile. From the freeze on no sale and no removal of the living
  incarnation is on its way to a lot of the line-up (`Frozen`), so a restart, the one step that adds to `strays` (`NextAddsNone`), leaves none of them behind. The roster's functions are first reduced to what they do to one lot (`Does`),
  then each handler is a change of the queue and a change of the knowledge of one lot (`OneLotFollows`, `LotsFollow`), or a step of
  the journal under which each lot keeps what it has (`PhaseKept`, `JournalPhase`).
* **`PublicationProofs`.** `PublicationTypes`, `NothingFoldedIsLost`, and `StreamIsOneFeed`, the
  refinement of `LotFeed`. Rows of the outbox differ in position, and those of a lot are in the order of
  its versions (`InOrder`), a repeat of a batch by another relay included; a batch leaves out no row older than one it
  takes (`BatchIsOldest`). So for each row in hand whatever comes earlier of its lot is on the stream or in hand
  too (`InHand`), what a relay publishes has nothing before it still to come (`FirstInTurn`), and a late
  message has not either (`NoneOvertakes`). What happens in the journal and at the readers is not needed for it:
  the order rests on the row of `lot_publication` alone.

Proving changed the model where it was wrong, each time after TLC had shown the counterexample on a wider instance.
`ProxiesSettled` was stated of any online lot, and fails after a removal; `PriceNeverFalls` did not
allow the first bid in a window that lowers the start, which its run left out; `LiveBidsOnTheGrid` counted
the grid from the price before a new ask; `NoAsk` was a number an overflow could come to; and the invariants on phase and
line-up did not excuse a lot for which an answer to an earlier question stands, which takes two faults and three presses.

Every safety invariant and action property that a passing run checks is stated by a theorem. Only model-checked is
liveness (`EverySettles`, `OutboxDrains`), which is beyond the prover.

## Findings

1. **An empty break does not end** (`auction_empty_break`). In the break the auctioneer sells the last
   held lot while a removal of a participant is on its way. The answer to the sale finds the
   line-up unknown, because of the removal, and the answer to the removal
   (`participantRemovalAnswered`) looks at held lots only. Nothing is held, and nothing ends the
   auction: a freeze is refused as empty, a cancellation as finished, the recheck asks
   nobody, and the slot is kept until the entity restarts.
2. **The last event of a lot is not published** (`publication_omitted`) if its
   row commits after the reader gave its number up: a gap is found by a later event
   of the lot only, and there is none.
3. **A delivered notification is sent again** (`bot_duplicate`). An attempt that
   could not read the journal writes "retrying" over the record it could not read,
   "delivered" included.

Disagreements of the live cards that are excuses of a property rather than runs,
as they need several steps each:

* A press that drew its card before the finish is answered after it: `shown` drops the edit that
  was to write the end and schedules none, as the stream has no further
  event. The card stays registered and never says that the auction is over, which
  the comment of `live-cards.ts` on ended cards rules out.
* `watching` answers for the chat. A press under another card's message draws
  "stop watching" while `shown` opens a plain card and forgets the watch: a mark without a watch.
* An edit of the stream between the drawing of a press and `shown` is written over by
  the older picture, until the next state.
* A press before the watched cards are restored is followed by the restoration: a
  watch that was stopped is revived, or a record stays that nobody watches.
* A save that was overtaken by that of another message of the chat compares the lot only when it is answered
  (`live-cards.ts:205`): done last, it leaves the record on the old message, where a restart takes the watch up (`misplaced`).
* A question asked from a watched card takes its keyboard off; the card stays without «Не следить» until its next edit.
* A plain card's last edit is dropped at the finish: the ended callback forgets it
  in the same turn that scheduled the edit.

Disagreements found with the models for which no run is kept:

* **A lot without a leader keeps a limit.** RFC-011 I-02 excludes it. In a window with a lower
  starting price one participant bids; when the window is over another sets a limit, valid against
  that bid but below the regular starting price. A removal of the first replays the
  history from the regular starting price (`Lot.replayRemoval`): the limit answers with no bid and stays in force.
  `KeptInputsKeepALeader` is the half that holds.
* **The price falls at the edge of the width.** `minRequired` adds the step by `Money.plus`,
  which wraps; `resolve` adds it by `saturatedPlus`. Two limits at the edge bring the price to the
  maximum, and the next bid may be anything: an instance of `Lot` with `MoneyMax` 7 and limits of 6 and 7
  violates `PriceNeverFalls`, and `SumsLeaveRoom` with it.
* **A removal leaves a limit above the price.** The comment of `Lot.rivals` (`Lot.scala:834`) says that in trading limits come up one at a
  time and there is no second one above the price. With a tier step of 2, a start of 2 and an announced window with a step of 1: C
  bids 2; B with a limit of 6 leads at 4; a limit of D at 4 has nothing to answer; B withdraws; in the window A with a limit of 6
  leads at 5. When C is removed, the replay puts B back in the lead, at the lower of the present price
  and its own, 5, and the limit of A, 6, waits above it until somebody's next command. `ProxiesSettled` is
  stated for weeks without removals.
* **A late opening outlives its auction** (`astray`). An `OpenLot` of a dead incarnation that arrives between the
  answer to the new question and the general deadline opens a lot the auction has
  put down as never opened; it stays online after the end of the auction.
* **A late sale or removal reaches the frozen line-up.** A `CloseLot` of the auctioneer sent before a
  restart may sell a lot of the line-up after the freeze (`astray`). Its turn is then refused with
  `LotNotHeld`, `StartNextLot` never answers, and the final does not get past it. A removal sent before the restart may change the
  price of a lot that waits for its turn: the count that holds the freeze up (`LotRoster.removingParticipant`) is lost with the memory
  it is kept in. Such calls are in `strays`; `FrozenLineupIsClosed` says that none is added after the freeze.
* **An answer to an earlier question is taken for the later one's.** The comment of `LotRoster.observed` says that an answer the auction
  does not wait for, late or repeated, does not change what it knows. A standing says that an answer is waited for, not which: after
  a lost call, a repeat of the start and a recheck within the answer timeout "not open" may answer the first question
  while the call that opens the lot is still on its way; the lot is put down as never opened, and comes online later.
  With two faults and three presses it also lets a line-up be frozen in front of a sale. It takes a call that falls silent while
  a question sent after it is still waited for, and a recheck before that one is answered or given up: a call is given up
  after 3 s (`application.conf`), the recheck comes every 30 s (`AuctionEntity.scala`, `DefaultRecheckEvery`) and may fall
  into that time. The model has no time, so this happens more freely there; such a lot is in `astray`, and the theorems
  on phase and line-up hold of all others.
* **A sale crosses a cancellation.** A sale sent before the cancellation may come to the lot
  after it and before the withdrawal: the lot is sold in a cancelled auction, which the comment of
  `CloseAuctionLot` in `Auction.scala` rules out. `LotsKeepThePhase` allows it, as a sold lot is over.

## What is not modelled

Each part has its reason in `components` of `PROJECT.json`. Texts, rendering,
screens, mapping at the edges, storage schemas, metrics and deployment carry no
state a model would say more about than a test. Cryptography of the raffle is
outside. The bodies of facts are a mapping. Of an auction its windows, periods and
their terms, its registry while it is filled, predictions, raffle and results are left out. Meetups,
notifications, identity and achievements are left for the next steps.

## The plan

In order, the most important first:

1. Windows and periods of an auction: `LotRoster.deliveries` with its derived ids, periods that freeze
   when they begin while the terms of their lots travel. Property: a lot that has answered has the terms
   of the last change made before the period began.
2. `Publication` for its siblings: the dispatch of meetups (a set of
   undispatched rows in place of a cursor) and the relay of identity (a turn
   taken by an advisory lock of a session), as modules over the same stream.
3. `DuePublication`: a meetup that is moved, cancelled or published between the
   worker's reading and its command.
4. `Reminders` and consumption keys of notifications: deadlines that move between
   the sweep and the firing; keys pruned before a redelivery.
5. `Settlement`, then the ledger of achievements.

Proofs: that in `Auctions` no answer to an earlier question stands for a later one, from the pause between two rechecks
and the answer timeout as assumptions, which would narrow what `astray` excuses.

Runs are kept to one per question: a new component brings one safety run
and, where something must happen, one under fairness; the runs of `Lot` that
only differ in constants are the first to merge.
