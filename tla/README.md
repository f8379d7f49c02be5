# A verification development for service-mesh-nats-go

`src/nats` is a service-mesh transport over NATS: a `Client` that sends
requests and publishes, and a `Runtime` that serves endpoints and subscribers
on the client's connection, over core NATS and over JetStream. These modules
model its concurrent core, the settings it derives, the calls it makes, a
message's deliveries over time and its metadata on the way. TLC checks them on
small instances, and TLAPS proves the safety properties of the runtime and of
the calls for every instance.

    tlc -workers 2 -config RuntimeDrain.cfg MCRuntime
    tlc -workers 2 -config Metadata.cfg Metadata
    tlapm RuntimeProofs.tla

## The system

### Parts, their state and their operations

| Part | Source | State | Operations |
|---|---|---|---|
| Runtime lifecycle | `runtime.go`, `runtime_receivers.go` | `state`, `running`, `subs`, `consumers`, `handlerCtx` under `mu`; `accepting` under `acceptMu` | `New`, `Start`, `abortStart`, `Stop` and the goroutine that waits for its drain |
| Dispatch | `runtime_dispatch.go`, `runtime_serve.go` | `sem` (handler slots), `wg` (handler goroutines) | `dispatch`, `serve` |
| JetStream deliveries | `runtime_jetstream.go`, `jetstream.go` | `pending` under `pendingMu`; each `delivery`'s state under its own `mu` | `receive`, `serveJetStream`, `begin`, `settle`, `abandon`, `abandonPending`, `abandonDrain` |
| Consumers | `consumers.go` | one `jsConsumer` for each JetStream subscriber and Start; the map `missing` | `openConsumer`, `consume`, `consumeError`, `watchMissing`, `checkMissing`, `deadline`, `lastDelivery`, `lateStartLogged` |
| Client | `client.go` | `nc`, `js`, `closed` under `mu` | `NewClient`, `Request`, `Publish`, `Close`, `boundContext`, `timeoutError` |
| Settings | `config.go`, `target.go`, `jetstream.go` | none: functions from configuration and metadata | `parseClientSettings`, `parseRuntimeSettings`, `mergeSettings`, `subject`, `parseJetStream`, `consumeOpts` |
| Inspection | `runtime_public.go` | reads the runtime's under `mu`; `Running` reads `state` atomically | `Receiver`, `Running`, ... |
| Headers | `header.go`, `deliveryMetadata` | none, but the metadata itself travels from message to message | `toHeader`, `fromHeader`, `outgoingHeader`, `incomingMetadata`, `deliveryMetadata` |
| A process | `docs/runbooks/cmd/serve/main.go` | | starts a runtime, waits for a signal, stops it within a drain time, exits |

### How they interact

nats.go calls the runtime back: one goroutine for each receiver hands over one
message at a time. The callback (`subscribe`'s closure or `receive`) calls
`dispatch`, which waits for a slot of `sem` and starts a goroutine for the
handler. The handler's result is published as a reply (`serve`) or settles the
delivery (`serveJetStream`). `Start` and `Stop` hold `r.mu`; `Stop` drains every
receiver, starts a goroutine that waits for the drain, and selects between that
goroutine and its context. Whoever loses a race for a delivery finds
`deliverySettled`. nats.go reports a consumer that is gone to `consumeError` on
a goroutine of its own, and `watchMissing` visits what was reported every five
seconds.

Handlers call back into the package: `Receiver` waits for `r.mu`, and a request
or publish carries the metadata the handler was given. The processes of a
deployment share one consumer for each subscriber's group, and each `Start`
writes its own settings to it.

### What is hard about it

* Four kinds of goroutine share five pieces of state under four locks; `dispatch`
  checks twice, around a wait.
* A failed `Start` leaves handlers, callbacks and reports behind that meet a
  later `Start`.
* `Stop` has two endings, and three goroutines may want to settle one delivery.
* A handler may wait for the lock of the very `Stop` that waits for the handler.
* The connection can be closed directly at any time.
* The server sends a message again by its own clock and to any process of the
  group, and a process may crash while it has deliveries.
* The watcher asks the server and acts on an answer that may be old.
* A call's context can end for three reasons at about the same time.
* Metadata that is copied onto the next message brings old deadlines, delivery
  numbers and two names of an id with it.
* Settings come from four places; delivery numbers are unsigned and limits are not.

`PROJECT.json` lists each such hazard at its line, with the properties that
cover it or the reason none does.

### What makes each part correct

* Runtime: handlers stay within the limit, none outlives a clean `Stop`, none
  runs for a `Start` that failed; the semaphore and the wait group never leak;
  `Stop` returns, and so does what a handler asked the runtime meanwhile.
* Deliveries: answered once; tracked until settled, and no longer than its
  goroutine or `Stop` has it in hand; a clean drain answers everything it was sent;
  an expired one leaves nothing unsettled that reached it.
* Redelivery: a handler that succeeded is not run again without a reason; a
  deadline is never too early; a message that fails for good is logged, and one
  that is logged has failed for good.
* Consumers: a subscriber that hears nothing is logged again and again, one that
  has recovered is not, and the watcher ends.
* Client: an error names the reason; the endpoint gets no longer than the caller
  waits; nothing is sent after `Close`; every call returns.
* Metadata: ids and deadlines that a handler or a stream sees, and failures a caller is told
  of, belong to this message.
* Settings: the nearest value applies, subjects do not collide, pull limits reach
  nats.go, deadlines follow `backoff`, and the last delivery is recognised.

## The modules

A definition whose comment begins with "Mutation" is a wrong version of the one
after it. No specification uses it; `PROJECT.json` names it under "mutants", to
show that a property would notice the mistake.

### `Runtime`

One variable for each field (`state`, `accepting`, `sem`, `wg`, `pending`), the
program counter `life` of the method that holds `r.mu`, `drain` for the drain
goroutine, and `pc[m]` for every message, from the callback to the end of the
handler's goroutine. A step is what happens between two points where another
goroutine may run: each lock section, channel operation and call into nats.go is
an action.

| Code | Actions |
|---|---|
| `Start` | `StartBegin`, `OpenReceiver` for each subscription, `StartSucceeds` |
| its failure, `abortStart` | `StartFails`, `AbortReceivers`, `AbortContext`, `AbortGate` |
| `receive` and `subscribe`'s closure | `Deliver`, `DropRefused`, `AbandonRefused`, `NakRefused` |
| `dispatch` | `FirstCheck`, `TakeSlot`, `GiveUpWaiting`, `Spawn`, `TurnAway`, `ReleaseSlot`, `LeaveGroup` |
| `serveJetStream`, `serve` | `BeginHandler`, `HandlerReturns`, `Settle`, `SendResult`, `DoubleAckReturns`, `Reply`, `NothingToSend` |
| `Stop` | `StopBegin`, `StopDrained` or `StopExpires`, `StopClosesClient` |
| its goroutine | `SubscriptionsDrained`, `ConsumersDrained`, `DrainClosesGate`, `HandlersDone` |
| `abandonDrain` | `AbandonClosesGate`, `CopyPending`, `PendingAbandoned`, `ConsumersClosed`, `BudgetRunsOut` |
| `abandon`, called by it for each delivery | `AbandonPending` (settle), `UntrackAbandoned`, `NakAbandoned` |
| `Receiver`, called by a handler | `AskRuntime`, `RuntimeAnswers` when nobody holds `r.mu` |
| `Client.Close`, called by the program | `CloseClientDirectly` |

nats.go and the server are external: `Arrive`, `InterestGone`, and what drains,
stops and closing do to buffered messages (`recv`, `DropBuffered`). A message is
one delivery; sending it again is another message. Acks and naks that fail
because the connection is closed are answers called `"lost"`. A message of a core
endpoint is taken to have a reply subject.

Several neighbouring steps are one action because nothing can tell them apart.
`StopBegin` drains all receivers at once: each is still `"draining"` for as long as
the model likes. `AbortReceivers` stops all receivers at once. `StopExpires` is
always possible while `Stop` selects: a context may expire at any time.

`Stop`'s `abandon` is three steps, and `inHand` is the delivery it has settled and not
nacked yet. Between them the delivery's handler may return, find it settled, and give
back its slot and its wait group count, and a callback whose message was refused may
find it settled and return; the nak is sent all the same. A callback's own `abandon`
settles and untracks in one step (`AbandonRefused`), and a handler's goroutine untracks
and sends in one (`SendResult`): there the goroutine that settles is the one the
delivery belongs to, the others only read its state, and the one who reads `r.pending`,
`Stop`'s copy, passes over what is settled.

### `Settlement`

What the runtime promises about one delivery, in three variables: how far it is
(`stage`), what has been decided to send about it (`owed`), and what was sent (`answer`).
It is taken, and handled at most once and only while nothing is decided. Whoever
settles it decides: its handler's result (`Settle`) or a nak (`GiveUp`), once. What was
decided is sent once (`SendResult`, `SendNak`), an ack only for a handler that succeeded.
A delivery of an acking consumer is let go of only when it has been decided that it is
nacked (`LetGo`); the nak may then come after its goroutine has ended, and comes with
`SendNak`. `Runtime` instantiates it as `Promise`, with `StageOf(pc[m])`, `AnswerOf(answers[m])`,
and, for what is owed, `OwedOf` of the place, `AlreadySettled` and the answers;
`KeepsPromise` is `Promise!Spec`. None of the runtime's locks, slots or drains is in it.

### `Redelivery`

The same deliveries seen from outside, over time: two processes of one group share a
consumer; the server sends a message again when its ack wait, its backoff entry or a
nak's delay is over, up to `maxDeliver`; processes start, stop, time out while they
stop, and crash. A callback, a handler and a `Stop` are single steps here. `Wait` is
`deadline` and `LastDelivery` is `lastDelivery`; both use what this process's Start read
back (`read`), while the server uses `consumer`, which any later Start may have written.
Timers count ticks and stop at zero or at the longest delay, so time is unbounded.
`successes` and `excused` are history: how often a handler succeeded, and whether there
was a reason to handle the message again.

### `MissingWatch`

`exists`, `connected` and `notice` are the server, the connection and what nats.go
has been told; `pull[o]` is what nats.go does for the `jsConsumer` `o`; `missing` is
`r.missing`; `watch` and `checking` are where the watcher is. `checkMissing` is six
steps: `Check` (its select on `Closed`), `AskServer` or `LeaveDisconnected`, the
answer (`InfoFinds`, `InfoNotFound`, `InfoFails`), and `Forget`, so that reports can
arrive between the answer and the delete. A `jsConsumer` is a subscription and a
Start, since each Start makes its own. A consumer of `Groupless` subscriptions has a
name the server chose, so each Start has another; the others are shared by name, and
are created or looked up.

### `Request`

Calls on one client, each on its goroutine, in ticks of time: `Begin`, `Bound`
(`boundContext` and the header), `Send`, and the four ways a call ends. Contexts are
external actions (`CallerCancels`, `CallerExpires`, `TimeoutFires`); so are the
endpoint's and the server's answers. `Serve` is the part of `serve` that gives the
handler its deadline. `now` may stand still while other steps happen, and an expired
context may go unnoticed for any time.

### `Metadata`

One chain of messages: `held` is the metadata that user code has, which it may copy,
and `header` what travels. `OutgoingHeader`, `IncomingMetadata` and `DeliveryMetadata` are
the conversions; `Request`, `Publish`, `Reply` and `ReplyFailure` send with them,
`ServeEndpoint`, `ServeSubscriber`, `ServeJetStream` and `ReplyArrives` receive.
`ServeJetStream` has three outcomes: a consumer that acks, one that does not, and a
delivery whose metadata cannot be read (`"blind consumer"`), which keeps what its message
came with. The chain starts with a client or with a message of a program that does not
use this package, which may repeat keys, set both names of the id, and bring old
deadlines or a `Mesh-Timeout` that does not parse; either may bring a
`Mesh-Handler-Error`. `intended`, `bound`, `failed` and `brought` are history: the id and
the time its latest sender meant, whether the handler that answered failed, and whether
the chain began with that key.

### `Settings`

Functions from keys to values: `Accepted` and `JetStream` are `New` for one receiver,
`CallAccepted` and `CallGoesOn` are `NewClient` and what `Request` and `Publish` do before
they send, `OpenCreated` and `OpenLookedUp` are `openConsumer`, `ConsumeOpts` is what a
consumer is given, and `AckWait` and `LastDelivery` are the two methods a delivery asks.
An unset key is outside the function's domain, and a value that does not parse is `Bad`.
`uint64` and `int` have `Word` values, so the conversions wrap. This module is a small
state machine (given, then rejected or ready, then open) whose interest is in the inputs.

### Proof and instance modules

`RuntimeProofs` (with `SettlementProofs` and `DrainProofs`, which extend it), `MissingWatchProofs`,
`RequestProofs`, `RedeliveryProofs`, `MetadataProofs` and `SettingsProofs` hold the theorems; see
below.
`MCRuntime`, `MCMissingWatch`, `MCRequest`, `MCRedelivery` and `MCSettings` give the
constants values that a `.cfg` cannot write; `Metadata` needs none.

## The runs

| Run | Question | States |
|---|---|---|
| `runtime_drain` | the safety of one Start and one Stop, and that it is what `Settlement` promises: three messages, an acking consumer and an endpoint, one slot | 493,574 |
| `runtime_restart` | what a failed Start leaves behind: two Starts, three messages, a consumer that does not ack and a core subscriber | 1,349,645 |
| `runtime_stop` | liveness, with a double-acking consumer and a core subscriber: `Stop` returns, what was received is answered, a handler that asks is answered | 29,087 |
| `runtime_late_reply` | finding, below | |
| `missing` | a looked-up and a group-less consumer, deleted three times, created twice, two drops: logging, no false alarm, recovery, the end of the watcher, and what stays missing | 48,835 |
| `missing_forgotten`, `missing_stale` | findings, below | |
| `request` | one call of any kind in all its races, and that it returns | 49,701 |
| `settings` | all combinations of the small sets, for endpoints, subscribers, requests and publishes | 281,238 |
| `redelivery` | a message over three deliveries with a backoff of two, two processes, three starts | 154,071 |
| `redelivery_rolling` | finding, below | |
| `metadata` | chains of five messages and replies | 34,894 |

### Bounds, and why they are enough

*Runtime.* With one slot, two messages of one subscription and one of another already give a
handler that holds the slot, a callback that waits for it and a message buffered behind that
callback, which are all the positions the code tells apart; the proofs remove the bound for
the safety properties they cover. `MaxStarts` 2 has the failed Start and the one that meets
its remains. Every kind of subscription (endpoint, subscriber, acking, double-acking, not
acking) is in some run. `runtime_stop` has a message for each subscription: liveness needs a
handler that hangs and a callback that waits for it, not a third message.

*MissingWatch.* Three deletes and two creates let a consumer be missing, back and missing again.
`MaxDeletes`, `MaxCreates` and `MaxDrops` bound only the environment. Two Starts are in
`missing_stale`; the rest asks about one. `DeafIsLogged` leaves out one case by its hypothesis: a
consumer nats.go stopped consuming that somebody created again. That case is the finding
`missing_forgotten`, and the hypothesis is no wider than it.

*Request.* Timeouts shorter and longer than the deadlines, a deadline already past at the call
(0), and one never reached (9); two ticks to a millisecond so that the header's rounding can
be seen. Calls share only the connection and `c.closed`, which no call changes, so one call has
all the behaviours; the proofs are for any number. `LastBegin` only keeps calls from beginning
too late to end by `MaxTime`.

*Redelivery.* Three deliveries with two backoff entries have a first, a middle and a last
delivery, and one that uses the last entry again. Two processes can have two deliveries of one
message at once; a third start is a restart after a stop or a crash. Messages meet only in
an instance's slots and buffer, and what a second message does to the first, making it wait
any time for a slot, the first one's own late deliveries do too.

*Metadata.* Five messages are enough for a request whose handler publishes, whose subscriber
requests, and a reply; two ids tell "this message's" from "an older one's", and two timeouts do
the same for deadlines.

*Settings.* `Word` is 16, and so an `int` goes from -8 to 7: the numbers below, at and past the signed half, and both list ends, are
there. Two values for each key in each place suffice to tell which place it came from.

`CHECK_DEADLOCK FALSE` is given everywhere because all these systems stop: a runtime that was
stopped does not restart, calls return, and the counted events run out.

### Fairness

* `RuntimeFairness`: a goroutine that can run does (Go's scheduler). `Start` and `Stop` do not
  stop half way. Nothing says that the program calls them. TLC needs no strong fairness: a
  callback that waits for a slot either gets one or its context is cancelled for good. Liveness
  is checked from `Stop` on, when the messages that may arrive are finite.
* What else a property rests on is its hypothesis, so that it can be read there.
  `HandlersReturn` is strong because a handler may ask the runtime again and again, which the
  code cannot prevent, but does so for a finite time. `UnsubscribesArrive` is the server's part
  of a drain. `StopContextExpires` is what a caller with a deadline gives. `NobodyAsks` is in
  `StopReturnsDrained` because a handler that asks during `Stop` waits for the lock that `Stop`
  holds while it waits for the handler: only the context ends that, and `AskersAreAnswered`
  shows that it does.
* `MissingWatch!FairSpec` has weak fairness for the watcher, nats.go and `Stop`. Strong fairness
  says that `sync.Map.Range` visits every key, that the lookup of a consumer that exists
  succeeds some time if it is repeated for ever, and that a `select` with both channels ready
  does not choose the ticker every time, which Go's random choice makes so with probability 1.
* `Request!FairSpec`: time passes, timers fire, goroutines run. No answer ever needs to come.
* `Settings`, `Redelivery` and `Metadata` state safety only. That a message is delivered again is
  the server's doing, not this code's.

### Findings

* `runtime_late_reply`. The documentation says a reply of a handler still running when the drain
  ends is not sent. `serve` publishes whenever its handler returns, and the connection is still
  open while `Stop` naks and waits up to five seconds for the consumers.
* `missing_forgotten`. `checkMissing` looks at `Closed`, asks the server and then deletes its key. A
  report that arrives after the answer is lost with the key: nats.go has stopped consuming and
  reports that only once, so a deaf subscriber is never logged again.
* `missing_stale`. `abortStart` does not clear `r.missing`. A consumer reported during a Start that
  then fails stays in it, and the next Start's watcher logs it as missing on every tick while its
  own consumer receives messages.
* `redelivery_rolling`. `lastDelivery` compares with the `max_deliver` its own Start read back. In a
  rolling deploy that raises it, the old process logs that a message will not be delivered
  again, and the server delivers it again under the new limit. `redelivery` shows that the log
  is right while all processes write the same settings, and `FinalUnlessRaised` that only raising
  makes it wrong.
Two more disagreements with the documentation are in `Metadata` without a run of their own:

* A comment (`src/nats/errors.go`, lines 35 to 37) and the documentation
  (`transport-specific-implementation.md`, lines 67 and 219) say that `Request` returns a
  `HandlerError`, and a reply has `Mesh-Handler-Error`, when the endpoint's handler failed. `serve`
  sends the metadata a successful handler returns as it is (`runtime_serve.go`, line 51). When a
  message arrives with that key, or user code sends one, copying alone brings it there: onto a
  request, and by the endpoint onto its successful reply. As an invariant,
  `holder = "failed caller" => failed` is violated after four steps: a client sends a `Request`
  with the key, the endpoint copies it onto its `Reply`, and the client is a failed caller.
  `FailureIsTheAnswerers` says what remains: nothing but a key that the chain began with
  (`brought`) makes a `HandlerError` of a success, and a failure is never missed.
* The documentation (the same file, line 198) says that a handler gets a delivery whose metadata
  cannot be read without the delivery keys. `serveJetStream` sets none, but leaves those that the
  publisher copied, and a copied `Mesh-Deadline`, from a message it was handling. The invariant
  `holder = "blind consumer" => Attempt \notin DOMAIN held` is violated.

## The proofs

Each proof module assumes what its model assumes of the constants and nothing of fairness.
For `RuntimeProofs` and `SettlementProofs`: the messages are a finite set, each leads to a
subscription of a known kind, and the concurrency is positive. For `RequestProofs`: times are
natural numbers and a millisecond is at least one tick. Those of the other modules are named
with them.

1. *Typing* (`TypedAlways`). Types of all variables but the counters, with `Phases`: which `life`,
   `drain` and `result` go with which `r.state`. This says that `r.mu` makes Start and Stop
   alternate, and every later proof uses it.
2. *Settling* (`SettlementAlways`). `DeliveryInv(m)` is an account of one delivery that is
   inductive on its own. "At most one answer" is not inductive: a step that sends must know
   that nothing was sent before. The account says that a delivery is settled and unanswered
   exactly while its one settler is between `settle` and the send: its own goroutine, or
   `Stop` with the delivery in hand, whose goroutine may meanwhile be anywhere, or have ended.
   Steps of one delivery are separated from steps of others (`OtherDelivery`) and from Start,
   Stop and nats.go (`BystanderStep`). `AnsweredOnce` and `PendingIsUnsettled` follow.
3. *Counters, gate, contexts* (`IInvAlways`). `CountersInv` relates `sem` and `wg` to cardinalities of
   sets of messages; each action moves at most one message into or out of a set. It also
   gives the counters their types, since a counter of messages cannot go below zero, so
   `TypeCorrect` comes after it. `GateInv` says that a closed gate stays closed and a group
   seen empty stays empty. `ContextInv` says that all earlier Starts' contexts are cancelled, and
   the latest one's once Start has failed or Stop has chosen. `CountersMatch`, `BoundedHandlers`,
   `QuietAfterDrain` and the two action properties `GroupNeverGrowsWhileAwaited` and
   `SpawnsOnlyWhileServing` follow.
4. *Refinement* (`SettlementProofs!KeepsPromiseAlways`). Every step of `Runtime` is a step of
   `Settlement` or none. `StageMoves`, `OwedMoves` and `AnswerSent` carry a move of `pc`, a settling and
   a send over to the abstract variables; each goroutine then has a lemma (`CallbackKeepsPromise`,
   `HandlerKeepsPromise`, `AbandonKeepsPromise`). The account of step 2 supplies what
   `Settlement`'s guards ask: that whoever sends owes it and finds nothing sent.
5. *Calls* (`RequestProofs`). `TypeCorrect` needs that the time a call has left is never negative.
   `ConnInv` says that a closed client has no connection, whence `NothingSentAfterClose`.
   `Causes` says for each call which context ended and why while it waits, so that the error it
   returns later can be traced: `TimeoutIsTheRequests` and `ContextErrorIsTheCallers`. `Budgets`
   follows the time from `boundContext` through the header, which rounds down, to the endpoint,
   which starts counting later than the caller: `EndpointBudgetFits`.

6. *The endings of Stop* (`DrainProofs`). `CleanDrain` and `CleanAbandon` speak of the moment `Stop`
   has returned, so `StopInv` follows the Start that `Stop` ends from its begin: `SeenClosed` says
   what each wait of the drain has seen closed and that it stays so, `OpenUntilDrained` and
   `GoodUntilDrained` that nothing turns a message away before, and `ShutBeforeAbandon` and
   `LeftToAbandon` that after `abandonPending` copied `r.pending` no new delivery can need it.
   `MessagesFollowDrain` has three accounts of a message, for three promises: one that `Stop` has
   not given up on is on its way through its handler; a delivery that is over is settled, as
   long as the budget sufficed; what the copy missed is settled by its handler. It rests on the
   invariants of 1 to 3.
7. *Metadata* (`MetadataProofs`). The properties speak of what is received; `MetadataInv` adds what
   travels: the id that the sender meant, under the name read first (`IdTravels`), the time left
   (`TimeTravels`), and the failure of the handler (`FailureTravels`). `Sound` is what copying
   keeps: ids under the names of the id, and the key of a failure only if the chain began with
   it. So the length of the chain does not matter. `IdsAssumption`: a message without an id is
   none of the ids.
8. *Redelivery* (`RedeliveryProofs`). `OnceInv`, for `HandledOnceUnlessExcused`: until something
   excuses a message, only its latest delivery is at work, and only while the server waits for
   it. The other three speak of settings that processes write over each other, and assume only
   the half of it that can break them. `SentInv` assumes nothing: a delivery is sent by the settings
   that were the consumer's when its process started, and one that is over without success or log
   was not the last by those. On it rest `LowInv`, for `FinalFailureIsFinal`, as long as no Start
   raises `max_deliver` (`NotRaised`); `HighInv`, for `UsedUpIsLogged`, as long as none lowers it
   (`NotLowered`); and `WaitsInv`, for `NotCutShort`, as long as none lengthens the server's wait
   for any delivery (`NotLengthened`). Raising is what the finding `redelivery_rolling` does, and
   TLC breaks the other two likewise on small instances without their hypothesis, so none of
   the three can be left out. A group whose processes write one `max_deliver` (`SameLast`) or the
   same waits (`SameWaits`), as in the run, is a special case of each. Assumed: the processes are
   finitely many and the nak delay is a number (`BoundsAssumption`). `Max` of a finite set needs
   induction, which is carried out here on sets of naturals (`LeastNatural`, `BySteps`,
   `GreatestOfFinite`) from the library's well-founded orderings.
9. *Settings* (`SettingsProofs`). `SettingsInv` says that what is kept of a subscriber, a call and a
   consumer is what was read and checked. The rest are lemmas on operators: `FirstOfTwo` and
   `FirstOfThree` compare `mergeSettings` and its fallbacks with "the first place that sets it",
   `LimitsReachOpts` goes through `consumeOpts`, and `ToIntIs`, `IndexOfDelivery` and `LastOf` do the
   arithmetic of `int` and `uint64` for every even `Word`. `SubjectIsInjective` is
   about `strings.Join`, for segments of any number and length: a segment that `checkSegment`
   accepts has no dot, so the last dot of a subject is where the last segment begins
   (`OneLastDot`), and along the segments equal subjects have equal ones (`EqualJoins`).
   `JoinExists` first solves the recursion that `Subject` is written by, and both go by induction
   on the numbers up to a length (`UpTo`), from the library's well-founded orderings. Assumed: a
   target's segments are sequences of characters, and `Segments` holds them all
   (`SegmentsAssumption`), an `int` that was parsed and a list's length fit in an `int`
   (`GivensAssumption`), a consumer of the server has a `max_deliver` that is -1 or positive
   (`ServerAssumption`), and an `int` holds at least 5.
10. *Missing consumers* (`MissingWatchProofs`). `TypeOK` is proved, and no run checks it.
    `UncreatedStaysMissing` is `StoppedStaysMissing`, which the code breaks, with the one
    case excluded in which it does. `GoneInv` is why: what a report is under way for, what `r.missing` holds and what the watcher has in hand no longer exists,
    so a lookup cannot find it. `UnopenedInv` says that a Start meets no remains of another in what
    it is about to open, and `WatchInv` that no watcher runs while one opens, so that the consumer
    a Start creates is none of those. `LoggedIsGone` is the other half and
    what the invariant leaves of `LoggedIsDeaf`: the watcher raises no false alarm about a
    consumer of the last Start that nobody created again, however long ago its Range read
    `r.missing`.

Only model-checked: all liveness (`DeafIsLogged`, `RecoveredIsForgotten`, `WatcherEnds`, `CallsReturn`,
`StopReturnsDrained`, `StopReturnsInTime`, `AskersAreAnswered`, `ReceivedIsAnswered`), since fairness
and `ENABLED` are out of the prover's reach. Every other property of a passing run is a theorem.
`LoggedIsDeaf` and the other properties of findings do not hold.

## What is not modelled

* `lateStartLogged`: a rate limit for one log line. `now` is read before its lock is taken, so
  handlers may be counted in another order than they came; that changes a skipped count and
  nothing else.
* `checkEndpointStreams`: one question to the server for each endpoint at `Start`, in `Runtime`
  a reason for `Start` to fail. It keeps no state, and nothing is promised after `Start`.
* Ordered consumers beyond their settings: nats.go creates them again itself, and
  `consumeError` leaves them alone.
* Payloads, error texts, logging other than of missing consumers and final failures,
  connection options, panics (an error by the time they matter), and time in `Runtime`.
* In `Metadata`, a `Mesh-Timeout` so large that it overflows, which only programs that do not
  use this package's calls send, and a successful handler that sets `Mesh-Handler-Error` on its
  own: one that copies it from what the chain began with is there.
* In `Redelivery`, a delivery whose metadata cannot be read: it has neither a deadline nor a
  final log. `Metadata` has it.
* What the accessors return, and the examples and runbook programs, which call the package
  once and print. The life of the `serve` program is the process of `Redelivery`.

## Plan

Done, in this order: `Runtime`, its proofs, `MissingWatch`, `Request`, `Settings`; then
`Settlement` and the refinement, the handlers that call back, `Redelivery`, `Metadata`,
group-less consumers, calls and pull options in `Settings`, and the proofs about `Request`;
then the proofs of what both endings of `Stop` leave, and about `Metadata`, `Redelivery`,
`Settings` and `MissingWatch`; what still holds of `Redelivery` while processes write different
settings, subjects of any length, and what the watcher logs; and last, `Stop`'s `abandon` step by
step, deliveries whose metadata cannot be read, and failures that are copied.

Left: an abstract specification of `r.missing` (reported, logged, forgotten) that `MissingWatch`
implements but for the findings, and liveness for every value of the constants.
