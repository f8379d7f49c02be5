------------------------------ MODULE Runtime ------------------------------
(***************************************************************************)
(* The life of a Runtime (src/nats/runtime*.go): Start opens one receiver  *)
(* for each endpoint and subscriber, every receiver hands its messages to  *)
(* handlers through dispatch, and Stop drains what was received.           *)
(*                                                                         *)
(* Four kinds of goroutine interleave here: the caller of Start or Stop,   *)
(* which holds r.mu and so is alone; the goroutine Stop starts to wait for *)
(* the drain; one callback goroutine for each receiver, which nats.go runs *)
(* one message at a time; and one goroutine for each handler.              *)
(*                                                                         *)
(* A member of Messages is one delivery: JetStream sending a message again *)
(* is another member.  nats.go is external, and is modelled by what        *)
(* src/nats relies on it for: what Drain, Unsubscribe and Close do to      *)
(* buffered messages, and when a receiver counts as closed.                *)
(***************************************************************************)
EXTENDS Naturals, Sequences, FiniteSets

CONSTANTS
    Messages,      \* the deliveries that may arrive
    Subscriptions, \* r.subscriptions, as the sequence of their kinds
    Target,        \* the subscription a message's subject leads to
    Concurrency,   \* the capacity of r.sem
    MaxStarts      \* bound: how often Start gets past checkStartable

\* A subscription is a core endpoint, a core subscriber, a JetStream subscriber
\* that acks by its handler's result, with or without the server's
\* confirmation, or a JetStream subscriber without acks.
Kinds == {"endpoint", "subscriber", "ack", "double", "noack"}

Receivers == DOMAIN Subscriptions
Starts == 1..MaxStarts

ASSUME SubscriptionsAssumption ==
    /\ Subscriptions \in Seq(Kinds)
    /\ Target \in [Messages -> Receivers]
ASSUME MessagesAssumption == IsFiniteSet(Messages)
ASSUME ConcurrencyAssumption == Concurrency \in Nat \ {0}
ASSUME MaxStartsAssumption == MaxStarts \in Nat

Kind(m) == Subscriptions[Target[m]]

\* jsConsumer.acks: Stop tracks and settles only these deliveries.
Acking(m) == Kind(m) \in {"ack", "double"}

CoreReceivers == {i \in Receivers : Subscriptions[i] \in {"endpoint", "subscriber"}}
Consumers == Receivers \ CoreReceivers

VARIABLES
    state,      \* r.state
    life,       \* where the method that holds r.mu is
    result,     \* what Stop returns, once it has chosen
    starts,     \* how many handler contexts Start has made
    next,       \* the subscription openReceivers is at
    drain,      \* where Stop's drain goroutine is
    toAbandon,  \* the deliveries abandonPending has copied and not reached
    inHand,     \* the one Stop's abandon has settled and not nacked
    budget,     \* "spent" when waitConsumersClosed gave up
    accepting,  \* r.accepting
    cancelled,  \* the Starts whose handler context is cancelled
    sem,        \* how many values r.sem holds
    wg,         \* r.wg's counter
    pending,    \* r.pending
    recv,       \* what nats.go does for the receiver of each Start
    client,     \* the Client and its connection
    pc,         \* where each message is
    startOf,    \* the Start whose receiver took the message, 0 before that
    dstate,     \* delivery.state
    answers     \* what the runtime has sent about each message, in order

lifecycle == <<state, life, result, starts, next, drain, toAbandon, inHand, budget>>
intake == <<accepting, cancelled, sem, wg, pending>>
connection == <<recv, client>>
deliveries == <<pc, startOf, dstate, answers>>
vars == <<lifecycle, intake, connection, deliveries>>

\* Where a message can be.  "received" to "abandoning" happen in the receiver's
\* callback, "spawned" to "leaving" on the handler's goroutine.  A handler that
\* is "asking" has called a method of the runtime that takes r.mu.
InCallback == {"received", "waiting", "slotted", "refused", "abandoning"}
InHandler == {"spawned", "handling", "asking", "succeeded", "failed", "acking",
              "nakking", "confirming", "unwinding"}
Places == {"idle", "buffered", "leaving", "done", "dropped"} \cup InCallback \cup InHandler

LifecycleTyped ==
    /\ state \in {"created", "running", "stopped"}
    /\ life \in {"idle", "opening", "aborting", "cancelling", "closing gate",
                 "draining", "flushing", "gating", "copying", "abandoning",
                 "awaiting", "closing", "returned"}
    /\ result \in {"none", "nil", "ctx"}
    /\ starts \in 0..MaxStarts
    /\ next \in 1..(Len(Subscriptions) + 1)
    /\ drain \in {"none", "subs", "consumers", "gate", "waiting", "done"}
    /\ toAbandon \subseteq Messages /\ inHand \subseteq Messages
    /\ budget \in {"left", "spent"}

IntakeTyped ==
    /\ accepting \in BOOLEAN
    /\ cancelled \subseteq Starts
    /\ pending \subseteq Messages

CountersTyped == sem \in 0..Concurrency /\ wg \in Nat

ConnectionTyped ==
    /\ recv \in [Starts -> [Receivers -> {"none", "open", "draining", "drained", "stopped"}]]
    /\ client \in {"open", "closed directly", "closed by Stop"}

DeliveriesTyped ==
    /\ pc \in [Messages -> Places]
    /\ startOf \in [Messages -> 0..MaxStarts]
    /\ dstate \in [Messages -> {"waiting", "running", "settled"}]
    /\ answers \in [Messages -> Seq({"ack", "nak", "reply", "lost"})]

TypeOK == LifecycleTyped /\ IntakeTyped /\ CountersTyped /\ ConnectionTyped /\ DeliveriesTyped

Init ==
    /\ state = "created" /\ life = "idle" /\ result = "none"
    /\ starts = 0 /\ next = 1
    /\ drain = "none" /\ toAbandon = {} /\ inHand = {} /\ budget = "left"
    /\ accepting = FALSE /\ cancelled = {}
    /\ sem = 0 /\ wg = 0 /\ pending = {}
    /\ recv = [g \in Starts |-> [i \in Receivers |-> "none"]]
    /\ client = "open"
    /\ pc = [m \in Messages |-> "idle"]
    /\ startOf = [m \in Messages |-> 0]
    /\ dstate = [m \in Messages |-> "waiting"]
    /\ answers = [m \in Messages |-> <<>>]

ClientClosed == client # "open"

-----------------------------------------------------------------------------
(* What nats.go does (external).  A receiver is open from the moment it is   *)
(* subscribed.  Drain makes it draining: the server may still send until it  *)
(* has processed the unsubscribe, then the receiver is drained and only what *)
(* is buffered reaches the callback.  Unsubscribe, Stop and closing the      *)
(* connection make it stopped: what is buffered is dropped.  In each case a  *)
(* callback that is running finishes.                                        *)

ReceivedBy(g, i) == {m \in Messages : startOf[m] = g /\ Target[m] = i}
CallbackIdle(g, i) == \A m \in ReceivedBy(g, i) : pc[m] \notin InCallback

\* StatusChanged(SubscriptionClosed) and ConsumeContext.Closed.
ReceiverClosed(g, i) ==
    /\ recv[g][i] \in {"drained", "stopped"}
    /\ CallbackIdle(g, i)
    /\ \A m \in ReceivedBy(g, i) : pc[m] # "buffered"

\* The effect on buffered messages when the receivers of the Starts in G stop.
DropBuffered(G) ==
    pc' = [m \in Messages |->
             IF pc[m] = "buffered" /\ startOf[m] \in G THEN "dropped" ELSE pc[m]]

SetReceivers(G, from, to) ==
    recv' = [g \in Starts |-> [i \in Receivers |->
               IF g \in G /\ recv[g][i] \in from THEN to ELSE recv[g][i]]]

CloseConnection ==
    /\ SetReceivers(Starts, {"open", "draining", "drained"}, "stopped")
    /\ DropBuffered(Starts)

\* The server sends a message to the receiver its subject leads to.
Arrive(m) ==
    /\ pc[m] = "idle"
    /\ starts > 0
    /\ recv[starts][Target[m]] \in {"open", "draining"}
    /\ pc' = [pc EXCEPT ![m] = "buffered"]
    /\ startOf' = [startOf EXCEPT ![m] = starts]
    /\ UNCHANGED <<lifecycle, intake, connection, dstate, answers>>

\* The server has processed a draining receiver's unsubscribe.
InterestGone(i) ==
    /\ starts > 0
    /\ recv[starts][i] = "draining"
    /\ recv' = [recv EXCEPT ![starts][i] = "drained"]
    /\ UNCHANGED <<lifecycle, intake, client, deliveries>>

\* The program calls Client.Close itself, which the runtime does not prevent.
CloseClientDirectly ==
    /\ ~ClientClosed
    /\ client' = "closed directly"
    /\ CloseConnection
    /\ UNCHANGED <<lifecycle, intake, startOf, dstate, answers>>

-----------------------------------------------------------------------------
(* Start, which holds r.mu from StartBegin until it returns.  A call that    *)
(* checkStartable or the closed client refuses changes nothing.  Running is  *)
(* state = "running".                                                        *)

\* Mutation: each Start makes its own semaphore.
StartBeginWithFreshSlots ==
    /\ life = "idle" /\ state = "created" /\ ~ClientClosed
    /\ starts < MaxStarts
    /\ starts' = starts + 1
    /\ accepting' = TRUE
    /\ next' = 1
    /\ sem' = 0
    /\ life' = "opening"
    /\ UNCHANGED <<state, result, drain, toAbandon, inHand, budget, cancelled, wg, pending,
                   connection, deliveries>>

StartBegin ==
    /\ life = "idle" /\ state = "created" /\ ~ClientClosed
    /\ starts < MaxStarts
    /\ starts' = starts + 1
    /\ accepting' = TRUE
    /\ next' = 1
    /\ life' = "opening"
    /\ UNCHANGED <<state, result, drain, toAbandon, inHand, budget, cancelled, sem, wg,
                   pending, connection, deliveries>>

\* One turn of openReceivers' loop: subscribe, or openConsumer and Consume.
OpenReceiver ==
    /\ life = "opening" /\ next <= Len(Subscriptions) /\ ~ClientClosed
    /\ recv' = [recv EXCEPT ![starts][next] = "open"]
    /\ next' = next + 1
    /\ UNCHANGED <<state, life, result, starts, drain, toAbandon, inHand, budget, intake,
                   client, deliveries>>

\* The boot check, opening a receiver or the flush fails.
StartFails ==
    /\ life = "opening"
    /\ life' = "aborting"
    /\ UNCHANGED <<state, result, starts, next, drain, toAbandon, inHand, budget, intake,
                   connection, deliveries>>

StartSucceeds ==
    /\ life = "opening" /\ next = Len(Subscriptions) + 1 /\ ~ClientClosed
    /\ state' = "running"
    /\ life' = "idle"
    /\ UNCHANGED <<result, starts, next, drain, toAbandon, inHand, budget, intake,
                   connection, deliveries>>

\* abortStart: Unsubscribe and Stop every receiver opened so far, then
\* cancelHandlers, then setAccepting(false).
AbortReceivers ==
    /\ life = "aborting"
    /\ SetReceivers({starts}, {"open"}, "stopped")
    /\ DropBuffered({starts})
    /\ life' = "cancelling"
    /\ UNCHANGED <<state, result, starts, next, drain, toAbandon, inHand, budget, intake,
                   client, startOf, dstate, answers>>

AbortContext ==
    /\ life = "cancelling"
    /\ cancelled' = cancelled \cup {starts}
    /\ life' = "closing gate"
    /\ UNCHANGED <<state, result, starts, next, drain, toAbandon, inHand, budget, accepting,
                   sem, wg, pending, connection, deliveries>>

\* Mutation: a failed Start returns without unlocking r.mu.
AbortKeepsLock == life = "closing gate" /\ UNCHANGED vars

AbortGate ==
    /\ life = "closing gate"
    /\ accepting' = FALSE
    /\ life' = "idle"
    /\ UNCHANGED <<state, result, starts, next, drain, toAbandon, inHand, budget, cancelled,
                   sem, wg, pending, connection, deliveries>>

-----------------------------------------------------------------------------
(* What the runtime sends about a message reaches the connection, or fails   *)
(* because the connection has closed.                                        *)
Send(m, answer) ==
    answers' = [answers EXCEPT ![m] = Append(@, IF ClientClosed THEN "lost" ELSE answer)]

MoveTo(m, place) == pc' = [pc EXCEPT ![m] = place]

\* Mutation: settle looks at what was sent, not at the state it marks.
SettledWhenSent(m) == answers[m] # <<>>

\* What begin and settle find under the delivery's lock.
AlreadySettled(m) == dstate[m] = "settled"

-----------------------------------------------------------------------------
(* A receiver's callback: receive for a JetStream consumer, subscribe's      *)
(* closure for a core subscription, and dispatch in both.                    *)

\* nats.go calls back with a buffered message, and receive tracks it first.
Deliver(m) ==
    /\ pc[m] = "buffered" /\ CallbackIdle(startOf[m], Target[m])
    /\ MoveTo(m, "received")
    /\ pending' = IF Acking(m) THEN pending \cup {m} ELSE pending
    /\ UNCHANGED <<lifecycle, accepting, cancelled, sem, wg, connection, startOf,
                   dstate, answers>>

\* Mutation: dispatch does not look at its receiver's context.
DispatchableIfAccepting(m) == accepting

Dispatchable(m) == accepting /\ startOf[m] \notin cancelled

\* dispatch's check before it waits for a slot.
FirstCheck(m) ==
    /\ pc[m] = "received"
    /\ MoveTo(m, IF Dispatchable(m) THEN "waiting" ELSE "refused")
    /\ UNCHANGED <<lifecycle, intake, connection, startOf, dstate, answers>>

TakeSlot(m) ==
    /\ pc[m] = "waiting" /\ sem < Concurrency
    /\ sem' = sem + 1
    /\ MoveTo(m, "slotted")
    /\ UNCHANGED <<lifecycle, accepting, cancelled, wg, pending, connection, startOf,
                   dstate, answers>>

\* Mutation: a callback that gives up waiting frees a slot it never took.
GiveUpWaitingAndRelease(m) ==
    /\ pc[m] = "waiting" /\ startOf[m] \in cancelled
    /\ MoveTo(m, "refused")
    /\ sem' = sem - 1
    /\ UNCHANGED <<lifecycle, accepting, cancelled, wg, pending, connection, startOf,
                   dstate, answers>>

GiveUpWaiting(m) ==
    /\ pc[m] = "waiting" /\ startOf[m] \in cancelled
    /\ MoveTo(m, "refused")
    /\ UNCHANGED <<lifecycle, intake, connection, startOf, dstate, answers>>

\* Mutation: the check under the lock looks at the context only.
DispatchableIfNotCancelled(m) == startOf[m] \notin cancelled

\* dispatch's check under acceptMu, once it holds a slot: Spawn or TurnAway.
StillDispatchable(m) == Dispatchable(m)

Spawn(m) ==
    /\ pc[m] = "slotted" /\ StillDispatchable(m)
    /\ wg' = wg + 1
    /\ MoveTo(m, "spawned")
    /\ UNCHANGED <<lifecycle, accepting, cancelled, sem, pending, connection, startOf,
                   dstate, answers>>

\* Mutation: the slot is not given back.
TurnAwayKeepingSlot(m) ==
    /\ pc[m] = "slotted" /\ ~StillDispatchable(m)
    /\ MoveTo(m, "refused")
    /\ UNCHANGED <<lifecycle, intake, connection, startOf, dstate, answers>>

TurnAway(m) ==
    /\ pc[m] = "slotted" /\ ~StillDispatchable(m)
    /\ sem' = sem - 1
    /\ MoveTo(m, "refused")
    /\ UNCHANGED <<lifecycle, accepting, cancelled, wg, pending, connection, startOf,
                   dstate, answers>>

\* Mutation: receive does not abandon what dispatch refuses.
DropRefusedAlways(m) ==
    /\ pc[m] = "refused"
    /\ MoveTo(m, "dropped")
    /\ UNCHANGED <<lifecycle, intake, connection, startOf, dstate, answers>>

\* The callback of a refused message returns, unless it must abandon it first.
DropRefused(m) ==
    /\ pc[m] = "refused"
    /\ Acking(m) => AlreadySettled(m)
    /\ MoveTo(m, "dropped")
    /\ UNCHANGED <<lifecycle, intake, connection, startOf, dstate, answers>>

\* Mutation: abandon does not untrack the delivery.
AbandonRefusedTracked(m) ==
    /\ pc[m] = "refused" /\ Acking(m) /\ ~AlreadySettled(m)
    /\ dstate' = [dstate EXCEPT ![m] = "settled"]
    /\ MoveTo(m, "abandoning")
    /\ UNCHANGED <<lifecycle, intake, connection, startOf, answers>>

\* abandon, called by receive: settle and untrack, then nak.  Of r.pending in
\* between only Stop takes a copy, and it passes over what is settled.
AbandonRefused(m) ==
    /\ pc[m] = "refused" /\ Acking(m) /\ ~AlreadySettled(m)
    /\ dstate' = [dstate EXCEPT ![m] = "settled"]
    /\ pending' = pending \ {m}
    /\ MoveTo(m, "abandoning")
    /\ UNCHANGED <<lifecycle, accepting, cancelled, sem, wg, connection, startOf,
                   answers>>

NakRefused(m) ==
    /\ pc[m] = "abandoning"
    /\ Send(m, "nak")
    /\ MoveTo(m, "dropped")
    /\ UNCHANGED <<lifecycle, intake, connection, startOf, dstate>>

-----------------------------------------------------------------------------
(* A handler's goroutine: serveJetStream for a JetStream delivery, serve for *)
(* a core message.  A panic is an error by the time it gets here.            *)

\* Mutation: the handler runs although Stop has abandoned its delivery.
BeginRegardless(m) ==
    /\ pc[m] = "spawned"
    /\ MoveTo(m, "handling")
    /\ UNCHANGED <<lifecycle, intake, connection, startOf, dstate, answers>>

\* begin: a delivery Stop has abandoned never reaches its handler.
BeginHandler(m) ==
    /\ pc[m] = "spawned"
    /\ IF Acking(m) /\ AlreadySettled(m)
         THEN /\ MoveTo(m, "unwinding")
              /\ UNCHANGED dstate
         ELSE /\ MoveTo(m, "handling")
              /\ dstate' = IF Acking(m) THEN [dstate EXCEPT ![m] = "running"] ELSE dstate
    /\ UNCHANGED <<lifecycle, intake, connection, startOf, answers>>

\* A handler calls Receiver, Start or Stop.  Its call waits for r.mu,
\* reads r.state and returns: a Receiver, or an error of Start, or Stop's nil on
\* a runtime that is not running.  A handler that itself is the caller of the
\* Stop that drains waits for its end as any other asker does.
AskRuntime(m) ==
    /\ pc[m] = "handling"
    /\ MoveTo(m, "asking")
    /\ UNCHANGED <<lifecycle, intake, connection, startOf, dstate, answers>>

RuntimeAnswers(m) ==
    /\ pc[m] = "asking" /\ life \in {"idle", "returned"}
    /\ MoveTo(m, "handling")
    /\ UNCHANGED <<lifecycle, intake, connection, startOf, dstate, answers>>

HandlerReturns(m, how) ==
    /\ pc[m] = "handling"
    /\ MoveTo(m, how)
    /\ UNCHANGED <<lifecycle, intake, connection, startOf, dstate, answers>>

\* serve publishes an endpoint's reply, an error as a reply with a header.
Reply(m) ==
    /\ pc[m] \in {"succeeded", "failed"} /\ Kind(m) = "endpoint"
    /\ Send(m, "reply")
    /\ MoveTo(m, "unwinding")
    /\ UNCHANGED <<lifecycle, intake, connection, startOf, dstate>>

NothingToSend(m) ==
    /\ pc[m] \in {"succeeded", "failed"} /\ Kind(m) \in {"subscriber", "noack"}
    /\ MoveTo(m, "unwinding")
    /\ UNCHANGED <<lifecycle, intake, connection, startOf, dstate, answers>>

\* settle: the handler's result is discarded when Stop settled the delivery.
Settle(m) ==
    /\ pc[m] \in {"succeeded", "failed"} /\ Acking(m)
    /\ IF AlreadySettled(m)
         THEN /\ MoveTo(m, "unwinding")
              /\ UNCHANGED dstate
         ELSE /\ MoveTo(m, IF pc[m] = "succeeded" THEN "acking" ELSE "nakking")
              /\ dstate' = [dstate EXCEPT ![m] = "settled"]
    /\ UNCHANGED <<lifecycle, intake, connection, startOf, answers>>

\* untrack, then Nak, Ack, or the first half of DoubleAck.
SendResult(m) ==
    /\ pc[m] \in {"acking", "nakking"}
    /\ pending' = pending \ {m}
    /\ Send(m, IF pc[m] = "acking" THEN "ack" ELSE "nak")
    /\ MoveTo(m, IF pc[m] = "acking" /\ Kind(m) = "double" THEN "confirming"
                                                           ELSE "unwinding")
    /\ UNCHANGED <<lifecycle, accepting, cancelled, sem, wg, connection, startOf,
                   dstate>>

\* DoubleAck returns: confirmed, failed, or out of time.  The slot is held.
DoubleAckReturns(m) ==
    /\ pc[m] = "confirming"
    /\ MoveTo(m, "unwinding")
    /\ UNCHANGED <<lifecycle, intake, connection, startOf, dstate, answers>>

\* Mutation: the goroutine ends without giving its slot back.
KeepSlot(m) ==
    /\ pc[m] = "unwinding"
    /\ MoveTo(m, "leaving")
    /\ UNCHANGED <<lifecycle, intake, connection, startOf, dstate, answers>>

\* The deferred calls of dispatch's goroutine, in the order they run.
ReleaseSlot(m) ==
    /\ pc[m] = "unwinding"
    /\ sem' = sem - 1
    /\ MoveTo(m, "leaving")
    /\ UNCHANGED <<lifecycle, accepting, cancelled, wg, pending, connection, startOf,
                   dstate, answers>>

LeaveGroup(m) ==
    /\ pc[m] = "leaving"
    /\ wg' = wg - 1
    /\ MoveTo(m, "done")
    /\ UNCHANGED <<lifecycle, accepting, cancelled, sem, pending, connection, startOf,
                   dstate, answers>>

-----------------------------------------------------------------------------
(* Stop, which holds r.mu from StopBegin until it returns.  On a runtime     *)
(* that is not running it changes nothing.                                   *)

\* Drain every receiver, and start the goroutine that waits for the drain.
StopBegin ==
    /\ life = "idle" /\ state = "running"
    /\ state' = "stopped"
    /\ SetReceivers({starts}, {"open"}, "draining")
    /\ drain' = "subs"
    /\ life' = "draining"
    /\ UNCHANGED <<result, starts, next, toAbandon, inHand, budget, intake, client, deliveries>>

\* The drain goroutine: waitSubscriptionsDrained, the consumers' Closed
\* channels, setAccepting(false), wg.Wait, close(done).
DrainStep(to) ==
    /\ drain' = to
    /\ UNCHANGED <<state, life, result, starts, next, toAbandon, inHand, budget, cancelled, sem,
                   wg, pending, connection, deliveries>>

\* Mutation: the drain goroutine does not wait for the subscriptions.
SubscriptionsNotAwaited ==
    /\ drain = "subs"
    /\ DrainStep("consumers")
    /\ UNCHANGED accepting

SubscriptionsDrained ==
    /\ drain = "subs"
    /\ ClientClosed \/ \A i \in CoreReceivers : ReceiverClosed(starts, i)
    /\ DrainStep("consumers")
    /\ UNCHANGED accepting

AllConsumersClosed == \A i \in Consumers : ReceiverClosed(starts, i)

ConsumersDrained ==
    /\ drain = "consumers" /\ AllConsumersClosed
    /\ DrainStep("gate")
    /\ UNCHANGED accepting

\* Mutation: the drain goroutine waits on wg before it stops accepting.
DrainLeavesGateOpen ==
    /\ drain = "gate"
    /\ DrainStep("waiting")
    /\ UNCHANGED accepting

DrainClosesGate ==
    /\ drain = "gate"
    /\ DrainStep("waiting")
    /\ accepting' = FALSE

HandlersDone ==
    /\ drain = "waiting" /\ wg = 0
    /\ DrainStep("done")
    /\ UNCHANGED accepting

\* The select in Stop and the cancelHandlers after it.
StopChooses(how, to) ==
    /\ life = "draining"
    /\ result' = how
    /\ cancelled' = cancelled \cup {starts}
    /\ life' = to
    /\ UNCHANGED <<state, starts, next, drain, toAbandon, inHand, budget, accepting, sem, wg,
                   pending, connection, deliveries>>

StopDrained == drain = "done" /\ StopChooses("nil", "flushing")
StopExpires == StopChooses("ctx", "gating")

\* abandonDrain: setAccepting(false), abandonPending, waitConsumersClosed.
AbandonClosesGate ==
    /\ life = "gating"
    /\ accepting' = FALSE
    /\ life' = "copying"
    /\ UNCHANGED <<state, result, starts, next, drain, toAbandon, inHand, budget, cancelled, sem,
                   wg, pending, connection, deliveries>>

\* Mutation: only deliveries whose handler has begun are abandoned.
CopyRunning ==
    /\ life = "copying"
    /\ toAbandon' = {m \in pending : dstate[m] = "running"}
    /\ life' = "abandoning"
    /\ UNCHANGED <<state, result, starts, next, drain, inHand, budget, intake, connection,
                   deliveries>>

CopyPending ==
    /\ life = "copying"
    /\ toAbandon' = pending
    /\ life' = "abandoning"
    /\ UNCHANGED <<state, result, starts, next, drain, inHand, budget, intake, connection,
                   deliveries>>

\* abandon, called by Stop, one delivery after the other: settle, untrack, nak.
\* A handler, or the callback of a refused message, may find the delivery
\* settled and end between any two of them.
AbandonPending(m) ==
    /\ life = "abandoning" /\ inHand = {} /\ m \in toAbandon
    /\ toAbandon' = toAbandon \ {m}
    /\ IF AlreadySettled(m)
         THEN UNCHANGED <<dstate, inHand>>
         ELSE /\ dstate' = [dstate EXCEPT ![m] = "settled"]
              /\ inHand' = {m}
    /\ UNCHANGED <<state, life, result, starts, next, drain, budget, intake,
                   connection, pc, startOf, answers>>

UntrackAbandoned(m) ==
    /\ life = "abandoning" /\ m \in inHand \cap pending
    /\ pending' = pending \ {m}
    /\ UNCHANGED <<lifecycle, accepting, cancelled, sem, wg, connection, deliveries>>

NakAbandoned(m) ==
    /\ life = "abandoning" /\ m \in inHand \ pending
    /\ inHand' = inHand \ {m}
    /\ Send(m, "nak")
    /\ UNCHANGED <<state, life, result, starts, next, drain, toAbandon, budget, intake,
                   connection, pc, startOf, dstate>>

AbandonStep(m) == AbandonPending(m) \/ UntrackAbandoned(m) \/ NakAbandoned(m)

PendingAbandoned ==
    /\ life = "abandoning" /\ toAbandon = {} /\ inHand = {}
    /\ life' = "awaiting"
    /\ UNCHANGED <<state, result, starts, next, drain, toAbandon, inHand, budget, intake,
                   connection, deliveries>>

AwaitEnds(left) ==
    /\ budget' = left
    /\ life' = "closing"
    /\ UNCHANGED <<state, result, starts, next, drain, toAbandon, inHand, intake, connection,
                   deliveries>>

\* Mutation: the wait for the consumers has no time limit.
BudgetNeverRunsOut == life = "awaiting" /\ ~AllConsumersClosed /\ FALSE /\ AwaitEnds("spent")

ConsumersClosed == life = "awaiting" /\ AllConsumersClosed /\ AwaitEnds("left")
BudgetRunsOut == life = "awaiting" /\ ~AllConsumersClosed /\ AwaitEnds("spent")

\* flushOnStop when the drain finished, which changes no state here, and then
\* Client.Close.
StopClosesClient ==
    /\ life \in {"flushing", "closing"}
    /\ client' = IF ClientClosed THEN client ELSE "closed by Stop"
    /\ CloseConnection
    /\ life' = "returned"
    /\ UNCHANGED <<state, result, starts, next, drain, toAbandon, inHand, budget, intake,
                   startOf, dstate, answers>>

-----------------------------------------------------------------------------
StartStep ==
    \/ StartBegin \/ OpenReceiver \/ StartFails \/ StartSucceeds
    \/ AbortReceivers \/ AbortContext \/ AbortGate

StopStep ==
    \/ StopBegin \/ StopDrained \/ StopExpires
    \/ AbandonClosesGate \/ CopyPending
    \/ \E m \in Messages : AbandonStep(m)
    \/ PendingAbandoned \/ ConsumersClosed \/ BudgetRunsOut \/ StopClosesClient

DrainGoroutineStep ==
    SubscriptionsDrained \/ ConsumersDrained \/ DrainClosesGate \/ HandlersDone

CallbackStep(m) ==
    \/ Deliver(m) \/ FirstCheck(m) \/ TakeSlot(m) \/ GiveUpWaiting(m) \/ Spawn(m)
    \/ TurnAway(m) \/ DropRefused(m) \/ AbandonRefused(m) \/ NakRefused(m)

HandlerStep(m) ==
    \/ BeginHandler(m) \/ RuntimeAnswers(m) \/ Reply(m) \/ NothingToSend(m) \/ Settle(m) \/ SendResult(m)
    \/ DoubleAckReturns(m) \/ ReleaseSlot(m) \/ LeaveGroup(m)

\* What the program's own handler does.
HandlerCode(m) ==
    AskRuntime(m) \/ \E how \in {"succeeded", "failed"} : HandlerReturns(m, how)

Next ==
    \/ StartStep \/ StopStep \/ DrainGoroutineStep \/ CloseClientDirectly
    \/ \E i \in Receivers : InterestGone(i)
    \/ \E m \in Messages :
         Arrive(m) \/ CallbackStep(m) \/ HandlerStep(m) \/ HandlerCode(m)

Spec == Init /\ [][Next]_vars

-----------------------------------------------------------------------------
(* Fairness.  Goroutines that can run do run, and Start and Stop do not stop *)
(* half way: while Stop waits in its select only the drain's end is fair.    *)
(* That the program calls Start or Stop, and that a context expires, is not  *)
(* assumed unless a specification below says so.                             *)
RuntimeFairness ==
    /\ WF_vars(life # "idle" /\ StartStep)
    /\ WF_vars(life \notin {"idle", "draining"} /\ StopStep)
    /\ WF_vars(StopDrained)
    /\ WF_vars(DrainGoroutineStep)
    /\ \A m \in Messages : WF_vars(CallbackStep(m)) /\ WF_vars(HandlerStep(m))

FairSpec == Spec /\ RuntimeFairness

\* What StopReturns and ReceivedIsAnswered further rest on, each time stated as
\* their hypothesis.  A handler may ask the runtime again and again, but does
\* not for ever.
HandlersReturn ==
    \A m \in Messages : SF_vars(\E how \in {"succeeded", "failed"} : HandlerReturns(m, how))
UnsubscribesArrive == \A i \in Receivers : WF_vars(InterestGone(i))
StopContextExpires == WF_vars(StopExpires)
NobodyAsks == [](\A m \in Messages : pc[m] # "asking")

-----------------------------------------------------------------------------
(* Properties.                                                               *)

\* A delivery is answered at most once, whichever of its handler, its callback
\* and Stop gets to settle it: never an ack and a nak, never two naks.
AnsweredOnce == \A m \in Messages : Len(answers[m]) <= 1

\* The places where a delivery is tracked until somebody settles it.
Tracked == {"received", "waiting", "slotted", "refused", "spawned", "handling",
            "asking", "succeeded", "failed"}

\* How far Settlement's account of a delivery is, by where the message is.
StageOf(place) ==
    CASE place \in {"idle", "buffered"}                       -> "unseen"
      [] place \in InCallback \cup {"spawned"}                -> "taken"
      [] place \in {"handling", "asking"}                     -> "running"
      [] place \in {"succeeded", "acking"}                    -> "succeeded"
      [] place \in {"failed", "nakking"}                      -> "failed"
      [] place \in {"confirming", "unwinding", "leaving",
                    "done", "dropped"}                        -> "over"

AnswerOf(sent) ==
    CASE Len(sent) = 0 -> "none"
      [] Len(sent) = 1 -> sent[1]
      [] Len(sent) > 1 -> "several"

\* What whoever settled the delivery has still to send.
OwedOf(place, settled, sent) ==
    CASE ~settled                                         -> "undecided"
      [] settled /\ place \in {"acking", "nakking"}       -> "result"
      [] settled /\ place \notin {"acking", "nakking"}    ->
           IF sent = <<>> THEN "nak" ELSE "nothing"

Promise == INSTANCE Settlement WITH
    Deliveries <- Messages,
    Acks <- {m \in Messages : Acking(m)},
    stage <- [m \in Messages |-> StageOf(pc[m])],
    owed <- [m \in Messages |-> OwedOf(pc[m], AlreadySettled(m), answers[m])],
    answer <- [m \in Messages |-> AnswerOf(answers[m])]

\* Through all its interleavings the runtime does to a delivery only what
\* Settlement allows: no handler begins on what Stop has given up, an ack only
\* follows a success, and nothing an acking consumer handed over is let go of
\* unless its answer is sent or somebody else has settled it and owes the nak.
KeepsPromise == Promise!Spec

\* r.pending is what Stop must nak: every delivery of an acking consumer that
\* is not settled, from its arrival on.  It holds no delivery whose callback or
\* handler has finished, which would be memory never released, but the one that
\* Stop's abandon has settled and is about to untrack.
PendingIsUnsettled ==
    \A m \in Messages :
      /\ Acking(m) /\ pc[m] \in Tracked /\ ~AlreadySettled(m) => m \in pending
      /\ m \in pending =>
           Acking(m) /\ (pc[m] \in Tracked \cup {"acking", "nakking"} \/ m \in inHand)

\* The messages that hold a slot, and those whose goroutine is in r.wg.
SlotHolders == {m \in Messages : pc[m] \in InHandler \cup {"slotted"}}
Group == {m \in Messages : pc[m] \in InHandler \cup {"leaving"}}

\* The semaphore and the wait group count exactly the messages that hold a
\* slot and the goroutines that still run, on every way out of dispatch.
CountersMatch == sem = Cardinality(SlotHolders) /\ wg = Cardinality(Group)

\* Handlers left from a failed Start and those of a later one share the limit.
BoundedHandlers == Cardinality({m \in Messages : pc[m] \in InHandler}) <= Concurrency

\* Once Stop chose the drain's end, no handler of any Start runs, ever again,
\* though a callback may still be waiting for a slot when the drain ends.
QuietAfterDrain == result = "nil" => Group = {}

\* When the drain ended and nobody else closed the client, every message the
\* running receivers were sent went through its handler, and its ack, nak or
\* reply was sent before the connection closed.
CleanDrain ==
    result = "nil" /\ client # "closed directly" =>
      \A m \in Messages : startOf[m] = starts =>
        /\ pc[m] = "done"
        /\ Acking(m) => answers[m] \in {<<"ack">>, <<"nak">>}
        /\ Kind(m) = "endpoint" => answers[m] = <<"reply">>

\* When Stop's context expired first and its budget sufficed, no delivery the
\* running receivers were sent is left unsettled, buffered or in a callback,
\* and the answers Stop and the callbacks gave reached the connection.  Only
\* a handler that settled its own delivery may find the connection closed.
CleanAbandon ==
    life = "returned" /\ result = "ctx" /\ budget = "left" /\ client = "closed by Stop" =>
      \A m \in Messages : Acking(m) /\ startOf[m] = starts =>
        /\ AlreadySettled(m)
        /\ pc[m] \notin InCallback \cup {"buffered"}
        /\ answers[m] = <<>> => pc[m] \in {"acking", "nakking"}
        /\ answers[m] = <<"lost">> => pc[m] \in {"confirming", "unwinding", "leaving", "done"}

\* The runtime serves from the moment Start accepts until Start fails or Stop
\* has chosen.
Serving ==
    \/ life \in {"opening", "aborting", "cancelling", "draining"}
    \/ life = "idle" /\ state = "running"

\* A handler is only ever spawned while the Start that opened its receiver is
\* serving: never by a receiver left from a failed Start once that Start has
\* returned, even when a later Start accepts again.
SpawnsOnlyWhileServing ==
    [][\A m \in Messages :
         pc[m] # "spawned" /\ pc'[m] = "spawned" => Serving /\ startOf[m] = starts]_vars

\* No handler is added to the wait group once Stop has begun waiting on it.
GroupNeverGrowsWhileAwaited ==
    [][(drain \in {"waiting", "done"}) => (wg' <= wg)]_vars

StopReturns == life = "draining" ~> life = "returned"

\* Stop returns without its context's help when handlers return and the server
\* answers, as long as no handler waits for the r.mu that Stop holds.
StopReturnsDrained ==
    HandlersReturn /\ UnsubscribesArrive /\ NobodyAsks => StopReturns

\* Once its context expires Stop returns whatever handlers and the server do.
StopReturnsInTime == StopContextExpires => StopReturns

\* Every handler that asks the runtime something gets its answer, though Stop
\* may be waiting for that very handler while it holds r.mu.
AskersAreAnswered ==
    StopContextExpires => \A m \in Messages : pc[m] = "asking" ~> pc[m] = "handling"

\* Every delivery an acking consumer received is answered in the end, by its
\* handler's result or by an abandoning nak, whatever Start and Stop do.
ReceivedIsAnswered ==
    HandlersReturn /\ UnsubscribesArrive /\ (NobodyAsks \/ StopContextExpires) =>
      \A m \in Messages : pc[m] = "received" /\ Acking(m) ~> answers[m] # <<>>

\* docs/transport-specific-implementation.md says of a handler still running
\* when the drain ends that "a late reply is not sent".
LateReplyIsNotSent ==
    \A m \in Messages :
      [](result = "ctx" /\ pc[m] = "handling" => [](answers[m] # <<"reply">>))
=============================================================================
