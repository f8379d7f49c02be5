--------------------------- MODULE RuntimeProofs ---------------------------
(***************************************************************************)
(* Proofs about Runtime, for every set of messages and subscriptions, every *)
(* concurrency and every number of Starts.                                  *)
(***************************************************************************)
EXTENDS Runtime, TLAPS, FiniteSetTheorems

\* Everything but the counters, whose types need what they count.
Typed ==
    /\ LifecycleTyped /\ IntakeTyped /\ ConnectionTyped /\ DeliveriesTyped

\* Where a method, a state and a drain can meet: r.mu is held by Start or by
\* Stop, Stop runs only after a Start succeeded, and it runs once.
Phases ==
    /\ starts = 0 => life = "idle" /\ state = "created"
    /\ state = "created" =>
         /\ life \in {"idle", "opening", "aborting", "cancelling", "closing gate"}
         /\ drain = "none" /\ result = "none"
    /\ state = "running" => life = "idle" /\ drain = "none" /\ result = "none"
    /\ state = "stopped" =>
         /\ life \in {"draining", "flushing", "gating", "copying", "abandoning",
                      "awaiting", "closing", "returned"}
         /\ drain # "none"
    /\ life = "draining" => result = "none"
    /\ life = "flushing" => result = "nil"
    /\ life \in {"gating", "copying", "abandoning", "awaiting", "closing"} => result = "ctx"
    /\ result = "nil" => drain = "done"
    /\ inHand # {} => life = "abandoning"

\* The sequence of subscriptions has a length, which bounds openReceivers' loop.
LEMMA SubscriptionsLength == Len(Subscriptions) \in Nat
  BY SubscriptionsAssumption

\* A runtime as New returns it is well typed and between its methods.
LEMMA TypedInit ==
  ASSUME Init
  PROVE  Typed /\ Phases
<1>1. LifecycleTyped
  BY SubscriptionsLength, MaxStartsAssumption DEF Init, LifecycleTyped
<1>2. IntakeTyped /\ ConnectionTyped
  BY DEF Init, IntakeTyped, ConnectionTyped
<1>3. DeliveriesTyped
  BY MaxStartsAssumption DEF Init, DeliveriesTyped, Places
<1> QED
  BY <1>1, <1>2, <1>3 DEF Init, Typed, Phases

\* Callbacks, handlers, nats.go and the program that closes the client touch
\* none of what Start, Stop and the drain goroutine own (r.mu, r.acceptMu).
LEMMA OthersLeaveLifecycle ==
  ASSUME Next, ~StartStep, ~StopStep, ~DrainGoroutineStep
  PROVE  UNCHANGED lifecycle /\ UNCHANGED accepting /\ UNCHANGED cancelled
<1>1. CASE CloseClientDirectly \/ \E i \in Receivers : InterestGone(i)
  BY <1>1 DEF CloseClientDirectly, InterestGone, intake
<1>2. ASSUME NEW m \in Messages, Arrive(m) \/ CallbackStep(m)
      PROVE  UNCHANGED lifecycle /\ UNCHANGED accepting /\ UNCHANGED cancelled
  BY <1>2 DEF Arrive, CallbackStep, Deliver, FirstCheck, TakeSlot, GiveUpWaiting, Spawn,
     TurnAway, DropRefused, AbandonRefused, NakRefused, intake
<1>3. ASSUME NEW m \in Messages,
             HandlerStep(m) \/ HandlerCode(m)
      PROVE  UNCHANGED lifecycle /\ UNCHANGED accepting /\ UNCHANGED cancelled
  BY <1>3 DEF HandlerStep, HandlerCode, AskRuntime, HandlerReturns, BeginHandler,
     RuntimeAnswers, Reply, NothingToSend, Settle, SendResult, DoubleAckReturns, ReleaseSlot,
     LeaveGroup, intake
<1> QED
  BY <1>1, <1>2, <1>3 DEF Next

\* Stop's abandon touches only the state, the tracking and the answer of a
\* delivery (Runtime.abandon).
LEMMA AbandonLeaves ==
  ASSUME NEW m \in Messages, AbandonStep(m)
  PROVE  /\ UNCHANGED <<state, life, result, starts, next, drain, budget>>
         /\ UNCHANGED <<accepting, cancelled, sem, wg, recv, client, pc, startOf>>
         /\ life = "abandoning"
         /\ toAbandon' \subseteq toAbandon /\ inHand' \subseteq inHand \cup {m}
         /\ pending' \subseteq pending
  BY DEF AbandonStep, AbandonPending, UntrackAbandoned, NakAbandoned, lifecycle, intake,
     connection, deliveries

\* Start, Stop and the drain goroutine follow one another as r.mu and r.state
\* let them (Runtime.Start, Runtime.Stop).
LEMMA LifecycleStep ==
  ASSUME Typed, Phases, Next
  PROVE  LifecycleTyped' /\ Phases'
<1> USE DEF Typed, Phases, LifecycleTyped, IntakeTyped
<1>1. CASE StartStep
  <2> USE SubscriptionsLength, MaxStartsAssumption
  <2>1. CASE StartBegin
    BY <2>1 DEF StartBegin
  <2>2. CASE OpenReceiver
    BY <2>2 DEF OpenReceiver
  <2>3. CASE StartFails \/ StartSucceeds
    BY <2>3 DEF StartFails, StartSucceeds
  <2>4. CASE AbortReceivers \/ AbortContext \/ AbortGate
    BY <2>4 DEF AbortReceivers, AbortContext, AbortGate
  <2> QED
    BY <1>1, <2>1, <2>2, <2>3, <2>4 DEF StartStep
<1>2. CASE StopStep
  BY AbandonLeaves, <1>2 DEF StopStep, StopBegin, StopDrained, StopExpires, StopChooses,
     AbandonClosesGate, CopyPending, PendingAbandoned, ConsumersClosed, BudgetRunsOut,
     AwaitEnds, StopClosesClient
<1>3. CASE DrainGoroutineStep
  BY <1>3 DEF DrainGoroutineStep, SubscriptionsDrained, ConsumersDrained, DrainClosesGate,
       HandlersDone, DrainStep
<1>4. CASE UNCHANGED lifecycle
  BY <1>4 DEF lifecycle
<1> HIDE DEF Typed, Phases, LifecycleTyped, IntakeTyped
<1> QED
  BY <1>1, <1>2, <1>3, <1>4, OthersLeaveLifecycle

\* Outside of "created" and "idle" some Start has begun.
LEMMA AStartHasBegun ==
  ASSUME Typed, Phases, life # "idle" \/ state # "created"
  PROVE  starts \in Starts
<1>1. starts # 0
  BY DEF Phases
<1>2. starts \in 0..MaxStarts
  BY DEF Typed, LifecycleTyped
<1> QED
  BY <1>1, <1>2, MaxStartsAssumption DEF Starts

\* Every context that is cancelled belongs to a Start that has begun, and only
\* deliveries are tracked (cancelHandlers, r.pending).
LEMMA IntakeStep ==
  ASSUME Typed, Phases, Next
  PROVE  IntakeTyped'
<1> USE DEF Typed, LifecycleTyped, IntakeTyped
<1>1. CASE StartStep
  <2>1. CASE AbortContext
    BY <2>1, AStartHasBegun DEF AbortContext
  <2> QED
    BY <1>1, <2>1 DEF StartStep, StartBegin, OpenReceiver, StartFails, StartSucceeds,
       AbortReceivers, AbortGate, intake
<1>2. CASE StopStep
  <2>1. CASE StopDrained \/ StopExpires
    BY <2>1, AStartHasBegun DEF StopDrained, StopExpires, StopChooses
  <2>2. CASE \E m \in Messages : AbandonStep(m)
    BY AbandonLeaves, <2>2
  <2> QED
    BY <1>2, <2>1, <2>2 DEF StopStep, StopBegin, AbandonClosesGate, CopyPending,
       PendingAbandoned, ConsumersClosed, BudgetRunsOut, AwaitEnds, StopClosesClient, intake
<1>3. CASE DrainGoroutineStep
  BY <1>3 DEF DrainGoroutineStep, SubscriptionsDrained, ConsumersDrained, DrainClosesGate,
       HandlersDone, DrainStep
<1>4. CASE CloseClientDirectly \/ \E i \in Receivers : InterestGone(i)
  BY <1>4 DEF CloseClientDirectly, InterestGone, intake
<1>5. ASSUME NEW m \in Messages,
             \/ Arrive(m) \/ CallbackStep(m) \/ HandlerStep(m)
             \/ HandlerCode(m)
      PROVE  IntakeTyped'
  BY <1>5 DEF Arrive, CallbackStep, HandlerStep, HandlerCode, AskRuntime, HandlerReturns,
     RuntimeAnswers, Deliver, FirstCheck, TakeSlot, GiveUpWaiting, Spawn, TurnAway,
     DropRefused, AbandonRefused, NakRefused, BeginHandler, Reply, NothingToSend, Settle,
     SendResult, DoubleAckReturns, ReleaseSlot, LeaveGroup, intake
<1> QED
  BY <1>1, <1>2, <1>3, <1>4, <1>5 DEF Next

\* The receivers of each Start go through the states nats.go has for them
\* (openReceivers, Drain, abortStart, Client.Close).
LEMMA ConnectionStep ==
  ASSUME Typed, Phases, Next
  PROVE  ConnectionTyped'
<1> USE DEF Typed, LifecycleTyped, ConnectionTyped
<1>1. ASSUME NEW G, NEW from, NEW to \in {"draining", "stopped"}, SetReceivers(G, from, to)
      PROVE  recv' \in [Starts -> [Receivers -> {"none", "open", "draining", "drained", "stopped"}]]
  BY <1>1 DEF SetReceivers
<1>2. CASE StartStep
  <2>1. CASE OpenReceiver
    BY <2>1 DEF OpenReceiver
  <2>2. CASE AbortReceivers
    BY <1>1, <2>2 DEF AbortReceivers
  <2> QED
    BY <1>2, <2>1, <2>2 DEF StartStep, StartBegin, StartFails, StartSucceeds, AbortContext,
       AbortGate, connection
<1>3. CASE StopStep
  BY AbandonLeaves, <1>1, <1>3 DEF StopStep, StopBegin, StopDrained, StopExpires, StopChooses,
     AbandonClosesGate, CopyPending, PendingAbandoned, ConsumersClosed, BudgetRunsOut,
     AwaitEnds, StopClosesClient, CloseConnection, connection
<1>4. CASE DrainGoroutineStep
  BY <1>4 DEF DrainGoroutineStep, SubscriptionsDrained, ConsumersDrained, DrainClosesGate,
     HandlersDone, DrainStep, connection
<1>5. CASE CloseClientDirectly \/ \E i \in Receivers : InterestGone(i)
  <2>1. CASE CloseClientDirectly
    BY <1>1, <2>1 DEF CloseClientDirectly, CloseConnection
  <2>2. ASSUME NEW i \in Receivers, InterestGone(i)
        PROVE  ConnectionTyped'
    BY <2>2 DEF InterestGone
  <2> QED
    BY <1>5, <2>1, <2>2
<1>6. ASSUME NEW m \in Messages,
             \/ Arrive(m) \/ CallbackStep(m) \/ HandlerStep(m)
             \/ HandlerCode(m)
      PROVE  UNCHANGED connection
  BY <1>6 DEF Arrive, CallbackStep, HandlerStep, HandlerCode, AskRuntime, HandlerReturns,
     RuntimeAnswers, Deliver, FirstCheck, TakeSlot, GiveUpWaiting, Spawn, TurnAway,
     DropRefused, AbandonRefused, NakRefused, BeginHandler, Reply, NothingToSend, Settle,
     SendResult, DoubleAckReturns, ReleaseSlot, LeaveGroup
<1> QED
  BY <1>2, <1>3, <1>4, <1>5, <1>6 DEF Next, connection

\* Each delivery stays in one place of its callback or handler, belongs to a
\* Start that has begun, and has a state and answers (receive, serveJetStream).
LEMMA DeliveriesStep ==
  ASSUME Typed, Phases, Next
  PROVE  DeliveriesTyped'
<1> USE DEF Typed, DeliveriesTyped, Places, InCallback, InHandler
<1>1. ASSUME NEW G, DropBuffered(G)
      PROVE  pc' \in [Messages -> Places]
  BY <1>1 DEF DropBuffered
<1>2. ASSUME NEW m \in Messages, NEW a \in {"ack", "nak", "reply"}, Send(m, a)
      PROVE  answers' \in [Messages -> Seq({"ack", "nak", "reply", "lost"})]
  BY <1>2 DEF Send
<1>3. CASE StartStep
  BY <1>1, <1>3 DEF StartStep, StartBegin, OpenReceiver, StartFails, StartSucceeds,
     AbortReceivers, AbortContext, AbortGate, deliveries
<1>4. CASE StopStep
  <2>1. CASE \E m \in Messages : AbandonStep(m)
    BY AbandonLeaves, <1>2, <2>1 DEF AbandonStep, AbandonPending, UntrackAbandoned,
       NakAbandoned, deliveries
  <2>2. CASE StopClosesClient
    BY <1>1, <2>2 DEF StopClosesClient, CloseConnection
  <2> QED
    BY <1>4, <2>1, <2>2 DEF StopStep, StopBegin, StopDrained, StopExpires, StopChooses,
       AbandonClosesGate, CopyPending, PendingAbandoned, ConsumersClosed, BudgetRunsOut,
       AwaitEnds, deliveries
<1>5. CASE DrainGoroutineStep
  BY <1>5 DEF DrainGoroutineStep, SubscriptionsDrained, ConsumersDrained, DrainClosesGate,
     HandlersDone, DrainStep, deliveries
<1>6. CASE CloseClientDirectly \/ \E i \in Receivers : InterestGone(i)
  BY <1>1, <1>6 DEF CloseClientDirectly, CloseConnection, InterestGone, deliveries
<1>7. ASSUME NEW m \in Messages, Arrive(m) \/ CallbackStep(m)
      PROVE  DeliveriesTyped'
  <2>1. CASE Arrive(m)
    BY <2>1 DEF LifecycleTyped, Arrive
  <2>2. CASE NakRefused(m)
    BY <1>2, <2>2 DEF NakRefused, MoveTo
  <2>3. CASE AbandonRefused(m)
    BY <2>3 DEF AbandonRefused, MoveTo
  <2> QED
    BY <1>7, <2>1, <2>2, <2>3 DEF CallbackStep, Deliver, FirstCheck, TakeSlot, GiveUpWaiting,
       Spawn, TurnAway, DropRefused, MoveTo
<1>8. ASSUME NEW m \in Messages,
             HandlerStep(m) \/ HandlerCode(m)
      PROVE  DeliveriesTyped'
  BY <1>2, <1>8 DEF HandlerStep, HandlerCode, AskRuntime, HandlerReturns, BeginHandler,
     RuntimeAnswers, Reply, NothingToSend, Settle, SendResult, DoubleAckReturns, ReleaseSlot,
     LeaveGroup, MoveTo
<1> QED
  BY <1>3, <1>4, <1>5, <1>6, <1>7, <1>8 DEF Next

-----------------------------------------------------------------------------
(* Settling.  The strengthening ties what was sent about a delivery to its   *)
(* state, its place and r.pending: settled and not yet answered only while   *)
(* its settler, its handler or callback or Stop's abandon, is between settle *)
(* and the send.  Only Stop settles a delivery that others may still move.   *)

DeliveryInv(m) ==
    /\ Len(answers[m]) <= 1
    /\ answers[m] # <<>> =>
         IF Acking(m) THEN AlreadySettled(m) ELSE pc[m] \in {"unwinding", "leaving", "done"}
    /\ pc[m] \in {"acking", "nakking", "abandoning"} \/ m \in inHand
         <=> Acking(m) /\ AlreadySettled(m) /\ answers[m] = <<>>
    /\ m \in inHand => pc[m] \notin {"acking", "nakking", "abandoning"}
    /\ AlreadySettled(m) => Acking(m)
    /\ pc[m] \in {"idle", "buffered"} => ~AlreadySettled(m) /\ answers[m] = <<>>
    /\ Acking(m) /\ pc[m] \in Tracked /\ ~AlreadySettled(m) => m \in pending
    /\ m \in pending =>
         /\ Acking(m)
         /\ \/ pc[m] \in Tracked /\ ~AlreadySettled(m)
            \/ pc[m] \in {"acking", "nakking"} \/ m \in inHand
    /\ m \in toAbandon =>
         /\ Acking(m) /\ pc[m] \notin {"idle", "buffered"}
         /\ AlreadySettled(m) \/ m \in pending

SettlementInv == \A m \in Messages : DeliveryInv(m)

\* The last value of a sequence of at most one.
LEMMA FirstAnswer ==
  ASSUME NEW a
  PROVE  Len(Append(<<>>, a)) = 1 /\ Append(<<>>, a) # <<>>
  OBVIOUS

\* What Start, the drain goroutine and nats.go do leaves a delivery's account
\* as it was: they only move buffered messages to dropped, or idle to buffered.
LEMMA BystanderStep ==
  ASSUME Typed, NEW m \in Messages, DeliveryInv(m),
         UNCHANGED <<dstate, answers, pending, inHand>>,
         toAbandon' \subseteq toAbandon \cup pending,
         \/ pc'[m] = pc[m]
         \/ pc[m] = "buffered" /\ pc'[m] = "dropped"
         \/ pc[m] = "idle" /\ pc'[m] = "buffered"
  PROVE  DeliveryInv(m)'
  BY DEF DeliveryInv, AlreadySettled, Acking, Kind, Tracked

\* A step of one delivery leaves every other delivery's account as it was.
LEMMA OtherDelivery ==
  ASSUME Typed, NEW m \in Messages, DeliveryInv(m), NEW n \in Messages, n # m,
         \/ Arrive(n) \/ CallbackStep(n) \/ HandlerStep(n) \/ AbandonStep(n)
         \/ HandlerCode(n)
  PROVE  DeliveryInv(m)'
<1> USE DEF Typed, DeliveriesTyped, IntakeTyped, LifecycleTyped
<1>1. /\ pc'[m] = pc[m] /\ dstate'[m] = dstate[m] /\ answers'[m] = answers[m]
      /\ m \in pending' <=> m \in pending
      /\ m \in toAbandon' => m \in toAbandon
      /\ m \in inHand' <=> m \in inHand
  <2>1. CASE Arrive(n) \/ HandlerCode(n)
    BY <2>1 DEF Arrive, HandlerCode, AskRuntime, HandlerReturns, MoveTo, lifecycle, intake
  <2>2. CASE CallbackStep(n)
    BY <2>2 DEF CallbackStep, Deliver, FirstCheck, TakeSlot, GiveUpWaiting, Spawn, TurnAway,
       DropRefused, AbandonRefused, NakRefused, Send, MoveTo, lifecycle, intake
  <2>3. CASE HandlerStep(n)
    BY <2>3 DEF HandlerStep, BeginHandler, RuntimeAnswers, Reply, NothingToSend, Settle,
       SendResult, DoubleAckReturns, ReleaseSlot, LeaveGroup, Send, MoveTo, lifecycle, intake
  <2>4. CASE AbandonPending(n)
    BY <2>4 DEF AbandonPending, intake
  <2>5. CASE UntrackAbandoned(n)
    BY <2>5 DEF UntrackAbandoned, lifecycle, deliveries
  <2>6. CASE NakAbandoned(n)
    BY <2>6 DEF NakAbandoned, Send, intake
  <2> QED
    BY <2>1, <2>2, <2>3, <2>4, <2>5, <2>6 DEF AbandonStep
<1> QED
  BY <1>1 DEF DeliveryInv, AlreadySettled, Acking, Kind

\* Each step of a delivery's callback keeps its account.
LEMMA CallbackKeepsDelivery ==
  ASSUME Typed, NEW m \in Messages, DeliveryInv(m), CallbackStep(m)
  PROVE  DeliveryInv(m)'
<1> USE DEF Typed, DeliveriesTyped, DeliveryInv, AlreadySettled, Acking, Kind, Tracked, MoveTo
<1>1. CASE Deliver(m)
  BY <1>1 DEF Deliver, lifecycle
<1>2. CASE FirstCheck(m) \/ GiveUpWaiting(m)
  BY <1>2 DEF FirstCheck, GiveUpWaiting, lifecycle, intake
<1>3. CASE TakeSlot(m) \/ Spawn(m) \/ TurnAway(m)
  BY <1>3 DEF TakeSlot, Spawn, TurnAway, lifecycle
<1>4. CASE DropRefused(m)
  BY <1>4 DEF DropRefused, lifecycle, intake
<1>5. CASE AbandonRefused(m)
  BY <1>5 DEF AbandonRefused, lifecycle
<1>6. CASE NakRefused(m)
  <2>1. Len(answers'[m]) = 1 /\ answers'[m] # <<>>
    BY <1>6, FirstAnswer DEF NakRefused, Send
  <2> QED
    BY <1>6, <2>1 DEF NakRefused, lifecycle, intake
<1> QED
  BY <1>1, <1>2, <1>3, <1>4, <1>5, <1>6 DEF CallbackStep

\* Each step of a delivery's handler keeps its account.
LEMMA HandlerKeepsDelivery ==
  ASSUME Typed, NEW m \in Messages, DeliveryInv(m),
         HandlerStep(m) \/ HandlerCode(m)
  PROVE  DeliveryInv(m)'
<1> USE DEF Typed, DeliveriesTyped, DeliveryInv, AlreadySettled, Acking, Kind, Tracked, MoveTo
<1>1. CASE BeginHandler(m)
  BY <1>1 DEF BeginHandler, lifecycle, intake
<1>2. CASE HandlerCode(m) \/ RuntimeAnswers(m)
  BY <1>2 DEF HandlerCode, AskRuntime, RuntimeAnswers, HandlerReturns, lifecycle, intake
<1>3. CASE Reply(m)
  BY <1>3, FirstAnswer DEF Reply, Send, lifecycle, intake
<1>4. CASE NothingToSend(m)
  BY <1>4 DEF NothingToSend, lifecycle, intake
<1>5. CASE Settle(m)
  BY <1>5 DEF Settle, lifecycle, intake
<1>6. CASE SendResult(m)
  BY <1>6, FirstAnswer DEF SendResult, Send, lifecycle
<1>7. CASE DoubleAckReturns(m)
  BY <1>7 DEF DoubleAckReturns, lifecycle, intake
<1>8. CASE ReleaseSlot(m) \/ LeaveGroup(m)
  BY <1>8 DEF ReleaseSlot, LeaveGroup, lifecycle
<1> QED
  BY <1>1, <1>2, <1>3, <1>4, <1>5, <1>6, <1>7, <1>8 DEF HandlerStep

\* Stop's abandon settles a delivery or finds it settled, untracks it and naks
\* it, wherever its callback or handler is meanwhile.
LEMMA AbandonKeepsDelivery ==
  ASSUME Typed, NEW m \in Messages, DeliveryInv(m), AbandonStep(m)
  PROVE  DeliveryInv(m)'
<1> USE DEF Typed, DeliveriesTyped, IntakeTyped, LifecycleTyped, DeliveryInv, AlreadySettled,
       Acking, Kind, Tracked
<1>1. CASE AbandonPending(m) /\ AlreadySettled(m)
  BY <1>1 DEF AbandonPending, intake
<1>2. CASE AbandonPending(m) /\ ~AlreadySettled(m)
  <2>1. /\ dstate' = [dstate EXCEPT ![m] = "settled"]
        /\ inHand' = {m} /\ toAbandon' = toAbandon \ {m}
        /\ UNCHANGED <<pc, answers, pending>> /\ m \in toAbandon
    BY <1>2 DEF AbandonPending, intake
  <2>2. Acking(m) /\ answers[m] = <<>> /\ pc[m] \in Tracked
    BY <1>2, <2>1
  <2> QED
    BY <2>1, <2>2
<1>3. CASE UntrackAbandoned(m)
  BY <1>3 DEF UntrackAbandoned, lifecycle, deliveries
<1>4. CASE NakAbandoned(m)
  <2>1. Acking(m) /\ AlreadySettled(m) /\ answers[m] = <<>> /\ m \notin pending
    BY <1>4 DEF NakAbandoned
  <2>2. Len(answers'[m]) <= 1 /\ answers'[m] # <<>>
    BY <1>4, <2>1, FirstAnswer DEF NakAbandoned, Send
  <2>3. m \notin inHand' /\ pc[m] \notin {"acking", "nakking", "abandoning"}
    BY <1>4 DEF NakAbandoned
  <2>4. UNCHANGED <<pc, dstate, pending, toAbandon>>
    BY <1>4 DEF NakAbandoned, intake
  <2>5. AlreadySettled(m)' /\ Acking(m)' /\ m \notin pending'
    BY <2>1, <2>4
  <2>6. pc'[m] \notin {"idle", "buffered", "acking", "nakking", "abandoning"}
    BY <2>1, <2>3, <2>4
  <2> HIDE DEF Typed, DeliveriesTyped, IntakeTyped, LifecycleTyped
  <2> QED
    BY <2>2, <2>3, <2>5, <2>6
<1> QED
  BY <1>1, <1>2, <1>3, <1>4 DEF AbandonStep

\* Every step keeps every delivery's account: only settle lets anyone answer,
\* and only one goroutine gets true from it (delivery.settle).
LEMMA SettlementStep ==
  ASSUME Typed, SettlementInv, Next
  PROVE  SettlementInv'
<1> SUFFICES ASSUME NEW m \in Messages
             PROVE  DeliveryInv(m)'
  BY DEF SettlementInv
<1>0. DeliveryInv(m)
  BY DEF SettlementInv
<1>1. ASSUME NEW n \in Messages,
             \/ CallbackStep(n) \/ HandlerStep(n) \/ AbandonStep(n)
             \/ HandlerCode(n)
      PROVE  DeliveryInv(m)'
  BY <1>0, <1>1, OtherDelivery, CallbackKeepsDelivery, HandlerKeepsDelivery,
     AbandonKeepsDelivery
<1>2. ASSUME NEW G, DropBuffered(G)
      PROVE  pc'[m] = pc[m] \/ (pc[m] = "buffered" /\ pc'[m] = "dropped")
  BY <1>2 DEF DropBuffered
<1>3. CASE StartStep \/ CloseClientDirectly
  <2>1. UNCHANGED <<dstate, answers, pending, toAbandon, inHand>>
    BY <1>3 DEF StartStep, StartBegin, OpenReceiver, StartFails, StartSucceeds, AbortReceivers,
       AbortContext, AbortGate, CloseClientDirectly, intake, lifecycle, deliveries
  <2>2. pc'[m] = pc[m] \/ (pc[m] = "buffered" /\ pc'[m] = "dropped")
    BY <1>2, <1>3 DEF StartStep, StartBegin, OpenReceiver, StartFails, StartSucceeds,
       AbortReceivers, AbortContext, AbortGate, CloseClientDirectly, CloseConnection,
       deliveries
  <2> QED
    BY <1>0, <2>1, <2>2, BystanderStep
<1>4. CASE StopStep /\ ~\E n \in Messages : AbandonStep(n)
  <2>1. UNCHANGED <<dstate, answers, pending, inHand>> /\ toAbandon' \subseteq toAbandon \cup pending
    BY <1>4 DEF StopStep, StopBegin, StopDrained, StopExpires, StopChooses, AbandonClosesGate,
       CopyPending, PendingAbandoned, ConsumersClosed, BudgetRunsOut, AwaitEnds,
       StopClosesClient, intake, deliveries
  <2>2. pc'[m] = pc[m] \/ (pc[m] = "buffered" /\ pc'[m] = "dropped")
    BY <1>2, <1>4 DEF StopStep, StopBegin, StopDrained, StopExpires, StopChooses,
       AbandonClosesGate, CopyPending, PendingAbandoned, ConsumersClosed, BudgetRunsOut,
       AwaitEnds, StopClosesClient, CloseConnection, deliveries
  <2> QED
    BY <1>0, <2>1, <2>2, BystanderStep
<1>5. CASE DrainGoroutineStep \/ \E i \in Receivers : InterestGone(i)
  BY <1>0, <1>5, BystanderStep DEF DrainGoroutineStep, SubscriptionsDrained, ConsumersDrained,
     DrainClosesGate, HandlersDone, DrainStep, InterestGone, deliveries, intake, lifecycle
<1>6. ASSUME NEW n \in Messages, Arrive(n)
      PROVE  DeliveryInv(m)'
  <2>1. CASE n = m
    BY <1>0, <1>6, <2>1, BystanderStep DEF Arrive, Typed, DeliveriesTyped, intake, lifecycle
  <2>2. CASE n # m
    BY <1>0, <1>6, <2>2, OtherDelivery
  <2> QED
    BY <2>1, <2>2
<1> QED
  BY <1>1, <1>3, <1>4, <1>5, <1>6 DEF Next, StopStep

-----------------------------------------------------------------------------
\* A stuttering step changes no type and no phase (lock waits and log calls).
LEMMA TypedStutters ==
  ASSUME Typed, Phases, UNCHANGED vars
  PROVE  Typed' /\ Phases'
<1>1. UNCHANGED <<state, life, result, starts, next, drain, toAbandon, inHand, budget>>
  BY DEF vars, lifecycle
<1>2. UNCHANGED <<accepting, cancelled, pending, recv, client>>
  BY DEF vars, intake, connection
<1>3. UNCHANGED <<pc, startOf, dstate, answers>>
  BY DEF vars, deliveries
<1>4. LifecycleTyped'
  BY <1>1 DEF Typed, LifecycleTyped
<1>5. IntakeTyped' /\ ConnectionTyped'
  BY <1>2 DEF Typed, IntakeTyped, ConnectionTyped
<1>6. DeliveriesTyped'
  BY <1>3 DEF Typed, DeliveriesTyped
<1>7. Phases'
  BY <1>1 DEF Phases
<1> QED
  BY <1>4, <1>5, <1>6, <1>7 DEF Typed

\* Every state is well typed, counters apart, and its phases fit together.
THEOREM TypedAlways == Spec => [](Typed /\ Phases)
<1>1. Init => Typed /\ Phases
  BY TypedInit
<1>2. Typed /\ Phases /\ [Next]_vars => (Typed /\ Phases)'
  <2>1. CASE Next
    BY <2>1, LifecycleStep, IntakeStep, ConnectionStep, DeliveriesStep DEF Typed
  <2>2. CASE UNCHANGED vars
    BY <2>2, TypedStutters
  <2> QED
    BY <2>1, <2>2
<1> QED
  BY <1>1, <1>2, PTL DEF Spec

\* A delivery's place, state, tracking and answers agree in every reachable
\* state (delivery.begin, delivery.settle, Runtime.untrack).
THEOREM SettlementAlways == Spec => []SettlementInv
<1>1. Init => SettlementInv
  BY DEF Init, SettlementInv, DeliveryInv, AlreadySettled, Tracked
<1>2. Typed /\ SettlementInv /\ [Next]_vars => SettlementInv'
  <2>1. CASE UNCHANGED vars
    BY <2>1 DEF vars, lifecycle, intake, deliveries, SettlementInv, DeliveryInv,
       AlreadySettled, Acking, Kind, Tracked
  <2> QED
    BY <2>1, SettlementStep
<1> QED
  BY <1>1, <1>2, TypedAlways, PTL DEF Spec

\* No delivery is answered twice, whoever races to settle it (delivery.settle,
\* jetstream.go).
THEOREM AnsweredOnceAlways == Spec => []AnsweredOnce
<1>1. SettlementInv => AnsweredOnce
  BY DEF SettlementInv, DeliveryInv, AnsweredOnce
<1> QED
  BY <1>1, SettlementAlways, PTL

\* r.pending is always what Stop has to nak, and never outlives a delivery.
THEOREM PendingIsUnsettledAlways == Spec => []PendingIsUnsettled
<1>1. SettlementInv => PendingIsUnsettled
  BY DEF SettlementInv, DeliveryInv, PendingIsUnsettled
<1> QED
  BY <1>1, SettlementAlways, PTL

-----------------------------------------------------------------------------
(* Counting.  sem and wg change by one exactly when a message joins or       *)
(* leaves the set each counts, so no path through dispatch leaks either.     *)

CountersInv == CountersMatch /\ sem <= Concurrency

\* The sets that are counted are finite.
LEMMA CountedAreFinite == IsFiniteSet(SlotHolders) /\ IsFiniteSet(Group)
  BY MessagesAssumption, FS_Subset DEF SlotHolders, Group

\* A step that moves no message into or out of a set leaves it alone.
LEMMA NobodyMoves ==
  ASSUME DeliveriesTyped,
         \/ UNCHANGED pc
         \/ \E G : DropBuffered(G)
         \/ \E m \in Messages, p \in Places :
              /\ MoveTo(m, p)
              /\ pc[m] \in InHandler \cup {"slotted"} <=> p \in InHandler \cup {"slotted"}
              /\ pc[m] \in InHandler \cup {"leaving"} <=> p \in InHandler \cup {"leaving"}
  PROVE  SlotHolders' = SlotHolders /\ Group' = Group
<1> USE DEF DeliveriesTyped, SlotHolders, Group, InHandler
<1>1. CASE UNCHANGED pc
  BY <1>1
<1>2. CASE \E G : DropBuffered(G)
  BY <1>2 DEF DropBuffered
<1>3. CASE \E m \in Messages, p \in Places :
              /\ MoveTo(m, p)
              /\ pc[m] \in InHandler \cup {"slotted"} <=> p \in InHandler \cup {"slotted"}
              /\ pc[m] \in InHandler \cup {"leaving"} <=> p \in InHandler \cup {"leaving"}
  BY <1>3 DEF MoveTo
<1> QED
  BY <1>1, <1>2, <1>3

\* Every step that enters or leaves the counted places changes the counter by
\* one, and no step takes a slot beyond the semaphore's capacity (dispatch).
LEMMA CountersStep ==
  ASSUME Typed, CountersInv, Next
  PROVE  CountersInv'
<1> USE DEF CountersInv, CountersMatch
<1>f. IsFiniteSet(SlotHolders) /\ IsFiniteSet(Group) /\ DeliveriesTyped
  BY CountedAreFinite DEF Typed
<1>t. sem \in Nat /\ wg \in Nat /\ Concurrency \in Nat
  BY <1>f, FS_CardinalityType, ConcurrencyAssumption
<1>1. ASSUME NEW m \in Messages, TakeSlot(m)
      PROVE  CountersInv'
  <2>1. SlotHolders' = SlotHolders \cup {m} /\ m \notin SlotHolders /\ Group' = Group
    BY <1>f, <1>1 DEF TakeSlot, MoveTo, DeliveriesTyped, SlotHolders, Group, InHandler
  <2>2. Cardinality(SlotHolders \cup {m}) = Cardinality(SlotHolders) + 1
    BY <1>f, <2>1, FS_AddElement
  <2>3. sem' = sem + 1 /\ sem < Concurrency /\ wg' = wg
    BY <1>1 DEF TakeSlot
  <2> QED
    BY <1>t, <2>1, <2>2, <2>3
<1>2. ASSUME NEW m \in Messages, Spawn(m)
      PROVE  CountersInv'
  <2>1. SlotHolders' = SlotHolders /\ Group' = Group \cup {m} /\ m \notin Group
    BY <1>f, <1>2 DEF Spawn, MoveTo, DeliveriesTyped, SlotHolders, Group, InHandler
  <2>2. Cardinality(Group \cup {m}) = Cardinality(Group) + 1
    BY <1>f, <2>1, FS_AddElement
  <2> QED
    BY <1>t, <1>2, <2>1, <2>2 DEF Spawn
<1>3. ASSUME NEW m \in Messages, TurnAway(m) \/ ReleaseSlot(m)
      PROVE  CountersInv'
  <2>1. SlotHolders' = SlotHolders \ {m} /\ m \in SlotHolders /\ Group' = Group
    BY <1>f, <1>3 DEF TurnAway, ReleaseSlot, MoveTo, DeliveriesTyped, SlotHolders, Group,
       InHandler
  <2>2. sem' = sem - 1 /\ wg' = wg
    BY <1>3 DEF TurnAway, ReleaseSlot
  <2>3. Cardinality(SlotHolders \ {m}) = Cardinality(SlotHolders) - 1
    BY <1>f, <2>1, FS_RemoveElement
  <2> QED
    BY <1>t, <2>1, <2>2, <2>3
<1>4. ASSUME NEW m \in Messages, LeaveGroup(m)
      PROVE  CountersInv'
  <2>1. SlotHolders' = SlotHolders /\ Group' = Group \ {m} /\ m \in Group
    BY <1>f, <1>4 DEF LeaveGroup, MoveTo, DeliveriesTyped, SlotHolders, Group, InHandler
  <2>2. Cardinality(Group \ {m}) = Cardinality(Group) - 1
    BY <1>f, <2>1, FS_RemoveElement
  <2> QED
    BY <1>t, <1>4, <2>1, <2>2 DEF LeaveGroup
<1>5. ASSUME UNCHANGED <<sem, wg>>, SlotHolders' = SlotHolders, Group' = Group
      PROVE  CountersInv'
  BY <1>5
<1>6. CASE StartStep \/ CloseClientDirectly
  <2>1. UNCHANGED <<sem, wg>>
    BY <1>6 DEF StartStep, StartBegin, OpenReceiver, StartFails, StartSucceeds, AbortReceivers,
       AbortContext, AbortGate, CloseClientDirectly, intake
  <2>2. UNCHANGED pc \/ \E G : DropBuffered(G)
    BY <1>6 DEF StartStep, StartBegin, OpenReceiver, StartFails, StartSucceeds,
       AbortReceivers, AbortContext, AbortGate, CloseClientDirectly, CloseConnection,
       deliveries
  <2> QED
    BY <1>f, <1>5, <2>1, <2>2, NobodyMoves
<1>7. CASE StopStep
  <2>1. UNCHANGED <<sem, wg>>
    BY AbandonLeaves, <1>7 DEF StopStep, StopBegin, StopDrained, StopExpires, StopChooses,
       AbandonClosesGate, CopyPending, PendingAbandoned, ConsumersClosed, BudgetRunsOut,
       AwaitEnds, StopClosesClient, intake
  <2>2. UNCHANGED pc \/ \E G : DropBuffered(G)
    BY AbandonLeaves, <1>7 DEF StopStep, StopBegin, StopDrained, StopExpires, StopChooses,
       AbandonClosesGate, CopyPending, PendingAbandoned, ConsumersClosed, BudgetRunsOut,
       AwaitEnds, StopClosesClient, CloseConnection, deliveries
  <2> QED
    BY <1>f, <1>5, <2>1, <2>2, NobodyMoves
<1>8. CASE DrainGoroutineStep \/ \E i \in Receivers : InterestGone(i)
  BY <1>f, <1>5, <1>8, NobodyMoves DEF DrainGoroutineStep, SubscriptionsDrained,
     ConsumersDrained, DrainClosesGate, HandlersDone, DrainStep, InterestGone, deliveries,
     intake
<1>9. ASSUME NEW m \in Messages,
             \/ Arrive(m) \/ Deliver(m) \/ FirstCheck(m) \/ GiveUpWaiting(m) \/ DropRefused(m)
             \/ AbandonRefused(m) \/ NakRefused(m) \/ BeginHandler(m) \/ RuntimeAnswers(m)
             \/ Reply(m)
             \/ NothingToSend(m) \/ Settle(m) \/ SendResult(m) \/ DoubleAckReturns(m)
             \/ HandlerCode(m)
      PROVE  CountersInv'
  <2>1. UNCHANGED <<sem, wg>>
    BY <1>9 DEF Arrive, Deliver, FirstCheck, GiveUpWaiting, DropRefused, AbandonRefused,
       NakRefused, BeginHandler, Reply, NothingToSend, Settle, SendResult, DoubleAckReturns,
       HandlerCode, AskRuntime, HandlerReturns, RuntimeAnswers, intake
  <2>2. SlotHolders' = SlotHolders /\ Group' = Group
    BY <1>f, <1>9 DEF Arrive, Deliver, FirstCheck, GiveUpWaiting, DropRefused, AbandonRefused,
       NakRefused, BeginHandler, Reply, NothingToSend, Settle, SendResult, DoubleAckReturns,
       HandlerCode, AskRuntime, HandlerReturns, RuntimeAnswers, MoveTo, DeliveriesTyped,
       SlotHolders, Group, InHandler
  <2> QED
    BY <1>5, <2>1, <2>2
<1> QED
  BY <1>1, <1>2, <1>3, <1>4, <1>6, <1>7, <1>8, <1>9 DEF Next, CallbackStep, HandlerStep

-----------------------------------------------------------------------------
(* The gate.  Once Stop's goroutine has closed it nothing opens it again, so *)
(* the wait group it waits on can only shrink; and a receiver's context is   *)
(* cancelled before a later Start can open the gate.                         *)

GateInv ==
    /\ drain \in {"waiting", "done"} => ~accepting /\ state = "stopped"
    /\ drain = "done" => Group = {}

ContextInv ==
    /\ \A g \in 1..starts : g < starts => g \in cancelled
    /\ state = "created" /\ life \in {"idle", "closing gate"} /\ starts > 0 => starts \in cancelled
    /\ state = "stopped" /\ life # "draining" => starts \in cancelled
    /\ \A m \in Messages : pc[m] # "idle" => startOf[m] \in 1..starts

\* Only Spawn adds to the group.
LEMMA GroupShrinks ==
  ASSUME Typed, Next, \A m \in Messages : ~Spawn(m)
  PROVE  Group' \subseteq Group
<1>f. DeliveriesTyped
  BY DEF Typed
<1>1. CASE StartStep \/ CloseClientDirectly
  <2>1. UNCHANGED pc \/ \E G : DropBuffered(G)
    BY <1>1 DEF StartStep, StartBegin, OpenReceiver, StartFails, StartSucceeds,
       AbortReceivers, AbortContext, AbortGate, CloseClientDirectly, CloseConnection,
       deliveries
  <2> QED
    BY <1>f, <2>1, NobodyMoves
<1>2. CASE StopStep
  <2>1. UNCHANGED pc \/ \E G : DropBuffered(G)
    BY AbandonLeaves, <1>2 DEF StopStep, StopBegin, StopDrained, StopExpires, StopChooses,
       AbandonClosesGate, CopyPending, PendingAbandoned, ConsumersClosed, BudgetRunsOut,
       AwaitEnds, StopClosesClient, CloseConnection, deliveries
  <2> QED
    BY <1>f, <2>1, NobodyMoves
<1>3. CASE DrainGoroutineStep \/ \E i \in Receivers : InterestGone(i)
  BY <1>f, <1>3, NobodyMoves DEF DrainGoroutineStep, SubscriptionsDrained,
     ConsumersDrained, DrainClosesGate, HandlersDone, DrainStep, InterestGone, deliveries
<1>4. ASSUME NEW m \in Messages, Arrive(m) \/ CallbackStep(m)
      PROVE  Group' \subseteq Group
  BY <1>f, <1>4 DEF Arrive, CallbackStep, Deliver, FirstCheck, TakeSlot, GiveUpWaiting,
     TurnAway, DropRefused, AbandonRefused, NakRefused, MoveTo, DeliveriesTyped, Group,
     InHandler
<1>5. ASSUME NEW m \in Messages,
             HandlerStep(m) \/ HandlerCode(m)
      PROVE  Group' \subseteq Group
  BY <1>f, <1>5 DEF HandlerStep, HandlerCode, AskRuntime, HandlerReturns, BeginHandler,
     RuntimeAnswers, Reply, NothingToSend, Settle, SendResult, DoubleAckReturns, ReleaseSlot,
     LeaveGroup, MoveTo, DeliveriesTyped, Group, InHandler
<1> QED
  BY <1>1, <1>2, <1>3, <1>4, <1>5 DEF Next

\* Once the drain goroutine has closed the gate nobody opens it again, and the
\* group it has seen empty stays empty (setAccepting, wg.Wait).
LEMMA GateStep ==
  ASSUME Typed, Phases, CountersInv, GateInv, Next
  PROVE  GateInv'
<1>1. (drain \in {"waiting", "done"} => ~accepting /\ state = "stopped")'
  <2> USE DEF GateInv, Phases
  <2>1. CASE StartStep
    BY <2>1 DEF StartStep, StartBegin, OpenReceiver, StartFails, StartSucceeds,
       AbortReceivers, AbortContext, AbortGate, intake
  <2>2. CASE StopStep
    BY AbandonLeaves, <2>2 DEF StopStep, StopBegin, StopDrained, StopExpires, StopChooses,
       AbandonClosesGate, CopyPending, PendingAbandoned, ConsumersClosed, BudgetRunsOut,
       AwaitEnds, StopClosesClient, intake
  <2>3. CASE DrainGoroutineStep
    BY <2>3 DEF DrainGoroutineStep, SubscriptionsDrained, ConsumersDrained, DrainClosesGate,
       HandlersDone, DrainStep, Typed, LifecycleTyped
  <2>4. CASE UNCHANGED <<drain, accepting, state>>
    BY <2>4
  <2>5. CASE ~StartStep /\ ~StopStep /\ ~DrainGoroutineStep
    BY <2>4, <2>5, OthersLeaveLifecycle DEF lifecycle
  <2> HIDE DEF GateInv, Phases
  <2> QED
    BY <2>1, <2>2, <2>3, <2>5
<1>2. (drain = "done" => Group = {})'
  <2>1. CASE \E m \in Messages : Spawn(m)
    <3>1. accepting /\ drain' = drain
      BY <2>1 DEF Spawn, StillDispatchable, Dispatchable, lifecycle
    <3> QED
      BY <3>1 DEF GateInv
  <2>2. CASE HandlersDone
    <3>1. Cardinality(Group) = 0 /\ Group' = Group
      BY <2>2 DEF HandlersDone, DrainStep, CountersInv, CountersMatch, Group, deliveries
    <3> QED
      BY <3>1, CountedAreFinite, FS_EmptySet
  <2>3. ASSUME drain' = "done", ~HandlersDone, \A m \in Messages : ~Spawn(m)
        PROVE  Group' = {}
    <3>1. drain = "done"
      <4>1. CASE StartStep
        BY <2>3, <4>1 DEF StartStep, StartBegin, OpenReceiver, StartFails, StartSucceeds,
           AbortReceivers, AbortContext, AbortGate
      <4>2. CASE StopStep
        BY AbandonLeaves, <2>3, <4>2 DEF StopStep, StopBegin, StopDrained, StopExpires,
           StopChooses, AbandonClosesGate, CopyPending, PendingAbandoned, ConsumersClosed,
           BudgetRunsOut, AwaitEnds, StopClosesClient
      <4>3. CASE DrainGoroutineStep
        BY <2>3, <4>3 DEF DrainGoroutineStep, SubscriptionsDrained, ConsumersDrained,
           DrainClosesGate, DrainStep
      <4>4. CASE ~StartStep /\ ~StopStep /\ ~DrainGoroutineStep
        BY <2>3, <4>4, OthersLeaveLifecycle DEF lifecycle
      <4> QED
        BY <4>1, <4>2, <4>3, <4>4
    <3> QED
      BY <2>3, <3>1, GroupShrinks DEF GateInv
  <2> QED
    BY <2>1, <2>2, <2>3
<1> QED
  BY <1>1, <1>2 DEF GateInv

\* The contexts of earlier Starts stay cancelled, the latest one's is cancelled
\* once abortStart or Stop's select has got past it, and no message belongs to a
\* Start that has not begun (cancelHandlers, jsConsumer.ctx).
LEMMA ContextStep ==
  ASSUME Typed, Phases, ContextInv, Next
  PROVE  ContextInv'
<1>t. starts \in Nat /\ MaxStarts \in Nat
  <2>1. starts \in 0..MaxStarts
    BY DEF Typed, LifecycleTyped
  <2> QED
    BY <2>1, MaxStartsAssumption
<1>1. (\A g \in 1..starts : g < starts => g \in cancelled)'
      /\ (state = "created" /\ life \in {"idle", "closing gate"} /\ starts > 0
            => starts \in cancelled)'
      /\ (state = "stopped" /\ life # "draining" => starts \in cancelled)'
  <2> USE <1>t DEF ContextInv, Phases
  <2>1. CASE StartBegin
    BY <2>1 DEF StartBegin
  <2>2. CASE StartStep /\ ~StartBegin
    BY <2>2 DEF StartStep, OpenReceiver, StartFails, StartSucceeds, AbortReceivers,
       AbortContext, AbortGate, intake
  <2>3. CASE StopStep
    BY AbandonLeaves, <2>3 DEF StopStep, StopBegin, StopDrained, StopExpires, StopChooses,
       AbandonClosesGate, CopyPending, PendingAbandoned, ConsumersClosed, BudgetRunsOut,
       AwaitEnds, StopClosesClient, intake
  <2>4. CASE DrainGoroutineStep
    BY <2>4 DEF DrainGoroutineStep, SubscriptionsDrained, ConsumersDrained, DrainClosesGate,
       HandlersDone, DrainStep
  <2>5. CASE ~StartStep /\ ~StopStep /\ ~DrainGoroutineStep
    <3>1. UNCHANGED <<starts, cancelled, state, life>>
      BY <2>5, OthersLeaveLifecycle DEF lifecycle
    <3> QED
      BY <3>1
  <2> HIDE DEF ContextInv, Phases
  <2> QED
    BY <2>1, <2>2, <2>3, <2>4, <2>5
<1>2. (\A m \in Messages : pc[m] # "idle" => startOf[m] \in 1..starts)'
  <2> SUFFICES ASSUME NEW m \in Messages, pc'[m] # "idle"
               PROVE  startOf'[m] \in 1..starts'
    OBVIOUS
  <2>1. starts' \in {starts, starts + 1}
    <3>1. CASE StartStep
      BY <3>1 DEF StartStep, StartBegin, OpenReceiver, StartFails, StartSucceeds,
         AbortReceivers, AbortContext, AbortGate
    <3>2. CASE StopStep \/ DrainGoroutineStep
      BY AbandonLeaves, <3>2 DEF StopStep, StopBegin, StopDrained, StopExpires, StopChooses,
         AbandonClosesGate, CopyPending, PendingAbandoned, ConsumersClosed, BudgetRunsOut,
         AwaitEnds, StopClosesClient, DrainGoroutineStep, SubscriptionsDrained,
         ConsumersDrained, DrainClosesGate, HandlersDone, DrainStep
    <3>3. CASE ~StartStep /\ ~StopStep /\ ~DrainGoroutineStep
      BY <3>3, OthersLeaveLifecycle DEF lifecycle
    <3> QED
      BY <3>1, <3>2, <3>3
  <2>2. CASE Arrive(m)
    BY <1>t, <2>1, <2>2 DEF Arrive, Typed, DeliveriesTyped, lifecycle
  <2>3. CASE ~Arrive(m)
    <3>1. startOf'[m] = startOf[m] /\ pc[m] # "idle"
      <4> USE DEF Typed, DeliveriesTyped
      <4>1. CASE StartStep \/ CloseClientDirectly
        BY <4>1 DEF StartStep, StartBegin, OpenReceiver, StartFails, StartSucceeds,
           AbortReceivers, AbortContext, AbortGate, CloseClientDirectly, CloseConnection,
           DropBuffered, deliveries
      <4>2. CASE StopStep
        BY AbandonLeaves, <4>2 DEF StopStep, StopBegin, StopDrained, StopExpires, StopChooses,
           AbandonClosesGate, CopyPending, PendingAbandoned, ConsumersClosed, BudgetRunsOut,
           AwaitEnds, StopClosesClient, CloseConnection, DropBuffered, deliveries
      <4>3. CASE DrainGoroutineStep \/ \E i \in Receivers : InterestGone(i)
        BY <4>3 DEF DrainGoroutineStep, SubscriptionsDrained, ConsumersDrained,
           DrainClosesGate, HandlersDone, DrainStep, InterestGone, deliveries
      <4>4. ASSUME NEW n \in Messages, Arrive(n)
            PROVE  startOf'[m] = startOf[m] /\ pc[m] # "idle"
        BY <2>3, <4>4 DEF Arrive
      <4>5. ASSUME NEW n \in Messages, CallbackStep(n)
            PROVE  startOf'[m] = startOf[m] /\ pc[m] # "idle"
        BY <4>5 DEF CallbackStep, Deliver, FirstCheck, TakeSlot, GiveUpWaiting, Spawn,
           TurnAway, DropRefused, AbandonRefused, NakRefused, MoveTo
      <4>6. ASSUME NEW n \in Messages,
                   \/ HandlerStep(n)
                   \/ HandlerCode(n)
            PROVE  startOf'[m] = startOf[m] /\ pc[m] # "idle"
        BY <4>6 DEF HandlerStep, HandlerCode, AskRuntime, HandlerReturns, BeginHandler,
           RuntimeAnswers, Reply, NothingToSend, Settle, SendResult, DoubleAckReturns,
           ReleaseSlot, LeaveGroup, MoveTo
      <4> QED
        BY <4>1, <4>2, <4>3, <4>4, <4>5, <4>6 DEF Next
    <3>2. startOf[m] \in 1..starts
      BY <3>1 DEF ContextInv
    <3> QED
      BY <1>t, <2>1, <3>1, <3>2
  <2> QED
    BY <2>2, <2>3
<1> QED
  BY <1>1, <1>2 DEF ContextInv

-----------------------------------------------------------------------------
\* What the earlier theorems and the lemmas on counters, gate and contexts add
\* up to.
IInv == Typed /\ Phases /\ CountersInv /\ GateInv /\ ContextInv

\* The inductive invariant of the counters, the gate and the contexts holds in
\* every reachable state (dispatch against Start, abortStart and Stop).
THEOREM IInvAlways == Spec => []IInv
<1>1. Init => IInv
  <2>1. ASSUME Init
        PROVE  CountersInv
    <3>1. SlotHolders = {} /\ Group = {}
      BY <2>1 DEF Init, SlotHolders, Group, InHandler
    <3> QED
      BY <2>1, <3>1, FS_EmptySet, ConcurrencyAssumption DEF Init, CountersInv, CountersMatch
  <2>2. ASSUME Init
        PROVE  GateInv /\ ContextInv
    BY <2>2 DEF Init, GateInv, ContextInv
  <2> QED
    BY <2>1, <2>2, TypedInit DEF IInv
<1>2. IInv /\ [Next]_vars => IInv'
  <2> SUFFICES ASSUME IInv, [Next]_vars
               PROVE  IInv'
    OBVIOUS
  <2>1. CASE Next
    BY <2>1, LifecycleStep, IntakeStep, ConnectionStep, DeliveriesStep, CountersStep, GateStep,
       ContextStep DEF IInv, Typed
  <2>2. CASE UNCHANGED vars
    <3>1. Typed' /\ Phases'
      BY <2>2, TypedStutters DEF IInv
    <3>2. CountersInv' /\ GateInv'
      BY <2>2 DEF vars, lifecycle, intake, deliveries, IInv, CountersInv, CountersMatch,
         SlotHolders, Group, GateInv
    <3>3. ContextInv'
      BY <2>2 DEF vars, lifecycle, intake, deliveries, IInv, ContextInv
    <3> QED
      BY <3>1, <3>2, <3>3 DEF IInv
  <2> QED
    BY <2>1, <2>2
<1> QED
  BY <1>1, <1>2, PTL DEF Spec

\* Every variable keeps its type; the counters stay between their bounds
\* because they count (dispatch, runtime_dispatch.go).
THEOREM TypeCorrect == Spec => []TypeOK
<1>1. IInv => TypeOK
  <2> SUFFICES ASSUME IInv
               PROVE  TypeOK
    OBVIOUS
  <2>1. sem \in Nat /\ wg \in Nat
    BY CountedAreFinite, FS_CardinalityType DEF IInv, CountersInv, CountersMatch
  <2>2. sem \in 0..Concurrency
    BY <2>1, ConcurrencyAssumption DEF IInv, CountersInv
  <2> QED
    BY <2>1, <2>2 DEF IInv, Typed, TypeOK, CountersTyped
<1> QED
  BY <1>1, IInvAlways, PTL

\* The semaphore and the wait group never leak (dispatch's early returns and
\* its deferred calls).
THEOREM CountersMatchAlways == Spec => []CountersMatch
<1>1. IInv => CountersMatch
  BY DEF IInv, CountersInv
<1> QED
  BY <1>1, IInvAlways, PTL

\* No more handlers run than "concurrency" allows, over all Starts together.
THEOREM BoundedHandlersAlways == Spec => []BoundedHandlers
<1>1. IInv => BoundedHandlers
  <2> SUFFICES ASSUME IInv
               PROVE  BoundedHandlers
    OBVIOUS
  <2> DEFINE H == {m \in Messages : pc[m] \in InHandler}
  <2>1. H \in SUBSET SlotHolders
    BY DEF SlotHolders
  <2>2. Cardinality(H) <= Cardinality(SlotHolders) /\ IsFiniteSet(H)
    BY <2>1, CountedAreFinite, FS_Subset
  <2>3. Cardinality(H) \in Nat /\ Cardinality(SlotHolders) \in Nat
    BY <2>2, CountedAreFinite, FS_CardinalityType
  <2>4. Cardinality(SlotHolders) <= Concurrency
    BY DEF IInv, CountersInv, CountersMatch
  <2>5. Cardinality(H) <= Concurrency
    BY <2>2, <2>3, <2>4, ConcurrencyAssumption
  <2> QED
    BY <2>5 DEF BoundedHandlers
<1> QED
  BY <1>1, IInvAlways, PTL

\* Stop returning nil means no handler of any Start runs any more.
THEOREM QuietAfterDrainAlways == Spec => []QuietAfterDrain
<1>1. IInv => QuietAfterDrain
  BY DEF IInv, Phases, GateInv, QuietAfterDrain
<1> QED
  BY <1>1, IInvAlways, PTL

\* wg.Add never happens once wg.Wait has begun (Runtime.accepting's comment).
THEOREM GroupNeverGrowsAlways == Spec => GroupNeverGrowsWhileAwaited
<1>1. IInv /\ [Next]_vars => [(drain \in {"waiting", "done"}) => (wg' <= wg)]_vars
  <2> SUFFICES ASSUME IInv, Next, drain \in {"waiting", "done"}
               PROVE  wg' <= wg
    BY DEF GroupNeverGrowsWhileAwaited
  <2>1. \A m \in Messages : ~Spawn(m)
    BY DEF IInv, GateInv, Spawn, StillDispatchable, Dispatchable
  <2>2. IsFiniteSet(Group) /\ Group' \in SUBSET Group
    BY <2>1, GroupShrinks, CountedAreFinite DEF IInv
  <2>3. Cardinality(Group') <= Cardinality(Group)
    BY <2>2, FS_Subset
  <2>4. wg = Cardinality(Group) /\ wg' = Cardinality(Group')
    BY CountersStep DEF IInv, CountersInv, CountersMatch
  <2> QED
    BY <2>3, <2>4
<1> QED
  BY <1>1, IInvAlways, PTL DEF Spec, GroupNeverGrowsWhileAwaited

\* A receiver left over from a failed Start never runs a handler, even while a
\* later Start accepts (dispatch's comment).
THEOREM SpawnsOnlyWhileServingAlways == Spec => SpawnsOnlyWhileServing
<1> DEFINE Guarded == \A m \in Messages :
             pc[m] # "spawned" /\ pc'[m] = "spawned" => Serving /\ startOf[m] = starts
<1>1. IInv /\ [Next]_vars => [Guarded]_vars
  <2> SUFFICES ASSUME IInv, Next, NEW m \in Messages, pc[m] # "spawned", pc'[m] = "spawned"
               PROVE  Serving /\ startOf[m] = starts
    OBVIOUS
  <2>1. Spawn(m)
    <3> USE DEF IInv, Typed, DeliveriesTyped
    <3>1. CASE StartStep \/ CloseClientDirectly
      BY <3>1 DEF StartStep, StartBegin, OpenReceiver, StartFails, StartSucceeds,
         AbortReceivers, AbortContext, AbortGate, CloseClientDirectly, CloseConnection,
         DropBuffered, deliveries
    <3>2. CASE StopStep
      BY AbandonLeaves, <3>2 DEF StopStep, StopBegin, StopDrained, StopExpires, StopChooses,
         AbandonClosesGate, CopyPending, PendingAbandoned, ConsumersClosed, BudgetRunsOut,
         AwaitEnds, StopClosesClient, CloseConnection, DropBuffered, deliveries
    <3>3. CASE DrainGoroutineStep \/ \E i \in Receivers : InterestGone(i)
      BY <3>3 DEF DrainGoroutineStep, SubscriptionsDrained, ConsumersDrained,
         DrainClosesGate, HandlersDone, DrainStep, InterestGone, deliveries
    <3>4. ASSUME NEW n \in Messages, Arrive(n) \/ CallbackStep(n)
          PROVE  Spawn(m)
      BY <3>4 DEF Arrive, CallbackStep, Deliver, FirstCheck, TakeSlot, GiveUpWaiting, Spawn,
         TurnAway, DropRefused, AbandonRefused, NakRefused, MoveTo
    <3>5. ASSUME NEW n \in Messages,
                 HandlerStep(n) \/ HandlerCode(n)
          PROVE  Spawn(m)
      BY <3>5 DEF HandlerStep, HandlerCode, AskRuntime, HandlerReturns, BeginHandler,
         RuntimeAnswers, Reply, NothingToSend, Settle, SendResult, DoubleAckReturns,
         ReleaseSlot, LeaveGroup, MoveTo
    <3> QED
      BY <3>1, <3>2, <3>3, <3>4, <3>5 DEF Next
  <2>2. accepting /\ startOf[m] \notin cancelled /\ pc[m] = "slotted"
    BY <2>1 DEF Spawn, StillDispatchable, Dispatchable
  <2>3. startOf[m] \in 1..starts
    BY <2>2 DEF IInv, ContextInv
  <2>4. starts \in Nat
    <3>1. starts \in 0..MaxStarts
      BY DEF IInv, Typed, LifecycleTyped
    <3> QED
      BY <3>1, MaxStartsAssumption
  <2>5. startOf[m] = starts /\ starts > 0
    <3>1. ~(startOf[m] < starts)
      BY <2>2, <2>3 DEF IInv, ContextInv
    <3> QED
      BY <2>3, <2>4, <3>1
  <2>6. Serving
    BY <2>2, <2>5 DEF Serving, IInv, Typed, LifecycleTyped, Phases, ContextInv
  <2> QED
    BY <2>5, <2>6
<1> QED
  BY <1>1, IInvAlways, PTL DEF Spec, SpawnsOnlyWhileServing
=============================================================================
