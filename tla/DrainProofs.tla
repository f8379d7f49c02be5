---------------------------- MODULE DrainProofs ----------------------------
(***************************************************************************)
(* What both endings of Stop leave behind: proofs of CleanDrain and         *)
(* CleanAbandon for every runtime.                                          *)
(***************************************************************************)
EXTENDS RuntimeProofs

(* The strengthening.  It follows one Start from StartBegin to Stop's return *)
(* and says what may have happened to its receivers and its messages as long *)
(* as the Start has not failed and nobody has closed the client directly.    *)
Orderly == client # "closed directly" /\ (state # "created" \/ life = "opening")

\* Stop has not given up waiting.
Undisturbed == Orderly /\ result # "ctx"

\* Whoever closed the connection found the consumers closed.
Sufficed == Orderly /\ (client = "closed by Stop" /\ result = "ctx" => budget = "left")

\* No Start cancels another's context before it has begun, no message has a
\* Start before it arrives, and Stop closes the client last.
Epochs ==
    /\ cancelled \subseteq 1..starts
    /\ \A m \in Messages : pc[m] = "idle" => startOf[m] = 0
    /\ client = "closed by Stop" => life = "returned"
    /\ life = "returned" => result # "none"

\* The gate is open, and the context good, until all receivers are closed,
\* unless Stop expires; ...
OpenUntilDrained == Undisturbed /\ drain \notin {"waiting", "done"} => accepting

GoodUntilDrained == Undisturbed /\ drain \notin {"waiting", "done"} => starts \notin cancelled

\* ... then the gate is closed before abandonPending looks at r.pending.
ShutBeforeAbandon ==
    life \in {"copying", "abandoning", "awaiting", "closing", "returned"} /\ result = "ctx" =>
      ~accepting

\* What each wait has seen closed stays closed.
SeenClosed ==
    /\ Undisturbed /\ drain \in {"consumers", "gate", "waiting", "done"} =>
         \A i \in CoreReceivers : ReceiverClosed(starts, i)
    /\ drain \in {"gate", "waiting", "done"} => AllConsumersClosed
    /\ life \in {"closing", "returned"} /\ result = "ctx" /\ budget = "left" => AllConsumersClosed

Answered == {"confirming", "unwinding", "leaving", "done"}

\* A message of an undisturbed Start is on its way through its handler, or
\* through it and answered.
WellServed(m) ==
    /\ pc[m] \notin {"refused", "abandoning", "dropped"}
    /\ Acking(m) /\ pc[m] \in Tracked => ~AlreadySettled(m)
    /\ pc[m] \in Answered =>
         /\ Acking(m) => answers[m] \in {<<"ack">>, <<"nak">>}
         /\ Kind(m) = "endpoint" => answers[m] = <<"reply">>

\* A delivery that is over is settled, and only its own handler can have found
\* the connection closed.
WellSettled(m) ==
    /\ pc[m] \in Answered \cup {"dropped"} => AlreadySettled(m)
    /\ answers[m] = <<"lost">> => pc[m] \in Answered

\* Once abandonPending has copied r.pending, what it has not reached is all
\* that a handler may still settle.
LeftToAbandon(m) ==
    pc[m] \in {"spawned", "handling", "asking", "succeeded", "failed"} /\ ~AlreadySettled(m) =>
      m \in toAbandon

MessagesFollowDrain ==
    \A m \in Messages : startOf[m] = starts /\ starts > 0 =>
      /\ Undisturbed => WellServed(m)
      /\ Acking(m) /\ Sufficed => WellSettled(m)
      /\ Acking(m) /\ result = "ctx"
           /\ life \in {"abandoning", "awaiting", "closing", "returned"} => LeftToAbandon(m)

AbandonEnds ==
    life \in {"awaiting", "closing", "returned"} /\ result = "ctx" => toAbandon = {}

StopInv ==
    /\ Epochs /\ OpenUntilDrained /\ GoodUntilDrained /\ ShutBeforeAbandon
    /\ SeenClosed /\ MessagesFollowDrain /\ AbandonEnds

-----------------------------------------------------------------------------
(* What one step does to the lifecycle and to one message.                   *)

LEMMA StartsAreNatural ==
  ASSUME Typed
  PROVE  starts \in Nat /\ starts \in 0..MaxStarts /\ MaxStarts \in Nat
<1>1. starts \in 0..MaxStarts
  BY DEF Typed, LifecycleTyped
<1> QED
  BY <1>1, MaxStartsAssumption

\* Stop runs for a Start that has begun.
LEMMA ARunningStart ==
  ASSUME Typed, Phases, state = "stopped"
  PROVE  starts > 0
<1>1. starts \in Starts
  BY AStartHasBegun
<1> QED
  BY <1>1, MaxStartsAssumption DEF Starts

\* The goroutines of callbacks and handlers touch neither Start nor Stop's
\* variables nor the connection.
LEMMA GoroutineStep ==
  ASSUME NEW m \in Messages, Arrive(m) \/ CallbackStep(m) \/ HandlerStep(m) \/ HandlerCode(m)
  PROVE  /\ UNCHANGED <<state, life, result, starts, next, drain, toAbandon, inHand, budget>>
         /\ UNCHANGED <<accepting, cancelled, recv, client>>
<1>1. CASE Arrive(m) \/ HandlerCode(m)
  BY <1>1 DEF Arrive, HandlerCode, AskRuntime, HandlerReturns, lifecycle, intake, connection
<1>2. CASE CallbackStep(m)
  BY <1>2 DEF CallbackStep, Deliver, FirstCheck, TakeSlot, GiveUpWaiting, Spawn, TurnAway,
     DropRefused, AbandonRefused, NakRefused, lifecycle, intake, connection
<1>3. CASE HandlerStep(m)
  BY <1>3 DEF HandlerStep, BeginHandler, RuntimeAnswers, Reply, NothingToSend, Settle,
     SendResult, DoubleAckReturns, ReleaseSlot, LeaveGroup, lifecycle, intake, connection
<1> QED
  BY <1>1, <1>2, <1>3

\* A message's step is one of its own goroutine or nats.go's, ...
OwnStep(m) == Arrive(m) \/ CallbackStep(m) \/ HandlerStep(m) \/ HandlerCode(m)

SameAccount(m) == startOf'[m] = startOf[m] /\ dstate'[m] = dstate[m] /\ answers'[m] = answers[m]

\* ... or it is dropped with the receiver that buffered it, ...
Dropped(m) ==
    /\ pc[m] = "buffered" /\ pc'[m] = "dropped" /\ SameAccount(m)
    /\ AbortReceivers \/ CloseClientDirectly \/ StopClosesClient

\* ... or it stays as it is.
Unmoved(m) == pc'[m] = pc[m] /\ SameAccount(m)

LEMMA StepOfMessage ==
  ASSUME Typed, Next, NEW m \in Messages
  PROVE  OwnStep(m) \/ AbandonStep(m) \/ Dropped(m) \/ Unmoved(m)
<1> USE DEF Typed, DeliveriesTyped, SameAccount
<1>1. CASE AbortReceivers \/ CloseClientDirectly \/ StopClosesClient
  BY <1>1 DEF AbortReceivers, CloseClientDirectly, StopClosesClient, CloseConnection,
     DropBuffered, Dropped, Unmoved
<1>2. CASE StartStep /\ ~AbortReceivers
  BY <1>2 DEF StartStep, StartBegin, OpenReceiver, StartFails, StartSucceeds, AbortContext,
     AbortGate, deliveries, Unmoved
<1>3. ASSUME NEW n \in Messages, AbandonStep(n), n # m
      PROVE  Unmoved(m)
  BY <1>3, AbandonLeaves DEF AbandonStep, AbandonPending, UntrackAbandoned, NakAbandoned, Send,
     deliveries, Unmoved
<1>4. CASE StopStep /\ ~StopClosesClient
  <2>1. CASE \E n \in Messages : AbandonStep(n)
    BY <1>3, <2>1
  <2> QED
    BY <1>4, <2>1 DEF StopStep, StopBegin, StopDrained, StopExpires, StopChooses,
       AbandonClosesGate, CopyPending, PendingAbandoned, ConsumersClosed, BudgetRunsOut,
       AwaitEnds, deliveries, Unmoved
<1>5. CASE DrainGoroutineStep \/ \E i \in Receivers : InterestGone(i)
  BY <1>5 DEF DrainGoroutineStep, SubscriptionsDrained, ConsumersDrained, DrainClosesGate,
     HandlersDone, DrainStep, InterestGone, deliveries, Unmoved
<1>6. ASSUME NEW n \in Messages, OwnStep(n), n # m
      PROVE  Unmoved(m)
  <2>1. CASE Arrive(n) \/ HandlerCode(n)
    BY <1>6, <2>1 DEF Arrive, HandlerCode, AskRuntime, HandlerReturns, MoveTo, Unmoved
  <2>2. CASE CallbackStep(n)
    BY <1>6, <2>2 DEF CallbackStep, Deliver, FirstCheck, TakeSlot, GiveUpWaiting, Spawn,
       TurnAway, DropRefused, AbandonRefused, NakRefused, Send, MoveTo, Unmoved
  <2>3. CASE HandlerStep(n)
    BY <1>6, <2>3 DEF HandlerStep, BeginHandler, RuntimeAnswers, Reply, NothingToSend, Settle,
       SendResult, DoubleAckReturns, ReleaseSlot, LeaveGroup, Send, MoveTo, Unmoved
  <2> QED
    BY <1>6, <2>1, <2>2, <2>3 DEF OwnStep
<1> QED
  BY <1>1, <1>2, <1>4, <1>5, <1>6 DEF Next, OwnStep

\* A message takes its Start when it arrives, and then keeps it.
LEMMA StartIsKept ==
  ASSUME Typed, Next, NEW m \in Messages
  PROVE  \/ /\ Arrive(m) /\ pc[m] = "idle" /\ pc'[m] = "buffered"
            /\ startOf'[m] = starts /\ starts > 0 /\ UNCHANGED starts
            /\ recv[starts][Target[m]] \in {"open", "draining"}
            /\ dstate'[m] = dstate[m] /\ answers'[m] = answers[m]
         \/ ~Arrive(m) /\ startOf'[m] = startOf[m] /\ (pc'[m] = "idle" => pc[m] = "idle")
<1> USE DEF Typed, DeliveriesTyped
<1>1. CASE Arrive(m)
  BY <1>1 DEF Arrive, lifecycle
<1>2. CASE AbandonStep(m) \/ Dropped(m) \/ Unmoved(m)
  <2>1. startOf'[m] = startOf[m] /\ (pc'[m] = "idle" => pc[m] = "idle")
    BY <1>2, AbandonLeaves DEF Dropped, Unmoved, SameAccount
  <2> QED
    BY <1>1, <2>1
<1>3. CASE CallbackStep(m) \/ HandlerCode(m)
  <2>1. startOf'[m] = startOf[m] /\ (pc'[m] = "idle" => pc[m] = "idle")
    BY <1>3 DEF CallbackStep, Deliver, FirstCheck, TakeSlot, GiveUpWaiting, Spawn, TurnAway,
       DropRefused, AbandonRefused, NakRefused, HandlerCode, AskRuntime, HandlerReturns, MoveTo
  <2> QED
    BY <1>1, <2>1
<1>4. CASE HandlerStep(m)
  <2>1. startOf'[m] = startOf[m] /\ (pc'[m] = "idle" => pc[m] = "idle")
    BY <1>4 DEF HandlerStep, BeginHandler, RuntimeAnswers, Reply, NothingToSend, Settle,
     SendResult, DoubleAckReturns, ReleaseSlot, LeaveGroup, MoveTo
  <2> QED
    BY <1>1, <2>1
<1> QED
  BY <1>1, <1>2, <1>3, <1>4, StepOfMessage DEF OwnStep

\* Once Stop has begun no Start runs (r.state).
LEMMA NoStartAfterStop ==
  ASSUME Typed, Phases, state = "stopped", Next
  PROVE  ~StartStep /\ UNCHANGED <<starts, state>>
<1>1. ~StartStep
  BY DEF Phases, StartStep, StartBegin, OpenReceiver, StartFails, StartSucceeds,
     AbortReceivers, AbortContext, AbortGate
<1>2. CASE StopStep
  BY AbandonLeaves, <1>1, <1>2 DEF StopStep, StopBegin, StopDrained, StopExpires, StopChooses,
     AbandonClosesGate, CopyPending, PendingAbandoned, ConsumersClosed,
     BudgetRunsOut, AwaitEnds, StopClosesClient
<1>3. CASE DrainGoroutineStep
  BY <1>1, <1>3 DEF DrainGoroutineStep, SubscriptionsDrained, ConsumersDrained, DrainClosesGate,
     HandlersDone, DrainStep
<1>4. CASE ~StartStep /\ ~StopStep /\ ~DrainGoroutineStep
  BY <1>4, OthersLeaveLifecycle DEF lifecycle
<1> QED
  BY <1>1, <1>2, <1>3, <1>4

\* A receiver that Stop has seen closed hears no message again, and none of its
\* messages is still on its way to a handler (StatusChanged, Closed).
LEMMA ClosedStays ==
  ASSUME Typed, Phases, state = "stopped", Next,
         NEW i \in Receivers, ReceiverClosed(starts, i)
  PROVE  ReceiverClosed(starts, i)'
<1>s. starts \in Starts
  BY AStartHasBegun
<1>0. ~StartStep /\ starts' = starts
  BY NoStartAfterStop
<1>1. recv'[starts][i] \in {"drained", "stopped"}
  <2> USE <1>s DEF Typed, ConnectionTyped, ReceiverClosed
  <2>1. CASE CloseClientDirectly \/ StopClosesClient
    <3>1. recv' = [g \in Starts |-> [j \in Receivers |->
                     IF g \in Starts /\ recv[g][j] \in {"open", "draining", "drained"}
                     THEN "stopped" ELSE recv[g][j]]]
      BY <2>1 DEF CloseClientDirectly, StopClosesClient, CloseConnection, SetReceivers
    <3> QED
      BY <3>1
  <2>2. CASE StopStep /\ ~StopClosesClient
    BY AbandonLeaves, <2>2 DEF StopStep, StopBegin, StopDrained, StopExpires, StopChooses,
       AbandonClosesGate, CopyPending, PendingAbandoned, ConsumersClosed, BudgetRunsOut,
       AwaitEnds, SetReceivers, connection
  <2>3. CASE DrainGoroutineStep \/ \E j \in Receivers : InterestGone(j)
    BY <2>3 DEF DrainGoroutineStep, SubscriptionsDrained, ConsumersDrained, DrainClosesGate,
       HandlersDone, DrainStep, InterestGone, connection
  <2>4. CASE \E m \in Messages : OwnStep(m)
    BY <2>4, GoroutineStep DEF OwnStep
  <2> QED
    BY <1>0, <2>1, <2>2, <2>3, <2>4 DEF Next, OwnStep
<1>2. ASSUME NEW m \in Messages, startOf'[m] = starts, Target[m] = i
      PROVE  pc'[m] \notin InCallback \cup {"buffered"}
  <2>1. ~Arrive(m) /\ startOf[m] = starts
    BY <1>2, StartIsKept DEF ReceiverClosed
  <2>2. pc[m] \notin InCallback \cup {"buffered"}
    BY <1>2, <2>1 DEF ReceiverClosed, CallbackIdle, ReceivedBy
  <2>3. CASE AbandonStep(m) \/ Dropped(m) \/ Unmoved(m)
    BY <2>2, <2>3, AbandonLeaves DEF Dropped, Unmoved
  <2>4. CASE CallbackStep(m)
    BY <2>2, <2>4 DEF CallbackStep, Deliver, FirstCheck, TakeSlot, GiveUpWaiting, Spawn,
       TurnAway, DropRefused, AbandonRefused, NakRefused, InCallback
  <2>5. CASE HandlerStep(m) \/ HandlerCode(m)
    BY <2>2, <2>5 DEF HandlerStep, BeginHandler, RuntimeAnswers, Reply, NothingToSend, Settle,
       SendResult, DoubleAckReturns, ReleaseSlot, LeaveGroup, HandlerCode, AskRuntime,
       HandlerReturns, MoveTo, Typed, DeliveriesTyped, InCallback
  <2> QED
    BY <2>1, <2>3, <2>4, <2>5, StepOfMessage DEF OwnStep
<1> QED
  BY <1>0, <1>1, <1>2 DEF ReceiverClosed, CallbackIdle, ReceivedBy

-----------------------------------------------------------------------------
(* The parts of the strengthening, step by step.                             *)

\* Only StartBegin begins an orderly life; every other step can only end it.
LEMMA OrderlyBefore ==
  ASSUME Typed, Phases, Epochs, Next, ~StartBegin
  PROVE  /\ starts' = starts
         /\ Orderly' => Orderly
         /\ Undisturbed' => Undisturbed
         /\ Sufficed' => Sufficed
<1> USE DEF Phases, Epochs, Orderly, Undisturbed, Sufficed
<1>1. CASE StartStep
  BY <1>1 DEF StartStep, OpenReceiver, StartFails, StartSucceeds, AbortReceivers,
     AbortContext, AbortGate, connection
<1>2. CASE StopStep
  BY AbandonLeaves, <1>2 DEF StopStep, StopBegin, StopDrained, StopExpires, StopChooses,
     AbandonClosesGate, CopyPending, PendingAbandoned, ConsumersClosed, BudgetRunsOut,
     AwaitEnds, StopClosesClient, ClientClosed, connection
<1>3. CASE DrainGoroutineStep \/ \E i \in Receivers : InterestGone(i)
  BY <1>3 DEF DrainGoroutineStep, SubscriptionsDrained, ConsumersDrained, DrainClosesGate,
     HandlersDone, DrainStep, InterestGone, lifecycle, connection
<1>4. CASE CloseClientDirectly
  BY <1>4 DEF CloseClientDirectly, ClientClosed, lifecycle
<1>5. CASE \E m \in Messages : OwnStep(m)
  BY <1>5, GoroutineStep DEF OwnStep
<1> QED
  BY <1>1, <1>2, <1>3, <1>4, <1>5 DEF Next, OwnStep

\* cancelHandlers cancels the context of a Start that has begun, and Stop closes
\* the client as its last step.
LEMMA EpochsStep ==
  ASSUME Typed, Phases, Epochs, Next
  PROVE  Epochs'
<1>s. starts \in Nat
  BY StartsAreNatural
<1>1. cancelled' \subseteq 1..starts'
  <2>n. cancelled \subseteq 1..starts
    BY DEF Epochs
  <2>s. starts \in Starts => starts \in 1..starts
    BY <1>s, StartsAreNatural DEF Starts
  <2>1. CASE StartStep
    <3>1. CASE AbortContext
      BY <2>n, <2>s, <3>1, AStartHasBegun DEF AbortContext
    <3>2. CASE StartBegin
      BY <1>s, <2>n, <3>2 DEF StartBegin
    <3> QED
      BY <2>n, <2>1, <3>1, <3>2 DEF StartStep, OpenReceiver, StartFails, StartSucceeds,
         AbortReceivers, AbortGate, intake
  <2>2. CASE StopStep
    <3>1. CASE StopDrained \/ StopExpires
      BY <2>n, <2>s, <3>1, AStartHasBegun DEF StopDrained, StopExpires, StopChooses
    <3> QED
      BY AbandonLeaves, <2>n, <2>2, <3>1 DEF StopStep, StopBegin, AbandonClosesGate,
         CopyPending, PendingAbandoned, ConsumersClosed, BudgetRunsOut, AwaitEnds,
         StopClosesClient, intake
  <2>3. CASE DrainGoroutineStep \/ CloseClientDirectly \/ \E i \in Receivers : InterestGone(i)
    BY <2>n, <2>3 DEF DrainGoroutineStep, SubscriptionsDrained, ConsumersDrained,
       DrainClosesGate, HandlersDone, DrainStep, CloseClientDirectly, InterestGone, lifecycle,
       intake
  <2>4. CASE \E m \in Messages : OwnStep(m)
    BY <2>n, <2>4, GoroutineStep DEF OwnStep
  <2> QED
    BY <2>1, <2>2, <2>3, <2>4 DEF Next, OwnStep
<1>2. ASSUME NEW m \in Messages, pc'[m] = "idle"
      PROVE  startOf'[m] = 0
  BY <1>2, StartIsKept DEF Epochs
<1>3. /\ client' = "closed by Stop" => life' = "returned"
      /\ life' = "returned" => result' # "none"
  <2> USE DEF Epochs, Phases
  <2>1. CASE StartStep
    BY <2>1 DEF StartStep, StartBegin, OpenReceiver, StartFails, StartSucceeds,
       AbortReceivers, AbortContext, AbortGate, connection
  <2>2. CASE StopStep
    BY AbandonLeaves, <2>2 DEF StopStep, StopBegin, StopDrained, StopExpires, StopChooses,
       AbandonClosesGate, CopyPending, PendingAbandoned, ConsumersClosed, BudgetRunsOut,
       AwaitEnds, StopClosesClient, connection
  <2>3. CASE DrainGoroutineStep \/ CloseClientDirectly \/ \E i \in Receivers : InterestGone(i)
    BY <2>3 DEF DrainGoroutineStep, SubscriptionsDrained, ConsumersDrained, DrainClosesGate,
       HandlersDone, DrainStep, CloseClientDirectly, InterestGone, lifecycle, connection
  <2>4. CASE \E m \in Messages : OwnStep(m)
    BY <2>4, GoroutineStep DEF OwnStep
  <2> QED
    BY <2>1, <2>2, <2>3, <2>4 DEF Next, OwnStep
<1> QED
  BY <1>1, <1>2, <1>3 DEF Epochs

\* Nobody shuts an orderly Start's gate before all its receivers are closed
\* (setAccepting).
LEMMA OpenUntilDrainedStep ==
  ASSUME Typed, Phases, Epochs, OpenUntilDrained, Next
  PROVE  OpenUntilDrained'
<1> USE DEF OpenUntilDrained, Undisturbed, Orderly, Phases
<1>1. CASE StartBegin
  BY <1>1 DEF StartBegin
<1>2. CASE StartStep /\ ~StartBegin
  <2>1. CASE OpenReceiver \/ StartFails \/ StartSucceeds
    <3>1. accepting' = accepting /\ drain' = drain
      BY <2>1 DEF OpenReceiver, StartFails, StartSucceeds, intake
    <3>2. Undisturbed' => Undisturbed
      BY <2>1 DEF OpenReceiver, StartFails, StartSucceeds, connection
    <3> HIDE DEF Undisturbed
    <3> QED
      BY <3>1, <3>2
  <2>2. CASE AbortReceivers \/ AbortContext \/ AbortGate
    <3>1. ~Orderly'
      BY <2>2 DEF AbortReceivers, AbortContext, AbortGate, Typed, LifecycleTyped
    <3> HIDE DEF Orderly
    <3> QED
      BY <3>1
  <2> QED
    BY <1>2, <2>1, <2>2 DEF StartStep
<1>3. CASE StopStep
  BY AbandonLeaves, <1>3 DEF StopStep, StopBegin, StopDrained, StopExpires, StopChooses,
     AbandonClosesGate, CopyPending, PendingAbandoned, ConsumersClosed, BudgetRunsOut,
     AwaitEnds, StopClosesClient, ClientClosed, intake, connection, Epochs
<1>4. CASE DrainGoroutineStep
  BY <1>4 DEF DrainGoroutineStep, SubscriptionsDrained, ConsumersDrained, DrainClosesGate,
     HandlersDone, DrainStep, connection
<1>5. CASE CloseClientDirectly \/ \E i \in Receivers : InterestGone(i)
  BY <1>5 DEF CloseClientDirectly, InterestGone, lifecycle, intake
<1>6. CASE \E m \in Messages : OwnStep(m)
  BY <1>6, GoroutineStep DEF OwnStep
<1> QED
  BY <1>1, <1>2, <1>3, <1>4, <1>5, <1>6 DEF Next, OwnStep

\* Nobody cancels an orderly Start's context before that (cancelHandlers).
LEMMA GoodUntilDrainedStep ==
  ASSUME Typed, Phases, Epochs, GoodUntilDrained, Next
  PROVE  GoodUntilDrained'
<1> DEFINE Early == Undisturbed /\ drain \notin {"waiting", "done"}
<1>1. CASE StartBegin
  <2>1. starts' = starts + 1 /\ cancelled' = cancelled
    BY <1>1 DEF StartBegin
  <2>2. cancelled \subseteq 1..starts
    BY DEF Epochs
  <2>3. starts' \notin cancelled'
    BY <2>1, <2>2, StartsAreNatural
  <2> HIDE DEF Early
  <2> QED
    BY <2>3 DEF GoodUntilDrained
<1>2. CASE AbortContext
  <2>1. ~Orderly'
    BY <1>2 DEF Orderly, AbortContext, Phases, Typed, LifecycleTyped
  <2> QED
    BY <2>1 DEF GoodUntilDrained, Undisturbed
<1>3. CASE StopDrained \/ StopExpires
  <2>1. ~Early'
    BY <1>3 DEF StopDrained, StopExpires, StopChooses, Undisturbed
  <2> QED
    BY <2>1 DEF GoodUntilDrained
<1>4. CASE ~StartBegin /\ ~AbortContext /\ ~StopDrained /\ ~StopExpires
  <2>1. starts' = starts /\ (Undisturbed' => Undisturbed)
    BY <1>4, OrderlyBefore
  <2>2. cancelled' = cancelled
    BY AbandonLeaves, <1>4, GoroutineStep DEF Next, OwnStep, StartStep, OpenReceiver,
       StartFails, StartSucceeds, AbortReceivers, AbortGate, StopStep, StopBegin,
       AbandonClosesGate, CopyPending, PendingAbandoned, ConsumersClosed, BudgetRunsOut,
       AwaitEnds, StopClosesClient, DrainGoroutineStep, SubscriptionsDrained,
       ConsumersDrained, DrainClosesGate, HandlersDone, DrainStep, CloseClientDirectly,
       InterestGone, intake
  <2>3. Early' => Early
    BY AbandonLeaves, <1>4, <2>1, GoroutineStep DEF Next, OwnStep, StartStep, OpenReceiver,
       StartFails, StartSucceeds, AbortReceivers, AbortGate, StopStep, StopBegin,
       AbandonClosesGate, CopyPending, PendingAbandoned, ConsumersClosed, BudgetRunsOut,
       AwaitEnds, StopClosesClient, DrainGoroutineStep, SubscriptionsDrained,
       ConsumersDrained, DrainClosesGate, HandlersDone, DrainStep, CloseClientDirectly,
       InterestGone, lifecycle, Phases
  <2> HIDE DEF Early
  <2> QED
    BY <2>1, <2>2, <2>3 DEF GoodUntilDrained, Early
<1> QED
  BY <1>1, <1>2, <1>3, <1>4

\* abandonDrain shuts the gate first of all, and nobody opens it again.
LEMMA ShutBeforeAbandonStep ==
  ASSUME Phases, ShutBeforeAbandon, Next
  PROVE  ShutBeforeAbandon'
<1> USE DEF ShutBeforeAbandon, Phases
<1>1. CASE StartStep
  BY <1>1 DEF StartStep, StartBegin, OpenReceiver, StartFails, StartSucceeds, AbortReceivers,
     AbortContext, AbortGate
<1>2. CASE StopStep
  BY AbandonLeaves, <1>2 DEF StopStep, StopBegin, StopDrained, StopExpires, StopChooses,
     AbandonClosesGate, CopyPending, PendingAbandoned, ConsumersClosed, BudgetRunsOut,
     AwaitEnds, StopClosesClient, intake
<1>3. CASE DrainGoroutineStep
  BY <1>3 DEF DrainGoroutineStep, SubscriptionsDrained, ConsumersDrained, DrainClosesGate,
     HandlersDone, DrainStep
<1>4. CASE CloseClientDirectly \/ \E i \in Receivers : InterestGone(i)
  BY <1>4 DEF CloseClientDirectly, InterestGone, lifecycle, intake
<1>5. CASE \E m \in Messages : OwnStep(m)
  BY <1>5, GoroutineStep DEF OwnStep
<1> QED
  BY <1>1, <1>2, <1>3, <1>4, <1>5 DEF Next, OwnStep

\* What a wait of the drain goroutine or of abandonDrain has seen closed stays
\* closed (waitSubscriptionsDrained, waitConsumersClosed).
LEMMA SeenClosedStep ==
  ASSUME Typed, Phases, Epochs, SeenClosed, Next
  PROVE  SeenClosed'
<1>1. CASE state # "stopped"
  <2>1. drain' \in {"none", "subs"} /\ life' \notin {"closing", "returned"}
    <3> USE <1>1 DEF Phases, Typed, LifecycleTyped
    <3>1. CASE StartStep
      BY <3>1 DEF StartStep, StartBegin, OpenReceiver, StartFails, StartSucceeds,
         AbortReceivers, AbortContext, AbortGate
    <3>2. CASE StopStep
      BY AbandonLeaves, <3>2 DEF StopStep, StopBegin, StopDrained, StopExpires, StopChooses,
         AbandonClosesGate, CopyPending, PendingAbandoned, ConsumersClosed,
         BudgetRunsOut, AwaitEnds, StopClosesClient
    <3>3. CASE DrainGoroutineStep \/ CloseClientDirectly \/ \E i \in Receivers : InterestGone(i)
      BY <3>3 DEF DrainGoroutineStep, SubscriptionsDrained, ConsumersDrained, DrainClosesGate,
         HandlersDone, DrainStep, CloseClientDirectly, InterestGone, lifecycle
    <3>4. CASE \E m \in Messages : OwnStep(m)
      BY <3>4, GoroutineStep DEF OwnStep
    <3> QED
      BY <3>1, <3>2, <3>3, <3>4 DEF Next, OwnStep
  <2> QED
    BY <2>1 DEF SeenClosed
<1>2. CASE state = "stopped"
  <2>0. ~StartStep /\ starts' = starts
    BY <1>2, NoStartAfterStop
  <2>c. \A i \in Receivers : ReceiverClosed(starts, i) => ReceiverClosed(starts, i)'
    BY <1>2, ClosedStays
  <2>n. CoreReceivers \subseteq Receivers /\ Consumers \subseteq Receivers
    BY DEF CoreReceivers, Consumers
  <2>1. AllConsumersClosed => AllConsumersClosed'
    BY <2>c, <2>n DEF AllConsumersClosed, Consumers, CoreReceivers
  <2>2. (\A i \in CoreReceivers : ReceiverClosed(starts, i))
          => (\A i \in CoreReceivers : ReceiverClosed(starts, i))'
    BY <2>c, <2>n DEF CoreReceivers
  <2>3. Undisturbed' => Undisturbed
    BY <2>0, OrderlyBefore DEF StartStep
  <2>4. CASE StopStep
    BY AbandonLeaves, <1>2, <2>1, <2>2, <2>3, <2>4 DEF SeenClosed, Phases, StopStep,
       StopBegin, StopDrained, StopExpires, StopChooses, AbandonClosesGate, CopyPending,
       PendingAbandoned, ConsumersClosed, BudgetRunsOut, AwaitEnds, StopClosesClient
  <2>5. CASE DrainGoroutineStep
    <3>1. CASE SubscriptionsDrained
      <4>1. Undisturbed => \A i \in CoreReceivers : ReceiverClosed(starts, i)
        BY <3>1 DEF SubscriptionsDrained, Undisturbed, Orderly, ClientClosed, Epochs, Phases,
           Typed, LifecycleTyped, ConnectionTyped
      <4> QED
        BY <3>1, <4>1, <2>1, <2>2, <2>3 DEF SeenClosed, SubscriptionsDrained, DrainStep
    <3>2. CASE ConsumersDrained \/ DrainClosesGate \/ HandlersDone
      BY <3>2, <2>1, <2>2, <2>3 DEF SeenClosed, ConsumersDrained, DrainClosesGate,
         HandlersDone, DrainStep
    <3> QED
      BY <2>5, <3>1, <3>2 DEF DrainGoroutineStep
  <2>6. CASE CloseClientDirectly \/ \E i \in Receivers : InterestGone(i)
    BY <2>6, <2>1, <2>2, <2>3 DEF SeenClosed, CloseClientDirectly, InterestGone, lifecycle
  <2>7. CASE \E m \in Messages : OwnStep(m)
    BY <2>7, <2>1, <2>2, <2>3, GoroutineStep DEF SeenClosed, OwnStep
  <2> QED
    BY <2>0, <2>4, <2>5, <2>6, <2>7 DEF Next, OwnStep
<1> QED
  BY <1>1, <1>2

\* abandonPending has reached all it copied when it ends.
LEMMA AbandonEndsStep ==
  ASSUME Typed, Phases, AbandonEnds, Next
  PROVE  AbandonEnds'
<1> USE DEF AbandonEnds, Phases
<1>1. CASE StartStep
  BY <1>1 DEF StartStep, StartBegin, OpenReceiver, StartFails, StartSucceeds, AbortReceivers,
     AbortContext, AbortGate
<1>2. CASE StopStep
  BY AbandonLeaves, <1>2 DEF StopStep, StopBegin, StopDrained, StopExpires, StopChooses,
     AbandonClosesGate, CopyPending, PendingAbandoned, ConsumersClosed, BudgetRunsOut,
     AwaitEnds, StopClosesClient
<1>3. CASE DrainGoroutineStep \/ CloseClientDirectly \/ \E i \in Receivers : InterestGone(i)
  BY <1>3 DEF DrainGoroutineStep, SubscriptionsDrained, ConsumersDrained, DrainClosesGate,
     HandlersDone, DrainStep, CloseClientDirectly, InterestGone, lifecycle
<1>4. CASE \E m \in Messages : OwnStep(m)
  BY <1>4, GoroutineStep DEF OwnStep
<1> QED
  BY <1>1, <1>2, <1>3, <1>4 DEF Next, OwnStep

-----------------------------------------------------------------------------
(* The messages of the Start that runs.                                      *)

\* A message of the Start that runs was its already, or has just arrived: a new
\* Start has no message yet.
LEMMA SameStartBefore ==
  ASSUME Typed, Phases, Epochs, ContextInv, Next,
         NEW m \in Messages, startOf'[m] = starts', starts' > 0
  PROVE  /\ ~StartBegin /\ starts' = starts
         /\ \/ /\ Arrive(m) /\ pc[m] = "idle" /\ pc'[m] = "buffered"
               /\ dstate'[m] = dstate[m] /\ answers'[m] = answers[m]
            \/ ~Arrive(m) /\ startOf[m] = starts
<1>s. starts \in Nat
  BY StartsAreNatural
<1>1. ~StartBegin
  <2> SUFFICES ASSUME StartBegin
               PROVE  FALSE
    OBVIOUS
  <2>1. starts' = starts + 1 /\ startOf'[m] = startOf[m]
    BY DEF StartBegin, deliveries
  <2>2. pc[m] # "idle" => startOf[m] \in 1..starts
    BY DEF ContextInv
  <2>3. pc[m] = "idle" => startOf[m] = 0
    BY DEF Epochs
  <2> QED
    BY <1>s, <2>1, <2>2, <2>3
<1>2. starts' = starts
  BY <1>1, OrderlyBefore
<1> QED
  BY <1>1, <1>2, StartIsKept

\* Every message leads to a core subscription or to a consumer.
LEMMA TargetKinds ==
  ASSUME NEW m \in Messages
  PROVE  /\ Target[m] \in Receivers
         /\ Target[m] \in CoreReceivers \/ Target[m] \in Consumers
         /\ Acking(m) => Target[m] \in Consumers
<1>1. Target[m] \in Receivers
  BY SubscriptionsAssumption
<1> QED
  BY <1>1 DEF Consumers, CoreReceivers, Acking, Kind

\* While an undisturbed Start still has the message with a callback, dispatch
\* lets it through.
LEMMA CallbackServes ==
  ASSUME Typed, SeenClosed, OpenUntilDrained, GoodUntilDrained, Undisturbed,
         NEW m \in Messages, startOf[m] = starts, pc[m] \in InCallback \cup {"buffered"}
  PROVE  Dispatchable(m) /\ drain \notin {"waiting", "done"}
<1>1. ~ReceiverClosed(starts, Target[m])
  BY DEF ReceiverClosed, CallbackIdle, ReceivedBy
<1>2. drain \notin {"waiting", "done"}
  <2> SUFFICES ASSUME drain \in {"waiting", "done"}
               PROVE  FALSE
    OBVIOUS
  <2>1. \A i \in CoreReceivers : ReceiverClosed(starts, i)
    BY DEF SeenClosed
  <2>2. \A i \in Consumers : ReceiverClosed(starts, i)
    BY DEF SeenClosed, AllConsumersClosed
  <2> QED
    BY <1>1, <2>1, <2>2, TargetKinds
<1>3. accepting
  BY <1>2 DEF OpenUntilDrained
<1>4. starts \notin cancelled
  BY <1>2 DEF GoodUntilDrained
<1> QED
  BY <1>2, <1>3, <1>4 DEF Dispatchable

\* Stop closes the connection after all callbacks and handlers of an undisturbed
\* Start.
LEMMA ConnectionServes ==
  ASSUME Typed, Phases, GateInv, Epochs, SeenClosed, OpenUntilDrained, GoodUntilDrained,
         Undisturbed, NEW m \in Messages, startOf[m] = starts,
         pc[m] \in InCallback \cup InHandler \cup {"buffered", "leaving"}
  PROVE  ~ClientClosed
<1> SUFFICES ASSUME ClientClosed
             PROVE  FALSE
  OBVIOUS
<1>1. client = "closed by Stop"
  BY DEF Undisturbed, Orderly, ClientClosed, Typed, ConnectionTyped
<1>2. result = "nil"
  BY <1>1 DEF Epochs, Undisturbed, Typed, LifecycleTyped
<1>3. drain = "done"
  BY <1>2 DEF Phases
<1>4. pc[m] \notin InHandler \cup {"leaving"}
  BY <1>3 DEF GateInv, Group
<1> QED
  BY <1>3, <1>4, CallbackServes

\* When Stop closes the client and its budget sufficed, no delivery is left with
\* a callback.
LEMMA ConnectionSuffices ==
  ASSUME Typed, Phases, Epochs, SeenClosed, Sufficed, NEW m \in Messages,
         Acking(m), startOf[m] = starts, pc[m] \in InCallback \cup {"buffered"}
  PROVE  ~ClientClosed
<1> SUFFICES ASSUME ClientClosed
             PROVE  FALSE
  OBVIOUS
<1>1. client = "closed by Stop"
  BY DEF Sufficed, Orderly, ClientClosed, Typed, ConnectionTyped
<1>2. life = "returned" /\ result # "none"
  BY <1>1 DEF Epochs
<1>3. AllConsumersClosed
  BY <1>1, <1>2 DEF SeenClosed, Sufficed, Phases, Typed, LifecycleTyped
<1> QED
  BY <1>3, TargetKinds DEF AllConsumersClosed, ReceiverClosed, CallbackIdle, ReceivedBy

-----------------------------------------------------------------------------
(* What each step does to a message of the Start that runs.                  *)

\* Nothing drops what an orderly Start has buffered, but a Stop that closes the
\* client.
LEMMA DroppedByStop ==
  ASSUME Typed, Phases, Orderly', NEW m \in Messages, Dropped(m)
  PROVE  StopClosesClient
  BY DEF Dropped, AbortReceivers, CloseClientDirectly, Orderly, Phases, Typed, LifecycleTyped

\* An undisturbed Start serves each of its messages: its callback never turns
\* one away, and its handler sends the one answer that is due.
LEMMA WellServedStep ==
  ASSUME Typed, Phases, GateInv, Epochs, SeenClosed, OpenUntilDrained, GoodUntilDrained,
         NEW m \in Messages, DeliveryInv(m), WellServed(m), startOf[m] = starts,
         Undisturbed, Undisturbed', Next, ~Arrive(m)
  PROVE  WellServed(m)'
<1> USE DEF Typed, DeliveriesTyped, WellServed, Answered, Acking, Kind, AlreadySettled, MoveTo
<1>c. pc[m] \in InCallback \cup {"buffered"} => Dispatchable(m) /\ drain \notin {"waiting", "done"}
  BY CallbackServes
<1>o. pc[m] \in InCallback \cup InHandler \cup {"buffered", "leaving"} => ~ClientClosed
  BY ConnectionServes
<1>1. CASE Unmoved(m)
  BY <1>1 DEF Unmoved, SameAccount
<1>2. CASE Dropped(m)
  <2>1. StopClosesClient
    BY <1>2, DroppedByStop DEF Undisturbed
  <2>2. life = "flushing" /\ pc[m] = "buffered"
    BY <1>2, <2>1 DEF StopClosesClient, Phases, Undisturbed, Dropped
  <2>3. drain = "done"
    BY <2>2 DEF Phases
  <2> QED
    BY <1>c, <2>2, <2>3
<1>3. CASE AbandonStep(m)
  BY <1>3, AbandonLeaves DEF Phases, Undisturbed
<1>4. CASE CallbackStep(m)
  <2>1. CASE Deliver(m)
    BY <2>1 DEF Deliver, DeliveryInv
  <2>2. CASE FirstCheck(m)
    BY <2>2, <1>c DEF FirstCheck, Tracked, InCallback
  <2>3. CASE TakeSlot(m) \/ Spawn(m)
    BY <2>3 DEF TakeSlot, Spawn, Tracked
  <2>4. CASE GiveUpWaiting(m) \/ TurnAway(m)
    BY <2>4, <1>c DEF GiveUpWaiting, TurnAway, StillDispatchable, Dispatchable, InCallback
  <2> QED
    BY <1>4, <2>1, <2>2, <2>3, <2>4 DEF CallbackStep, DropRefused, AbandonRefused, NakRefused
<1>5. CASE HandlerStep(m)
  <2>1. CASE BeginHandler(m)
    BY <2>1 DEF BeginHandler, Tracked
  <2>2. CASE RuntimeAnswers(m)
    BY <2>2 DEF RuntimeAnswers, Tracked
  <2>3. CASE Reply(m)
    <3>1. answers[m] = <<>>
      BY <2>3 DEF Reply, DeliveryInv
    <3>2. ~ClientClosed
      BY <2>3, <1>o DEF Reply, InHandler
    <3>3. answers'[m] = <<"reply">>
      BY <2>3, <3>1, <3>2 DEF Reply, Send
    <3> QED
      BY <2>3, <3>3 DEF Reply, Tracked
  <2>4. CASE NothingToSend(m)
    BY <2>4 DEF NothingToSend, Tracked
  <2>5. CASE Settle(m)
    BY <2>5 DEF Settle, Tracked
  <2>6. CASE SendResult(m)
    <3>1. Acking(m) /\ answers[m] = <<>>
      BY <2>6 DEF SendResult, DeliveryInv
    <3>2. ~ClientClosed
      BY <2>6, <1>o DEF SendResult, InHandler
    <3>3. answers'[m] \in {<<"ack">>, <<"nak">>}
      BY <2>6, <3>1, <3>2 DEF SendResult, Send
    <3> QED
      BY <2>6, <3>1, <3>3 DEF SendResult, Tracked
  <2>7. CASE DoubleAckReturns(m) \/ ReleaseSlot(m) \/ LeaveGroup(m)
    BY <2>7 DEF DoubleAckReturns, ReleaseSlot, LeaveGroup, Tracked
  <2> QED
    BY <1>5, <2>1, <2>2, <2>3, <2>4, <2>5, <2>6, <2>7 DEF HandlerStep
<1>6. CASE HandlerCode(m)
  BY <1>6 DEF HandlerCode, AskRuntime, HandlerReturns, Tracked
<1> QED
  BY <1>1, <1>2, <1>3, <1>4, <1>5, <1>6, StepOfMessage DEF OwnStep

\* A delivery is over only once it is settled, and whoever settles it before its
\* handler does so while the connection is open.
LEMMA WellSettledStep ==
  ASSUME Typed, Phases, Epochs, SeenClosed,
         NEW m \in Messages, DeliveryInv(m), WellSettled(m), startOf[m] = starts,
         Acking(m), Sufficed, Sufficed', Next, ~Arrive(m)
  PROVE  WellSettled(m)'
<1> USE DEF Typed, DeliveriesTyped, WellSettled, Answered, Acking, Kind, AlreadySettled, MoveTo
<1>o. pc[m] \in InCallback \cup {"buffered"} => ~ClientClosed
  BY ConnectionSuffices
<1>1. CASE Unmoved(m)
  BY <1>1 DEF Unmoved, SameAccount
<1>2. CASE Dropped(m)
  <2>1. StopClosesClient /\ pc[m] = "buffered"
    BY <1>2, DroppedByStop DEF Sufficed, Dropped
  <2>2. client' = "closed by Stop" /\ UNCHANGED <<result, budget>>
    BY <1>o, <2>1 DEF StopClosesClient
  <2>3. AllConsumersClosed
    BY <2>1, <2>2 DEF StopClosesClient, Sufficed, SeenClosed, Phases
  <2> QED
    BY <2>1, <2>3, TargetKinds DEF AllConsumersClosed, ReceiverClosed, ReceivedBy
<1>3. CASE AbandonStep(m)
  <2>1. CASE AbandonPending(m)
    BY <2>1 DEF AbandonPending
  <2>2. CASE UntrackAbandoned(m)
    BY <2>2 DEF UntrackAbandoned, deliveries
  <2>3. CASE NakAbandoned(m)
    <3>1. answers[m] = <<>> /\ UNCHANGED <<pc, dstate>>
      BY <2>3 DEF NakAbandoned, DeliveryInv
    <3>2. ~ClientClosed
      BY <2>3 DEF NakAbandoned, Sufficed, Orderly, Epochs, ClientClosed, ConnectionTyped
    <3>3. answers'[m] = <<"nak">>
      BY <2>3, <3>1, <3>2 DEF NakAbandoned, Send
    <3> QED
      BY <3>1, <3>3
  <2> QED
    BY <1>3, <2>1, <2>2, <2>3 DEF AbandonStep
<1>4. CASE CallbackStep(m)
  <2>1. CASE NakRefused(m)
    <3>1. answers[m] = <<>> /\ AlreadySettled(m)
      BY <2>1 DEF NakRefused, DeliveryInv
    <3>2. ~ClientClosed
      BY <1>o, <2>1 DEF NakRefused, InCallback
    <3>3. answers'[m] = <<"nak">>
      BY <2>1, <3>1, <3>2 DEF NakRefused, Send
    <3> QED
      BY <2>1, <3>1, <3>3 DEF NakRefused
  <2>2. CASE AbandonRefused(m) \/ DropRefused(m)
    BY <2>2 DEF AbandonRefused, DropRefused
  <2> QED
    BY <1>4, <2>1, <2>2 DEF CallbackStep, Deliver, FirstCheck, TakeSlot, GiveUpWaiting, Spawn,
       TurnAway
<1>5. CASE HandlerStep(m)
  <2>1. CASE BeginHandler(m) \/ RuntimeAnswers(m)
    BY <2>1 DEF BeginHandler, RuntimeAnswers
  <2>2. CASE Reply(m) \/ NothingToSend(m)
    BY <2>2 DEF Reply, NothingToSend
  <2>3. CASE Settle(m)
    BY <2>3 DEF Settle
  <2>4. CASE SendResult(m)
    BY <2>4 DEF SendResult, DeliveryInv
  <2>5. CASE DoubleAckReturns(m) \/ ReleaseSlot(m) \/ LeaveGroup(m)
    BY <2>5 DEF DoubleAckReturns, ReleaseSlot, LeaveGroup
  <2> QED
    BY <1>5, <2>1, <2>2, <2>3, <2>4, <2>5 DEF HandlerStep
<1>6. CASE HandlerCode(m)
  BY <1>6 DEF HandlerCode, AskRuntime, HandlerReturns
<1> QED
  BY <1>1, <1>2, <1>3, <1>4, <1>5, <1>6, StepOfMessage DEF OwnStep

Abandoned == result = "ctx" /\ life \in {"abandoning", "awaiting", "closing", "returned"}

\* abandonPending starts from all of r.pending and drops only what it reaches.
LEMMA AbandonedBefore ==
  ASSUME Typed, Phases, Next, Abandoned', NEW m \in Messages
  PROVE  \/ CopyPending
         \/ Abandoned /\ (m \in toAbandon => m \in toAbandon' \/ AbandonStep(m))
<1> USE DEF Abandoned, Phases
<1>1. CASE StartStep
  BY <1>1 DEF StartStep, StartBegin, OpenReceiver, StartFails, StartSucceeds, AbortReceivers,
     AbortContext, AbortGate
<1>2. CASE StopStep
  <2>1. ASSUME NEW n \in Messages, AbandonStep(n)
        PROVE  Abandoned /\ (m \in toAbandon => m \in toAbandon' \/ AbandonStep(m))
    BY <2>1 DEF AbandonStep, AbandonPending, UntrackAbandoned, NakAbandoned, lifecycle
  <2> QED
    BY <1>2, <2>1 DEF StopStep, StopBegin, StopDrained, StopExpires, StopChooses,
       AbandonClosesGate, PendingAbandoned, ConsumersClosed, BudgetRunsOut, AwaitEnds,
       StopClosesClient
<1>3. CASE DrainGoroutineStep \/ CloseClientDirectly \/ \E i \in Receivers : InterestGone(i)
  BY <1>3 DEF DrainGoroutineStep, SubscriptionsDrained, ConsumersDrained, DrainClosesGate,
     HandlersDone, DrainStep, CloseClientDirectly, InterestGone, lifecycle
<1>4. CASE \E n \in Messages : OwnStep(n)
  BY <1>4, GoroutineStep DEF OwnStep
<1> QED
  BY <1>1, <1>2, <1>3, <1>4 DEF Next, OwnStep

\* The gate is shut by then, so no callback spawns a handler that
\* abandonPending would not see.
LEMMA LeftToAbandonStep ==
  ASSUME Typed, Phases, ShutBeforeAbandon,
         NEW m \in Messages, DeliveryInv(m), Abandoned => LeftToAbandon(m),
         Acking(m), Abandoned', Next, ~Arrive(m)
  PROVE  LeftToAbandon(m)'
<1> USE DEF Typed, DeliveriesTyped, LeftToAbandon, Acking, Kind, AlreadySettled, MoveTo
<1>1. CASE CopyPending
  BY <1>1 DEF CopyPending, DeliveryInv, Tracked, deliveries
<1>2. CASE AbandonStep(m)
  <2>1. Abandoned
    BY <1>2, AbandonLeaves DEF Abandoned, Phases
  <2> QED
    BY <1>2, <2>1 DEF AbandonStep, AbandonPending, UntrackAbandoned, NakAbandoned, lifecycle,
       deliveries
<1>3. CASE ~CopyPending /\ ~AbandonStep(m)
  <2>1. Abandoned /\ (m \in toAbandon => m \in toAbandon')
    BY <1>3, AbandonedBefore
  <2>2. ~accepting
    BY <2>1 DEF Abandoned, ShutBeforeAbandon
  <2>3. CASE Unmoved(m) \/ Dropped(m)
    BY <2>1, <2>3 DEF Unmoved, Dropped, SameAccount
  <2>4. CASE CallbackStep(m)
    BY <2>1, <2>2, <2>4 DEF CallbackStep, Deliver, FirstCheck, TakeSlot, GiveUpWaiting, Spawn,
       TurnAway, StillDispatchable, Dispatchable, DropRefused, AbandonRefused, NakRefused
  <2>5. CASE HandlerStep(m) \/ HandlerCode(m)
    BY <2>1, <2>5 DEF HandlerStep, BeginHandler, RuntimeAnswers, Reply, NothingToSend, Settle,
       SendResult, DoubleAckReturns, ReleaseSlot, LeaveGroup, HandlerCode, AskRuntime,
       HandlerReturns
  <2> QED
    BY <1>3, <2>3, <2>4, <2>5, StepOfMessage DEF OwnStep
<1> QED
  BY <1>1, <1>2, <1>3

\* So every message of the Start that runs follows its drain.
LEMMA MessagesFollowDrainStep ==
  ASSUME Typed, Phases, SettlementInv, GateInv, ContextInv, StopInv, Next
  PROVE  MessagesFollowDrain'
<1> USE DEF StopInv
<1> SUFFICES ASSUME NEW m \in Messages, startOf'[m] = starts', starts' > 0
             PROVE  /\ Undisturbed' => WellServed(m)'
                    /\ Acking(m) /\ Sufficed' => WellSettled(m)'
                    /\ Acking(m) /\ Abandoned' => LeftToAbandon(m)'
  BY DEF MessagesFollowDrain, Abandoned, Acking, Kind
<1>0. DeliveryInv(m)
  BY DEF SettlementInv
<1>1. CASE Arrive(m)
  <2>1. pc'[m] = "buffered" /\ dstate'[m] = dstate[m] /\ answers'[m] = answers[m] /\ pc[m] = "idle"
    BY <1>1, SameStartBefore
  <2>2. answers'[m] = <<>>
    BY <1>0, <2>1 DEF DeliveryInv
  <2> QED
    BY <2>1, <2>2 DEF WellServed, WellSettled, LeftToAbandon, Tracked, Answered
<1>2. CASE ~Arrive(m)
  <2>1. ~StartBegin /\ starts' = starts /\ startOf[m] = starts
    BY <1>2, SameStartBefore
  <2>2. (Undisturbed' => Undisturbed) /\ (Sufficed' => Sufficed)
    BY <2>1, OrderlyBefore
  <2>3. /\ Undisturbed => WellServed(m)
        /\ Acking(m) /\ Sufficed => WellSettled(m)
        /\ Acking(m) /\ Abandoned => LeftToAbandon(m)
    BY <2>1 DEF MessagesFollowDrain, Abandoned
  <2>4. Undisturbed' => WellServed(m)'
    BY <1>0, <1>2, <2>1, <2>2, <2>3, WellServedStep
  <2>5. Acking(m) /\ Sufficed' => WellSettled(m)'
    BY <1>0, <1>2, <2>1, <2>2, <2>3, WellSettledStep
  <2>6. Acking(m) /\ Abandoned' => LeftToAbandon(m)'
    BY <1>0, <1>2, <2>3, LeftToAbandonStep
  <2> QED
    BY <2>4, <2>5, <2>6
<1> QED
  BY <1>1, <1>2

-----------------------------------------------------------------------------
(* The theorems.                                                             *)

\* Everything the two endings of Stop rest on is an invariant: the steps above,
\* and a stuttering step changes nothing.
THEOREM StopInvAlways == Spec => []StopInv
<1>1. Init => StopInv
  BY DEF Init, StopInv, Epochs, OpenUntilDrained, GoodUntilDrained, ShutBeforeAbandon,
     SeenClosed, MessagesFollowDrain, AbandonEnds, Undisturbed, Orderly
<1>2. IInv /\ SettlementInv /\ StopInv /\ [Next]_vars => StopInv'
  <2> SUFFICES ASSUME IInv, SettlementInv, StopInv, [Next]_vars
               PROVE  StopInv'
    OBVIOUS
  <2>1. CASE Next
    <3>1. Epochs' /\ OpenUntilDrained' /\ GoodUntilDrained' /\ ShutBeforeAbandon'
      BY <2>1, EpochsStep, OpenUntilDrainedStep, GoodUntilDrainedStep, ShutBeforeAbandonStep
         DEF IInv, StopInv
    <3>2. SeenClosed' /\ AbandonEnds'
      BY <2>1, SeenClosedStep, AbandonEndsStep DEF IInv, StopInv
    <3>3. MessagesFollowDrain'
      BY <2>1, MessagesFollowDrainStep DEF IInv
    <3> QED
      BY <3>1, <3>2, <3>3 DEF StopInv
  <2>2. CASE UNCHANGED vars
    BY <2>2 DEF vars, lifecycle, intake, connection, deliveries, StopInv, Epochs,
       OpenUntilDrained, GoodUntilDrained, ShutBeforeAbandon, SeenClosed, ReceiverClosed,
       CallbackIdle, ReceivedBy, AllConsumersClosed, MessagesFollowDrain, WellServed,
       WellSettled, LeftToAbandon, AlreadySettled, AbandonEnds, Undisturbed, Sufficed, Orderly
  <2> QED
    BY <2>1, <2>2
<1> QED
  BY <1>1, <1>2, IInvAlways, SettlementAlways, PTL DEF Spec

\* Stop returned nil: every message the running receivers were sent went through
\* its handler, and its one answer was sent before the connection closed.
THEOREM CleanDrainAlways == Spec => []CleanDrain
<1>1. IInv /\ StopInv => CleanDrain
  <2> SUFFICES ASSUME IInv, StopInv, result = "nil", client # "closed directly",
                      NEW m \in Messages, startOf[m] = starts
               PROVE  /\ pc[m] = "done"
                      /\ Acking(m) => answers[m] \in {<<"ack">>, <<"nak">>}
                      /\ Kind(m) = "endpoint" => answers[m] = <<"reply">>
    BY DEF CleanDrain
  <2> USE DEF IInv, StopInv
  <2>1. drain = "done" /\ state = "stopped" /\ starts # 0
    BY DEF Phases, Typed, LifecycleTyped
  <2>s. starts > 0
    BY <2>1, ARunningStart DEF IInv
  <2>2. Undisturbed
    BY <2>1 DEF Undisturbed, Orderly
  <2>3. WellServed(m)
    BY <2>s, <2>2 DEF MessagesFollowDrain
  <2>4. pc[m] \notin InHandler \cup {"leaving"}
    BY <2>1 DEF GateInv, Group
  <2>5. pc[m] \notin InCallback \cup {"buffered"}
    BY <2>1, <2>2, CallbackServes
  <2>6. pc[m] # "idle"
    BY <2>1 DEF Epochs
  <2>7. pc[m] = "done"
    BY <2>3, <2>4, <2>5, <2>6 DEF WellServed, Typed, DeliveriesTyped, Places
  <2> QED
    BY <2>3, <2>7 DEF WellServed, Answered
<1> QED
  BY <1>1, IInvAlways, StopInvAlways, PTL

\* Stop's context expired and its budget sufficed: no delivery is left
\* unsettled, buffered or in a callback, and only a handler that settled its own
\* delivery can have found the connection closed.
THEOREM CleanAbandonAlways == Spec => []CleanAbandon
<1>1. IInv /\ SettlementInv /\ StopInv => CleanAbandon
  <2> SUFFICES ASSUME IInv, SettlementInv, StopInv, life = "returned", result = "ctx",
                      budget = "left", client = "closed by Stop",
                      NEW m \in Messages, Acking(m), startOf[m] = starts
               PROVE  /\ AlreadySettled(m)
                      /\ pc[m] \notin InCallback \cup {"buffered"}
                      /\ answers[m] = <<>> => pc[m] \in {"acking", "nakking"}
                      /\ answers[m] = <<"lost">> =>
                           pc[m] \in {"confirming", "unwinding", "leaving", "done"}
    BY DEF CleanAbandon
  <2> USE DEF IInv, StopInv
  <2>1. state = "stopped" /\ starts # 0
    BY DEF Phases, Typed, LifecycleTyped
  <2>s. starts > 0
    BY <2>1, ARunningStart DEF IInv
  <2>2. WellSettled(m) /\ LeftToAbandon(m)
    BY <2>1, <2>s DEF MessagesFollowDrain, Sufficed, Orderly
  <2>3. pc[m] \notin InCallback \cup {"buffered"}
    BY TargetKinds DEF SeenClosed, AllConsumersClosed, ReceiverClosed, CallbackIdle, ReceivedBy
  <2>4. pc[m] # "idle"
    BY <2>1 DEF Epochs
  <2>5. DeliveryInv(m)
    BY DEF SettlementInv
  <2>6. AlreadySettled(m)
    <3>1. toAbandon = {}
      BY DEF AbandonEnds
    <3>2. pc[m] \in {"acking", "nakking"} => AlreadySettled(m)
      BY <2>5 DEF DeliveryInv
    <3> QED
      BY <2>2, <2>3, <2>4, <3>1, <3>2 DEF WellSettled, LeftToAbandon, Answered, Typed,
         DeliveriesTyped, Places, InHandler
  <2>7. answers[m] = <<>> => pc[m] \in {"acking", "nakking"}
    BY <2>3, <2>5, <2>6 DEF DeliveryInv, InCallback, Phases
  <2> QED
    BY <2>2, <2>3, <2>6, <2>7 DEF WellSettled, Answered
<1> QED
  BY <1>1, IInvAlways, SettlementAlways, StopInvAlways, PTL
=============================================================================
