-------------------------- MODULE SettlementProofs --------------------------
(***************************************************************************)
(* Runtime implements Settlement: a proof that every step of its goroutines *)
(* is, for each delivery, a step Settlement allows or none at all.          *)
(***************************************************************************)
EXTENDS RuntimeProofs

\* Settlement's three variables, as Runtime's state gives them.
OwedAt(m) == OwedOf(pc[m], AlreadySettled(m), answers[m])

StageBar == [m \in Messages |-> StageOf(pc[m])]
OwedBar == [m \in Messages |-> OwedAt(m)]
AnswerBar == [m \in Messages |-> AnswerOf(answers[m])]

\* The stage of every place (StageOf's cases are disjoint).
LEMMA Stages ==
  /\ \A p \in {"idle", "buffered"} : StageOf(p) = "unseen"
  /\ \A p \in InCallback \cup {"spawned"} : StageOf(p) = "taken"
  /\ \A p \in {"received", "waiting", "slotted", "refused", "abandoning", "spawned"} :
       StageOf(p) = "taken"
  /\ \A p \in {"handling", "asking"} : StageOf(p) = "running"
  /\ \A p \in {"succeeded", "acking"} : StageOf(p) = "succeeded"
  /\ \A p \in {"failed", "nakking"} : StageOf(p) = "failed"
  /\ \A p \in {"confirming", "unwinding", "leaving", "done", "dropped"} : StageOf(p) = "over"
  BY DEF StageOf, InCallback

\* What the proof needs of a state: its types and each delivery's account.
Accounted == DeliveriesTyped /\ SettlementInv

\* A step of one delivery, of whichever goroutine.
StepOf(m) ==
    Arrive(m) \/ CallbackStep(m) \/ HandlerStep(m) \/ HandlerCode(m) \/ AbandonStep(m)

\* Such a step leaves where every other delivery is, its state and its answers.
LEMMA OthersStay ==
  ASSUME DeliveriesTyped, NEW m \in Messages, StepOf(m), NEW n \in Messages, n # m
  PROVE  pc'[n] = pc[n] /\ dstate'[n] = dstate[n] /\ answers'[n] = answers[n]
<1> USE DEF DeliveriesTyped
<1>1. CASE Arrive(m) \/ HandlerCode(m)
  BY <1>1 DEF Arrive, HandlerCode, AskRuntime, HandlerReturns, MoveTo
<1>2. CASE CallbackStep(m)
  BY <1>2 DEF CallbackStep, Deliver, FirstCheck, TakeSlot, GiveUpWaiting, Spawn, TurnAway,
     DropRefused, AbandonRefused, NakRefused, Send, MoveTo
<1>3. CASE HandlerStep(m)
  BY <1>3 DEF HandlerStep, BeginHandler, RuntimeAnswers, Reply, NothingToSend, Settle,
     SendResult, DoubleAckReturns, ReleaseSlot, LeaveGroup, Send, MoveTo
<1>4. CASE AbandonStep(m)
  BY <1>4 DEF AbandonStep, AbandonPending, UntrackAbandoned, NakAbandoned, Send, deliveries
<1> QED
  BY <1>1, <1>2, <1>3, <1>4 DEF StepOf

\* So Settlement sees only that delivery move, ...
LEMMA StageMoves ==
  ASSUME DeliveriesTyped, NEW m \in Messages, StepOf(m)
  PROVE  StageBar' = [StageBar EXCEPT ![m] = StageOf(pc'[m])]
  BY OthersStay DEF StageBar

\* ... and only what is owed about that one change.
LEMMA OwedMoves ==
  ASSUME DeliveriesTyped, NEW m \in Messages, StepOf(m)
  PROVE  OwedBar' = [OwedBar EXCEPT ![m] = OwedAt(m)']
<1>1. \A n \in Messages : n # m => OwedAt(n)' = OwedAt(n)
  BY OthersStay DEF OwedAt, AlreadySettled
<1> QED
  BY <1>1 DEF OwedBar

\* What is owed before a step (OwedOf's cases are disjoint), ...
LEMMA OwedNow ==
  ASSUME NEW m \in Messages
  PROVE  /\ ~AlreadySettled(m) => OwedAt(m) = "undecided"
         /\ AlreadySettled(m) /\ pc[m] \in {"acking", "nakking"} => OwedAt(m) = "result"
         /\ AlreadySettled(m) /\ pc[m] \notin {"acking", "nakking"} =>
              OwedAt(m) = IF answers[m] = <<>> THEN "nak" ELSE "nothing"
  BY DEF OwedAt, OwedOf, AlreadySettled

\* ... and after it.
LEMMA OwedNext ==
  ASSUME NEW m \in Messages
  PROVE  /\ dstate'[m] # "settled" => OwedAt(m)' = "undecided"
         /\ dstate'[m] = "settled" /\ pc'[m] \in {"acking", "nakking"} =>
              OwedAt(m)' = "result"
         /\ dstate'[m] = "settled" /\ pc'[m] \notin {"acking", "nakking"} =>
              OwedAt(m)' = IF answers'[m] = <<>> THEN "nak" ELSE "nothing"
  BY DEF OwedAt, OwedOf, AlreadySettled

\* Moving between places where no result is being sent decides nothing.
LEMMA OwedStays ==
  ASSUME NEW m \in Messages, dstate'[m] = dstate[m], answers'[m] = answers[m],
         pc[m] \notin {"acking", "nakking"}, pc'[m] \notin {"acking", "nakking"}
  PROVE  OwedAt(m)' = OwedAt(m)
  BY OwedNow, OwedNext DEF AlreadySettled

\* A delivery that stays in its stage, or about which no more and no less is
\* owed, is as it was for Settlement.
LEMMA StageUnmoved ==
  ASSUME DeliveriesTyped, NEW m \in Messages, StepOf(m), StageOf(pc'[m]) = StageOf(pc[m])
  PROVE  StageBar' = StageBar
  BY StageMoves DEF StageBar

\* The same of what is owed.
LEMMA OwedUnmoved ==
  ASSUME DeliveriesTyped, NEW m \in Messages, StepOf(m), OwedAt(m)' = OwedAt(m)
  PROVE  OwedBar' = OwedBar
  BY OwedMoves DEF OwedBar

\* The first answer sent is the one Settlement sees, lost if the connection has
\* closed (Send).
LEMMA AnswerSent ==
  ASSUME DeliveriesTyped, NEW m \in Messages, NEW a, Send(m, a), answers[m] = <<>>
  PROVE  /\ AnswerBar[m] = "none" /\ answers'[m] # <<>>
         /\ \E sent \in {a, "lost"} : AnswerBar' = [AnswerBar EXCEPT ![m] = sent]
<1> DEFINE sent == IF ClientClosed THEN "lost" ELSE a
<1>1. answers' = [answers EXCEPT ![m] = Append(<<>>, sent)]
  BY DEF Send
<1>2. AnswerOf(Append(<<>>, sent)) = sent /\ AnswerOf(<<>>) = "none"
  BY DEF AnswerOf
<1>3. AnswerBar' = [AnswerBar EXCEPT ![m] = sent]
  BY <1>1, <1>2 DEF AnswerBar, DeliveriesTyped
<1>4. sent \in {a, "lost"}
  OBVIOUS
<1>5. answers'[m] # <<>>
  BY <1>1, FirstAnswer DEF DeliveriesTyped
<1> QED
  BY <1>2, <1>3, <1>4, <1>5 DEF AnswerBar

\* Nothing is sent, so Settlement's answers stay.
LEMMA AnswersStay ==
  ASSUME UNCHANGED answers
  PROVE  AnswerBar' = AnswerBar
  BY DEF AnswerBar

\* The receivers and the connection that end drop what is only buffered
\* (Unsubscribe, ConsumeContext.Stop, Client.Close).
LEMMA DropBufferedIsDrop ==
  ASSUME DeliveriesTyped, NEW G, DropBuffered(G), UNCHANGED <<dstate, answers>>
  PROVE  Promise!Next
<1> DEFINE D == {m \in Messages : pc[m] = "buffered" /\ startOf[m] \in G}
<1>1. \A m \in D : StageBar[m] = "unseen"
  BY Stages DEF StageBar
<1>2. StageBar' = [m \in Messages |-> IF m \in D THEN "over" ELSE StageBar[m]]
  <2>1. \A m \in Messages : pc'[m] = IF m \in D THEN "dropped" ELSE pc[m]
    BY DEF DropBuffered
  <2>2. StageOf("dropped") = "over"
    BY Stages
  <2> QED
    BY <2>1, <2>2 DEF StageBar
<1>3. D \in SUBSET Messages /\ AnswerBar' = AnswerBar
  BY AnswersStay
<1>4. OwedBar' = OwedBar
  <2>1. ASSUME NEW m \in Messages
        PROVE  OwedAt(m)' = OwedAt(m)
    <3>1. pc'[m] = pc[m] \/ (pc[m] = "buffered" /\ pc'[m] = "dropped")
      BY DEF DropBuffered
    <3>2. pc[m] \in {"acking", "nakking"} <=> pc'[m] \in {"acking", "nakking"}
      BY <3>1
    <3> QED
      BY <3>2, OwedNow, OwedNext DEF AlreadySettled
  <2> QED
    BY <2>1 DEF OwedBar
<1>5. Promise!Drop(D)
  BY <1>1, <1>2, <1>3, <1>4 DEF Promise!Drop, StageBar, OwedBar, OwedAt, AnswerBar
<1> QED
  BY <1>3, <1>5 DEF Promise!Next

\* A callback takes a delivery, lets go of one it may not dispatch once somebody
\* has settled it, or settles it and naks it (receive, dispatch, abandon).
LEMMA CallbackKeepsPromise ==
  ASSUME Accounted, NEW m \in Messages, CallbackStep(m)
  PROVE  Promise!DeliveryStep(m) \/ UNCHANGED <<StageBar, OwedBar, AnswerBar>>
<1> USE Stages, OwedNow, OwedNext DEF Accounted
<1>i. DeliveryInv(m) /\ pc[m] \in Places
  BY DEF SettlementInv, DeliveriesTyped
<1>m. /\ StageBar' = [StageBar EXCEPT ![m] = StageOf(pc'[m])]
      /\ OwedBar' = [OwedBar EXCEPT ![m] = OwedAt(m)']
  BY StageMoves, OwedMoves DEF StepOf
<1>o. /\ OwedAt(m)' = OwedAt(m) => OwedBar' = OwedBar
      /\ StageOf(pc'[m]) = StageOf(pc[m]) => StageBar' = StageBar
      /\ UNCHANGED answers => AnswerBar' = AnswerBar
  BY StageUnmoved, OwedUnmoved, AnswersStay DEF StepOf
<1>1. CASE Deliver(m)
  <2>1. /\ pc[m] = "buffered" /\ pc'[m] = "received"
        /\ UNCHANGED <<dstate, answers>>
    BY <1>1 DEF Deliver, MoveTo, DeliveriesTyped
  <2>2. OwedAt(m)' = OwedAt(m)
    BY <2>1, OwedStays
  <2>3. StageBar[m] = "unseen" /\ StageBar' = [StageBar EXCEPT ![m] = "taken"]
    BY <1>m, <2>1 DEF StageBar
  <2>4. OwedBar' = OwedBar /\ AnswerBar' = AnswerBar
    BY <1>o, <2>1, <2>2
  <2>5. Promise!Take(m)
    BY <2>3, <2>4 DEF Promise!Take, Promise!Goes, StageBar, OwedBar, OwedAt, AnswerBar
  <2> QED
    BY <2>5 DEF Promise!DeliveryStep
<1>2. CASE FirstCheck(m) \/ TakeSlot(m) \/ GiveUpWaiting(m) \/ Spawn(m) \/ TurnAway(m)
  <2>1. /\ pc[m] \in {"received", "waiting", "slotted"} /\ UNCHANGED <<dstate, answers>>
        /\ pc'[m] \in {"waiting", "slotted", "refused", "spawned"}
    BY <1>2 DEF FirstCheck, TakeSlot, GiveUpWaiting, Spawn, TurnAway, MoveTo, DeliveriesTyped
  <2>2. OwedAt(m)' = OwedAt(m)
    BY <2>1, OwedStays
  <2>3. StageOf(pc[m]) = "taken" /\ StageOf(pc'[m]) = "taken"
    BY <2>1
  <2> QED
    BY <1>o, <2>1, <2>2, <2>3
<1>3. CASE AbandonRefused(m)
  <2>1. /\ pc[m] = "refused" /\ pc'[m] = "abandoning" /\ UNCHANGED answers
        /\ ~AlreadySettled(m) /\ dstate'[m] = "settled" /\ Acking(m)
    BY <1>3 DEF AbandonRefused, MoveTo, DeliveriesTyped
  <2>2. answers'[m] = <<>>
    BY <1>i, <2>1 DEF DeliveryInv
  <2>3. OwedBar[m] = "undecided" /\ OwedBar' = [OwedBar EXCEPT ![m] = "nak"]
    BY <1>m, <2>1, <2>2 DEF OwedBar
  <2>4. StageBar[m] = "taken" /\ StageBar' = StageBar /\ AnswerBar' = AnswerBar
    BY <1>o, <2>1 DEF StageBar
  <2>5. Promise!GiveUp(m)
    BY <2>1, <2>3, <2>4 DEF Promise!GiveUp, Promise!Owes, StageBar, OwedBar, OwedAt, AnswerBar
  <2> QED
    BY <2>5 DEF Promise!DeliveryStep
<1>4. CASE DropRefused(m)
  <2>1. /\ pc[m] = "refused" /\ pc'[m] = "dropped" /\ UNCHANGED <<dstate, answers>>
        /\ Acking(m) => AlreadySettled(m)
    BY <1>4 DEF DropRefused, MoveTo, DeliveriesTyped
  <2>2. OwedAt(m)' = OwedAt(m)
    BY <2>1, OwedStays
  <2>3. Acking(m) => OwedBar[m] \in {"nak", "nothing"}
    BY <2>1 DEF OwedBar
  <2>4. StageBar[m] = "taken" /\ StageBar' = [StageBar EXCEPT ![m] = "over"]
    BY <1>m, <2>1 DEF StageBar
  <2>5. OwedBar' = OwedBar /\ AnswerBar' = AnswerBar
    BY <1>o, <2>1, <2>2
  <2>6. Promise!LetGo(m)
    BY <2>3, <2>4, <2>5 DEF Promise!LetGo, Promise!Goes, StageBar, OwedBar, OwedAt, AnswerBar
  <2> QED
    BY <2>6 DEF Promise!DeliveryStep
<1>5. CASE NakRefused(m)
  <2>1. /\ pc[m] = "abandoning" /\ pc'[m] = "dropped" /\ UNCHANGED dstate /\ Send(m, "nak")
    BY <1>5 DEF NakRefused, MoveTo, DeliveriesTyped
  <2>2. AlreadySettled(m) /\ dstate'[m] = "settled" /\ answers[m] = <<>>
    BY <1>i, <2>1 DEF DeliveryInv, AlreadySettled
  <2>3. /\ AnswerBar[m] = "none" /\ answers'[m] # <<>>
        /\ \E sent \in {"nak", "lost"} : AnswerBar' = [AnswerBar EXCEPT ![m] = sent]
    BY <2>1, <2>2, AnswerSent
  <2>4. OwedBar[m] = "nak" /\ OwedBar' = [OwedBar EXCEPT ![m] = "nothing"]
    BY <1>m, <2>1, <2>2, <2>3 DEF OwedBar
  <2>5. StageBar' = [StageBar EXCEPT ![m] = "over"]
    BY <1>m, <2>1
  <2>6. Promise!SendNak(m)
    BY <2>3, <2>4, <2>5 DEF Promise!SendNak, Promise!Sends, Promise!Owes, Promise!Goes, StageBar,
       OwedBar, OwedAt, AnswerBar
  <2> QED
    BY <2>6 DEF Promise!DeliveryStep
<1> QED
  BY <1>1, <1>2, <1>3, <1>4, <1>5 DEF CallbackStep

\* A handler's goroutine begins, finishes, settles, answers or lets go as
\* Settlement says (serveJetStream, serve).
LEMMA HandlerKeepsPromise ==
  ASSUME Accounted, NEW m \in Messages, HandlerStep(m) \/ HandlerCode(m)
  PROVE  Promise!DeliveryStep(m) \/ UNCHANGED <<StageBar, OwedBar, AnswerBar>>
<1> USE Stages, OwedNow, OwedNext DEF Accounted
<1>i. DeliveryInv(m) /\ pc[m] \in Places
  BY DEF SettlementInv, DeliveriesTyped
<1>m. /\ StageBar' = [StageBar EXCEPT ![m] = StageOf(pc'[m])]
      /\ OwedBar' = [OwedBar EXCEPT ![m] = OwedAt(m)']
  BY StageMoves, OwedMoves DEF StepOf
<1>o. /\ OwedAt(m)' = OwedAt(m) => OwedBar' = OwedBar
      /\ StageOf(pc'[m]) = StageOf(pc[m]) => StageBar' = StageBar
      /\ UNCHANGED answers => AnswerBar' = AnswerBar
  BY StageUnmoved, OwedUnmoved, AnswersStay DEF StepOf
<1>1. ASSUME pc[m] \in {"spawned", "succeeded", "failed"}, pc'[m] = "unwinding",
             UNCHANGED <<dstate, answers>>, Acking(m) => AlreadySettled(m)
      PROVE  Promise!DeliveryStep(m)
  <2>1. OwedAt(m)' = OwedAt(m)
    BY <1>1, OwedStays
  <2>2. Acking(m) => OwedBar[m] \in {"nak", "nothing"}
    BY <1>1 DEF OwedBar
  <2>3. OwedBar' = OwedBar /\ AnswerBar' = AnswerBar
    BY <1>o, <1>1, <2>1
  <2>4. /\ StageBar[m] \in {"taken", "succeeded", "failed"}
        /\ StageBar' = [StageBar EXCEPT ![m] = "over"]
    BY <1>1, <1>m DEF StageBar
  <2>5. Promise!LetGo(m)
    BY <2>2, <2>3, <2>4 DEF Promise!LetGo, Promise!Goes, StageBar, OwedBar, OwedAt, AnswerBar
  <2> QED
    BY <2>5 DEF Promise!DeliveryStep
<1>2. CASE BeginHandler(m)
  <2>1. CASE Acking(m) /\ AlreadySettled(m)
    BY <1>1, <1>2, <2>1 DEF BeginHandler, MoveTo, DeliveriesTyped
  <2>2. CASE ~(Acking(m) /\ AlreadySettled(m))
    <3>1. /\ pc[m] = "spawned" /\ pc'[m] = "handling" /\ UNCHANGED answers
          /\ ~AlreadySettled(m) /\ dstate'[m] # "settled"
      BY <1>2, <1>i, <2>2 DEF BeginHandler, MoveTo, DeliveriesTyped, DeliveryInv, AlreadySettled
    <3>2. OwedBar[m] = "undecided" /\ OwedBar' = OwedBar /\ AnswerBar' = AnswerBar
      BY <1>o, <3>1 DEF OwedBar
    <3>3. StageBar[m] = "taken" /\ StageBar' = [StageBar EXCEPT ![m] = "running"]
      BY <1>m, <3>1 DEF StageBar
    <3>4. Promise!Begin(m)
      BY <3>2, <3>3 DEF Promise!Begin, Promise!Goes, StageBar, OwedBar, OwedAt, AnswerBar
    <3> QED
      BY <3>4 DEF Promise!DeliveryStep
  <2> QED
    BY <2>1, <2>2
<1>3. CASE \E how \in {"succeeded", "failed"} : HandlerReturns(m, how)
  <2> PICK how \in {"succeeded", "failed"} : HandlerReturns(m, how)
    BY <1>3
  <2>1. pc[m] = "handling" /\ pc'[m] = how /\ UNCHANGED <<dstate, answers>>
    BY DEF HandlerReturns, MoveTo, DeliveriesTyped
  <2>2. OwedAt(m)' = OwedAt(m)
    BY <2>1, OwedStays
  <2>3. OwedBar' = OwedBar /\ AnswerBar' = AnswerBar
    BY <1>o, <2>1, <2>2
  <2>4. StageBar[m] = "running" /\ StageBar' = [StageBar EXCEPT ![m] = how]
    BY <1>m, <2>1 DEF StageBar
  <2>5. Promise!Finish(m)
    BY <2>3, <2>4 DEF Promise!Finish, Promise!Goes, StageBar, OwedBar, OwedAt, AnswerBar
  <2> QED
    BY <2>5 DEF Promise!DeliveryStep
<1>4. CASE Reply(m)
  <2>1. /\ pc[m] \in {"succeeded", "failed"} /\ pc'[m] = "unwinding" /\ UNCHANGED dstate
        /\ Send(m, "reply") /\ ~Acking(m)
    BY <1>4 DEF Reply, MoveTo, DeliveriesTyped, Acking
  <2>2. ~AlreadySettled(m) /\ dstate'[m] # "settled" /\ answers[m] = <<>>
    BY <1>i, <2>1 DEF DeliveryInv, AlreadySettled
  <2>3. /\ AnswerBar[m] = "none"
        /\ \E sent \in {"reply", "lost"} : AnswerBar' = [AnswerBar EXCEPT ![m] = sent]
    BY <2>1, <2>2, AnswerSent
  <2>4. OwedBar' = OwedBar
    BY <1>o, <2>2
  <2>5. /\ StageBar[m] \in {"succeeded", "failed"}
        /\ StageBar' = [StageBar EXCEPT ![m] = "over"]
    BY <1>m, <2>1 DEF StageBar
  <2>6. Promise!Reply(m)
    BY <2>1, <2>3, <2>4, <2>5 DEF Promise!Reply, Promise!Sends, Promise!Goes, StageBar, OwedBar,
       OwedAt, AnswerBar
  <2> QED
    BY <2>6 DEF Promise!DeliveryStep
<1>5. CASE NothingToSend(m)
  BY <1>1, <1>5 DEF NothingToSend, MoveTo, DeliveriesTyped, Acking
<1>6. CASE Settle(m)
  <2>1. CASE AlreadySettled(m)
    BY <1>1, <1>6, <2>1 DEF Settle, MoveTo, DeliveriesTyped
  <2>2. CASE ~AlreadySettled(m)
    <3>1. /\ pc[m] \in {"succeeded", "failed"} /\ dstate'[m] = "settled" /\ UNCHANGED answers
          /\ pc'[m] = (IF pc[m] = "succeeded" THEN "acking" ELSE "nakking") /\ Acking(m)
      BY <1>6, <2>2 DEF Settle, MoveTo, DeliveriesTyped
    <3>2. OwedBar[m] = "undecided" /\ OwedBar' = [OwedBar EXCEPT ![m] = "result"]
      BY <1>m, <2>2, <3>1 DEF OwedBar
    <3>3. /\ StageBar[m] \in {"succeeded", "failed"} /\ StageBar' = StageBar
          /\ AnswerBar' = AnswerBar
      BY <1>o, <3>1 DEF StageBar
    <3>4. Promise!Settle(m)
      BY <3>1, <3>2, <3>3 DEF Promise!Settle, Promise!Owes, StageBar, OwedBar, OwedAt, AnswerBar
    <3> QED
      BY <3>4 DEF Promise!DeliveryStep
  <2> QED
    BY <2>1, <2>2
<1>7. CASE SendResult(m)
  <2> DEFINE a == IF pc[m] = "acking" THEN "ack" ELSE "nak"
  <2>1. /\ pc[m] \in {"acking", "nakking"} /\ pc'[m] \in {"confirming", "unwinding"}
        /\ UNCHANGED dstate /\ Send(m, a)
    BY <1>7 DEF SendResult, MoveTo, DeliveriesTyped
  <2>2. AlreadySettled(m) /\ dstate'[m] = "settled" /\ answers[m] = <<>>
    BY <1>i, <2>1 DEF DeliveryInv, AlreadySettled
  <2>3. /\ AnswerBar[m] = "none" /\ answers'[m] # <<>>
        /\ \E sent \in {a, "lost"} : AnswerBar' = [AnswerBar EXCEPT ![m] = sent]
    BY <2>1, <2>2, AnswerSent
  <2>4. OwedBar[m] = "result" /\ OwedBar' = [OwedBar EXCEPT ![m] = "nothing"]
    BY <1>m, <2>1, <2>2, <2>3 DEF OwedBar
  <2>5. StageBar' = [StageBar EXCEPT ![m] = "over"]
    BY <1>m, <2>1
  <2>6. a = IF StageBar[m] = "succeeded" THEN "ack" ELSE "nak"
    BY <2>1 DEF StageBar
  <2>7. Promise!SendResult(m)
    <3> HIDE DEF a
    <3> QED
      BY <2>3, <2>4, <2>5, <2>6 DEF Promise!SendResult, Promise!Sends, Promise!Owes,
         Promise!Goes, StageBar, OwedBar, OwedAt, AnswerBar
  <2> QED
    BY <2>7 DEF Promise!DeliveryStep
<1>8. CASE DoubleAckReturns(m) \/ ReleaseSlot(m) \/ LeaveGroup(m)
  <2>1. /\ pc[m] \in {"confirming", "unwinding", "leaving"}
        /\ pc'[m] \in {"unwinding", "leaving", "done"} /\ UNCHANGED <<dstate, answers>>
    BY <1>8 DEF DoubleAckReturns, ReleaseSlot, LeaveGroup, MoveTo, DeliveriesTyped
  <2>2. OwedAt(m)' = OwedAt(m)
    BY <2>1, OwedStays
  <2>3. StageOf(pc[m]) = "over" /\ StageOf(pc'[m]) = "over"
    BY <2>1
  <2> QED
    BY <1>o, <2>1, <2>2, <2>3
<1>9. CASE AskRuntime(m) \/ RuntimeAnswers(m)
  <2>1. /\ pc[m] \in {"handling", "asking"} /\ pc'[m] \in {"handling", "asking"}
        /\ UNCHANGED <<dstate, answers>>
    BY <1>9 DEF AskRuntime, RuntimeAnswers, MoveTo, DeliveriesTyped
  <2>2. OwedAt(m)' = OwedAt(m)
    BY <2>1, OwedStays
  <2>3. StageOf(pc[m]) = "running" /\ StageOf(pc'[m]) = "running"
    BY <2>1
  <2> QED
    BY <1>o, <2>1, <2>2, <2>3
<1> QED
  BY <1>2, <1>3, <1>4, <1>5, <1>6, <1>7, <1>8, <1>9 DEF HandlerStep, HandlerCode

\* Stop gives up what nobody has settled, passes over the rest, and naks what it
\* gave up although its handler or its callback may be over by then (abandon).
LEMMA AbandonKeepsPromise ==
  ASSUME Accounted, NEW m \in Messages, AbandonStep(m)
  PROVE  Promise!DeliveryStep(m) \/ UNCHANGED <<StageBar, OwedBar, AnswerBar>>
<1> USE Stages, OwedNow, OwedNext DEF Accounted
<1>i. DeliveryInv(m) /\ pc[m] \in Places
  BY DEF SettlementInv, DeliveriesTyped
<1>m. OwedBar' = [OwedBar EXCEPT ![m] = OwedAt(m)']
  BY OwedMoves DEF StepOf
<1>s. StageBar' = StageBar
  BY AbandonLeaves DEF StageBar
<1>1. ASSUME UNCHANGED <<pc, dstate, answers>>
      PROVE  UNCHANGED <<StageBar, OwedBar, AnswerBar>>
  BY <1>1 DEF StageBar, OwedBar, OwedAt, AlreadySettled, AnswerBar
<1>2. CASE UntrackAbandoned(m)
  BY <1>1, <1>2 DEF UntrackAbandoned, deliveries
<1>3. CASE AbandonPending(m) /\ AlreadySettled(m)
  BY <1>1, <1>3 DEF AbandonPending
<1>4. CASE AbandonPending(m) /\ ~AlreadySettled(m)
  <2>1. /\ UNCHANGED <<pc, answers>> /\ dstate'[m] = "settled"
        /\ Acking(m) /\ answers[m] = <<>> /\ pc[m] \in Tracked
    BY <1>4, <1>i DEF AbandonPending, DeliveryInv, DeliveriesTyped
  <2>2. StageBar[m] \notin {"unseen", "over"}
    BY <2>1 DEF Tracked, StageBar
  <2>3. OwedBar[m] = "undecided" /\ OwedBar' = [OwedBar EXCEPT ![m] = "nak"]
    BY <1>m, <1>4, <2>1 DEF OwedBar, Tracked
  <2>4. AnswerBar' = AnswerBar
    BY <2>1, AnswersStay
  <2>5. Promise!GiveUp(m)
    BY <1>s, <2>1, <2>2, <2>3, <2>4
       DEF Promise!GiveUp, Promise!Owes, StageBar, OwedBar, OwedAt, AnswerBar
  <2> QED
    BY <2>5 DEF Promise!DeliveryStep
<1>5. CASE NakAbandoned(m)
  <2>1. /\ UNCHANGED <<pc, dstate>> /\ Send(m, "nak") /\ AlreadySettled(m)
        /\ answers[m] = <<>> /\ pc[m] \notin {"acking", "nakking"}
    BY <1>5, <1>i DEF NakAbandoned, DeliveryInv
  <2>2. /\ AnswerBar[m] = "none" /\ answers'[m] # <<>>
        /\ \E sent \in {"nak", "lost"} : AnswerBar' = [AnswerBar EXCEPT ![m] = sent]
    BY <2>1, AnswerSent
  <2>3. OwedBar[m] = "nak" /\ OwedBar' = [OwedBar EXCEPT ![m] = "nothing"]
    BY <1>m, <2>1, <2>2 DEF OwedBar, AlreadySettled
  <2>4. Promise!SendNak(m)
    BY <1>s, <2>2, <2>3 DEF Promise!SendNak, Promise!Sends, Promise!Owes, StageBar, OwedBar,
       OwedAt, AnswerBar
  <2> QED
    BY <2>4 DEF Promise!DeliveryStep
<1> QED
  BY <1>2, <1>3, <1>4, <1>5 DEF AbandonStep

\* The runtime starts with nothing seen and nothing sent (New).
LEMMA PromiseInit == Init => Promise!Init
  BY Stages DEF Init, Promise!Init, AnswerOf, OwedOf, AlreadySettled

\* Each step of the runtime, its callbacks, its handlers and nats.go is one that
\* Settlement allows.
LEMMA PromiseStep ==
  ASSUME Accounted, [Next]_vars
  PROVE  [Promise!Next]_(Promise!vars)
<1>1. SUFFICES Promise!Next \/ UNCHANGED <<StageBar, OwedBar, AnswerBar>>
  BY DEF Promise!vars, StageBar, OwedBar, OwedAt, AnswerBar
<1>2. ASSUME UNCHANGED <<pc, dstate, answers>>
      PROVE  UNCHANGED <<StageBar, OwedBar, AnswerBar>>
  BY <1>2 DEF StageBar, OwedBar, OwedAt, AlreadySettled, AnswerBar
<1>3. CASE StartStep \/ CloseClientDirectly
  <2>1. UNCHANGED <<dstate, answers>> /\ (UNCHANGED pc \/ \E G : DropBuffered(G))
    BY <1>3 DEF StartStep, StartBegin, OpenReceiver, StartFails, StartSucceeds, AbortReceivers,
       AbortContext, AbortGate, CloseClientDirectly, CloseConnection, deliveries
  <2> QED
    BY <1>2, <2>1, DropBufferedIsDrop DEF Accounted
<1>4. CASE StopStep /\ ~\E m \in Messages : AbandonStep(m)
  <2>1. UNCHANGED <<dstate, answers>> /\ (UNCHANGED pc \/ \E G : DropBuffered(G))
    BY <1>4 DEF StopStep, StopBegin, StopDrained, StopExpires, StopChooses, AbandonClosesGate,
       CopyPending, PendingAbandoned, ConsumersClosed, BudgetRunsOut, AwaitEnds,
       StopClosesClient, CloseConnection, deliveries
  <2> QED
    BY <1>2, <2>1, DropBufferedIsDrop DEF Accounted
<1>5. CASE DrainGoroutineStep \/ (\E i \in Receivers : InterestGone(i)) \/ UNCHANGED vars
  BY <1>2, <1>5 DEF DrainGoroutineStep, SubscriptionsDrained, ConsumersDrained,
     DrainClosesGate, HandlersDone, DrainStep, InterestGone, deliveries, vars
<1>6. ASSUME NEW m \in Messages, Arrive(m)
      PROVE  UNCHANGED <<StageBar, OwedBar, AnswerBar>>
  <2>1. /\ pc[m] = "idle" /\ pc'[m] = "buffered" /\ UNCHANGED <<dstate, answers>>
        /\ StageOf("buffered") = StageOf("idle")
    BY <1>6, Stages DEF Arrive, Accounted, DeliveriesTyped
  <2> QED
    BY <1>6, <2>1, OwedStays, StageUnmoved, OwedUnmoved, AnswersStay DEF Accounted, StepOf
<1>7. ASSUME NEW m \in Messages,
             CallbackStep(m) \/ HandlerStep(m) \/ HandlerCode(m) \/ AbandonStep(m)
      PROVE  Promise!Next \/ UNCHANGED <<StageBar, OwedBar, AnswerBar>>
  <2>1. Promise!DeliveryStep(m) \/ UNCHANGED <<StageBar, OwedBar, AnswerBar>>
    BY <1>7, CallbackKeepsPromise, HandlerKeepsPromise, AbandonKeepsPromise
  <2> QED
    BY <2>1 DEF Promise!Next
<1> QED
  BY <1>3, <1>4, <1>5, <1>6, <1>7 DEF Next

\* The runtime's goroutines together implement the one-step-at-a-time account
\* of Settlement, for any messages, subscriptions, concurrency and Starts.
THEOREM KeepsPromiseAlways == Spec => KeepsPromise
<1>1. Accounted /\ [Next]_vars => [Promise!Next]_(Promise!vars)
  BY PromiseStep
<1>2. Spec => []Accounted
  <2>1. Typed /\ SettlementInv => Accounted
    BY DEF Typed, Accounted
  <2> QED
    BY <2>1, TypedAlways, SettlementAlways, PTL
<1> QED
  BY <1>1, <1>2, PromiseInit, PTL DEF Spec, KeepsPromise, Promise!Spec
=============================================================================
