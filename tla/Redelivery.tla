----------------------------- MODULE Redelivery -----------------------------
(***************************************************************************)
(* A message's deliveries over time: the instances of a consumer group      *)
(* share one JetStream consumer, which sends a message again when nobody    *)
(* acks it in time, when it is nacked, and when an instance has crashed,    *)
(* until max_deliver.  One instance is one process like the serve command   *)
(* of the runbook: Start, a signal, Stop, exit.                             *)
(*                                                                         *)
(* Runtime has the steps of one instance's goroutines; here a callback, a   *)
(* handler and a Stop are single steps and time passes between them.  The   *)
(* server is external: it does what docs/jetstream.md says src/nats relies  *)
(* on.  Timers count ticks down (or up, for an age) so that time has no     *)
(* bound.                                                                   *)
(***************************************************************************)
EXTENDS Integers, Sequences, FiniteSets, FiniteSetsExt

CONSTANTS
    Messages,      \* the messages in the stream
    Instances,     \* the processes of the group
    Written,       \* the consumer settings each instance's Start writes
    NakDelay,      \* nak_delay, the same everywhere
    Concurrency,   \* handler slots of each instance
    PullMax,       \* bound: messages an instance has buffered
    MaxStarts      \* bound: how often any instance starts

ConsumerSettings == [ackWait : Nat \ {0}, backoff : Seq(Nat \ {0}), maxDeliver : Nat \ {0}]

ASSUME WrittenAssumption == Written \in [Instances -> ConsumerSettings]
ASSUME BoundsAssumption ==
    /\ IsFiniteSet(Instances) /\ NakDelay \in Nat
    /\ Concurrency \in Nat \ {0} /\ PullMax \in Nat \ {0} /\ MaxStarts \in Nat

\* Every delivery of a message has its number, from 1.
Numbers == 1..Max({Written[i].maxDeliver : i \in Instances})
Longest == Max({NakDelay} \cup UNION {{Written[i].ackWait} \cup Range(Written[i].backoff) :
                                        i \in Instances})

VARIABLES
    consumer,   \* the consumer's settings on the server, <<>> before any Start
    phase,      \* what the server does with each message
    left,       \* ticks until the server sends a message again
    count,      \* how often it has sent it
    inst,       \* what each instance does
    read,       \* the settings an instance's Start read back (jsConsumer)
    starts,     \* how often any instance has started
    at,         \* where each delivery of each message is
    who,        \* the instance that has the delivery
    timer,      \* waiting: ticks since arrival; handling: ticks to the deadline
    final,      \* messages logged as "will not be delivered again"
    successes,  \* history: how many handlers of a message returned nil
    excused     \* history: messages that may be handled after a success

server == <<consumer, phase, left, count>>
processes == <<inst, read, starts>>
local == <<at, who, timer>>
history == <<final, successes, excused>>
vars == <<server, processes, local, history>>

Init ==
    /\ consumer = <<>>
    /\ phase = [m \in Messages |-> "ready"]
    /\ left = [m \in Messages |-> 0]
    /\ count = [m \in Messages |-> 0]
    /\ inst = [i \in Instances |-> "down"]
    /\ read = [i \in Instances |-> <<>>]
    /\ starts = 0
    /\ at = [m \in Messages |-> [n \in Numbers |-> "none"]]
    /\ who = [m \in Messages |-> [n \in Numbers |-> CHOOSE i \in Instances : TRUE]]
    /\ timer = [m \in Messages |-> [n \in Numbers |-> 0]]
    /\ final = {} /\ excused = {}
    /\ successes = [m \in Messages |-> 0]

Live == {"buffered", "waiting", "handling"}
Has(i, places) == {d \in Messages \X Numbers : who[d[1]][d[2]] = i /\ at[d[1]][d[2]] \in places}
Place(m, n, p) == at' = [at EXCEPT ![m][n] = p]
SetTimer(m, n, t) == timer' = [timer EXCEPT ![m][n] = t]

-----------------------------------------------------------------------------
(* The server (external).                                                    *)

\* The time a delivery may take: its entry of backoff, the last one for those
\* past the list, and ack_wait without a list.
ServerWait(n) ==
    IF consumer.backoff = <<>> THEN consumer.ackWait
    ELSE consumer.backoff[Min({n, Len(consumer.backoff)})]

\* A pull of instance i gets the message.
Send(m, i) ==
    /\ phase[m] = "ready" /\ inst[i] = "up"
    /\ count[m] < consumer.maxDeliver
    /\ Cardinality(Has(i, {"buffered"})) < PullMax
    /\ LET n == count[m] + 1
       IN /\ count' = [count EXCEPT ![m] = n]
          /\ left' = [left EXCEPT ![m] = ServerWait(n)]
          /\ Place(m, n, "buffered")
          /\ who' = [who EXCEPT ![m][n] = i]
    /\ phase' = [phase EXCEPT ![m] = "pending"]
    /\ UNCHANGED <<consumer, processes, timer, history>>

\* The message's deliveries are used up.
GiveUp(m) ==
    /\ phase[m] = "ready" /\ consumer # <<>>
    /\ count[m] >= consumer.maxDeliver
    /\ phase' = [phase EXCEPT ![m] = "gone"]
    /\ UNCHANGED <<consumer, left, count, processes, local, history>>

\* The time of the latest delivery, or a nak's delay, is over.  A delivery that
\* is not settled by then has missed its deadline.
SendAgain(m) ==
    /\ phase[m] \in {"pending", "nacked"} /\ left[m] = 0
    /\ phase' = [phase EXCEPT ![m] = "ready"]
    /\ excused' = IF phase[m] = "pending" /\ at[m][count[m]] \in Live
                    THEN excused \cup {m} ELSE excused
    /\ UNCHANGED <<consumer, left, count, processes, local, final, successes>>

\* Whichever delivery of a message acks, it is the message that is acked.
Acked(m) == phase' = [phase EXCEPT ![m] = IF @ = "gone" THEN @ ELSE "acked"]

\* A nak, with or without a delay, of any delivery of a message that is out.
AfterNak(p) == IF p \notin {"pending", "nacked"} THEN p
               ELSE IF NakDelay > 0 THEN "nacked" ELSE "ready"
Nacked(M) ==
    /\ phase' = [m \in Messages |-> IF m \in M THEN AfterNak(phase[m]) ELSE phase[m]]
    /\ left' = [m \in Messages |-> IF m \in M /\ AfterNak(phase[m]) = "nacked"
                                     THEN NakDelay ELSE left[m]]

Down(t) == IF t > 0 THEN t - 1 ELSE 0

Tick ==
    /\ left' = [m \in Messages |-> Down(left[m])]
    /\ timer' = [m \in Messages |-> [n \in Numbers |->
                   IF at[m][n] = "waiting" THEN Min({timer[m][n] + 1, Longest})
                                           ELSE Down(timer[m][n])]]
    /\ UNCHANGED <<consumer, phase, count, processes, at, who, history>>

-----------------------------------------------------------------------------
(* An instance.                                                              *)

\* openConsumer: the settings are written, and the server's are read back.
StartInstance(i) ==
    /\ inst[i] = "down" /\ starts < MaxStarts
    /\ starts' = starts + 1
    /\ inst' = [inst EXCEPT ![i] = "up"]
    /\ consumer' = Written[i]
    /\ read' = [read EXCEPT ![i] = consumer']
    /\ UNCHANGED <<phase, left, count, local, history>>

\* receive: the callback, one message at a time, stamps the arrival and waits
\* for a slot.
Receive(m, n) ==
    /\ at[m][n] = "buffered"
    /\ Has(who[m][n], {"waiting"}) = {}
    /\ Place(m, n, "waiting") /\ SetTimer(m, n, 0)
    /\ UNCHANGED <<server, processes, who, history>>

\* Mutation: backoff is not looked at.
WaitWithoutBackoff(c, n) == c.ackWait

\* jsConsumer.deadline, as the time after the arrival.
Wait(c, n) ==
    IF c.backoff = <<>> THEN c.ackWait
    ELSE c.backoff[Min({Max({n - 1, 0}), Len(c.backoff) - 1}) + 1]

\* dispatch's slot and serveJetStream up to the handler's call: what is left of
\* the deadline, nothing when the handler starts late.
BeginHandler(m, n) ==
    LET i == who[m][n]
    IN /\ at[m][n] = "waiting"
       /\ Cardinality(Has(i, {"handling"})) < Concurrency
       /\ Place(m, n, "handling")
       /\ SetTimer(m, n, Max({Wait(read[i], n) - timer[m][n], 0}))
       /\ UNCHANGED <<server, processes, who, history>>

\* Mutation: a result that comes after the deadline is not sent.
SucceedInTime(m, n) ==
    /\ at[m][n] = "handling"
    /\ Place(m, n, "over") /\ SetTimer(m, n, 0)
    /\ successes' = [successes EXCEPT ![m] = @ + 1]
    /\ IF timer[m][n] > 0 THEN Acked(m) ELSE UNCHANGED phase
    /\ UNCHANGED <<consumer, left, count, processes, who, final, excused>>

\* The handler returns nil, and its ack is recorded.
Succeed(m, n) ==
    /\ at[m][n] = "handling"
    /\ Place(m, n, "over") /\ SetTimer(m, n, 0)
    /\ successes' = [successes EXCEPT ![m] = @ + 1]
    /\ Acked(m)
    /\ UNCHANGED <<consumer, left, count, processes, who, final, excused>>

\* The ack fails: it is logged, and the message stays out.
SucceedUnacked(m, n) ==
    /\ at[m][n] = "handling"
    /\ Place(m, n, "over") /\ SetTimer(m, n, 0)
    /\ successes' = [successes EXCEPT ![m] = @ + 1]
    /\ excused' = excused \cup {m}
    /\ UNCHANGED <<server, processes, who, final>>

\* Mutation: the delivery after the last counts as the last.
AfterLast(c, n) == n > c.maxDeliver

\* Mutation: the delivery before the last counts as the last.
LastOrBefore(c, n) == n + 1 >= c.maxDeliver

LastDelivery(c, n) == n >= c.maxDeliver

\* The handler returns an error or panics: a nak, which may fail too, and
\* logFinalFailure on the last delivery.
Fail(m, n) ==
    /\ at[m][n] = "handling"
    /\ Place(m, n, "over") /\ SetTimer(m, n, 0)
    /\ Nacked({m}) \/ UNCHANGED <<phase, left>>
    /\ final' = IF LastDelivery(read[who[m][n]], n) THEN final \cup {m} ELSE final
    /\ UNCHANGED <<consumer, count, processes, who, successes, excused>>

\* The signal: Stop drains.
BeginStop(i) ==
    /\ inst[i] = "up"
    /\ inst' = [inst EXCEPT ![i] = "draining"]
    /\ UNCHANGED <<server, read, starts, local, history>>

\* The process is gone, and with it every delivery it had.
Exit(i) ==
    /\ inst' = [inst EXCEPT ![i] = "down"]
    /\ at' = [m \in Messages |-> [n \in Numbers |->
                IF <<m, n>> \in Has(i, Live) THEN "lost" ELSE at[m][n]]]
    /\ timer' = [m \in Messages |-> [n \in Numbers |->
                   IF <<m, n>> \in Has(i, Live) THEN 0 ELSE timer[m][n]]]
    /\ excused' = excused \cup {d[1] : d \in Has(i, Live)}
    /\ UNCHANGED <<consumer, count, read, starts, who, final, successes>>

StopDrained(i) ==
    /\ inst[i] = "draining" /\ Has(i, Live) = {}
    /\ Exit(i)
    /\ UNCHANGED <<phase, left>>

\* Stop's context expires: it naks what is not settled, and of what is still
\* buffered what reaches a callback within its budget.
StopAbandons(i) ==
    /\ inst[i] = "draining" /\ Has(i, Live) # {}
    /\ \E B \in SUBSET Has(i, {"buffered"}) :
         Nacked({d[1] : d \in B \cup Has(i, {"waiting", "handling"})})
    /\ Exit(i)

Crash(i) ==
    /\ inst[i] # "down"
    /\ Exit(i)
    /\ UNCHANGED <<phase, left>>

-----------------------------------------------------------------------------
ServerStep(m) == (\E i \in Instances : Send(m, i)) \/ GiveUp(m) \/ SendAgain(m)
LocalStep(m, n) == Receive(m, n) \/ BeginHandler(m, n)
HandlerReturns(m, n) == Succeed(m, n) \/ SucceedUnacked(m, n) \/ Fail(m, n)
ProcessStep(i) ==
    StartInstance(i) \/ BeginStop(i) \/ StopDrained(i) \/ StopAbandons(i) \/ Crash(i)

Next ==
    \/ Tick
    \/ \E m \in Messages : ServerStep(m)
    \/ \E m \in Messages, n \in Numbers : LocalStep(m, n) \/ HandlerReturns(m, n)
    \/ \E i \in Instances : ProcessStep(i)

Spec == Init /\ [][Next]_vars

-----------------------------------------------------------------------------
(* Properties.                                                               *)

\* The deadline a handler's context and Mesh-Deadline carry is not before the
\* moment the server stops waiting for that delivery: a handler is never told
\* to give up a message that is still its own.
NotCutShort ==
    \A m \in Messages, n \in Numbers :
      at[m][n] = "handling" /\ n = count[m] /\ phase[m] = "pending" => left[m] <= timer[m][n]

\* A message is handled again after a handler succeeded only because of a
\* missed deadline, a failed ack, or an instance that stopped or crashed with
\* it: never because of what the runtime sent.
HandledOnceUnlessExcused == \A m \in Messages : successes[m] > 1 => m \in excused

\* What is logged as "message will not be delivered again" is not.
FinalFailureIsFinal == [][\A m \in final : count'[m] = count[m]]_vars

\* A message the server has given up on, whose last delivery ended in a handler,
\* was handled once with success or is logged as not delivered again: no message
\* fails for good in silence, though the handler of its last delivery may return
\* long after an earlier delivery's did.
UsedUpIsLogged ==
    \A m \in Messages :
      phase[m] = "gone" /\ at[m][count[m]] = "over" => successes[m] > 0 \/ m \in final
=============================================================================
