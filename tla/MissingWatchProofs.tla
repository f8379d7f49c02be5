------------------------- MODULE MissingWatchProofs -------------------------
(***************************************************************************)
(* Proofs about MissingWatch, for any number of subscriptions, Starts,     *)
(* deletions, creations and lost connections: the types, and that the      *)
(* watcher keeps what consumeError stored unless the consumer was created  *)
(* again outside the runtime.                                              *)
(***************************************************************************)
EXTENDS MissingWatch, TLAPS

-----------------------------------------------------------------------------
(* The invariant.                                                            *)

\* The running Start, or the last one, or one before, has come to o.
Opened(o) == o[2] < starts \/ (o[2] = starts /\ o[1] < next)

\* A Start makes its handler contexts before it opens anything.
StartedInv == state # "created" => starts > 0

\* Nothing has happened to what no Start has opened.
UnopenedInv ==
    \A o \in Objects :
        ~Opened(o) => pull[o] = "none" /\ notice[o] = "none" /\ o \notin missing

\* The watcher runs from the end of a Start on, and between two ticks has no key.
WatchInv ==
    /\ state \in {"created", "opening"} => watch = "none"
    /\ watch = "none" => toCheck = {}

\* What nats.go is about to report, what r.missing holds and what the watcher
\* has in hand is gone, and so no lookup finds it.
GoneInv ==
    \A o \in Objects :
        Current(o) /\ Uncreated(o) =>
            /\ notice[o] # "none" \/ o \in missing \/ o \in toCheck => ConsumerOf(o) \notin exists
            /\ watch \in {"checking", "asking"} /\ checking = o => ConsumerOf(o) \notin exists
            /\ ~(watch = "found" /\ checking = o)

\* A pull that has ended in a runtime that is not stopping is in r.missing.
StoppedInv ==
    state \in {"opening", "running"} =>
        \A o \in Objects :
            Current(o) /\ Uncreated(o) /\ pull[o] \in {"closing", "closed"} => o \in missing

MissingInv == TypeOK /\ StartedInv /\ UnopenedInv /\ WatchInv /\ GoneInv /\ StoppedInv
-----------------------------------------------------------------------------
(* The steps.                                                                *)

USE DEF vars, runtime, server, natsgo, watcher

LEMMA Bounds ==
  /\ Subscriptions \in Nat /\ MaxStarts \in Nat \ {0}
  /\ MaxDeletes \in Nat /\ MaxCreates \in Nat /\ MaxDrops \in Nat
BY BoundsAssumption

LEMMA ObjectsAre ==
  /\ \A o \in Objects : o = <<o[1], o[2]>> /\ o[1] \in 1..Subscriptions /\ o[2] \in 1..MaxStarts
  /\ \A o \in Objects : ConsumerOf(o) \in Consumers
  /\ \A i \in (1..Subscriptions) \ Groupless : <<i, 0>> \in Consumers
<1>1. /\ \A o \in Objects : o = <<o[1], o[2]>> /\ o[1] \in 1..Subscriptions /\ o[2] \in 1..MaxStarts
      /\ \A o \in Objects : ConsumerOf(o) \in Consumers
  BY DEF Objects, Consumers
<1>2. ASSUME NEW i \in (1..Subscriptions) \ Groupless PROVE <<i, 0>> \in Consumers
  <2>1. <<i, 1>> \in Objects
    BY Bounds DEF Objects
  <2>2. ConsumerOf(<<i, 1>>) = <<i, 0>>
    BY DEF ConsumerOf
  <2> QED
    BY <2>1, <2>2, <1>1
<1> QED
  BY <1>1, <1>2

LEMMA OpensObject ==
  ASSUME TypeOK, StartedInv, OpenConsumer
  PROVE  /\ <<next, starts>> \in Objects /\ next \in 1..Subscriptions
         /\ starts \in 1..MaxStarts
<1>0. /\ state = "opening" /\ starts \in 0..MaxStarts /\ next \in 1..(Subscriptions + 1)
      /\ next <= Subscriptions
  BY DEF TypeOK, OpenConsumer
<1>1. starts \in 1..MaxStarts
  BY <1>0, Bounds DEF StartedInv
<1>2. next \in 1..Subscriptions
  BY <1>0, Bounds
<1> QED
  BY <1>1, <1>2 DEF Objects

\* The external steps.
LEMMA ServerTypes ==
  ASSUME TypeOK, ServerStep
  PROVE  TypeOK'
<1>1. ASSUME NEW c \in Consumers, ConsumerDeleted(c) PROVE TypeOK'
  <2>1. notice' \in [Objects -> {"none", "deleted", "no responders"}]
    BY <1>1 DEF TypeOK, ConsumerDeleted
  <2>d. deletes \in 0..MaxDeletes /\ deletes < MaxDeletes /\ deletes' = deletes + 1
    BY <1>1 DEF TypeOK, ConsumerDeleted
  <2>e. deletes' \in 0..MaxDeletes
    BY <2>d, Bounds
  <2>2. exists' \subseteq Consumers
    BY <1>1 DEF TypeOK, ConsumerDeleted
  <2> QED
    BY <1>1, <2>1, <2>2, <2>e DEF TypeOK, ConsumerDeleted
<1>2. ASSUME NEW i \in 1..Subscriptions, ConsumerCreated(i) PROVE TypeOK'
  <2>n. i \in (1..Subscriptions) \ Groupless /\ exists' = exists \cup {<<i, 0>>}
    BY <1>2 DEF ConsumerCreated
  <2>1. exists' \subseteq Consumers
    BY <2>n, ObjectsAre DEF TypeOK
  <2>2. creates \in 0..MaxCreates /\ creates < MaxCreates /\ creates' = creates + 1
    BY <1>2 DEF TypeOK, ConsumerCreated
  <2>3. creates' \in 0..MaxCreates
    BY <2>2, Bounds
  <2> QED
    BY <1>2, <2>1, <2>3 DEF TypeOK, ConsumerCreated
<1>3. ASSUME NEW lost \in SUBSET Objects, ConnectionLost(lost) PROVE TypeOK'
  <2>1. notice' \in [Objects -> {"none", "deleted", "no responders"}]
    BY <1>3 DEF TypeOK, ConnectionLost
  <2>2. drops \in 0..MaxDrops /\ drops < MaxDrops /\ drops' = drops + 1
    BY <1>3 DEF TypeOK, ConnectionLost
  <2>3. drops' \in 0..MaxDrops
    BY <2>2, Bounds
  <2> QED
    BY <1>3, <2>1, <2>3 DEF TypeOK, ConnectionLost
<1>4. CASE Reconnected
  BY <1>4, Bounds DEF TypeOK, Reconnected
<1> QED
  BY <1>1, <1>2, <1>3, <1>4 DEF ServerStep

LEMMA NatsgoTypes ==
  ASSUME TypeOK, NEW o \in Objects, NatsgoStep(o)
  PROVE  TypeOK'
<1>1. CASE PullFindsNobody(o)
  BY <1>1, Bounds DEF TypeOK, PullFindsNobody
<1>2. CASE ConsumeError(o)
  BY <1>2, Bounds DEF TypeOK, ConsumeError, Report
<1>3. CASE ConsumeCloses(o)
  BY <1>3, Bounds DEF TypeOK, ConsumeCloses
<1> QED
  BY <1>1, <1>2, <1>3 DEF NatsgoStep

\* The runtime's steps.
LEMMA RuntimeTypes ==
  ASSUME TypeOK, StartedInv, RuntimeStep
  PROVE  TypeOK'
<1>1. CASE StartBegins
  <2>0. starts \in 0..MaxStarts /\ starts < MaxStarts /\ starts' = starts + 1 /\ next' = 1
    BY <1>1 DEF TypeOK, StartBegins
  <2>1. starts' \in 0..MaxStarts /\ next' \in 1..(Subscriptions + 1)
    BY <2>0, Bounds
  <2> QED
    BY <1>1, <2>1 DEF TypeOK, StartBegins
<1>2. CASE OpenConsumer
  <2>1. <<next, starts>> \in Objects
    BY <1>2, OpensObject
  <2>0. next' = next + 1 /\ next \in 1..Subscriptions
    BY <1>2, OpensObject DEF OpenConsumer
  <2>2. next' \in 1..(Subscriptions + 1)
    BY <2>0, Bounds
  <2>3. exists' \subseteq Consumers
    BY <1>2, <2>1, ObjectsAre DEF TypeOK, OpenConsumer
  <2>4. pull' \in [Objects -> {"none", "pulling", "closing", "closed"}]
    BY <1>2, <2>1 DEF TypeOK, OpenConsumer
  <2> QED
    BY <1>2, <2>2, <2>3, <2>4 DEF TypeOK, OpenConsumer
<1>3. CASE StartFails
  BY <1>3, Bounds DEF TypeOK, StartFails
<1>4. CASE StartSucceeds
  BY <1>4, Bounds DEF TypeOK, StartSucceeds
<1>5. CASE StopDrains
  BY <1>5, Bounds DEF TypeOK, StopDrains
<1>6. CASE StopCancels
  BY <1>6, Bounds DEF TypeOK, StopCancels
<1> QED
  BY <1>1, <1>2, <1>3, <1>4, <1>5, <1>6 DEF RuntimeStep

LEMMA WatcherTypes ==
  ASSUME TypeOK, WatcherStep
  PROVE  TypeOK'
<1>1. CASE Tick
  BY <1>1, Bounds DEF TypeOK, Tick
<1>2. CASE RangeEnds
  BY <1>2, Bounds DEF TypeOK, RangeEnds
<1>3. ASSUME NEW o \in Objects, CheckStopped(o) PROVE TypeOK'
  BY <1>3, Bounds DEF TypeOK, CheckStopped, Check
<1>4. ASSUME NEW o \in Objects, CheckPulling(o) PROVE TypeOK'
  BY <1>4, Bounds DEF TypeOK, CheckPulling, Check
<1>5. CASE LeaveDisconnected
  BY <1>5, Bounds DEF TypeOK, LeaveDisconnected, CheckGoesOn
<1>6. CASE AskServer
  BY <1>6, Bounds DEF TypeOK, AskServer, CheckGoesOn
<1>7. CASE InfoFinds
  BY <1>7, Bounds DEF TypeOK, InfoFinds, CheckGoesOn
<1>8. CASE InfoNotFound
  BY <1>8, Bounds DEF TypeOK, InfoNotFound, CheckGoesOn
<1>9. CASE InfoFails
  BY <1>9, Bounds DEF TypeOK, InfoFails, CheckGoesOn
<1>10. CASE Forget
  BY <1>10, Bounds DEF TypeOK, Forget, CheckGoesOn
<1>11. CASE WatcherLeaves
  BY <1>11, Bounds DEF TypeOK, WatcherLeaves
<1> QED
  BY <1>1, <1>2, <1>3, <1>4, <1>5, <1>6, <1>7, <1>8, <1>9, <1>10, <1>11 DEF WatcherStep, CheckStep

-----------------------------------------------------------------------------
(* The invariant is kept.                                                    *)

\* The invariant without the types.
Rest == StartedInv /\ UnopenedInv /\ WatchInv /\ GoneInv /\ StoppedInv

\* An object's consumer is its own or its subscription's.
LEMMA OneObject ==
  ASSUME NEW o \in Objects, NEW p \in Objects, o[2] = p[2], ConsumerOf(o) = ConsumerOf(p)
  PROVE  o = p
<1>1. o = <<o[1], o[2]>> /\ p = <<p[1], p[2]>>
  BY ObjectsAre
<1>2. o[1] = p[1]
  BY DEF ConsumerOf
<1> QED
  BY <1>1, <1>2

\* Another instance creates only a group's consumer again.
LEMMA CreatedKeeps ==
  ASSUME MissingInv, NEW i \in 1..Subscriptions, ConsumerCreated(i)
  PROVE  Rest'
<1>1. /\ i \notin Groupless /\ exists' = exists \cup {<<i, 0>>} /\ creates' = creates + 1
      /\ UNCHANGED <<runtime, natsgo, missing, watcher>>
  BY DEF ConsumerCreated
<1>2. creates' # 0
  <2>1. creates \in 0..MaxCreates
    BY DEF MissingInv, TypeOK
  <2> QED
    BY <1>1, <2>1, Bounds
<1>3. ASSUME NEW o \in Objects, Uncreated(o)'
      PROVE  Uncreated(o) /\ (ConsumerOf(o) \notin exists => ConsumerOf(o) \notin exists')
  <2>1. o[1] \in Groupless
    BY <1>2, <1>3 DEF Uncreated
  <2>2. ConsumerOf(o) = o /\ o # <<i, 0>>
    BY <1>1, <2>1 DEF ConsumerOf
  <2> QED
    BY <1>1, <2>1, <2>2 DEF Uncreated
<1>4. GoneInv'
  BY <1>1, <1>3 DEF MissingInv, GoneInv, Current
<1>5. StoppedInv'
  BY <1>1, <1>3 DEF MissingInv, StoppedInv, Current
<1> QED
  BY <1>1, <1>4, <1>5 DEF MissingInv, Rest, StartedInv, UnopenedInv, WatchInv, Opened

\* What is told to nats.go is gone, and reaches only what a Start has opened.
LEMMA ServerKeeps ==
  ASSUME MissingInv, ServerStep
  PROVE  Rest'
<1>1. ASSUME NEW c \in Consumers, ConsumerDeleted(c) PROVE Rest'
  <2>1. /\ exists' = exists \ {c}
        /\ notice' = [o \in Objects |->
                        IF ConsumerOf(o) = c /\ connected /\ pull[o] = "pulling"
                        THEN "deleted" ELSE notice[o]]
        /\ UNCHANGED <<runtime, pull, missing, watcher, creates>>
    BY <1>1 DEF ConsumerDeleted
  <2>2. GoneInv'
    BY <2>1 DEF MissingInv, GoneInv, Current, Uncreated
  <2>3. UnopenedInv'
    BY <2>1 DEF MissingInv, UnopenedInv, Opened
  <2>4. StoppedInv'
    BY <2>1 DEF MissingInv, StoppedInv, Current, Uncreated
  <2> QED
    BY <2>1, <2>2, <2>3, <2>4 DEF MissingInv, Rest, StartedInv, WatchInv
<1>2. ASSUME NEW lost \in SUBSET Objects, ConnectionLost(lost) PROVE Rest'
  <2>1. /\ notice' = [o \in Objects |-> IF o \in lost THEN "none" ELSE notice[o]]
        /\ UNCHANGED <<exists, runtime, pull, missing, watcher, creates>>
    BY <1>2 DEF ConnectionLost
  <2>2. GoneInv'
    BY <2>1 DEF MissingInv, GoneInv, Current, Uncreated
  <2>3. UnopenedInv'
    BY <2>1 DEF MissingInv, UnopenedInv, Opened
  <2>4. StoppedInv'
    BY <2>1 DEF MissingInv, StoppedInv, Current, Uncreated
  <2> QED
    BY <2>1, <2>2, <2>3, <2>4 DEF MissingInv, Rest, StartedInv, WatchInv
<1>3. CASE Reconnected
  BY <1>3 DEF Reconnected, MissingInv, Rest, StartedInv, UnopenedInv, WatchInv, GoneInv,
              StoppedInv, Opened, Current, Uncreated
<1> QED
  BY <1>1, <1>2, <1>3, CreatedKeeps DEF ServerStep

\* nats.go reports what is gone, and stops only what it has reported.
LEMMA NatsgoKeeps ==
  ASSUME MissingInv, NEW q \in Objects, NatsgoStep(q)
  PROVE  Rest'
<1>t. pull \in [Objects -> {"none", "pulling", "closing", "closed"}]
      /\ notice \in [Objects -> {"none", "deleted", "no responders"}]
  BY DEF MissingInv, TypeOK
<1>1. CASE PullFindsNobody(q)
  <2>1. /\ pull[q] = "pulling" /\ ConsumerOf(q) \notin exists
        /\ notice' = [notice EXCEPT ![q] = "no responders"]
        /\ UNCHANGED <<server, runtime, pull, missing, watcher>>
    BY <1>1 DEF PullFindsNobody
  <2>2. GoneInv'
    BY <1>t, <2>1 DEF MissingInv, GoneInv, Current, Uncreated
  <2>3. UnopenedInv'
    BY <1>t, <2>1 DEF MissingInv, UnopenedInv, Opened
  <2>4. StoppedInv'
    BY <2>1 DEF MissingInv, StoppedInv, Current, Uncreated
  <2> QED
    BY <2>1, <2>2, <2>3, <2>4 DEF MissingInv, Rest, StartedInv, WatchInv
<1>2. CASE ConsumeError(q)
  <2>1. /\ notice[q] # "none" /\ pull[q] = "pulling" /\ missing' = missing \cup {q}
        /\ notice' = [notice EXCEPT ![q] = "none"]
        /\ pull' = [pull EXCEPT ![q] = IF notice[q] = "deleted" THEN "closing" ELSE @]
        /\ UNCHANGED <<server, runtime, watcher>>
    BY <1>2 DEF ConsumeError, Report
  <2>2. GoneInv'
    BY <1>t, <2>1 DEF MissingInv, GoneInv, Current, Uncreated
  <2>3. UnopenedInv'
    BY <1>t, <2>1 DEF MissingInv, UnopenedInv, Opened
  <2>4. StoppedInv'
    BY <1>t, <2>1 DEF MissingInv, StoppedInv, Current, Uncreated
  <2> QED
    BY <2>1, <2>2, <2>3, <2>4 DEF MissingInv, Rest, StartedInv, WatchInv
<1>3. CASE ConsumeCloses(q)
  <2>1. /\ pull[q] = "closing" /\ pull' = [pull EXCEPT ![q] = "closed"]
        /\ UNCHANGED <<server, runtime, notice, missing, watcher>>
    BY <1>3 DEF ConsumeCloses
  <2>2. GoneInv'
    BY <2>1 DEF MissingInv, GoneInv, Current, Uncreated
  <2>3. UnopenedInv'
    BY <1>t, <2>1 DEF MissingInv, UnopenedInv, Opened
  <2>4. StoppedInv'
    BY <1>t, <2>1 DEF MissingInv, StoppedInv, Current, Uncreated
  <2> QED
    BY <2>1, <2>2, <2>3, <2>4 DEF MissingInv, Rest, StartedInv, WatchInv
<1> QED
  BY <1>1, <1>2, <1>3 DEF NatsgoStep

\* A Start that begins finds nothing done to what it is about to open.
LEMMA StartBeginsKeeps ==
  ASSUME MissingInv, StartBegins
  PROVE  Rest'
<1>1. /\ state = "created" /\ state' = "opening" /\ starts' = starts + 1 /\ next' = 1
      /\ UNCHANGED <<cancelled, server, natsgo, missing, watcher>>
  BY DEF StartBegins
<1>s. starts \in 0..MaxStarts
  BY DEF MissingInv, TypeOK
<1>w. watch = "none" /\ toCheck = {}
  BY <1>1 DEF MissingInv, WatchInv
<1>2. starts \in Nat /\ watch = "none" /\ toCheck = {}
  BY <1>s, <1>w, Bounds
<1>3. ASSUME NEW o \in Objects, ~Opened(o)' PROVE ~Opened(o) 
  BY <1>1, <1>2, <1>3, ObjectsAre, Bounds DEF Opened
<1>4. ASSUME NEW o \in Objects, Current(o)' PROVE ~Opened(o)
  BY <1>1, <1>2, <1>4, ObjectsAre, Bounds DEF Opened, Current
<1>5. \A o \in Objects : ~Opened(o) => pull[o] = "none" /\ notice[o] = "none" /\ o \notin missing
  BY DEF MissingInv, UnopenedInv
<1>6. UnopenedInv'
  BY <1>1, <1>3, <1>5 DEF UnopenedInv
<1>7. GoneInv'
  BY <1>1, <1>2, <1>4, <1>5 DEF GoneInv
<1>8. StoppedInv'
  BY <1>1, <1>4, <1>5 DEF StoppedInv
<1>9. StartedInv' /\ WatchInv'
  <2>1. starts' > 0
    BY <1>1, <1>2
  <2> QED
    BY <1>1, <1>2, <2>1 DEF StartedInv, WatchInv
<1> QED
  BY <1>6, <1>7, <1>8, <1>9 DEF Rest

\* The consumer that consume creates is the one of the jsConsumer it is for,
\* and of no other of this Start.
LEMMA OpenConsumerKeeps ==
  ASSUME MissingInv, OpenConsumer
  PROVE  Rest'
<1> DEFINE q == <<next, starts>>
<1>1. /\ state = "opening" /\ exists' = exists \cup {ConsumerOf(q)}
      /\ pull' = [pull EXCEPT ![q] = "pulling"] /\ next' = next + 1
      /\ UNCHANGED <<connected, deletes, creates, drops, state, starts, cancelled,
                     notice, missing, watcher>>
  BY DEF OpenConsumer
<1>2. q \in Objects /\ next \in 1..Subscriptions /\ starts \in 1..MaxStarts
  BY OpensObject DEF MissingInv
<1>3. q[1] = next /\ q[2] = starts
  OBVIOUS
<1>4. watch = "none" /\ toCheck = {}
  BY <1>1 DEF MissingInv, WatchInv
<1>t. pull \in [Objects -> {"none", "pulling", "closing", "closed"}]
  BY DEF MissingInv, TypeOK
<1>u. \A o \in Objects : ~Opened(o) => pull[o] = "none" /\ notice[o] = "none" /\ o \notin missing
  BY DEF MissingInv, UnopenedInv
<1>5. ~Opened(q)
  BY <1>2, <1>3, Bounds DEF Opened
<1>6. ASSUME NEW o \in Objects, ~Opened(o)' PROVE ~Opened(o) /\ o # q
  <2>1. o[1] \in 1..Subscriptions /\ o[2] \in 1..MaxStarts
    BY ObjectsAre
  <2>2. ~(o[2] < starts) /\ ~(o[2] = starts /\ o[1] < next + 1)
    BY <1>1, <1>6 DEF Opened
  <2>3. ~(o[1] = next /\ o[2] = starts)
    BY <1>2, <2>2, Bounds
  <2>4. o # q
    BY <1>3, <2>3
  <2>5. ~(o[2] = starts /\ o[1] < next)
    BY <1>2, <2>1, <2>2, Bounds
  <2> QED
    BY <2>2, <2>4, <2>5 DEF Opened
<1> HIDE DEF q
<1>7. UnopenedInv'
  BY <1>1, <1>6, <1>t, <1>u DEF UnopenedInv
<1>8. ASSUME NEW o \in Objects, Current(o), ConsumerOf(o) \notin exists,
             notice[o] # "none" \/ o \in missing
      PROVE  ConsumerOf(o) \notin exists'
  <2>1. o # q
    BY <1>2, <1>5, <1>8, <1>u
  <2>2. o[2] = q[2]
    BY <1>3, <1>8 DEF Current
  <2> QED
    BY <1>1, <1>2, <1>8, <2>1, <2>2, OneObject
<1>9. GoneInv'
  BY <1>1, <1>4, <1>8 DEF MissingInv, GoneInv, Current, Uncreated
<1>10. StoppedInv'
  BY <1>1, <1>2, <1>t DEF MissingInv, StoppedInv, Current, Uncreated
<1>11. StartedInv' /\ WatchInv'
  BY <1>1 DEF MissingInv, StartedInv, WatchInv
<1> QED
  BY <1>7, <1>9, <1>10, <1>11 DEF Rest

\* Stop and a Start that fails end pulls, but then nothing is promised any more.
LEMMA RuntimeKeeps ==
  ASSUME MissingInv, RuntimeStep
  PROVE  Rest'
<1>t. pull \in [Objects -> {"none", "pulling", "closing", "closed"}]
  BY DEF MissingInv, TypeOK
<1>1. CASE StartFails
  <2>1. /\ state = "opening" /\ state' = "created"
        /\ pull' = [o \in Objects |-> IF pull[o] = "pulling" THEN "closing" ELSE pull[o]]
        /\ UNCHANGED <<starts, next, cancelled, server, notice, missing, watcher>>
    BY <1>1 DEF StartFails
  <2>2. UnopenedInv'
    BY <2>1 DEF MissingInv, UnopenedInv, Opened
  <2>3. GoneInv'
    BY <2>1 DEF MissingInv, GoneInv, Current, Uncreated
  <2> QED
    BY <2>1, <2>2, <2>3 DEF MissingInv, Rest, StartedInv, WatchInv, StoppedInv
<1>2. CASE StartSucceeds
  <2>1. /\ state = "opening" /\ state' = "running" /\ watch' = "idle"
        /\ UNCHANGED <<starts, next, cancelled, server, natsgo, missing, toCheck, checking>>
    BY <1>2 DEF StartSucceeds
  <2>2. UnopenedInv'
    BY <2>1 DEF MissingInv, UnopenedInv, Opened
  <2>3. GoneInv'
    BY <2>1 DEF MissingInv, GoneInv, Current, Uncreated
  <2>4. StoppedInv'
    BY <2>1 DEF MissingInv, StoppedInv, Current, Uncreated
  <2> QED
    BY <2>1, <2>2, <2>3, <2>4 DEF MissingInv, Rest, StartedInv, WatchInv
<1>3. CASE StopDrains
  <2>1. /\ state = "running" /\ state' = "stopped"
        /\ pull' = [o \in Objects |-> IF pull[o] = "pulling" THEN "closing" ELSE pull[o]]
        /\ UNCHANGED <<starts, next, cancelled, server, notice, missing, watcher>>
    BY <1>3 DEF StopDrains
  <2>2. UnopenedInv'
    BY <2>1 DEF MissingInv, UnopenedInv, Opened
  <2>3. GoneInv'
    BY <2>1 DEF MissingInv, GoneInv, Current, Uncreated
  <2> QED
    BY <2>1, <2>2, <2>3 DEF MissingInv, Rest, StartedInv, WatchInv, StoppedInv
<1>4. CASE StopCancels
  BY <1>4 DEF StopCancels, MissingInv, Rest, StartedInv, UnopenedInv, WatchInv, GoneInv,
              StoppedInv, Opened, Current, Uncreated
<1> QED
  BY <1>1, <1>2, <1>3, <1>4, StartBeginsKeeps, OpenConsumerKeeps DEF RuntimeStep

\* The watcher forgets only what a lookup has found, and looks only at what was
\* stored.
LEMMA WatcherKeeps ==
  ASSUME MissingInv, WatcherStep
  PROVE  Rest'
<1> DEFINE Same == UNCHANGED <<runtime, server, natsgo>>
<1>1. ASSUME Same, missing' = missing, watch # "none", watch' # "none",
             toCheck' \subseteq toCheck \cup missing,
             watch' = "found" => watch = "asking" /\ checking' = checking
                                /\ ConsumerOf(checking) \in exists,
             watch' \in {"checking", "asking"} =>
                checking' \in toCheck
                \/ (checking' = checking /\ watch \in {"checking", "asking"})
      PROVE  Rest'
  <2>1. state \notin {"created", "opening"}
    BY <1>1 DEF MissingInv, WatchInv
  <2>2. GoneInv'
    BY <1>1 DEF MissingInv, GoneInv, Current, Uncreated
  <2>3. StoppedInv'
    BY <1>1 DEF MissingInv, StoppedInv, Current, Uncreated
  <2>4. UnopenedInv'
    BY <1>1 DEF MissingInv, UnopenedInv, Opened
  <2> QED
    BY <1>1, <2>1, <2>2, <2>3, <2>4 DEF MissingInv, Rest, StartedInv, WatchInv
<1>2. CASE Tick
  BY <1>1, <1>2 DEF Tick
<1>3. CASE RangeEnds
  BY <1>1, <1>3 DEF RangeEnds
<1>4. ASSUME NEW o \in Objects, CheckStopped(o) \/ CheckPulling(o) PROVE Rest'
  BY <1>1, <1>4 DEF CheckStopped, CheckPulling, Check
<1>5. CASE LeaveDisconnected
  BY <1>1, <1>5 DEF LeaveDisconnected, CheckGoesOn
<1>6. CASE AskServer
  BY <1>1, <1>6 DEF AskServer, CheckGoesOn
<1>7. CASE InfoFinds
  BY <1>1, <1>7 DEF InfoFinds, CheckGoesOn
<1>8. CASE InfoNotFound \/ InfoFails
  BY <1>1, <1>8 DEF InfoNotFound, InfoFails, CheckGoesOn
<1>9. CASE WatcherLeaves
  BY <1>1, <1>9 DEF WatcherLeaves
<1>10. CASE Forget
  <2>1. /\ watch = "found" /\ watch' = "ranging" /\ missing' = missing \ {checking}
        /\ UNCHANGED <<toCheck, checking, runtime, server, natsgo>>
    BY <1>10 DEF Forget, CheckGoesOn
  <2>2. state \notin {"created", "opening"}
    BY <2>1 DEF MissingInv, WatchInv
  <2>3. GoneInv'
    BY <2>1 DEF MissingInv, GoneInv, Current, Uncreated
  <2>4. StoppedInv'
    <3>1. ASSUME NEW o \in Objects, Current(o), Uncreated(o) PROVE o # checking
      BY <2>1, <3>1 DEF MissingInv, GoneInv
    <3> QED
      BY <2>1, <3>1 DEF MissingInv, StoppedInv, Current, Uncreated
  <2>5. UnopenedInv'
    BY <2>1 DEF MissingInv, UnopenedInv, Opened
  <2> QED
    BY <2>1, <2>2, <2>3, <2>4, <2>5 DEF MissingInv, Rest, StartedInv, WatchInv
<1> QED
  BY <1>2, <1>3, <1>4, <1>5, <1>6, <1>7, <1>8, <1>9, <1>10 DEF WatcherStep, CheckStep

LEMMA MissingInit == Init => MissingInv
<1> SUFFICES ASSUME Init PROVE MissingInv
  OBVIOUS
<1>1. TypeOK
  <2>1. exists \subseteq Consumers
    BY ObjectsAre DEF Init
  <2>2. starts \in 0..MaxStarts /\ next \in 1..(Subscriptions + 1)
        /\ deletes \in 0..MaxDeletes /\ creates \in 0..MaxCreates /\ drops \in 0..MaxDrops
    BY Bounds DEF Init
  <2> QED
    BY <2>1, <2>2 DEF Init, TypeOK
<1>2. ASSUME NEW o \in Objects PROVE pull[o] = "none" /\ notice[o] = "none"
  BY DEF Init
<1> QED
  BY <1>1, <1>2 DEF Init, MissingInv, StartedInv, UnopenedInv, WatchInv, GoneInv, StoppedInv

\* The invariant, for any number of subscriptions and any bounds.
THEOREM MissingInvAlways == Spec => []MissingInv
<1>1. MissingInv /\ [Next]_vars => MissingInv'
  <2> SUFFICES ASSUME MissingInv, [Next]_vars PROVE MissingInv'
    OBVIOUS
  <2>1. CASE Next
    <3>1. TypeOK'
      BY <2>1, ServerTypes, RuntimeTypes, WatcherTypes, NatsgoTypes DEF Next, MissingInv
    <3>2. Rest'
      BY <2>1, ServerKeeps, RuntimeKeeps, WatcherKeeps, NatsgoKeeps DEF Next
    <3> QED
      BY <3>1, <3>2 DEF MissingInv, Rest
  <2>2. CASE UNCHANGED vars
    BY <2>2 DEF MissingInv, TypeOK, StartedInv, UnopenedInv, WatchInv, GoneInv, StoppedInv,
                Opened, Current, Uncreated
  <2> QED
    BY <2>1, <2>2
<1> QED
  BY <1>1, MissingInit, PTL DEF Spec

\* The types of the runtime's, nats.go's and the server's state.
THEOREM TypeOKAlways == Spec => []TypeOK
<1>1. MissingInv => TypeOK
  BY DEF MissingInv
<1> QED
  BY <1>1, MissingInvAlways, PTL

\* A consumer nats.go stopped consuming stays in r.missing while the runtime
\* runs, as checkMissing's comment has it, unless somebody outside the runtime
\* created it again: consumeError's report then never races a lookup that finds.
THEOREM UncreatedStaysMissingAlways == Spec => []UncreatedStaysMissing
<1>1. MissingInv => UncreatedStaysMissing
  BY DEF MissingInv, StoppedInv, UncreatedStaysMissing
<1> QED
  BY <1>1, MissingInvAlways, PTL

\* The watcher raises no false alarm (watchMissing, checkMissing), however long
\* ago its Range read r.missing and the server was asked: nothing brings back a
\* consumer of the last Start while one of its keys is in hand.
THEOREM LoggedIsGoneAlways == Spec => LoggedIsGone
<1>1. ASSUME MissingInv, NEW o \in Objects, Logs(o), Current(o), Uncreated(o)
      PROVE  ConsumerOf(o) \notin exists
  <2>0. /\ o \in toCheck => ConsumerOf(o) \notin exists
        /\ watch = "asking" /\ checking = o => ConsumerOf(o) \notin exists
    BY <1>1 DEF MissingInv, GoneInv
  <2>1. CASE CheckStopped(o)
    BY <2>0, <2>1 DEF CheckStopped, Check
  <2>2. CASE checking = o /\ (InfoNotFound \/ InfoFails)
    BY <2>0, <2>2 DEF InfoNotFound, InfoFails, CheckGoesOn
  <2> QED
    BY <1>1, <2>1, <2>2 DEF Logs
<1>2. MissingInv =>
        [\A o \in Objects :
           Logs(o) /\ Current(o) /\ Uncreated(o) => ConsumerOf(o) \notin exists]_vars
  BY <1>1
<1> QED
  BY <1>2, MissingInvAlways, PTL DEF LoggedIsGone
=============================================================================
