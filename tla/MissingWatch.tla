---------------------------- MODULE MissingWatch ----------------------------
(***************************************************************************)
(* The JetStream consumers the runtime reports missing                     *)
(* (src/nats/consumers.go): nats.go reports a consumer that is gone from   *)
(* its own goroutine, and the goroutine watchMissing logs it again until   *)
(* it is back.                                                             *)
(*                                                                         *)
(* A subscription is a JetStream subscriber whose consumer is named by its *)
(* group, so every Start finds the same one, or by the server, afresh each *)
(* Start.  An ordered one is not modelled: consumeError leaves it alone.   *)
(* Each Start makes a jsConsumer of its own for each subscription,         *)
(* <<subscription, Start>> here.  The server, the connection and what      *)
(* nats.go does with a deleted consumer are external, as src/nats          *)
(* describes them.  Besides the actions named in Logs, ConsumeError logs a *)
(* missing consumer.                                                       *)
(***************************************************************************)
EXTENDS Naturals

CONSTANTS
    Subscriptions, \* how many subscriptions consume from a stream
    LookedUp,      \* the ones with CreateConsumerKey "false"
    Groupless,     \* the ones of ConsumerGroupNone
    MaxStarts,     \* bound: how many times Start opens its receivers
    MaxDeletes,    \* bound: how many consumers are deleted
    MaxCreates,    \* bound: how many are created again outside the runtime
    MaxDrops       \* bound: how often the connection is lost

ASSUME BoundsAssumption ==
    /\ {Subscriptions, MaxStarts, MaxDeletes, MaxCreates, MaxDrops} \subseteq Nat
    /\ MaxStarts > 0
    /\ LookedUp \subseteq 1..Subscriptions
    /\ Groupless \subseteq (1..Subscriptions) \ LookedUp

Objects == (1..Subscriptions) \X (1..MaxStarts)
NoObject == <<0, 0>>

\* The consumer on the server that a jsConsumer stands for: one for all Starts,
\* or one the server names for this Start.
ConsumerOf(o) == IF o[1] \in Groupless THEN o ELSE <<o[1], 0>>
Consumers == {ConsumerOf(o) : o \in Objects}

VARIABLES
    state,     \* r.state, "opening" while Start runs
    starts,    \* how many handler contexts Start has made
    next,      \* the subscription openReceivers is at
    cancelled, \* whether Stop has cancelled the running Start's context
    exists,    \* the consumers the server has
    connected, \* nc.IsConnected
    pull,      \* what nats.go does for each jsConsumer
    notice,    \* what the server has told nats.go and it has not reported
    missing,   \* r.missing
    watch,     \* where watchMissing is
    toCheck,   \* the keys its Range has still to visit
    checking,  \* the jsConsumer checkMissing is at
    deletes, creates, drops

runtime == <<state, starts, next, cancelled>>
server == <<exists, connected, deletes, creates, drops>>
natsgo == <<pull, notice>>
watcher == <<watch, toCheck, checking>>
vars == <<runtime, server, natsgo, missing, watcher>>

Current(o) == o[2] = starts

TypeOK ==
    /\ state \in {"created", "opening", "running", "stopped"}
    /\ starts \in 0..MaxStarts /\ next \in 1..(Subscriptions + 1)
    /\ cancelled \in BOOLEAN
    /\ exists \subseteq Consumers /\ connected \in BOOLEAN
    /\ pull \in [Objects -> {"none", "pulling", "closing", "closed"}]
    /\ notice \in [Objects -> {"none", "deleted", "no responders"}]
    /\ missing \subseteq Objects
    /\ watch \in {"none", "idle", "ranging", "checking", "asking", "found", "done"}
    /\ toCheck \subseteq Objects /\ checking \in Objects \cup {NoObject}
    /\ deletes \in 0..MaxDeletes /\ creates \in 0..MaxCreates /\ drops \in 0..MaxDrops

Init ==
    /\ state = "created" /\ starts = 0 /\ next = 1 /\ cancelled = FALSE
    /\ exists = {<<i, 0>> : i \in 1..Subscriptions \ Groupless} /\ connected = TRUE
    /\ pull = [o \in Objects |-> "none"]
    /\ notice = [o \in Objects |-> "none"]
    /\ missing = {}
    /\ watch = "none" /\ toCheck = {} /\ checking = NoObject
    /\ deletes = 0 /\ creates = 0 /\ drops = 0

-----------------------------------------------------------------------------
(* The server and the connection (external).                                *)

\* The server tells every pull that is open on a connected client.
ConsumerDeleted(c) ==
    /\ c \in exists /\ deletes < MaxDeletes
    /\ exists' = exists \ {c} /\ deletes' = deletes + 1
    /\ notice' = [o \in Objects |->
                     IF ConsumerOf(o) = c /\ connected /\ pull[o] = "pulling"
                     THEN "deleted" ELSE notice[o]]
    /\ UNCHANGED <<connected, creates, drops, runtime, pull, missing, watcher>>

\* Another instance's Start, or someone outside the runtime, creates a consumer
\* with a group's name.
ConsumerCreated(i) ==
    /\ i \notin Groupless /\ <<i, 0>> \notin exists /\ creates < MaxCreates
    /\ exists' = exists \cup {<<i, 0>>} /\ creates' = creates + 1
    /\ UNCHANGED <<connected, deletes, drops, runtime, natsgo, missing, watcher>>

\* What the server said and nats.go has not read is lost.
ConnectionLost(lost) ==
    /\ connected /\ drops < MaxDrops
    /\ connected' = FALSE /\ drops' = drops + 1
    /\ notice' = [o \in Objects |-> IF o \in lost THEN "none" ELSE notice[o]]
    /\ UNCHANGED <<exists, deletes, creates, runtime, pull, missing, watcher>>

Reconnected ==
    /\ ~connected /\ ~cancelled
    /\ connected' = TRUE
    /\ UNCHANGED <<exists, deletes, creates, drops, runtime, natsgo, missing, watcher>>

\* A pull whose consumer is gone and that was not told so.
PullFindsNobody(o) ==
    /\ connected /\ pull[o] = "pulling" /\ ConsumerOf(o) \notin exists /\ notice[o] = "none"
    /\ notice' = [notice EXCEPT ![o] = "no responders"]
    /\ UNCHANGED <<server, runtime, pull, missing, watcher>>

\* ConsumeContext.Closed, some time after nats.go or the runtime stopped it.
ConsumeCloses(o) ==
    /\ pull[o] = "closing"
    /\ pull' = [pull EXCEPT ![o] = "closed"]
    /\ UNCHANGED <<server, runtime, notice, missing, watcher>>

-----------------------------------------------------------------------------
(* consumeError, on nats.go's goroutine.                                     *)

\* nats.go stops consuming a deleted consumer once the handler has returned.
Report(o, tracked) ==
    /\ notice[o] # "none" /\ pull[o] = "pulling"
    /\ missing' = missing \cup tracked
    /\ notice' = [notice EXCEPT ![o] = "none"]
    /\ pull' = [pull EXCEPT ![o] = IF notice[o] = "deleted" THEN "closing" ELSE @]
    /\ UNCHANGED <<server, runtime, watcher>>

\* Mutation: only the consumer without responders is stored.
ReportNoRespondersOnly(o) ==
    Report(o, IF notice[o] = "deleted" THEN {} ELSE {o})
\* Mutation: any error is stored, a heartbeat missed while disconnected too.
ConsumeErrorUnfiltered(o) ==
    \/ Report(o, {o})
    \/ /\ ~connected /\ pull[o] = "pulling"
       /\ missing' = missing \cup {o}
       /\ UNCHANGED <<server, runtime, natsgo, watcher>>
ConsumeError(o) == Report(o, {o})

-----------------------------------------------------------------------------
(* Start and Stop, as far as they touch consumers.                           *)

StartBegins ==
    /\ state = "created" /\ connected /\ starts < MaxStarts
    /\ state' = "opening" /\ starts' = starts + 1 /\ next' = 1
    /\ UNCHANGED <<cancelled, server, natsgo, missing, watcher>>

\* consume: looks the consumer up or creates it, and pulls from it.
OpenConsumer ==
    /\ state = "opening" /\ connected /\ next <= Subscriptions
    /\ next \in LookedUp => <<next, 0>> \in exists
    /\ exists' = exists \cup {ConsumerOf(<<next, starts>>)}
    /\ pull' = [pull EXCEPT ![<<next, starts>>] = "pulling"]
    /\ next' = next + 1
    /\ UNCHANGED <<connected, deletes, creates, drops, state, starts, cancelled,
                   notice, missing, watcher>>

\* A stream or consumer is not found, or the flush fails: abortStart stops the
\* consumers opened so far.
StartFails ==
    /\ state = "opening"
    /\ state' = "created"
    /\ pull' = [o \in Objects |-> IF pull[o] = "pulling" THEN "closing" ELSE pull[o]]
    /\ UNCHANGED <<starts, next, cancelled, server, notice, missing, watcher>>

StartSucceeds ==
    /\ state = "opening" /\ connected /\ next > Subscriptions
    /\ state' = "running"
    /\ watch' = "idle"
    /\ UNCHANGED <<starts, next, cancelled, server, natsgo, missing, toCheck, checking>>

StopDrains ==
    /\ state = "running"
    /\ state' = "stopped"
    /\ pull' = [o \in Objects |-> IF pull[o] = "pulling" THEN "closing" ELSE pull[o]]
    /\ UNCHANGED <<starts, next, cancelled, server, notice, missing, watcher>>

\* cancelHandlers, and later client.Close.
StopCancels ==
    /\ state = "stopped" /\ ~cancelled
    /\ cancelled' = TRUE /\ connected' = FALSE
    /\ UNCHANGED <<state, starts, next, exists, deletes, creates, drops,
                   natsgo, missing, watcher>>

-----------------------------------------------------------------------------
(* watchMissing and checkMissing.                                            *)

\* Range over r.missing.  A key stored while it runs waits for the next tick.
Tick ==
    /\ watch = "idle"
    /\ watch' = "ranging" /\ toCheck' = missing
    /\ UNCHANGED <<checking, runtime, server, natsgo, missing>>

RangeEnds ==
    /\ watch = "ranging" /\ toCheck = {}
    /\ watch' = "idle"
    /\ UNCHANGED <<toCheck, checking, runtime, server, natsgo, missing>>

\* checkMissing up to the connection check.  It returns at once, having logged
\* o, when o is closed.
Check(o, then) ==
    /\ watch = "ranging" /\ o \in toCheck
    /\ watch' = then
    /\ toCheck' = toCheck \ {o} /\ checking' = o
    /\ UNCHANGED <<runtime, server, natsgo, missing>>

CheckStopped(o) == pull[o] = "closed" /\ Check(o, "ranging")

CheckPulling(o) == pull[o] # "closed" /\ Check(o, "checking")

\* How a check ends, or goes on, with the watcher at then.
CheckGoesOn(from, then) ==
    /\ watch = from
    /\ watch' = then
    /\ UNCHANGED <<toCheck, checking, runtime, server, natsgo>>

LeaveDisconnected == ~connected /\ CheckGoesOn("checking", "ranging") /\ UNCHANGED missing
AskServer == connected /\ CheckGoesOn("checking", "asking") /\ UNCHANGED missing

\* Mutation: the lookup that finds the consumer leaves it in r.missing.
ForgetNothing == CheckGoesOn("found", "ranging") /\ UNCHANGED missing

InfoFinds ==
    connected /\ ConsumerOf(checking) \in exists /\ CheckGoesOn("asking", "found") /\ UNCHANGED missing

InfoNotFound ==
    connected /\ ConsumerOf(checking) \notin exists /\ CheckGoesOn("asking", "ranging") /\ UNCHANGED missing

\* A timeout, a lost connection, or the context that Stop cancelled.
InfoFails == CheckGoesOn("asking", "ranging") /\ UNCHANGED missing

\* r.missing.Delete, on the answer it has, whatever has been stored since.
Forget == CheckGoesOn("found", "ranging") /\ missing' = missing \ {checking}

\* Mutation: the watcher outlives Stop.
WatcherStays == watch = "idle" /\ FALSE /\ UNCHANGED vars
WatcherLeaves ==
    /\ watch = "idle" /\ cancelled
    /\ watch' = "done"
    /\ UNCHANGED <<toCheck, checking, runtime, server, natsgo, missing>>

-----------------------------------------------------------------------------
ServerStep ==
    \/ \E c \in Consumers : ConsumerDeleted(c)
    \/ \E i \in 1..Subscriptions : ConsumerCreated(i)
    \/ \E lost \in SUBSET Objects : ConnectionLost(lost)
    \/ Reconnected

NatsgoStep(o) == PullFindsNobody(o) \/ ConsumeError(o) \/ ConsumeCloses(o)

RuntimeStep ==
    \/ StartBegins \/ OpenConsumer \/ StartFails \/ StartSucceeds
    \/ StopDrains \/ StopCancels

CheckStep ==
    \/ \E o \in Objects : CheckStopped(o) \/ CheckPulling(o)
    \/ LeaveDisconnected \/ AskServer \/ InfoFinds \/ InfoNotFound \/ InfoFails \/ Forget

WatcherStep == Tick \/ RangeEnds \/ CheckStep \/ WatcherLeaves

Next ==
    \/ ServerStep \/ RuntimeStep \/ WatcherStep
    \/ \E o \in Objects : NatsgoStep(o)

Spec == Init /\ [][Next]_vars

(* Fairness.  nats.go reports what it was told, a stopped consumer closes,   *)
(* Stop does not stop half way and the watcher runs.  A Range visits every   *)
(* key.  An existing consumer that is looked up again and again is found     *)
(* some time, and the watcher's select, with both channels ready, does not   *)
(* take the ticker every time.                                               *)
FairSpec ==
    /\ Spec
    /\ \A o \in Objects : WF_vars(NatsgoStep(o)) /\ SF_vars(CheckStopped(o) \/ CheckPulling(o))
    /\ WF_vars(StopCancels)
    /\ WF_vars(Tick) /\ WF_vars(RangeEnds) /\ WF_vars(CheckStep)
    /\ SF_vars(InfoFinds) /\ SF_vars(WatcherLeaves)

-----------------------------------------------------------------------------
(* Properties.                                                               *)

\* The watcher logs o.
Logs(o) == CheckStopped(o) \/ (checking = o /\ (InfoNotFound \/ InfoFails))

\* The subscription's messages do not reach the runtime through o: nats.go has
\* stopped pulling, or pulls from a consumer that is gone.
Deaf(o) ==
    /\ state = "running" /\ Current(o)
    /\ \/ pull[o] = "closed"
       \/ pull[o] = "pulling" /\ connected /\ ConsumerOf(o) \notin exists

\* Nobody outside the runtime has created o's consumer again.  One that the
\* server named is gone for good.
Uncreated(o) == creates = 0 \/ o[1] \in Groupless

\* A subscriber that hears nothing from its consumer from some time on is
\* logged by the watcher again and again (watchMissing's promise), if nats.go
\* still pulls from that consumer, however often it was deleted and created
\* before (consumeError stores it again), or nobody has created it again.  For a
\* stopped consumer the watcher cannot rely on nats.go, which reports it once.
DeafIsLogged ==
    \A o \in Objects :
        (<>[](Deaf(o) /\ (pull[o] = "pulling" \/ Uncreated(o)))) => []<><<Logs(o)>>_vars

\* A consumer nats.go stopped consuming stays in r.missing while the runtime
\* runs (checkMissing's comment).
StoppedStaysMissing ==
    state = "running" => \A o \in Objects : Current(o) /\ pull[o] = "closed" => o \in missing

\* It does as long as nobody outside the runtime creates it again, whatever
\* Start failed before and however reports and the watcher's checks interleave:
\* no lookup then finds what consumeError has stored.
UncreatedStaysMissing ==
    state = "running" =>
        \A o \in Objects :
            Current(o) /\ pull[o] = "closed" /\ Uncreated(o) => o \in missing

\* A consumer nats.go pulls from, and that stays there to be pulled from, is
\* no longer missing once the watcher has looked (checkMissing's err == nil).
RecoveredIsForgotten ==
    \A o \in Objects :
        (<>[](/\ state = "running" /\ Current(o) /\ connected
              /\ pull[o] = "pulling" /\ ConsumerOf(o) \in exists))
            => <>[](o \notin missing)

\* A consumer the watcher logs as missing is gone, whether the check found it
\* stopped, asked the server or failed to, as long as it belongs to the last Start
\* and nobody outside the runtime created it again (watchMissing, checkMissing).
LoggedIsGone ==
    [][\A o \in Objects :
          Logs(o) /\ Current(o) /\ Uncreated(o) => ConsumerOf(o) \notin exists]_vars

\* Stop ends the watcher, however many consumers it has to log.
WatcherEnds == state = "stopped" ~> watch \in {"none", "done"}

\* The watcher logs a stopped consumer only when the runtime gets nothing of
\* its subscription: no other Start's jsConsumer pulls from it.
LoggedIsDeaf ==
    [][\A o \in Objects : CheckStopped(o) =>
          ~ (\E p \in Objects : /\ state = "running" /\ Current(p) /\ p[1] = o[1]
                                /\ pull[p] = "pulling" /\ ConsumerOf(p) \in exists)]_vars
=============================================================================
