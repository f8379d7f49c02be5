------------------------------ MODULE Settings ------------------------------
(***************************************************************************)
(* How New reads an endpoint or a subscriber and a Client reads a call     *)
(* (src/nats/config.go, target.go, jetstream.go, client.go), and what a    *)
(* subscriber's consumer, once Start has it from the server                *)
(* (consumers.go), says about a delivery.                                  *)
(*                                                                         *)
(* Settings are functions from the keys that are set.  A duration or an    *)
(* integer is a natural number, and 0 one that does not parse or is not    *)
(* positive; backoff is a sequence of them; the other values are strings.  *)
(* A name is a member of a small set, a segment a sequence of characters.  *)
(* The server is external: its settings for a consumer it creates are the  *)
(* ones it was sent, with its default ack wait.                            *)
(***************************************************************************)
EXTENDS Integers, SequencesExt

CONSTANTS
    Segments,       \* targets' segments that may be given
    Givens,         \* what New or a call may be given
    ServerConfigs,  \* settings of consumers made outside the runtime
    Word            \* bound: how many values a uint64 has here

\* A value that does not parse.  mesh.ConsumerGroupNone.  Unset, as the type's
\* zero value.
Bad == 0
ConsumerGroupNone == "none"
Unset == 0

PullKeys == {"pull_max_messages", "pull_max_bytes", "pull_threshold_messages",
             "pull_expiry", "pull_heartbeat"}
DefaultMaxDeliver == 5
DefaultRequestTimeout == 30
NumCPU == 2
ServerAckWait == 30
NamedInactiveThreshold == 168
OrderedInactiveThreshold == 1

MaxInt == Word \div 2 - 1
ASSUME WordAssumption == Word \in Nat /\ Word % 2 = 0 /\ DefaultMaxDeliver <= MaxInt

VARIABLES
    phase,    \* what has been done with it
    given,    \* what New, Request or Publish was given
    sub,      \* the subscription New made
    call,     \* what the call uses
    consumer  \* the jsConsumer Start made

vars == <<phase, given, sub, call, consumer>>

-----------------------------------------------------------------------------
(* Reading single keys.                                                      *)

\* Mutation: the target's metadata on top.
MergeUnder(target, over) == target @@ over
\* mergeSettings: over on top.
Merge(target, over) ==
    [key \in DOMAIN target \cup DOMAIN over |->
        IF key \in DOMAIN over THEN over[key] ELSE target[key]]

Has(md, key) == key \in DOMAIN md
Get(md, key, absent) == IF Has(md, key) THEN md[key] ELSE absent

\* A number is an int, also a list's length.
IntsFit(md) ==
    /\ \A key \in PullKeys \cup {"max_deliver"} : Get(md, key, Bad) \in 0..MaxInt
    /\ Get(md, "backoff", <<>>) \in Seq(Nat) /\ Len(Get(md, "backoff", <<>>)) <= MaxInt
ASSUME GivensAssumption ==
    \A g \in Givens : IntsFit(g.target) /\ IntsFit(g.own) /\ IntsFit(g.cfg)

\* A target has segments, each of characters.
ASSUME SegmentsAssumption ==
    Segments \subseteq Seq(Seq(STRING)) /\ \A g \in Givens : g.segments \in Segments

\* The server sends no message again after max_deliver, -1 for no limit.
ASSUME ServerAssumption ==
    \A c \in ServerConfigs :
        /\ c.ack \in [wait : Nat, maxDeliver : {-1} \cup 1..MaxInt, maxAckPending : Nat,
                      backoff : Seq(Nat)]
        /\ Len(c.ack.backoff) <= MaxInt

\* durationSetting and positiveIntSetting succeed; Get is what they return.
Parses(md, key) == Get(md, key, 1) # Bad
BackoffParses(md) == \A d \in ToSet(Get(md, "backoff", <<>>)) : d # Bad

OneOf(md, key, values) == Get(md, key, CHOOSE v \in values : TRUE) \in values

-----------------------------------------------------------------------------
(* Targets.                                                                  *)

\* Mutation: a segment may have dots.
SegmentWithDotsOK(seg) ==
    seg # <<>> /\ ToSet(seg) \cap {"wildcard", "space", "unprintable"} = {}
\* checkSegment.
SegmentOK(seg) ==
    seg # <<>> /\ ToSet(seg) \cap {".", "wildcard", "space", "unprintable"} = {}

TargetOK(segs) == segs # <<>> /\ \A seg \in ToSet(segs) : SegmentOK(seg)

\* strings.Join(segments, ".").
Subject(segs) ==
    LET joined[n \in DOMAIN segs] ==
            IF n = 1 THEN segs[1] ELSE joined[n - 1] \o <<".">> \o segs[n]
    IN  joined[Len(segs)]

\* consumerGroup; "" is a plain subscription.
ConsumerGroup(group, deploymentGroup) ==
    CASE group = ""                -> deploymentGroup
      [] group = ConsumerGroupNone -> ""
      [] OTHER                     -> group

-----------------------------------------------------------------------------
(* parseRuntimeSettings.                                                     *)

ConfigOK(cfg) ==
    /\ Get(cfg, "deployment_group", "") # ""
    /\ Parses(cfg, "concurrency") /\ Parses(cfg, "max_deliver")
    /\ \A k \in PullKeys : Parses(cfg, k)

RuntimeSettings(cfg) ==
    [concurrency |-> Get(cfg, "concurrency", NumCPU),
     maxDeliver |-> Get(cfg, "max_deliver", DefaultMaxDeliver),
     pull |-> [k \in PullKeys |-> Get(cfg, k, Unset)]]

\* parseClientSettings, of which Request and Publish use the request timeout.
ClientConfigOK(cfg) == Parses(cfg, "connect_timeout") /\ Parses(cfg, "request_timeout")
ClientTimeout(cfg) == Get(cfg, "request_timeout", DefaultRequestTimeout)

-----------------------------------------------------------------------------
(* parseJetStream.                                                           *)

Creates(md) == Get(md, "create_consumer", "true") = "true"
Ack(md) == Get(md, "ack_policy", "double")
Ordered(md, group) == group = "" /\ Ack(md) = "none"

\* "false" needs a named group: createConsumerSetting.
CreateOK(md, group) ==
    /\ OneOf(md, "create_consumer", {"true", "false"})
    /\ ~Creates(md) => group # ""

\* ackSettings, and the check consumerConfig makes of them.
AckSettings(md, maxDeliver) ==
    [wait |-> Get(md, "ack_wait", Unset),
     maxDeliver |-> Get(md, "max_deliver", maxDeliver),
     maxAckPending |-> Get(md, "max_ack_pending", Unset),
     backoff |-> Get(md, "backoff", <<>>)]

AckSettingsOK(md) ==
    /\ \A k \in {"ack_wait", "max_deliver", "max_ack_pending"} : Parses(md, k)
    /\ BackoffParses(md)

\* Mutation: off by one.
BackoffJustFits(md, maxDeliver) ==
    Creates(md) /\ Ack(md) # "none" =>
        LET ack == AckSettings(md, maxDeliver) IN Len(ack.backoff) <= ack.maxDeliver
BackoffFits(md, maxDeliver) ==
    Creates(md) /\ Ack(md) # "none" =>
        LET ack == AckSettings(md, maxDeliver) IN Len(ack.backoff) < ack.maxDeliver

JetStreamOK(md, group, s) ==
    /\ CreateOK(md, group)
    /\ OneOf(md, "ack_policy", {"double", "explicit", "none"})
    /\ OneOf(md, "deliver_policy", {"all", "new"})
    /\ Parses(md, "nak_delay") /\ Parses(md, "consumer_inactive_threshold")
    /\ AckSettingsOK(md) /\ BackoffFits(md, s.maxDeliver)
    /\ \A k \in PullKeys : Parses(md, k)

DefaultInactiveThreshold(md, group) ==
    CASE Ordered(md, group) -> OrderedInactiveThreshold
      [] group = ""         -> Unset
      [] OTHER              -> NamedInactiveThreshold

NoAckSettings == [wait |-> Unset, maxDeliver |-> Unset, maxAckPending |-> Unset, backoff |-> <<>>]

\* consumerConfig: what is sent to the server.
ConsumerConfig(md, group, s) ==
    [deliver |-> Get(md, "deliver_policy", "all"),
     inactive |-> Get(md, "consumer_inactive_threshold", DefaultInactiveThreshold(md, group)),
     ackPolicy |-> IF Ack(md) = "none" THEN "none" ELSE "explicit",
     ack |-> IF Ack(md) = "none" THEN NoAckSettings ELSE AckSettings(md, s.maxDeliver)]

\* readPullSettings.
PullSettings(md, fallback) == [k \in PullKeys |-> Get(md, k, fallback[k])]

\* Mutation: the limit of messages is looked at first.
MaxOptUnlessMessages(p) ==
    CASE p["pull_max_messages"] > 0 -> {<<"PullMaxMessages", p["pull_max_messages"]>>}
      [] p["pull_max_messages"] = Unset /\ p["pull_max_bytes"] > 0 ->
           {<<"PullMaxBytes", p["pull_max_bytes"]>>}
      [] OTHER -> {}

MaxOpt(p) ==
    CASE p["pull_max_messages"] > 0 /\ p["pull_max_bytes"] > 0 ->
           {<<"PullMaxMessagesWithBytesLimit", p["pull_max_messages"], p["pull_max_bytes"]>>}
      [] p["pull_max_messages"] > 0 /\ p["pull_max_bytes"] = Unset ->
           {<<"PullMaxMessages", p["pull_max_messages"]>>}
      [] p["pull_max_messages"] = Unset /\ p["pull_max_bytes"] > 0 ->
           {<<"PullMaxBytes", p["pull_max_bytes"]>>}
      [] OTHER -> {}

\* consumeOpts: what consume tells nats.go.
OptOf == [pull_threshold_messages |-> "PullThresholdMessages",
          pull_expiry |-> "PullExpiry", pull_heartbeat |-> "PullHeartbeat"]
ConsumeOpts(p) == MaxOpt(p) \cup {<<OptOf[k], p[k]>> : k \in {l \in DOMAIN OptOf : p[l] > 0}}

\* A core subscriber has no stream: js is nil.
JetStream(md, group, s) ==
    [stream |-> Get(md, "stream", ""), group |-> group, create |-> Creates(md),
     ack |-> Ack(md), ordered |-> Ordered(md, group),
     nakDelay |-> Get(md, "nak_delay", Unset),
     config |-> ConsumerConfig(md, group, s),
     pull |-> PullSettings(md, s.pull)]

Streams(md) == Get(md, "stream", "") # ""

-----------------------------------------------------------------------------
(* New, for one endpoint or subscriber.                                      *)

NoSub == [subject |-> <<>>, queue |-> "", js |-> <<>>]
NoCall == [timeout |-> Unset, stream |-> ""]
NoConsumer == [acks |-> FALSE, ackWait |-> Unset, backoff |-> <<>>, maxDeliver |-> Unset]

Settings == Merge(given.target, given.own)
Queue == ConsumerGroup(given.group, Get(given.cfg, "deployment_group", ""))

Init ==
    /\ phase = "given" /\ sub = NoSub /\ call = NoCall /\ consumer = NoConsumer
    /\ given \in Givens

\* checkKind, and a stream is for topics.
EndpointOK == given.kind = "route" /\ ~Streams(Settings)

SubscriberOK ==
    /\ given.kind = "topic"
    /\ Streams(Settings) => JetStreamOK(Settings, Queue, RuntimeSettings(given.cfg))

Accepted ==
    /\ ConfigOK(given.cfg) /\ TargetOK(given.segments)
    /\ IF given.role = "endpoint" THEN EndpointOK ELSE SubscriberOK

NewRejects ==
    /\ phase = "given" /\ given.role \in {"endpoint", "subscriber"} /\ ~Accepted
    /\ phase' = "rejected"
    /\ UNCHANGED <<given, sub, call, consumer>>

NewAccepts ==
    /\ phase = "given" /\ given.role \in {"endpoint", "subscriber"} /\ Accepted
    /\ phase' = "ready"
    /\ sub' = [subject |-> Subject(given.segments), queue |-> Queue,
               js |-> IF Streams(Settings)
                      THEN JetStream(Settings, Queue, RuntimeSettings(given.cfg)) ELSE <<>>]
    /\ UNCHANGED <<given, call, consumer>>

-----------------------------------------------------------------------------
(* NewClient, and Request or Publish up to the connection.                   *)

RequestOK == EndpointOK /\ Parses(Settings, "request_timeout")

\* A core publish is not bounded, and its timeout is not read.
PublishOK == given.kind = "topic" /\ (Streams(Settings) => Parses(Settings, "request_timeout"))

CallAccepted ==
    /\ ClientConfigOK(given.cfg) /\ TargetOK(given.segments)
    /\ IF given.role = "request" THEN RequestOK ELSE PublishOK

CallRejects ==
    /\ phase = "given" /\ given.role \in {"request", "publish"} /\ ~CallAccepted
    /\ phase' = "rejected"
    /\ UNCHANGED <<given, sub, call, consumer>>

CallGoesOn ==
    /\ phase = "given" /\ given.role \in {"request", "publish"} /\ CallAccepted
    /\ phase' = "ready"
    /\ sub' = [sub EXCEPT !.subject = Subject(given.segments)]
    /\ LET bounded == given.role = "request" \/ Streams(Settings)
       IN call' = [timeout |-> IF bounded
                               THEN Get(Settings, "request_timeout", ClientTimeout(given.cfg))
                               ELSE Unset,
                   stream |-> Get(Settings, "stream", "")]
    /\ UNCHANGED <<given, consumer>>

-----------------------------------------------------------------------------
(* Start opens a subscriber's consumer.                                      *)

\* openConsumer: Start has the consumer, with the server's settings for it.
OpenWith(ackPolicy, ack) ==
    /\ phase = "ready" /\ sub.js # <<>>
    /\ phase' = "open"
    /\ consumer' =
          IF sub.js.ordered THEN NoConsumer
          ELSE [acks |-> sub.js.ack # "none" /\ ackPolicy # "none",
                ackWait |-> ack.wait, backoff |-> ack.backoff, maxDeliver |-> ack.maxDeliver]
    /\ UNCHANGED <<given, sub, call>>

\* The server takes the first backoff entry for the ack wait, or its default.
ServerSets(ack) ==
    [ack EXCEPT !.wait = IF ack.backoff # <<>> THEN Head(ack.backoff)
                         ELSE IF @ = Unset THEN ServerAckWait ELSE @]

OpenCreated ==
    /\ sub.js # <<>> /\ sub.js.create
    /\ OpenWith(sub.js.config.ackPolicy, ServerSets(sub.js.config.ack))

OpenLookedUp ==
    /\ sub.js # <<>> /\ ~sub.js.create
    /\ \E c \in ServerConfigs : OpenWith(c.ackPolicy, ServerSets(c.ack))

Next ==
    \/ NewRejects \/ NewAccepts \/ CallRejects \/ CallGoesOn
    \/ OpenCreated \/ OpenLookedUp

Spec == Init /\ [][Next]_vars

-----------------------------------------------------------------------------
(* What a consumer says about delivery number n, a uint64.                   *)

\* int(n), and the int a sum wraps to.
ToInt(n) == IF n % Word < Word \div 2 THEN n % Word ELSE (n % Word) - Word
Min2(a, b) == IF a < b THEN a ELSE b
Max2(a, b) == IF a < b THEN b ELSE a

\* Mutation: off by one.
IndexOfNext(c, n) == Min2(Max2(ToInt(n), 0), Len(c.backoff) - 1)
BackoffIndex(c, n) == Min2(Max2(ToInt(ToInt(n) - 1), 0), Len(c.backoff) - 1)

\* deadline, from arrival.
AckWait(c, n) == IF c.backoff = <<>> THEN c.ackWait ELSE c.backoff[BackoffIndex(c, n) + 1]

\* Mutation: without the conversion, -1 is below every n.
SignedLastDelivery(c, n) == n >= c.maxDeliver
LastDelivery(c, n) == n >= c.maxDeliver % Word

-----------------------------------------------------------------------------
(* Properties.                                                               *)

\* The value of key in the first of maps that sets it.
FirstOf(key, maps, default) ==
    LET setting == {i \in DOMAIN maps : Has(maps[i], key)}
    IN  IF setting = {} THEN default ELSE maps[Min(setting)][key]

\* A subscriber's own metadata or a call's options outrank the target's
\* metadata, which outranks the Config, which outranks the default
\* (mergeSettings, readPullSettings, Request); so an endpoint or a request is
\* accepted only if the nearest stream set for it, if any, turns streams off.
NearestSettingApplies ==
    /\ call.timeout # Unset =>
        call.timeout = FirstOf("request_timeout", <<given.own, given.target, given.cfg>>,
                               DefaultRequestTimeout)
    /\ sub.js # <<>> =>
        /\ sub.js.stream = FirstOf("stream", <<given.own, given.target>>, "")
        /\ sub.js.config.ackPolicy = "explicit" =>
              sub.js.config.ack.maxDeliver =
                 FirstOf("max_deliver", <<given.own, given.target, given.cfg>>, DefaultMaxDeliver)
        /\ \A k \in PullKeys :
              sub.js.pull[k] = FirstOf(k, <<given.own, given.target, given.cfg>>, Unset)
    /\ phase = "ready" /\ given.role \in {"endpoint", "request"} =>
        FirstOf("stream", <<given.own, given.target>>, "") = ""

\* Two targets that New accepts have one subject only when they have the same
\* segments, and it is a literal subject (subject, checkSegment).
SubjectsAreDistinct ==
    phase \in {"ready", "open"} =>
        /\ "wildcard" \notin ToSet(sub.subject)
        /\ \A segs \in Segments :
              TargetOK(segs) /\ Subject(segs) = sub.subject => segs = given.segments

\* Every pull limit in force reaches nats.go, also when one comes from the
\* Config and another from the subscriber, and nats.go, which takes one option
\* for the size of a pull, is given at most one (consumeOpts).
PullLimitsAreUsed ==
    sub.js # <<>> =>
        LET opts == ConsumeOpts(sub.js.pull)
        IN /\ \A k \in PullKeys : sub.js.pull[k] # Unset =>
                 \E opt \in opts : sub.js.pull[k] \in ToSet(Tail(opt))
           /\ Cardinality({opt \in opts : opt[1] \notin ToSet(<<OptOf["pull_expiry"],
                 OptOf["pull_heartbeat"], OptOf["pull_threshold_messages"]>>)}) <= 1

\* Each delivery's ack deadline uses its own backoff entry, those past the end
\* the last one, and no delivery number is out of the list's range (deadline).
BackoffInTurn ==
    phase = "open" /\ consumer.backoff # <<>> =>
        /\ \A n \in 0..(Word - 1) : BackoffIndex(consumer, n) \in 0..(Len(consumer.backoff) - 1)
        /\ \A n \in 1..(Word \div 2) :
              AckWait(consumer, n) =
                 (IF n <= Len(consumer.backoff) THEN consumer.backoff[n] ELSE Last(consumer.backoff))

\* A delivery is taken for the last one exactly when the server sends no more
\* after it; without a limit none is (lastDelivery).
LastIsMaxDeliver ==
    phase = "open" /\ consumer.acks =>
        \A n \in 1..(Word - 2) :
            LastDelivery(consumer, n) = (consumer.maxDeliver # -1 /\ n >= consumer.maxDeliver)

\* In a consumer the runtime creates, every backoff entry is followed by
\* another delivery (consumerConfig's check of max_deliver and backoff).
BackoffEntriesAreUsed ==
    phase = "open" /\ sub.js.create /\ consumer.acks =>
        \A i \in DOMAIN consumer.backoff : ~LastDelivery(consumer, i)
=============================================================================
