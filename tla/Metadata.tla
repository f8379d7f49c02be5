------------------------------ MODULE Metadata ------------------------------
(***************************************************************************)
(* What becomes of a message's metadata on its way through headers          *)
(* (src/nats/header.go): a client sends it, a runtime hands it to a         *)
(* handler, and the handler, like most do, copies what it was given onto    *)
(* the next message it sends or the reply it returns.                       *)
(*                                                                         *)
(* One chain of messages is followed; of a handler that publishes, only     *)
(* what becomes of its message.  Metadata is a function from keys to        *)
(* values, a header one from keys to sequences of values.  Times are ticks  *)
(* of clock, and a Mesh-Timeout that serve does not accept (not a number,   *)
(* or negative) is Junk.  Senders that are not this package are external.   *)
(***************************************************************************)
EXTENDS Integers, Sequences

CONSTANTS
    Ids,        \* message ids
    Timeouts,   \* the times calls have left when they are bounded
    AckWait,    \* the time a delivery has
    MaxClock,   \* bound: how many messages and replies travel
    MaxDeliver  \* bound: deliveries of one message

ASSUME SizesAssumption ==
    /\ Timeouts \subseteq Nat /\ AckWait \in Nat \ {0}
    /\ MaxClock \in Nat /\ MaxDeliver \in Nat

MessageID == "Mesh-Message-Id"
MsgID == "Nats-Msg-Id"
Timeout == "Mesh-Timeout"
Deadline == "Mesh-Deadline"
Attempt == "Mesh-Delivery-Attempt"
HandlerError == "Mesh-Handler-Error"

Junk == -1
None == "none"
NoDeadline == -1

\* None says that a message has no id.
ASSUME IdsAssumption == None \notin Ids

VARIABLES
    clock,     \* ticks, one for each message or reply that arrives
    held,      \* the metadata user code has
    holder,    \* which code that is, "none" while a message travels
    header,    \* the header that travels
    via,       \* how it was sent
    attempts,  \* how often it has been delivered from a stream
    waiting,   \* the endpoints' handlers up the chain whose Request waits
    ctx,       \* the deadline of the handler's context
    bound,     \* history: the time the latest request had left
    intended,  \* history: the id its latest sender meant the message to have
    failed,    \* history: whether the handler that answered failed
    brought    \* history: whether the chain began with a Mesh-Handler-Error

travel == <<header, via, attempts>>
meant == <<bound, intended, failed, brought>>
vars == <<clock, held, holder, travel, waiting, ctx, meant>>

-----------------------------------------------------------------------------
(* Headers and metadata.                                                     *)

Nothing == <<>>
With(md, k, v) == [key \in DOMAIN md \cup {k} |-> IF key = k THEN v ELSE md[key]]

ToHeader(md) == [k \in DOMAIN md |-> <<md[k]>>]

FromHeader(h) == [k \in DOMAIN h |-> Head(h[k])]

\* Mutation: Nats-Msg-Id is set only when it is not there.
OutgoingUnlessSet(md) ==
    IF MessageID \in DOMAIN md /\ MsgID \notin DOMAIN md
    THEN With(ToHeader(md), MsgID, <<md[MessageID]>>) ELSE ToHeader(md)

OutgoingHeader(md) ==
    IF MessageID \in DOMAIN md THEN With(ToHeader(md), MsgID, <<md[MessageID]>>)
                               ELSE ToHeader(md)

\* Mutation: Mesh-Message-Id is set only when it is not there.
IncomingUnlessSet(h) ==
    LET md == FromHeader(h)
    IN IF MsgID \in DOMAIN md /\ MessageID \notin DOMAIN md
       THEN With(md, MessageID, md[MsgID]) ELSE md

IncomingMetadata(h) ==
    LET md == FromHeader(h)
    IN IF MsgID \in DOMAIN md THEN With(md, MessageID, md[MsgID]) ELSE md

\* Which id a header or metadata says the message has.
IdSent(md) ==
    IF MessageID \in DOMAIN md THEN md[MessageID] ELSE IF MsgID \in DOMAIN md THEN md[MsgID] ELSE None
IdReceived(md) ==
    IF MsgID \in DOMAIN md THEN md[MsgID] ELSE IF MessageID \in DOMAIN md THEN md[MessageID] ELSE None

-----------------------------------------------------------------------------
(* The chain begins with another program's message, which may have several   *)
(* values for a key, stale keys and both names of the id, or with a client.  *)
(* Either may bring the key in which serve sends a failure.                  *)

Maybe(k, values) == {Nothing} \cup {With(Nothing, k, v) : v \in values}
Two(M, N) == {[k \in DOMAIN m \cup DOMAIN n |-> IF k \in DOMAIN m THEN m[k] ELSE n[k]] :
                m \in M, n \in N}
Begun == Two(Two(Maybe(MessageID, Ids), Maybe(MsgID, Ids)), Maybe(HandlerError, {"text"}))
Stale == Two(Maybe(Timeout, Timeouts \cup {Junk}), Two(Maybe(Deadline, {0}), Maybe(Attempt, {0})))
SomeTwice(h) == {h} \cup {[h EXCEPT ![k] = @ \o <<v>>] : k \in DOMAIN h \cap {MsgID}, v \in Ids}

Init ==
    /\ clock = 0 /\ waiting = 0 /\ attempts = 0 /\ ctx = NoDeadline /\ bound = 0 /\ failed = FALSE
    /\ \/ /\ holder = "client" /\ held \in Begun /\ brought = (HandlerError \in DOMAIN held)
          /\ header = Nothing /\ via = "nothing" /\ intended = None
       \/ /\ holder = "none" /\ held = Nothing
          /\ via \in {"foreign request", "foreign publish"}
          /\ \E md \in Two(Begun, Stale) : header \in SomeTwice(ToHeader(md))
          /\ intended = IdReceived(FromHeader(header))
          /\ brought = (HandlerError \in DOMAIN header)

-----------------------------------------------------------------------------
(* Client.                                                                   *)

\* What user code makes of the metadata it has: it copies it or not, and gives
\* the message an id of its own or not.
NextMetadata ==
    LET Base == {held, Nothing}
    IN Base \cup {With(md, MessageID, id) : md \in Base, id \in Ids}

Sent(h, how) ==
    /\ holder \notin {"none"} /\ clock < MaxClock
    /\ header' = h /\ via' = how /\ attempts' = 0
    /\ holder' = "none" /\ held' = Nothing /\ ctx' = NoDeadline
    /\ UNCHANGED <<clock, failed, brought>>

\* Mutation: a copied Mesh-Timeout stays.
RequestUnlessSet(md, wait) ==
    /\ Sent(IF Timeout \in DOMAIN md THEN OutgoingHeader(md)
            ELSE With(OutgoingHeader(md), Timeout, <<wait>>), "request")
    /\ bound' = wait /\ intended' = IdSent(md) /\ UNCHANGED waiting

Request(md, wait) ==
    /\ Sent(With(OutgoingHeader(md), Timeout, <<wait>>), "request")
    /\ bound' = wait /\ intended' = IdSent(md) /\ UNCHANGED waiting

Publish(md) ==
    /\ Sent(OutgoingHeader(md), "publish")
    /\ intended' = IdSent(md) /\ UNCHANGED <<bound, waiting>>

\* Mutation: the reply's header is not looked at.
ReplyArrivesUnchecked ==
    /\ via = "reply" /\ holder = "none"
    /\ clock' = clock + 1 /\ waiting' = waiting - 1
    /\ holder' = "caller" /\ held' = FromHeader(header)
    /\ UNCHANGED <<travel, ctx, meant>>

\* The end of Request, for the code that called it.
ReplyArrives ==
    /\ via = "reply" /\ holder = "none"
    /\ clock' = clock + 1 /\ waiting' = waiting - 1
    /\ IF HandlerError \in DOMAIN header
       THEN holder' = "failed caller" /\ held' = Nothing
       ELSE holder' = "caller" /\ held' = FromHeader(header)
    /\ UNCHANGED <<travel, ctx, meant>>

-----------------------------------------------------------------------------
(* Runtime.                                                                  *)

Hand(to, md, deadline) ==
    /\ holder' = to /\ held' = md /\ ctx' = deadline
    /\ clock' = clock + 1
    /\ UNCHANGED <<header, via, meant>>

\* serve, for an endpoint.
ServeEndpoint ==
    /\ via \in {"foreign request", "request"} /\ holder = "none"
    /\ LET in == IncomingMetadata(header)
       IN IF Timeout \in DOMAIN in /\ in[Timeout] >= 0
          THEN Hand("endpoint", With(in, Deadline, clock + in[Timeout]), clock + in[Timeout])
          ELSE Hand("endpoint", in, NoDeadline)
    /\ waiting' = IF via = "request" THEN waiting + 1 ELSE waiting
    /\ UNCHANGED attempts

\* serve, for a subscriber.
ServeSubscriber ==
    /\ via \in {"foreign publish", "publish"} /\ holder = "none" /\ attempts = 0
    /\ Hand("subscriber", IncomingMetadata(header), NoDeadline)
    /\ waiting' = 0 /\ UNCHANGED attempts

\* deliveryMetadata; the keys under Mesh-Nats- are set like this one.
DeliveryMetadata(md, n) == With(md, Attempt, n)

\* serveJetStream.  The handler of an earlier delivery has failed.  A delivery
\* whose metadata cannot be read keeps what the message came with.
ServeJetStream(acks) ==
    /\ via \in {"foreign publish", "publish"} /\ holder = "none"
    /\ attempts < MaxDeliver
    /\ attempts' = attempts + 1
    /\ LET in == IncomingMetadata(header)
           read == DeliveryMetadata(in, attempts')
           deadline == clock + AckWait
       IN \/ Hand("blind consumer", in, NoDeadline)
          \/ ~acks /\ Hand("consumer", read, NoDeadline)
          \/ acks /\ Hand("consumer", With(read, Deadline, deadline), deadline)
    /\ waiting' = 0

\* A handler of a stream's message returns an error: the message is nacked.
ConsumerFails ==
    /\ holder \in {"consumer", "blind consumer"} /\ clock < MaxClock
    /\ holder' = "none" /\ held' = Nothing /\ ctx' = NoDeadline
    /\ UNCHANGED <<clock, travel, waiting, meant>>

\* The endpoint that was asked last answers, after requests of its own.
Answers ==
    /\ waiting > 0 /\ holder \in {"endpoint", "caller", "failed caller"} /\ clock < MaxClock
    /\ via' = "reply" /\ attempts' = 0
    /\ holder' = "none" /\ held' = Nothing /\ ctx' = NoDeadline
    /\ UNCHANGED <<clock, bound, waiting, brought>>

\* The end of serve for a handler that returned metadata.
Reply(md) ==
    /\ Answers
    /\ header' = ToHeader(md) /\ failed' = FALSE
    /\ intended' = IdSent(md)

\* And for one that failed or panicked.
ReplyFailure ==
    /\ Answers
    /\ header' = With(Nothing, HandlerError, <<"text">>) /\ failed' = TRUE
    /\ intended' = None

-----------------------------------------------------------------------------
ClientStep ==
    \/ \E md \in NextMetadata :
         Publish(md) \/ (\E wait \in Timeouts : Request(md, wait)) \/ Reply(md)
    \/ ReplyArrives

RuntimeStep ==
    \/ ServeEndpoint \/ ServeSubscriber
    \/ \E acks \in BOOLEAN : ServeJetStream(acks)
    \/ ConsumerFails \/ ReplyFailure

Next == ClientStep \/ RuntimeStep

Spec == Init /\ [][Next]_vars

-----------------------------------------------------------------------------
(* Properties.                                                               *)

Handlers == {"endpoint", "subscriber", "consumer", "blind consumer"}

\* Every handler sees as Mesh-Message-Id the id that the latest sender meant,
\* though the metadata it copied had another under either name (incomingMetadata).
HandlersSeeTheId ==
    holder \in Handlers /\ intended # None =>
      MessageID \in DOMAIN held /\ held[MessageID] = intended

\* The header by which a stream drops duplicates has the id its sender meant,
\* and nothing when it meant none (outgoingHeader).
StreamsSeeTheId ==
    via \in {"request", "publish"} =>
      IF intended = None THEN MsgID \notin DOMAIN header
      ELSE MsgID \in DOMAIN header /\ header[MsgID] = <<intended>>

\* The deadline an endpoint's handler has is this request's, however many
\* requests the metadata it came with has been through (Request, serve).
DeadlineIsTheRequests ==
    holder = "endpoint" /\ via = "request" =>
      ctx = clock - 1 + bound /\ held[Deadline] = ctx

\* A requester gets a HandlerError when the handler that answered it failed, not
\* one that failed further down the chain, and else only if a Mesh-Handler-Error
\* the chain began with was copied all the way to its reply (Request, serve).
FailureIsTheAnswerers ==
    /\ holder = "caller" => ~failed
    /\ holder = "failed caller" => failed \/ brought
=============================================================================
