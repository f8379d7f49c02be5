--------------------------- MODULE MetadataProofs ---------------------------
(***************************************************************************)
(* Proofs about Metadata: what holds of the metadata of every chain of      *)
(* messages, for all ids and times, and however long the chain is.          *)
(***************************************************************************)
EXTENDS Metadata, TLAPS

\* The two names of the id carry ids, and but for serve's answer to a failure the
\* key of one is there only if the chain began with it (b).
Sound(md, b) ==
    /\ \A k \in {MessageID, MsgID} \cap DOMAIN md : md[k] \in Ids
    /\ HandlerError \in DOMAIN md => b

\* On its way a message has the id its sender meant, under the name that
\* incomingMetadata reads first.
IdTravels ==
    via \in {"foreign request", "foreign publish", "request", "publish"} =>
      Sound(FromHeader(header), brought) /\ IdReceived(FromHeader(header)) = intended

\* A request has the time its own caller had left.
TimeTravels ==
    via = "request" =>
      Timeout \in DOMAIN header /\ header[Timeout] = <<bound>> /\ bound \in Timeouts

\* A reply tells of a failure if its own handler failed, and else only what the
\* chain began with.
FailureTravels ==
    via = "reply" =>
      /\ failed => HandlerError \in DOMAIN header
      /\ ~failed => Sound(FromHeader(header), brought)

MetadataInv ==
    /\ clock \in Nat /\ failed \in BOOLEAN /\ brought \in BOOLEAN
    /\ Sound(held, brought)
    /\ IdTravels /\ TimeTravels /\ FailureTravels
    /\ HandlersSeeTheId /\ StreamsSeeTheId /\ DeadlineIsTheRequests
    /\ FailureIsTheAnswerers

-----------------------------------------------------------------------------
(* What the operators on metadata and headers do.                            *)

\* The keys have names of their own.
LEMMA Keys ==
  /\ MessageID # MsgID /\ MessageID # Timeout /\ MessageID # Deadline
  /\ MessageID # Attempt /\ MessageID # HandlerError
  /\ MsgID # Timeout /\ MsgID # Deadline /\ MsgID # Attempt /\ MsgID # HandlerError
  /\ Timeout # Deadline /\ Timeout # Attempt /\ Timeout # HandlerError
  /\ Deadline # Attempt /\ Deadline # HandlerError /\ Attempt # HandlerError
  BY DEF MessageID, MsgID, Timeout, Deadline, Attempt, HandlerError

\* A key that is no id and no failure does not make metadata unsound.
LEMMA WithSound ==
  ASSUME NEW md, NEW b, Sound(md, b), NEW k, NEW v, k # HandlerError,
         k \in {MessageID, MsgID} => v \in Ids
  PROVE  Sound(With(md, k, v), b)
<1> DEFINE w == With(md, k, v)
<1>1. DOMAIN w = DOMAIN md \cup {k} /\ w[k] = v /\ \A j \in DOMAIN md : j # k => w[j] = md[j]
  BY DEF With
<1> HIDE DEF w
<1>2. HandlerError \in DOMAIN w => b
  BY <1>1 DEF Sound
<1>3. ASSUME NEW j \in {MessageID, MsgID} \cap DOMAIN w
      PROVE  w[j] \in Ids
  BY <1>1 DEF Sound
<1>4. Sound(w, b)
  BY <1>2, <1>3 DEF Sound
<1> QED
  BY <1>4 DEF w

\* The header a client sends has, under the name a stream reads, the id that its
\* metadata says the message has (outgoingHeader).
LEMMA OutgoingId ==
  ASSUME NEW md
  PROVE  LET h == OutgoingHeader(md)
         IN /\ DOMAIN h = DOMAIN md \cup (IF MessageID \in DOMAIN md THEN {MsgID} ELSE {})
            /\ \A k \in DOMAIN h \ {MsgID} : h[k] = <<md[k]>>
            /\ MsgID \in DOMAIN h => h[MsgID] = <<IdSent(md)>>
            /\ MsgID \notin DOMAIN h => IdSent(md) = None
<1>1. DOMAIN ToHeader(md) = DOMAIN md /\ \A k \in DOMAIN md : ToHeader(md)[k] = <<md[k]>>
  BY DEF ToHeader
<1>2. CASE MessageID \in DOMAIN md
  <2> DEFINE h == OutgoingHeader(md)
             t == ToHeader(md)
  <2>1. h = With(t, MsgID, <<md[MessageID]>>)
    BY <1>2 DEF OutgoingHeader
  <2>2. DOMAIN h = DOMAIN md \cup {MsgID} /\ h[MsgID] = <<md[MessageID]>>
    BY <1>1, <2>1 DEF With
  <2>3. \A k \in DOMAIN md : k # MsgID => h[k] = <<md[k]>>
    BY <1>1, <2>1 DEF With
  <2> HIDE DEF h
  <2>4. IdSent(md) = md[MessageID]
    BY <1>2 DEF IdSent
  <2>5. /\ DOMAIN h = DOMAIN md \cup (IF MessageID \in DOMAIN md THEN {MsgID} ELSE {})
        /\ \A k \in DOMAIN h \ {MsgID} : h[k] = <<md[k]>>
        /\ MsgID \in DOMAIN h => h[MsgID] = <<IdSent(md)>>
        /\ MsgID \notin DOMAIN h => IdSent(md) = None
    BY <1>2, <2>2, <2>3, <2>4
  <2> QED
    BY <2>5 DEF h
<1>3. CASE MessageID \notin DOMAIN md
  BY <1>1, <1>3 DEF OutgoingHeader, IdSent
<1> QED
  BY <1>2, <1>3

\* As metadata it is sound, and says the same id.
LEMMA OutgoingSound ==
  ASSUME NEW md, NEW b, Sound(md, b)
  PROVE  /\ Sound(FromHeader(OutgoingHeader(md)), b)
         /\ IdReceived(FromHeader(OutgoingHeader(md))) = IdSent(md)
<1> DEFINE h == OutgoingHeader(md)
           back == FromHeader(h)
<1>1. DOMAIN back = DOMAIN h /\ \A k \in DOMAIN h : back[k] = Head(h[k])
  BY DEF FromHeader
<1>2. /\ DOMAIN h = DOMAIN md \cup (IF MessageID \in DOMAIN md THEN {MsgID} ELSE {})
      /\ \A k \in DOMAIN h \ {MsgID} : h[k] = <<md[k]>>
      /\ MsgID \in DOMAIN h => h[MsgID] = <<IdSent(md)>>
      /\ MsgID \notin DOMAIN h => IdSent(md) = None
  BY OutgoingId
<1> HIDE DEF h, back
<1>3. MsgID \in DOMAIN h => back[MsgID] = IdSent(md)
  BY <1>1, <1>2
<1>4. \A k \in DOMAIN h \ {MsgID} : back[k] = md[k]
  BY <1>1, <1>2
<1>5. MsgID \in DOMAIN h => IdSent(md) \in Ids
  BY <1>2 DEF Sound, IdSent
<1>6. Sound(back, b)
  BY <1>1, <1>2, <1>3, <1>4, <1>5, Keys DEF Sound
<1>7. IdReceived(back) = IdSent(md)
  BY <1>1, <1>2, <1>3, <1>4 DEF IdReceived
<1> QED
  BY <1>6, <1>7 DEF h, back

\* A handler's metadata is sound if its header is, and says the id the header
\* does, under the name handlers read (incomingMetadata).
LEMMA IncomingId ==
  ASSUME NEW h, NEW b, Sound(FromHeader(h), b)
  PROVE  LET in == IncomingMetadata(h)
             id == IdReceived(FromHeader(h))
         IN /\ Sound(in, b)
            /\ id # None => MessageID \in DOMAIN in /\ in[MessageID] = id
            /\ \A k \in DOMAIN h \ {MessageID} : k \in DOMAIN in /\ in[k] = Head(h[k])
<1>1. DOMAIN FromHeader(h) = DOMAIN h /\ \A k \in DOMAIN h : FromHeader(h)[k] = Head(h[k])
  BY DEF FromHeader
<1>2. CASE MsgID \in DOMAIN h
  <2>1. IncomingMetadata(h) = With(FromHeader(h), MessageID, FromHeader(h)[MsgID])
    BY <1>1, <1>2 DEF IncomingMetadata
  <2>2. Sound(IncomingMetadata(h), b)
    BY <1>1, <1>2, <2>1, WithSound, Keys DEF Sound
  <2> DEFINE f == FromHeader(h)
             in == IncomingMetadata(h)
  <2>3. DOMAIN in = DOMAIN h \cup {MessageID} /\ in[MessageID] = f[MsgID]
    BY <1>1, <2>1 DEF With
  <2>4. \A k \in DOMAIN h : k # MessageID => in[k] = Head(h[k])
    BY <1>1, <2>1 DEF With
  <2>5. IdReceived(f) = f[MsgID]
    BY <1>1, <1>2 DEF IdReceived
  <2> QED
    BY <2>2, <2>3, <2>4, <2>5
<1>3. CASE MsgID \notin DOMAIN h
  BY <1>1, <1>3 DEF IncomingMetadata, IdReceived
<1> QED
  BY <1>2, <1>3

-----------------------------------------------------------------------------
(* The first messages, and what user code makes of metadata.                 *)

LEMMA NothingSound ==
  ASSUME NEW b
  PROVE  Sound(Nothing, b) /\ DOMAIN Nothing = {}
<1>1. DOMAIN Nothing = {}
  BY DEF Nothing
<1> QED
  BY <1>1 DEF Sound

\* Metadata with keys of K only, and with ids under the names of the id.
Keyed(md, K) == DOMAIN md \subseteq K /\ \A k \in {MessageID, MsgID} \cap DOMAIN md : md[k] \in Ids

LEMMA MaybeKeyed ==
  ASSUME NEW k, NEW values, k \in {MessageID, MsgID} => values \subseteq Ids,
         NEW md \in Maybe(k, values)
  PROVE  Keyed(md, {k})
<1>1. CASE md = Nothing
  BY <1>1, NothingSound DEF Keyed
<1>2. ASSUME NEW v \in values, md = With(Nothing, k, v)
      PROVE  Keyed(md, {k})
  <2>1. DOMAIN md = {k} /\ md[k] = v
    BY <1>2, NothingSound DEF With
  <2> QED
    BY <2>1 DEF Keyed
<1> QED
  BY <1>1, <1>2 DEF Maybe

Joined(m, n) == [k \in DOMAIN m \cup DOMAIN n |-> IF k \in DOMAIN m THEN m[k] ELSE n[k]]

\* Metadata put together from two sets of metadata ...
LEMMA TwoTogether ==
  ASSUME NEW M, NEW N, NEW md \in Two(M, N)
  PROVE  \E m \in M, n \in N : md = Joined(m, n)
  BY DEF Two, Joined

\* ... has the keys of both.
LEMMA TwoKeyed ==
  ASSUME NEW M, NEW N, NEW J, NEW K,
         \A m \in M : Keyed(m, J), \A n \in N : Keyed(n, K),
         NEW md \in Two(M, N)
  PROVE  Keyed(md, J \cup K)
<1>1. PICK m \in M, n \in N : md = Joined(m, n)
  BY TwoTogether
<1>2. Keyed(m, J) /\ Keyed(n, K)
  OBVIOUS
<1> QED
  BY <1>1, <1>2 DEF Keyed, Joined

\* What a chain may begin with: ids, the key of a failure, and, in another
\* program's message, keys that an earlier runtime may have left.
LEMMA BegunKeyed ==
  ASSUME NEW md \in Begun
  PROVE  Keyed(md, ({MessageID} \cup {MsgID}) \cup {HandlerError})
<1>1. \A m \in Maybe(MessageID, Ids) : Keyed(m, {MessageID})
  BY MaybeKeyed
<1>2. \A m \in Maybe(MsgID, Ids) : Keyed(m, {MsgID})
  BY MaybeKeyed
<1>3. \A m \in Maybe(HandlerError, {"text"}) : Keyed(m, {HandlerError})
  BY MaybeKeyed, Keys
<1>4. \A m \in Two(Maybe(MessageID, Ids), Maybe(MsgID, Ids)) :
         Keyed(m, {MessageID} \cup {MsgID})
  BY <1>1, <1>2, TwoKeyed
<1> QED
  BY <1>3, <1>4, TwoKeyed DEF Begun

LEMMA ForeignKeyed ==
  ASSUME NEW md \in Two(Begun, Stale)
  PROVE  Keyed(md, (({MessageID} \cup {MsgID}) \cup {HandlerError})
                     \cup ({Timeout} \cup ({Deadline} \cup {Attempt})))
<1>1. \A m \in Begun : Keyed(m, ({MessageID} \cup {MsgID}) \cup {HandlerError})
  BY BegunKeyed
<1>2. \A m \in Stale : Keyed(m, {Timeout} \cup ({Deadline} \cup {Attempt}))
  <2>1. \A m \in Maybe(Timeout, Timeouts \cup {Junk}) : Keyed(m, {Timeout})
    BY MaybeKeyed, Keys
  <2>2. \A m \in Maybe(Deadline, {0}) : Keyed(m, {Deadline})
    BY MaybeKeyed, Keys
  <2>3. \A m \in Maybe(Attempt, {0}) : Keyed(m, {Attempt})
    BY MaybeKeyed, Keys
  <2>4. \A m \in Two(Maybe(Deadline, {0}), Maybe(Attempt, {0})) :
           Keyed(m, {Deadline} \cup {Attempt})
    BY <2>2, <2>3, TwoKeyed
  <2> QED
    BY <2>1, <2>4, TwoKeyed DEF Stale
<1> QED
  BY <1>1, <1>2, TwoKeyed

OneMore(h, k, v) == [h EXCEPT ![k] = @ \o <<v>>]

\* A header has one value for each key, or two for one of them.
LEMMA OnceOrTwice ==
  ASSUME NEW h, NEW g \in SomeTwice(h)
  PROVE  g = h \/ \E k \in DOMAIN h \cap {MsgID}, v \in Ids : g = OneMore(h, k, v)
<1>1. SomeTwice(h) = {h} \cup {OneMore(h, k, v) : k \in DOMAIN h \cap {MsgID}, v \in Ids}
  BY DEF SomeTwice, OneMore
<1> QED
  BY <1>1

\* A second value for a key does not change the first.
LEMMA SameFirst ==
  ASSUME NEW md, NEW g \in SomeTwice(ToHeader(md))
  PROVE  DOMAIN g = DOMAIN md /\ \A k \in DOMAIN md : Head(g[k]) = md[k]
<1> DEFINE h == ToHeader(md)
<1>1. DOMAIN h = DOMAIN md /\ \A k \in DOMAIN md : h[k] = <<md[k]>>
  BY DEF ToHeader
<1> HIDE DEF h
<1>2. CASE g = h
  BY <1>1, <1>2
<1>3. ASSUME NEW k \in DOMAIN h, NEW v \in Ids, g = OneMore(h, k, v)
      PROVE  DOMAIN g = DOMAIN md /\ \A j \in DOMAIN md : Head(g[j]) = md[j]
  <2>1. DOMAIN g = DOMAIN h /\ (\A j \in DOMAIN h : j # k => g[j] = h[j]) /\ g[k] = h[k] \o <<v>>
    BY <1>3 DEF OneMore
  <2>2. g[k] = <<md[k]>> \o <<v>>
    BY <1>1, <1>3, <2>1
  <2>3. Head(g[k]) = md[k]
    BY <2>2
  <2> QED
    BY <1>1, <2>1, <2>3
<1>4. g = h \/ \E k \in DOMAIN h \cap {MsgID}, v \in Ids : g = OneMore(h, k, v)
  BY OnceOrTwice DEF h
<1> QED
  BY <1>2, <1>3, <1>4

\* That first message is sound, b being whether it brings the key of a failure.
LEMMA ForeignSound ==
  ASSUME NEW md \in Two(Begun, Stale), NEW g \in SomeTwice(ToHeader(md)),
         NEW b, HandlerError \in DOMAIN g => b
  PROVE  Sound(FromHeader(g), b)
<1>1. \A k \in {MessageID, MsgID} \cap DOMAIN md : md[k] \in Ids
  BY ForeignKeyed DEF Keyed
<1>2. DOMAIN g = DOMAIN md /\ \A k \in DOMAIN md : Head(g[k]) = md[k]
  BY SameFirst
<1>3. DOMAIN FromHeader(g) = DOMAIN g /\ \A k \in DOMAIN g : FromHeader(g)[k] = Head(g[k])
  BY DEF FromHeader
<1> DEFINE f == FromHeader(g)
<1> HIDE DEF f
<1>4. DOMAIN f = DOMAIN md /\ \A k \in DOMAIN md : f[k] = md[k]
  BY <1>2, <1>3 DEF f
<1>5. Sound(f, b)
  BY <1>1, <1>2, <1>4 DEF Sound
<1> QED
  BY <1>5 DEF f

\* Whatever user code makes of sound metadata is sound.
LEMMA NextSound ==
  ASSUME NEW b, Sound(held, b), NEW md \in NextMetadata
  PROVE  Sound(md, b)
<1>1. ASSUME NEW base \in {held, Nothing}
      PROVE  Sound(base, b)
  BY NothingSound
<1>2. ASSUME NEW base \in {held, Nothing}, NEW id \in Ids
      PROVE  Sound(With(base, MessageID, id), b)
  BY <1>1, WithSound, Keys
<1> QED
  BY <1>1, <1>2 DEF NextMetadata

\* A header made of sound metadata is read back as it was (toHeader, fromHeader).
LEMMA ThereAndBack ==
  ASSUME NEW md, NEW b, Sound(md, b)
  PROVE  Sound(FromHeader(ToHeader(md)), b)
<1> DEFINE back == FromHeader(ToHeader(md))
<1>1. DOMAIN back = DOMAIN md /\ \A k \in DOMAIN md : back[k] = md[k]
  BY DEF FromHeader, ToHeader
<1> HIDE DEF back
<1>2. Sound(back, b)
  BY <1>1 DEF Sound
<1> QED
  BY <1>2 DEF back

\* What a stream reads of a sent header, and what a request's header has besides.
StreamReads(h, id) ==
    IF id = None THEN MsgID \notin DOMAIN h ELSE MsgID \in DOMAIN h /\ h[MsgID] = <<id>>

LEMMA StreamReadsIt ==
  ASSUME NEW md, NEW b, Sound(md, b)
  PROVE  StreamReads(OutgoingHeader(md), IdSent(md))
<1> DEFINE h == OutgoingHeader(md)
<1>1. /\ MsgID \in DOMAIN h => h[MsgID] = <<IdSent(md)>>
      /\ MsgID \notin DOMAIN h => IdSent(md) = None
      /\ MsgID \in DOMAIN h => MessageID \in DOMAIN md \/ MsgID \in DOMAIN md
  BY OutgoingId
<1> HIDE DEF h
<1>2. MsgID \in DOMAIN h => IdSent(md) \in Ids
  BY <1>1 DEF Sound, IdSent
<1>3. StreamReads(h, IdSent(md))
  BY <1>1, <1>2, IdsAssumption DEF StreamReads
<1> QED
  BY <1>3 DEF h

LEMMA RequestHeader ==
  ASSUME NEW md, NEW b, Sound(md, b), NEW wait
  PROVE  LET h == With(OutgoingHeader(md), Timeout, <<wait>>)
         IN /\ Sound(FromHeader(h), b) /\ IdReceived(FromHeader(h)) = IdSent(md)
            /\ Timeout \in DOMAIN h /\ h[Timeout] = <<wait>>
            /\ StreamReads(h, IdSent(md))
<1> DEFINE o == OutgoingHeader(md)
           h == With(o, Timeout, <<wait>>)
           f == FromHeader(o)
           g == FromHeader(h)
<1>1. DOMAIN h = DOMAIN o \cup {Timeout} /\ h[Timeout] = <<wait>>
      /\ \A k \in DOMAIN o : k # Timeout => h[k] = o[k]
  BY DEF With
<1>2. DOMAIN f = DOMAIN o /\ \A k \in DOMAIN o : f[k] = Head(o[k])
  BY DEF FromHeader
<1>3. DOMAIN g = DOMAIN h /\ \A k \in DOMAIN h : g[k] = Head(h[k])
  BY DEF FromHeader
<1>4. Sound(f, b) /\ IdReceived(f) = IdSent(md) /\ StreamReads(o, IdSent(md))
  BY OutgoingSound, StreamReadsIt
<1> HIDE DEF o, h, f, g
<1>5. DOMAIN g = DOMAIN f \cup {Timeout} /\ \A k \in DOMAIN f : k # Timeout => g[k] = f[k]
  BY <1>1, <1>2, <1>3
<1>6. Sound(g, b)
  BY <1>4, <1>5, Keys DEF Sound
<1>7. IdReceived(g) = IdReceived(f)
  BY <1>5, Keys DEF IdReceived
<1>8. StreamReads(h, IdSent(md))
  BY <1>1, <1>4, Keys DEF StreamReads
<1>9. /\ Sound(g, b) /\ IdReceived(g) = IdSent(md)
      /\ Timeout \in DOMAIN h /\ h[Timeout] = <<wait>>
      /\ StreamReads(h, IdSent(md))
  BY <1>1, <1>4, <1>6, <1>7, <1>8
<1> QED
  BY <1>9 DEF o, h, g

-----------------------------------------------------------------------------
(* Each step keeps the invariant.                                            *)

LEMMA MetadataInit ==
  ASSUME Init
  PROVE  MetadataInv
<1> USE DEF Init, MetadataInv, TimeTravels, FailureTravels, HandlersSeeTheId, StreamsSeeTheId,
     DeadlineIsTheRequests, FailureIsTheAnswerers, Handlers
<1>1. CASE holder = "client"
  <2>1. Sound(held, brought)
    <3>1. held \in Begun /\ brought = (HandlerError \in DOMAIN held)
      BY <1>1
    <3>2. \A k \in {MessageID, MsgID} \cap DOMAIN held : held[k] \in Ids
      BY <3>1, BegunKeyed DEF Keyed
    <3> QED
      BY <3>1, <3>2 DEF Sound
  <2>2. brought \in BOOLEAN
    BY <1>1
  <2> QED
    BY <1>1, <2>1, <2>2 DEF IdTravels
<1>2. CASE holder = "none"
  <2>1. Sound(held, brought)
    BY <1>2, NothingSound
  <2>2. Sound(FromHeader(header), brought)
    <3>1. brought = (HandlerError \in DOMAIN header)
      BY <1>2
    <3>2. PICK md \in Two(Begun, Stale) : header \in SomeTwice(ToHeader(md))
      BY <1>2
    <3> QED
      BY <3>1, <3>2, ForeignSound
  <2>4. brought \in BOOLEAN
    <3>1. brought = (HandlerError \in DOMAIN header)
      BY <1>2
    <3> HIDE DEF Init
    <3> QED
      BY <3>1
  <2>3. intended = IdReceived(FromHeader(header)) /\ via \in {"foreign request", "foreign publish"}
    BY <1>2
  <2> QED
    BY <1>2, <2>1, <2>2, <2>3, <2>4 DEF IdTravels
<1> QED
  BY <1>1, <1>2

\* A message leaves user code with the id it meant (Client.Request and Publish).
LEMMA SentKeeps ==
  ASSUME MetadataInv, NEW md \in NextMetadata,
         Publish(md) \/ \E wait \in Timeouts : Request(md, wait)
  PROVE  MetadataInv'
<1>s. Sound(md, brought)
  BY NextSound DEF MetadataInv
<1>1. holder' = "none" /\ held' = Nothing /\ intended' = IdSent(md)
      /\ UNCHANGED <<clock, failed, brought>>
  BY DEF Publish, Request, Sent
<1>2. Sound(held, brought)'
  BY <1>1, NothingSound
<1>3. /\ Sound(FromHeader(header), brought)' /\ IdReceived(FromHeader(header)') = intended'
      /\ StreamReads(header', intended')
      /\ via' \in {"publish", "request"} /\ TimeTravels'
  <2>1. CASE Publish(md)
    BY <1>s, <1>1, <2>1, OutgoingSound, StreamReadsIt DEF Publish, Sent, TimeTravels
  <2>2. ASSUME NEW wait \in Timeouts, Request(md, wait)
        PROVE  /\ Sound(FromHeader(header), brought)' /\ IdReceived(FromHeader(header)') = intended'
               /\ StreamReads(header', intended')
               /\ via' = "request" /\ TimeTravels'
    <3>1. header' = With(OutgoingHeader(md), Timeout, <<wait>>) /\ via' = "request" /\ bound' = wait
      BY <2>2 DEF Request, Sent
    <3>2. /\ Sound(FromHeader(header), brought)' /\ IdReceived(FromHeader(header)') = intended'
          /\ Timeout \in DOMAIN header' /\ header'[Timeout] = <<wait>>
          /\ StreamReads(header', intended')
      BY <1>s, <1>1, <3>1, RequestHeader
    <3> QED
      BY <2>2, <3>1, <3>2 DEF TimeTravels
  <2> QED
    BY <2>1, <2>2
<1> QED
  BY <1>1, <1>2, <1>3 DEF MetadataInv, IdTravels, TimeTravels, FailureTravels, StreamReads,
     HandlersSeeTheId, StreamsSeeTheId, DeadlineIsTheRequests, FailureIsTheAnswerers, Handlers

\* A reply leaves a handler (the end of serve).
LEMMA RepliesKeep ==
  ASSUME MetadataInv, ReplyFailure \/ \E md \in NextMetadata : Reply(md)
  PROVE  MetadataInv'
<1>1. /\ holder' = "none" /\ held' = Nothing /\ via' = "reply" /\ UNCHANGED clock
      /\ failed' \in BOOLEAN
  BY DEF ReplyFailure, Reply, Answers
<1>b. brought' = brought /\ brought \in BOOLEAN
  BY DEF ReplyFailure, Reply, Answers, MetadataInv
<1>2. Sound(held, brought)'
  BY <1>1, NothingSound
<1>3. FailureTravels'
  <2>1. ASSUME NEW md \in NextMetadata, Reply(md)
        PROVE  FailureTravels'
    <3>1. Sound(md, brought)
      BY NextSound DEF MetadataInv
    <3>2. Sound(FromHeader(ToHeader(md)), brought)
      BY <3>1, ThereAndBack
    <3> QED
      BY <1>b, <2>1, <3>2 DEF Reply, FailureTravels
  <2>2. CASE ReplyFailure
    <3>1. HandlerError \in DOMAIN header' /\ failed'
      BY <2>2 DEF ReplyFailure, With
    <3> QED
      BY <3>1 DEF FailureTravels
  <2> QED
    BY <2>1, <2>2
<1> QED
  BY <1>1, <1>b, <1>2, <1>3 DEF MetadataInv, IdTravels, TimeTravels, HandlersSeeTheId,
     StreamsSeeTheId, DeadlineIsTheRequests, FailureIsTheAnswerers, Handlers

\* The end of Request, for the code that called it.
LEMMA ReplyArrivesKeeps ==
  ASSUME MetadataInv, ReplyArrives
  PROVE  MetadataInv'
<1>u. via = "reply" /\ UNCHANGED <<header, via, bound, intended>>
  BY DEF ReplyArrives, travel, meant
<1>v. failed' = failed /\ brought' = brought
  BY DEF ReplyArrives, meant
<1>f. failed \in BOOLEAN /\ brought \in BOOLEAN /\ FailureTravels
  BY DEF MetadataInv
<1>1. /\ via = "reply" /\ UNCHANGED <<header, via, bound, intended, failed, brought>>
      /\ failed \in BOOLEAN /\ brought \in BOOLEAN /\ FailureTravels
  BY <1>u, <1>v, <1>f
<1>n. clock' \in Nat
  <2>1. clock \in Nat
    BY DEF MetadataInv
  <2>2. clock' = clock + 1
    BY DEF ReplyArrives
  <2> QED
    BY <2>1, <2>2
<1>2. DOMAIN FromHeader(header) = DOMAIN header
  BY DEF FromHeader
<1>3. CASE HandlerError \in DOMAIN header
  <2>1. holder' = "failed caller" /\ held' = Nothing /\ (failed \/ brought)
    BY <1>1, <1>2, <1>3 DEF ReplyArrives, FailureTravels, Sound
  <2>2. Sound(held, brought)'
    BY <2>1, NothingSound
  <2> QED
    BY <1>1, <1>n, <2>1, <2>2 DEF MetadataInv, IdTravels, TimeTravels, FailureTravels,
       HandlersSeeTheId, StreamsSeeTheId, DeadlineIsTheRequests, FailureIsTheAnswerers, Handlers
<1>4. CASE HandlerError \notin DOMAIN header
  <2>1. holder' = "caller" /\ held' = FromHeader(header) /\ ~failed
    BY <1>1, <1>4 DEF ReplyArrives, FailureTravels
  <2>2. Sound(held, brought)'
    BY <1>1, <2>1 DEF FailureTravels
  <2> QED
    BY <1>1, <1>n, <2>1, <2>2 DEF MetadataInv, IdTravels, TimeTravels, FailureTravels,
       HandlersSeeTheId, StreamsSeeTheId, DeadlineIsTheRequests, FailureIsTheAnswerers, Handlers
<1> QED
  BY <1>3, <1>4

\* A handler is handed sound metadata with the id and, for a request, the
\* deadline of that request.
LEMMA HandedKeeps ==
  ASSUME MetadataInv, NEW to \in Handlers, NEW md, NEW deadline, Hand(to, md, deadline),
         Sound(md, brought),
         intended # None => MessageID \in DOMAIN md /\ md[MessageID] = intended,
         to = "endpoint" /\ via = "request" =>
           deadline = clock + bound /\ md[Deadline] = deadline
  PROVE  MetadataInv'
<1>1. /\ holder' = to /\ held' = md /\ ctx' = deadline /\ clock' = clock + 1
      /\ UNCHANGED <<header, via, bound, intended, failed, brought>>
  BY DEF Hand, meant
<1>2. clock' \in Nat /\ clock' - 1 = clock /\ bound' = bound
  BY <1>1 DEF MetadataInv
<1>3. HandlersSeeTheId' /\ StreamsSeeTheId'
  BY <1>1 DEF HandlersSeeTheId, StreamsSeeTheId, MetadataInv
<1>4. DeadlineIsTheRequests'
  BY <1>1, <1>2 DEF DeadlineIsTheRequests
<1>6. FailureIsTheAnswerers'
  BY <1>1 DEF FailureIsTheAnswerers, Handlers
<1>7. /\ IdTravels' /\ TimeTravels' /\ FailureTravels' /\ Sound(held, brought)'
      /\ failed' \in BOOLEAN /\ brought' \in BOOLEAN
  <2>1. IdTravels' /\ TimeTravels' /\ Sound(held, brought)'
    BY <1>1 DEF IdTravels, TimeTravels, MetadataInv
  <2>2. /\ failed' = failed /\ FailureTravels /\ failed \in BOOLEAN
        /\ brought' = brought /\ brought \in BOOLEAN
    BY <1>1 DEF MetadataInv
  <2>3. FailureTravels'
    BY <1>1, <2>2 DEF FailureTravels
  <2> QED
    BY <2>1, <2>2, <2>3
<1> QED
  BY <1>2, <1>3, <1>4, <1>6, <1>7 DEF MetadataInv

\* A runtime hands a message to a handler (serve, serveJetStream).
LEMMA HandKeeps ==
  ASSUME MetadataInv, ServeEndpoint \/ ServeSubscriber \/ \E acks \in BOOLEAN : ServeJetStream(acks)
  PROVE  MetadataInv'
<1> DEFINE in == IncomingMetadata(header)
<1>1. /\ Sound(FromHeader(header), brought) /\ IdReceived(FromHeader(header)) = intended
      /\ via \in {"foreign request", "foreign publish", "request", "publish"}
  BY DEF ServeEndpoint, ServeSubscriber, ServeJetStream, MetadataInv, IdTravels
<1>2. /\ Sound(in, brought)
      /\ intended # None => MessageID \in DOMAIN in /\ in[MessageID] = intended
      /\ \A k \in DOMAIN header \ {MessageID} : k \in DOMAIN in /\ in[k] = Head(header[k])
  BY <1>1, IncomingId
<1>3. ASSUME NEW md, Sound(md, brought), NEW k \in {Deadline, Attempt}, NEW v,
             intended # None => MessageID \in DOMAIN md /\ md[MessageID] = intended
      PROVE  /\ Sound(With(md, k, v), brought)
             /\ intended # None =>
                  MessageID \in DOMAIN With(md, k, v) /\ With(md, k, v)[MessageID] = intended
             /\ With(md, k, v)[k] = v
  <2>1. Sound(With(md, k, v), brought)
    BY <1>3, WithSound, Keys
  <2>2. MessageID # k
    BY Keys
  <2> QED
    BY <1>3, <2>1, <2>2 DEF With
<1> HIDE DEF in
<1>4. CASE ServeEndpoint
  <2>1. CASE Timeout \in DOMAIN in /\ in[Timeout] >= 0
    <3> DEFINE at == clock + in[Timeout]
               md == With(in, Deadline, at)
    <3>1. Hand("endpoint", md, at)
      BY <1>4, <2>1 DEF ServeEndpoint, in
    <3>2. /\ Sound(md, brought) /\ md[Deadline] = at
          /\ intended # None => MessageID \in DOMAIN md /\ md[MessageID] = intended
      BY <1>2, <1>3
    <3>3. via = "request" => at = clock + bound
      <4>1. via = "request" => header[Timeout] = <<bound>> /\ Timeout \in DOMAIN header
        BY DEF MetadataInv, TimeTravels
      <4>2. via = "request" => in[Timeout] = bound
        BY <1>2, <4>1, Keys
      <4> QED
        BY <4>2
    <3> HIDE DEF at, md
    <3> QED
      BY <3>1, <3>2, <3>3, HandedKeeps DEF Handlers
  <2>2. CASE ~(Timeout \in DOMAIN in /\ in[Timeout] >= 0)
    <3>1. Hand("endpoint", in, NoDeadline)
      BY <1>4, <2>2 DEF ServeEndpoint, in
    <3>2. via # "request"
      <4> SUFFICES ASSUME via = "request"
                   PROVE  FALSE
        OBVIOUS
      <4>1. header[Timeout] = <<bound>> /\ Timeout \in DOMAIN header /\ bound \in Timeouts
        BY DEF MetadataInv, TimeTravels
      <4>2. Timeout \in DOMAIN in /\ in[Timeout] = bound
        BY <1>2, <4>1, Keys
      <4> QED
        BY <2>2, <4>1, <4>2, SizesAssumption
    <3> QED
      BY <1>2, <3>1, <3>2, HandedKeeps DEF Handlers
  <2> QED
    BY <2>1, <2>2
<1>5. CASE ServeSubscriber
  <2>1. Hand("subscriber", in, NoDeadline)
    BY <1>5 DEF ServeSubscriber, in
  <2> QED
    BY <1>2, <2>1, HandedKeeps DEF Handlers
<1>6. ASSUME NEW acks \in BOOLEAN, ServeJetStream(acks)
      PROVE  MetadataInv'
  <2> DEFINE dm == DeliveryMetadata(in, attempts')
             at == clock + AckWait
             md == With(dm, Deadline, at)
  <2>h. \/ Hand("blind consumer", in, NoDeadline)
        \/ Hand("consumer", md, at) \/ Hand("consumer", dm, NoDeadline)
    BY <1>6 DEF ServeJetStream, in
  <2>1. /\ Sound(dm, brought)
        /\ intended # None => MessageID \in DOMAIN dm /\ dm[MessageID] = intended
    BY <1>2, <1>3 DEF DeliveryMetadata
  <2> HIDE DEF dm
  <2>2. /\ Sound(md, brought)
        /\ intended # None => MessageID \in DOMAIN md /\ md[MessageID] = intended
    BY <1>3, <2>1
  <2> HIDE DEF md, at
  <2>3. CASE Hand("blind consumer", in, NoDeadline)
    BY <1>2, <2>3, HandedKeeps DEF Handlers
  <2>4. CASE Hand("consumer", md, at)
    BY <2>2, <2>4, HandedKeeps DEF Handlers
  <2>5. CASE Hand("consumer", dm, NoDeadline)
    BY <2>1, <2>5, HandedKeeps DEF Handlers
  <2> QED
    BY <2>h, <2>3, <2>4, <2>5
<1> QED
  BY <1>4, <1>5, <1>6

\* What travels travels again when a delivery is nacked (nak of serveJetStream).
LEMMA ConsumerFailsKeeps ==
  ASSUME MetadataInv, ConsumerFails
  PROVE  MetadataInv'
<1>1. /\ holder' = "none" /\ held' = Nothing
      /\ UNCHANGED <<clock, header, via, bound, intended, failed, brought>>
  BY DEF ConsumerFails, travel, meant
<1>2. Sound(held, brought)'
  BY <1>1, NothingSound
<1>3. failed \in BOOLEAN /\ brought \in BOOLEAN /\ FailureTravels
  BY DEF MetadataInv
<1>4. FailureTravels'
  BY <1>1, <1>3 DEF FailureTravels
<1> QED
  BY <1>1, <1>2, <1>3, <1>4 DEF MetadataInv, IdTravels, TimeTravels, HandlersSeeTheId,
     StreamsSeeTheId, DeadlineIsTheRequests, FailureIsTheAnswerers, Handlers

\* However long the chain, metadata is what its latest sender meant.
THEOREM MetadataInvAlways == Spec => []MetadataInv
<1>1. Init => MetadataInv
  BY MetadataInit
<1>2. MetadataInv /\ [Next]_vars => MetadataInv'
  <2> SUFFICES ASSUME MetadataInv, [Next]_vars
               PROVE  MetadataInv'
    OBVIOUS
  <2>1. CASE ClientStep
    BY <2>1, SentKeeps, RepliesKeep, ReplyArrivesKeeps DEF ClientStep
  <2>2. CASE RuntimeStep
    BY <2>2, HandKeeps, ConsumerFailsKeeps, RepliesKeep DEF RuntimeStep
  <2>3. CASE UNCHANGED vars
    BY <2>3 DEF vars, travel, meant, MetadataInv, IdTravels, TimeTravels, FailureTravels,
       HandlersSeeTheId, StreamsSeeTheId, DeadlineIsTheRequests, FailureIsTheAnswerers
  <2> QED
    BY <2>1, <2>2, <2>3 DEF Next
<1> QED
  BY <1>1, <1>2, PTL DEF Spec

\* A handler sees the id the latest sender meant, under Mesh-Message-Id
\* (incomingMetadata).
THEOREM HandlersSeeTheIdAlways == Spec => []HandlersSeeTheId
<1>1. MetadataInv => HandlersSeeTheId
  BY DEF MetadataInv
<1> QED
  BY <1>1, MetadataInvAlways, PTL

\* And a stream sees it under Nats-Msg-Id, or no id at all (outgoingHeader).
THEOREM StreamsSeeTheIdAlways == Spec => []StreamsSeeTheId
<1>1. MetadataInv => StreamsSeeTheId
  BY DEF MetadataInv
<1> QED
  BY <1>1, MetadataInvAlways, PTL

\* An endpoint's handler has the time its own request has left (Request, serve).
THEOREM DeadlineIsTheRequestsAlways == Spec => []DeadlineIsTheRequests
<1>1. MetadataInv => DeadlineIsTheRequests
  BY DEF MetadataInv
<1> QED
  BY <1>1, MetadataInvAlways, PTL

\* A requester gets a HandlerError only from a handler that failed itself, or
\* from one that copied a Mesh-Handler-Error the chain began with (Request, serve).
THEOREM FailureIsTheAnswerersAlways == Spec => []FailureIsTheAnswerers
<1>1. MetadataInv => FailureIsTheAnswerers
  BY DEF MetadataInv
<1> QED
  BY <1>1, MetadataInvAlways, PTL
=============================================================================
