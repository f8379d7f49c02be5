------------------------------ MODULE Request ------------------------------
(***************************************************************************)
(* Calls on a Client (src/nats/client.go): Request, a JetStream Publish    *)
(* and a core Publish, bounded by the request timeout and the caller's     *)
(* context, with Close at any moment, and the endpoint that serves a       *)
(* Request (src/nats/runtime_serve.go).                                    *)
(*                                                                         *)
(* Time is a number of ticks, a few to a millisecond.  A caller's context  *)
(* without a deadline is one whose deadline is past MaxTime.  What the     *)
(* calls carry is left out: their arguments are the ones that pass         *)
(* checkKind, subject and durationSetting.  The timers of package context, *)
(* nats.go and the server are external.                                    *)
(***************************************************************************)
EXTENDS Integers

CONSTANTS
    Calls,       \* the calls made, each on a goroutine of its own
    Timeouts,    \* the request timeouts in force, in ticks
    Deadlines,   \* the deadlines of the callers' contexts
    Millisecond, \* how many ticks it has
    LastBegin,   \* bound: the last tick a call begins at, and is bounded at
    MaxTime      \* bound: the last tick

CallKinds == {"request", "streamPublish", "publish"}

ASSUME TimesAssumption ==
    /\ Timeouts \subseteq Nat \ {0} /\ Deadlines \subseteq Nat
    /\ Millisecond \in Nat \ {0} /\ LastBegin \in Nat /\ MaxTime \in Nat

VARIABLES
    now,       \* the tick
    closed,    \* c.closed
    conn,      \* whether the connection is open
    pc,        \* where each call is
    kind,      \* the method it calls
    timeout,   \* its request timeout
    deadline,  \* its caller's deadline
    callerErr, \* the caller's ctx.Err()
    boundAt,   \* when boundContext was called
    header,    \* mesh.TimeoutKey, in milliseconds
    ctxErr,    \* the bounded context's Err
    cause,     \* and its Cause
    inflight,  \* the calls the server has
    reply,     \* what has come back
    served,    \* the requests the endpoint has got
    budget,    \* the time its handler is given
    result     \* what the call returned

times == <<kind, timeout, deadline, boundAt, header>>
contexts == <<callerErr, ctxErr, cause>>
network == <<inflight, reply, served, budget>>
vars == <<now, closed, conn, pc, times, contexts, network, result>>

ContextErrors == {"Canceled", "DeadlineExceeded"}
Answers == {"reply", "HandlerError", "NoResponders"}

TypeOK ==
    /\ now \in 0..MaxTime
    /\ closed \in BOOLEAN /\ conn \in BOOLEAN
    /\ pc \in [Calls -> {"idle", "connected", "bounded", "waiting", "returned"}]
    /\ kind \in [Calls -> CallKinds]
    /\ timeout \in [Calls -> Timeouts \cup {0}] /\ deadline \in [Calls -> Deadlines]
    /\ callerErr \in [Calls -> ContextErrors \cup {"none"}]
    /\ ctxErr \in [Calls -> ContextErrors \cup {"none"}]
    /\ cause \in [Calls -> ContextErrors \cup {"none", "errRequestTimeout"}]
    /\ boundAt \in [Calls -> 0..MaxTime] /\ header \in [Calls -> Nat]
    /\ inflight \subseteq Calls
    /\ reply \in [Calls -> Answers \cup {"none"}]
    /\ served \subseteq Calls /\ budget \in [Calls -> Nat]
    /\ result \in [Calls -> ContextErrors \cup Answers \cup
                              {"none", "nil", "ErrClosed", "ErrConnectionClosed", "ErrTimeout"}]

Init ==
    /\ now = 0 /\ closed = FALSE /\ conn = TRUE
    /\ pc = [c \in Calls |-> "idle"]
    /\ kind \in [Calls -> CallKinds]
    /\ timeout = [c \in Calls |-> 0]
    /\ deadline \in [Calls -> Deadlines]
    /\ callerErr = [c \in Calls |-> "none"]
    /\ ctxErr = [c \in Calls |-> "none"] /\ cause = [c \in Calls |-> "none"]
    /\ boundAt = [c \in Calls |-> 0] /\ header = [c \in Calls |-> 0]
    /\ inflight = {} /\ reply = [c \in Calls |-> "none"]
    /\ served = {} /\ budget = [c \in Calls |-> 0]
    /\ result = [c \in Calls |-> "none"]

Sooner(s, t) == IF s < t THEN s ELSE t
TimeUntil(t) == IF t > now THEN t - now ELSE 0

\* What the bounded context of c is bounded by.
Expiry(c) == Sooner(boundAt[c] + timeout[c], deadline[c])

\* A core publish is not bounded.
TimeoutsOf(c) == IF kind[c] = "publish" THEN {0} ELSE Timeouts

Return(c, with) ==
    /\ pc' = [pc EXCEPT ![c] = "returned"]
    /\ result' = [result EXCEPT ![c] = with]

-----------------------------------------------------------------------------
(* A call.                                                                   *)

\* connections, and what Publish asks of ctx next.
Begin(c, t) ==
    /\ pc[c] = "idle" /\ now <= LastBegin
    /\ timeout' = [timeout EXCEPT ![c] = t]
    /\ \/ closed /\ Return(c, "ErrClosed")
       \/ /\ ~closed /\ kind[c] # "request" /\ callerErr[c] # "none"
          /\ Return(c, callerErr[c])
       \/ /\ ~closed
          /\ kind[c] = "request" \/ callerErr[c] = "none"
          /\ pc' = [pc EXCEPT ![c] = "connected"] /\ UNCHANGED result
    /\ UNCHANGED <<now, closed, conn, kind, deadline, boundAt, header, contexts, network>>

\* A core publish: nc.PublishMsg.
PublishCore(c) ==
    /\ pc[c] = "connected" /\ kind[c] = "publish"
    /\ Return(c, IF conn THEN "nil" ELSE "ErrConnectionClosed")
    /\ inflight' = IF conn THEN inflight \cup {c} ELSE inflight
    /\ UNCHANGED <<now, closed, conn, times, contexts, reply, served, budget>>

\* boundContext.  The context is done at once when its parent is.
BoundFor(c, wait) ==
    /\ pc[c] = "connected" /\ kind[c] # "publish"
    /\ boundAt' = [boundAt EXCEPT ![c] = now]
    /\ header' = [header EXCEPT ![c] = wait \div Millisecond]
    /\ ctxErr' = [ctxErr EXCEPT ![c] = callerErr[c]]
    /\ cause' = [cause EXCEPT ![c] = callerErr[c]]
    /\ pc' = [pc EXCEPT ![c] = "bounded"]
    /\ UNCHANGED <<now, closed, conn, kind, timeout, deadline, callerErr, network, result>>

\* Mutation: a deadline that has passed leaves a negative time.
BoundWithoutFloor(c) == BoundFor(c, Sooner(timeout[c], deadline[c] - now))
\* Mutation: the time the caller's context has left is not looked at.
BoundByTimeout(c) == BoundFor(c, timeout[c])

Bound(c) == BoundFor(c, Sooner(timeout[c], TimeUntil(deadline[c])))

\* RequestMsgWithContext and js.PublishMsg send, unless the context is done or
\* the connection is closed.
Send(c) ==
    /\ pc[c] = "bounded" /\ conn /\ ctxErr[c] = "none"
    /\ inflight' = inflight \cup {c}
    /\ pc' = [pc EXCEPT ![c] = "waiting"]
    /\ UNCHANGED <<now, closed, conn, times, contexts, reply, served, budget, result>>

FindsConnectionClosed(c) ==
    /\ pc[c] \in {"bounded", "waiting"} /\ ~conn
    /\ Return(c, "ErrConnectionClosed")
    /\ UNCHANGED <<now, closed, conn, times, contexts, network>>

ReturnsReply(c) ==
    /\ pc[c] = "waiting" /\ reply[c] # "none"
    /\ Return(c, reply[c])
    /\ UNCHANGED <<now, closed, conn, times, contexts, network>>

\* The context is done first: timeoutError.
ReturnsContextError(c, err) ==
    /\ pc[c] \in {"bounded", "waiting"} /\ ctxErr[c] # "none"
    /\ Return(c, err)
    /\ UNCHANGED <<now, closed, conn, times, contexts, network>>

\* Mutation: every expired deadline is taken for the request timeout's.
ContextExpires(c) ==
    ReturnsContextError(c, IF ctxErr[c] = "DeadlineExceeded" THEN "ErrTimeout" ELSE ctxErr[c])
\* Mutation: the error is returned as it is.
ContextErrorUnchanged(c) == ReturnsContextError(c, ctxErr[c])

ContextDone(c) ==
    ReturnsContextError(c,
        IF ctxErr[c] = "DeadlineExceeded" /\ cause[c] = "errRequestTimeout"
        THEN "ErrTimeout" ELSE ctxErr[c])

-----------------------------------------------------------------------------
(* Contexts (external).  A context is done once, for the first reason.  A   *)
(* caller's context ends the one made from it.                              *)

CallerDone(c, err) ==
    /\ callerErr[c] = "none"
    /\ callerErr' = [callerErr EXCEPT ![c] = err]
    /\ LET live == pc[c] \in {"bounded", "waiting"} /\ ctxErr[c] = "none"
       IN  /\ ctxErr' = [ctxErr EXCEPT ![c] = IF live THEN err ELSE @]
           /\ cause' = [cause EXCEPT ![c] = IF live THEN err ELSE @]
    /\ UNCHANGED <<now, closed, conn, pc, times, network, result>>

CallerCancels(c) == CallerDone(c, "Canceled")
CallerExpires(c) == now >= deadline[c] /\ CallerDone(c, "DeadlineExceeded")

\* Mutation: boundContext sets no timer.
TimeoutNeverFires(c) == ctxErr[c] = "none" /\ FALSE /\ UNCHANGED vars

\* The timer boundContext sets with WithTimeoutCause, which sets none when the
\* parent's deadline is sooner.
TimeoutFires(c) ==
    /\ pc[c] \in {"bounded", "waiting"} /\ ctxErr[c] = "none"
    /\ deadline[c] >= boundAt[c] + timeout[c] /\ now >= boundAt[c] + timeout[c]
    /\ ctxErr' = [ctxErr EXCEPT ![c] = "DeadlineExceeded"]
    /\ cause' = [cause EXCEPT ![c] = "errRequestTimeout"]
    /\ UNCHANGED <<now, closed, conn, pc, times, callerErr, network, result>>

-----------------------------------------------------------------------------
(* The rest of the world.                                                    *)

\* serve: the endpoint's handler gets a deadline of its own.
Serve(c) ==
    /\ c \in inflight /\ kind[c] = "request" /\ c \notin served
    /\ served' = served \cup {c}
    /\ budget' = [budget EXCEPT ![c] = header[c] * Millisecond]
    /\ UNCHANGED <<now, closed, conn, pc, times, contexts, inflight, reply, result>>

\* A reply of the handler, its error, or the server's ack or no responders.
Answered(c, a) ==
    /\ c \in inflight /\ conn /\ reply[c] = "none"
    /\ kind[c] = "request" /\ a \in {"reply", "HandlerError"} => c \in served
    /\ kind[c] # "publish" /\ (kind[c] = "streamPublish" => a # "HandlerError")
    /\ reply' = [reply EXCEPT ![c] = a]
    /\ UNCHANGED <<now, closed, conn, pc, times, contexts, inflight, served, budget, result>>

\* Mutation: Close leaves the connection to the runtime.
MarkClosed ==
    /\ ~closed /\ closed' = TRUE
    /\ UNCHANGED <<now, conn, pc, times, contexts, network, result>>

Close ==
    /\ ~closed /\ closed' = TRUE /\ conn' = FALSE
    /\ UNCHANGED <<now, pc, times, contexts, network, result>>

\* Conn().Close().
CloseConnDirectly ==
    /\ conn /\ conn' = FALSE
    /\ UNCHANGED <<now, closed, pc, times, contexts, network, result>>

TimePasses ==
    /\ now < MaxTime /\ now' = now + 1
    /\ now >= LastBegin => \A c \in Calls : pc[c] # "connected"
    /\ UNCHANGED <<closed, conn, pc, times, contexts, network, result>>

CallStep(c) ==
    \/ \E t \in TimeoutsOf(c) : Begin(c, t)
    \/ PublishCore(c) \/ Bound(c) \/ Send(c)
    \/ FindsConnectionClosed(c) \/ ReturnsReply(c) \/ ContextDone(c)

ContextStep(c) == CallerCancels(c) \/ CallerExpires(c) \/ TimeoutFires(c)

WorldStep(c) == Serve(c) \/ \E a \in Answers : Answered(c, a)

Next ==
    \/ \E c \in Calls : CallStep(c) \/ ContextStep(c) \/ WorldStep(c)
    \/ Close \/ CloseConnDirectly \/ TimePasses

Spec == Init /\ [][Next]_vars

\* Time passes, timers fire, and a goroutine that can go on does.
FairSpec ==
    /\ Spec /\ WF_vars(TimePasses)
    /\ \A c \in Calls :
          /\ WF_vars(CallStep(c))
          /\ WF_vars(CallerExpires(c)) /\ WF_vars(TimeoutFires(c))

-----------------------------------------------------------------------------
(* Properties.                                                               *)

\* A call reports ErrTimeout only for the request timeout: that time has passed
\* and the caller's own deadline was not sooner (timeoutError).
TimeoutIsTheRequests ==
    \A c \in Calls : result[c] = "ErrTimeout" =>
        /\ now >= boundAt[c] + timeout[c]
        /\ deadline[c] >= boundAt[c] + timeout[c]

\* A call that reports an expired deadline or a cancellation reports the error
\* the caller's own context has (Request's comment).
ContextErrorIsTheCallers ==
    \A c \in Calls : result[c] \in ContextErrors => callerErr[c] = result[c]

\* The time an endpoint's handler is given, from when it gets the request, is no
\* more than the call had when it was bounded (mesh.TimeoutKey).
EndpointBudgetFits ==
    \A c \in served :
        budget[c] <= (IF Expiry(c) > boundAt[c] THEN Expiry(c) - boundAt[c] ELSE 0)

\* Once Close has returned, no call sends anything, not even one that got the
\* connection before (Close closes the connection under the client's lock).
NothingSentAfterClose == [][closed => inflight' = inflight]_vars

\* Every call that has the connection returns, whether anyone answers or not.
CallsReturn == \A c \in Calls : pc[c] = "connected" ~> pc[c] = "returned"
=============================================================================
