--------------------------- MODULE RequestProofs ---------------------------
(***************************************************************************)
(* Proofs about Request, for any calls, timeouts, deadlines and clock.     *)
(***************************************************************************)
EXTENDS Request, TLAPS

USE DEF CallKinds, ContextErrors, Answers

-----------------------------------------------------------------------------
(* Types.                                                                    *)

LEMMA WholeMilliseconds ==
    ASSUME NEW a \in Nat, NEW b \in Nat \ {0}
    PROVE  (a \div b) \in Nat /\ (a \div b) * b <= a
OBVIOUS

LEMMA ConstantTypes ==
    /\ \A t \in Timeouts \cup {0} : t \in Nat
    /\ \A t \in Deadlines : t \in Nat
    /\ Millisecond \in Nat \ {0} /\ MaxTime \in Nat
BY TimesAssumption

LEMMA TimesAreNatural ==
    ASSUME TypeOK
    PROVE  /\ now \in Nat
           /\ \A c \in Calls :
                 timeout[c] \in Nat /\ deadline[c] \in Nat /\ boundAt[c] \in Nat /\ header[c] \in Nat
<1>1. now \in 0..MaxTime /\ boundAt \in [Calls -> 0..MaxTime] /\ header \in [Calls -> Nat]
  BY DEF TypeOK
<1>2. timeout \in [Calls -> Timeouts \cup {0}] /\ deadline \in [Calls -> Deadlines]
  BY DEF TypeOK
<1> QED
  BY <1>1, <1>2, ConstantTypes

\* The time boundContext finds is a natural number: the floor keeps it from
\* being negative.
LEMMA WaitIsNatural ==
    ASSUME TypeOK, NEW c \in Calls
    PROVE  Sooner(timeout[c], TimeUntil(deadline[c])) \in Nat
<1>1. timeout[c] \in Nat /\ deadline[c] \in Nat /\ now \in Nat
  BY TimesAreNatural
<1> QED
  BY <1>1 DEF Sooner, TimeUntil

LEMMA TypeOfInit == Init => TypeOK
<1> SUFFICES ASSUME Init PROVE TypeOK
  OBVIOUS
<1>1. now \in 0..MaxTime /\ boundAt \in [Calls -> 0..MaxTime]
  BY ConstantTypes DEF Init
<1>2. kind \in [Calls -> CallKinds] /\ deadline \in [Calls -> Deadlines]
  BY DEF Init
<1>3. timeout \in [Calls -> Timeouts \cup {0}] /\ header \in [Calls -> Nat] /\ budget \in [Calls -> Nat]
  BY DEF Init
<1>4. pc \in [Calls -> {"idle", "connected", "bounded", "waiting", "returned"}]
  BY DEF Init
<1> QED
  BY <1>1, <1>2, <1>3, <1>4 DEF Init, TypeOK

LEMMA TypeOfCall ==
    ASSUME TypeOK, NEW c \in Calls, CallStep(c)
    PROVE  TypeOK'
<1>1. ASSUME NEW t \in TimeoutsOf(c), Begin(c, t) PROVE TypeOK'
  <2>1. t \in Timeouts \cup {0}
    BY <1>1 DEF TimeoutsOf
  <2> QED
    BY <1>1, <2>1 DEF TypeOK, Begin, Return, contexts, network
<1>2. ASSUME PublishCore(c) PROVE TypeOK'
  BY <1>2 DEF TypeOK, PublishCore, Return, times, contexts
<1>3. ASSUME Bound(c) PROVE TypeOK'
  <2> DEFINE wait == Sooner(timeout[c], TimeUntil(deadline[c]))
  <2>1. wait \in Nat
    BY WaitIsNatural, ConstantTypes DEF TypeOK
  <2>2. wait \div Millisecond \in Nat
    BY <2>1, WholeMilliseconds, ConstantTypes
  <2> HIDE DEF wait
  <2> QED
    BY <1>3, <2>2 DEF TypeOK, Bound, BoundFor, network, wait
<1>4. ASSUME Send(c) PROVE TypeOK'
  BY <1>4 DEF TypeOK, Send, times, contexts
<1>5. ASSUME FindsConnectionClosed(c) \/ ReturnsReply(c) \/ ContextDone(c) PROVE TypeOK'
  BY <1>5 DEF TypeOK, FindsConnectionClosed, ReturnsReply, ContextDone, ReturnsContextError,
     Return, times, contexts, network
<1> QED
  BY <1>1, <1>2, <1>3, <1>4, <1>5 DEF CallStep

LEMMA TypeOfWorld ==
    ASSUME TypeOK, NEW c \in Calls, ContextStep(c) \/ WorldStep(c)
    PROVE  TypeOK'
<1>1. ASSUME ContextStep(c) PROVE TypeOK'
  BY <1>1 DEF TypeOK, ContextStep, CallerCancels, CallerExpires, CallerDone, TimeoutFires, times, network
<1>2. ASSUME Serve(c) PROVE TypeOK'
  <2>1. header[c] * Millisecond \in Nat
    BY ConstantTypes DEF TypeOK
  <2> QED
    BY <1>2, <2>1 DEF TypeOK, Serve, times, contexts
<1>3. ASSUME NEW a \in Answers, Answered(c, a) PROVE TypeOK'
  BY <1>3 DEF TypeOK, Answered, times, contexts
<1> QED
  BY <1>1, <1>2, <1>3 DEF WorldStep

LEMMA TypeStep == TypeOK /\ [Next]_vars => TypeOK'
<1> SUFFICES ASSUME TypeOK, [Next]_vars PROVE TypeOK'
  OBVIOUS
<1>1. CASE Close \/ CloseConnDirectly \/ TimePasses
  <2>1. CASE TimePasses
    <3>1. now' \in 0..MaxTime
      BY <2>1, ConstantTypes DEF TypeOK, TimePasses
    <3> QED
      BY <2>1, <3>1 DEF TypeOK, TimePasses, times, contexts, network
  <2>2. CASE Close \/ CloseConnDirectly
    BY <2>2 DEF TypeOK, Close, CloseConnDirectly, times, contexts, network
  <2> QED
    BY <1>1, <2>1, <2>2
<1>2. CASE UNCHANGED vars
  BY <1>2 DEF TypeOK, vars, times, contexts, network
<1> QED
  BY <1>1, <1>2, TypeOfCall, TypeOfWorld DEF Next

\* Every variable keeps its type; no time put in a header is negative, though a
\* caller's deadline may have passed before the call is bounded.
THEOREM TypeCorrect == Spec => []TypeOK
BY TypeOfInit, TypeStep, PTL DEF Spec

-----------------------------------------------------------------------------
(* Close.                                                                    *)

\* Close marks the client closed and closes the connection under one lock.
ConnInv == closed => ~conn

\* Once Close has returned nothing is sent: a call sends only on an open
\* connection, and none is open after Close.
THEOREM NothingSentAfterCloseAlways == Spec => NothingSentAfterClose
<1>1. Init => ConnInv
  BY DEF Init, ConnInv
<1>2. ConnInv /\ [Next]_vars => ConnInv'
  BY DEF ConnInv, Next, vars, CallStep, ContextStep, WorldStep, Begin, PublishCore, Bound, BoundFor,
     Send, FindsConnectionClosed, ReturnsReply, ContextDone, ReturnsContextError, CallerCancels,
     CallerExpires, CallerDone, TimeoutFires, Serve, Answered, Close, CloseConnDirectly, TimePasses
<1>3. ConnInv /\ [Next]_vars => [closed => inflight' = inflight]_vars
  BY DEF ConnInv, Next, vars, network, CallStep, ContextStep, WorldStep, Begin, PublishCore, Bound, BoundFor,
     Send, FindsConnectionClosed, ReturnsReply, ContextDone, ReturnsContextError, CallerCancels,
     CallerExpires, CallerDone, TimeoutFires, Serve, Answered, Close, CloseConnDirectly, TimePasses
<1> QED
  BY <1>1, <1>2, <1>3, PTL DEF Spec, NothingSentAfterClose

-----------------------------------------------------------------------------
(* Why a context is done.                                                    *)

\* The bounded context has the cause it was ended by, and a result names it.
CauseInv(c) ==
    /\ pc[c] \in {"idle", "connected"} => ctxErr[c] = "none" /\ cause[c] = "none"
    /\ cause[c] = "errRequestTimeout" =>
          /\ ctxErr[c] = "DeadlineExceeded"
          /\ now >= boundAt[c] + timeout[c] /\ deadline[c] >= boundAt[c] + timeout[c]
    /\ cause[c] # "errRequestTimeout" => ctxErr[c] \in {"none", callerErr[c]}
    /\ result[c] # "none" => pc[c] = "returned"
    /\ result[c] = "ErrTimeout" => cause[c] = "errRequestTimeout"
    /\ result[c] \in ContextErrors => callerErr[c] = result[c]

Causes == \A c \in Calls : CauseInv(c)

LEMMA CausesStep ==
    ASSUME TypeOK, Causes, [Next]_vars
    PROVE  Causes'
<1> SUFFICES ASSUME NEW d \in Calls PROVE CauseInv(d)'
  BY DEF Causes
<1>0. CauseInv(d) /\ timeout[d] \in Nat /\ deadline[d] \in Nat /\ boundAt[d] \in Nat /\ now \in Nat
  BY TimesAreNatural DEF Causes
<1> USE <1>0 DEF TypeOK
<1>1. ASSUME NEW c \in Calls, NEW t \in TimeoutsOf(c), Begin(c, t) PROVE CauseInv(d)'
  BY <1>1 DEF CauseInv, Begin, Return, contexts, network
<1>2. ASSUME NEW c \in Calls, PublishCore(c) PROVE CauseInv(d)'
  BY <1>2 DEF CauseInv, PublishCore, Return, times, contexts
<1>3. ASSUME NEW c \in Calls, Bound(c) PROVE CauseInv(d)'
  <2>1. CASE d = c
    BY <1>3, <2>1 DEF CauseInv, Bound, BoundFor
  <2>2. CASE d # c
    BY <1>3, <2>2 DEF CauseInv, Bound, BoundFor
  <2> QED
    BY <2>1, <2>2
<1>4. ASSUME NEW c \in Calls, Send(c) PROVE CauseInv(d)'
  BY <1>4 DEF CauseInv, Send, times, contexts
<1>5. ASSUME NEW c \in Calls, FindsConnectionClosed(c) \/ ReturnsReply(c) PROVE CauseInv(d)'
  BY <1>5 DEF CauseInv, FindsConnectionClosed, ReturnsReply, Return, times, contexts, network
<1>6. ASSUME NEW c \in Calls, ContextDone(c) PROVE CauseInv(d)'
  BY <1>6 DEF CauseInv, ContextDone, ReturnsContextError, Return, times, contexts, network
<1>7. ASSUME NEW c \in Calls, NEW err \in ContextErrors, CallerDone(c, err) PROVE CauseInv(d)'
  BY <1>7 DEF CauseInv, CallerDone, times, network
<1>8. ASSUME NEW c \in Calls, TimeoutFires(c) PROVE CauseInv(d)'
  BY <1>8 DEF CauseInv, TimeoutFires, times, network
<1>9. ASSUME NEW c \in Calls, WorldStep(c) PROVE CauseInv(d)'
  BY <1>9 DEF CauseInv, WorldStep, Serve, Answered, times, contexts
<1>10. CASE Close \/ CloseConnDirectly \/ TimePasses
  BY <1>10 DEF CauseInv, Close, CloseConnDirectly, TimePasses, times, contexts, network
<1>11. CASE UNCHANGED vars
  BY <1>11 DEF CauseInv, vars, times, contexts, network
<1> QED
  BY <1>1, <1>2, <1>3, <1>4, <1>5, <1>6, <1>7, <1>8, <1>9, <1>10, <1>11
     DEF Next, CallStep, ContextStep, CallerCancels, CallerExpires

\* While a call waits, what its contexts say of their end is why they ended
\* (boundContext), so its error can be traced to it.
THEOREM CausesAlways == Spec => []Causes
<1>1. Init => Causes
  BY DEF Init, Causes, CauseInv
<1> QED
  BY <1>1, TypeCorrect, CausesStep, PTL DEF Spec

\* ErrTimeout is reported only for the request timeout.
THEOREM TimeoutIsTheRequestsAlways == Spec => []TimeoutIsTheRequests
<1>1. TypeOK /\ Causes => TimeoutIsTheRequests
  BY ConstantTypes DEF TypeOK, Causes, CauseInv, TimeoutIsTheRequests
<1> QED
  BY <1>1, TypeCorrect, CausesAlways, PTL

\* A context error that is reported is the caller's own.
THEOREM ContextErrorIsTheCallersAlways == Spec => []ContextErrorIsTheCallers
<1>1. Causes => ContextErrorIsTheCallers
  BY DEF Causes, CauseInv, ContextErrorIsTheCallers
<1> QED
  BY <1>1, CausesAlways, PTL

-----------------------------------------------------------------------------
(* The endpoint's time.                                                      *)

\* What a call had left when it was bounded; the header never has more, and the
\* endpoint gets what the header has.
Left(c) == IF Expiry(c) > boundAt[c] THEN Expiry(c) - boundAt[c] ELSE 0
Fits(c) == header[c] * Millisecond <= Left(c)
BudgetInv(c) ==
    /\ pc[c] \in {"idle", "connected"} => c \notin inflight
    /\ kind[c] = "request" /\ (pc[c] \in {"bounded", "waiting"} \/ c \in inflight) => Fits(c)
    /\ c \in served =>
          /\ c \in inflight /\ kind[c] = "request"
          /\ budget[c] = header[c] * Millisecond

Budgets == \A c \in Calls : BudgetInv(c)

\* Only Begin and Bound change the times a call's header is compared with.
LEMMA FitsKept ==
    ASSUME UNCHANGED times, NEW d \in Calls
    PROVE  Fits(d)' = Fits(d) /\ kind'[d] = kind[d] /\ header'[d] = header[d]
BY DEF times, Fits, Left, Expiry

LEMMA BudgetsStep ==
    ASSUME TypeOK, Budgets, [Next]_vars
    PROVE  Budgets'
<1> SUFFICES ASSUME NEW d \in Calls PROVE BudgetInv(d)'
  BY DEF Budgets
<1>0. BudgetInv(d)
  BY DEF Budgets
<1>1. ASSUME NEW c \in Calls, NEW t \in TimeoutsOf(c), Begin(c, t) PROVE BudgetInv(d)'
  <2>1. CASE d = c
    BY <1>0, <1>1, <2>1 DEF BudgetInv, Begin, Return, network, TypeOK
  <2>2. CASE d # c
    <3>1. Fits(d)' = Fits(d)
      BY <1>1, <2>2 DEF Fits, Left, Expiry, Begin, TypeOK
    <3> QED
      BY <1>0, <1>1, <2>2, <3>1 DEF BudgetInv, Begin, Return, network, TypeOK
  <2> QED
    BY <2>1, <2>2
<1>2. ASSUME NEW c \in Calls, Bound(c) PROVE BudgetInv(d)'
  <2> DEFINE wait == Sooner(timeout[c], TimeUntil(deadline[c]))
  <2>1. wait \in Nat /\ Millisecond \in Nat \ {0}
    BY WaitIsNatural, ConstantTypes DEF TypeOK
  <2>2. (wait \div Millisecond) * Millisecond <= wait
    BY <2>1, WholeMilliseconds
  <2>3. CASE d = c
    <3>1. header'[c] = wait \div Millisecond /\ boundAt'[c] = now
      BY <1>2 DEF Bound, BoundFor, TypeOK
    <3>2. Left(c)' = wait
      BY <1>2, <3>1, TimesAreNatural DEF Left, Expiry, Sooner, TimeUntil, Bound, BoundFor
    <3>3. Fits(c)'
      BY <2>2, <3>1, <3>2 DEF Fits
    <3>4. pc'[c] = "bounded" /\ c \notin inflight' /\ c \notin served'
      BY <1>0, <1>2, <2>3 DEF BudgetInv, Bound, BoundFor, network, TypeOK
    <3> QED
      BY <2>3, <3>3, <3>4 DEF BudgetInv
  <2>4. CASE d # c
    <3>1. Fits(d)' = Fits(d)
      BY <1>2, <2>4 DEF Fits, Left, Expiry, Bound, BoundFor, TypeOK
    <3> QED
      BY <1>0, <1>2, <2>4, <3>1 DEF BudgetInv, Bound, BoundFor, network, TypeOK
  <2> QED
    BY <2>3, <2>4
<1>3. ASSUME UNCHANGED times PROVE Fits(d)' = Fits(d) /\ kind'[d] = kind[d] /\ header'[d] = header[d]
  BY <1>3, FitsKept
<1>4. ASSUME NEW c \in Calls, Serve(c) PROVE BudgetInv(d)'
  BY <1>0, <1>3, <1>4 DEF BudgetInv, Serve, TypeOK
<1>5. ASSUME NEW c \in Calls, PublishCore(c) PROVE BudgetInv(d)'
  BY <1>0, <1>3, <1>5 DEF BudgetInv, PublishCore, Return, TypeOK
<1>6. ASSUME NEW c \in Calls, Send(c) PROVE BudgetInv(d)'
  BY <1>0, <1>3, <1>6 DEF BudgetInv, Send, TypeOK
<1>7. ASSUME NEW c \in Calls, FindsConnectionClosed(c) \/ ReturnsReply(c) \/ ContextDone(c)
      PROVE  BudgetInv(d)'
  BY <1>0, <1>3, <1>7 DEF BudgetInv, FindsConnectionClosed, ReturnsReply, ContextDone,
     ReturnsContextError, Return, network, TypeOK
<1>8. ASSUME NEW c \in Calls, ContextStep(c) \/ \E a \in Answers : Answered(c, a)
      PROVE  BudgetInv(d)'
  BY <1>0, <1>3, <1>8
     DEF BudgetInv, ContextStep, CallerCancels, CallerExpires, CallerDone, TimeoutFires, Answered, network
<1>9. CASE Close \/ CloseConnDirectly \/ TimePasses \/ UNCHANGED vars
  BY <1>0, <1>3, <1>9 DEF BudgetInv, Close, CloseConnDirectly, TimePasses, network, vars
<1> QED
  BY <1>1, <1>2, <1>4, <1>5, <1>6, <1>7, <1>8, <1>9 DEF Next, CallStep, WorldStep

\* An endpoint's handler gets no more time than the call had when it was bounded,
\* for any length of a millisecond: the header rounds down.
THEOREM EndpointBudgetFitsAlways == Spec => []EndpointBudgetFits
<1>1. Init => Budgets
  BY DEF Init, Budgets, BudgetInv
<1>2. TypeOK /\ Budgets => EndpointBudgetFits
  <2> SUFFICES ASSUME TypeOK, Budgets, NEW c \in served PROVE budget[c] <= Left(c)
    BY DEF Left, EndpointBudgetFits
  <2> QED
    BY DEF TypeOK, Budgets, BudgetInv, Fits
<1> QED
  BY <1>1, <1>2, TypeCorrect, BudgetsStep, PTL DEF Spec
=============================================================================
