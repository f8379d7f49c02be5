-------------------------- MODULE RedeliveryProofs --------------------------
(***************************************************************************)
(* Proofs about Redelivery, for any number of messages, instances, slots    *)
(* and deliveries: a message is handled again after a success only with an  *)
(* excuse; what is logged as final is final, and what is used up is logged, *)
(* when the instances write the same max_deliver; and no handler is cut     *)
(* short when they write the same waits.                                    *)
(***************************************************************************)
EXTENDS Redelivery, FiniteSetTheorems, WellFoundedInduction, TLAPS

-----------------------------------------------------------------------------
(* Numbers.                                                                  *)

\* A set of naturals that is not empty has a least element: of the intervals
\* below its elements, one contains no other (the library's theorem about finite
\* subsets).
LEMMA LeastNatural ==
  ASSUME NEW S \in SUBSET Nat, S # {}
  PROVE  \E x \in S : \A y \in S : x <= y
<1> DEFINE Below(x) == 0..(x - 1)
           B == {Below(x) : x \in S}
<1>0. ASSUME NEW x \in S PROVE Below(x) \in SUBSET Nat /\ IsFiniteSet(Below(x))
  <2>1. x \in Nat /\ 0 \in Int /\ x - 1 \in Int
    OBVIOUS
  <2>2. IsFiniteSet(Below(x))
    BY <2>1, FS_Interval
  <2> QED
    BY <2>1, <2>2
<1>1. B \subseteq FiniteSubsetsOf(Nat) /\ B # {}
  BY <1>0 DEF FiniteSubsetsOf
<1>2. PICK b \in B : \A a \in B : ~ (<<a, b>> \in StrictSubsetOrdering(Nat))
  BY <1>1, WFMin, FS_StrictSubsetOrderingWellFounded
<1>3. PICK x \in S : b = Below(x)
  OBVIOUS
<1>4. ASSUME NEW y \in S, y < x PROVE FALSE
  <2>1. Below(y) \in B /\ Below(y) \subseteq Nat /\ Below(x) \subseteq Nat
    OBVIOUS
  <2>2. Below(y) \subseteq Below(x) /\ y \in Below(x) /\ y \notin Below(y)
    BY <1>4
  <2> QED
    BY <1>2, <1>3, <2>1, <2>2 DEF StrictSubsetOrdering
<1> QED
  BY <1>4

\* Induction, on a set of naturals.
LEMMA BySteps ==
  ASSUME NEW S, 0 \in S, \A n \in Nat : n \in S => n + 1 \in S
  PROVE  Nat \subseteq S
<1> SUFFICES ASSUME Nat \ S # {} PROVE FALSE
  OBVIOUS
<1>1. PICK x \in Nat \ S : \A y \in Nat \ S : x <= y
  BY LeastNatural
<1>2. x - 1 \in Nat
  BY <1>1
<1>3. x - 1 \in S
  BY <1>1, <1>2
<1> QED
  BY <1>1, <1>2, <1>3

\* Max of a finite set of naturals: what a cap like Longest rests on.  The set is
\* counted by 1..n, so by induction on n it has a bound; its least bound is one
\* of its elements.
LEMMA GreatestOfFinite ==
  ASSUME NEW S \in SUBSET Nat, IsFiniteSet(S), S # {}
  PROVE  Max(S) \in S /\ \A y \in S : y <= Max(S)
<1>1. PICK n \in Nat : ExistsSurjection(1..n, S)
  BY FS_NatSurjection
<1>f. PICK f \in [1..n -> S] : \A y \in S : \E i \in 1..n : f[i] = y
  BY <1>1 DEF ExistsSurjection, Surjection
<1> DEFINE Bounded == {k \in Nat : \E b \in Nat : \A i \in 1..n : i <= k => f[i] <= b}
<1>2. 0 \in Bounded
  OBVIOUS
<1>3. ASSUME NEW k \in Nat, k \in Bounded PROVE k + 1 \in Bounded
  <2>1. PICK b \in Nat : \A i \in 1..n : i <= k => f[i] <= b
    BY <1>3
  <2>2. CASE k + 1 \in 1..n
    <3>1. f[k + 1] \in Nat
      BY <1>f, <2>2
    <3>2. \A i \in 1..n : i <= k + 1 => f[i] \in Nat /\ f[i] <= b + f[k + 1]
      <4> TAKE i \in 1..n
      <4>1. f[i] \in Nat
        BY <1>f
      <4> QED
        BY <2>1, <3>1, <4>1
    <3>3. b + f[k + 1] \in Nat
      BY <3>1
    <3>4. \E c \in Nat : \A i \in 1..n : i <= k + 1 => f[i] <= c
      BY <3>2, <3>3
    <3> QED
      BY <3>4
  <2>3. CASE k + 1 \notin 1..n
    BY <2>1, <2>3
  <2> QED
    BY <2>2, <2>3
<1>4. n \in Bounded
  <2> HIDE DEF Bounded
  <2> QED
    BY <1>2, <1>3, BySteps
<1>5. PICK b \in Nat : \A y \in S : y <= b
  <2>1. PICK b \in Nat : \A i \in 1..n : i <= n => f[i] <= b
    BY <1>4
  <2>2. \A i \in 1..n : f[i] <= b
    BY <2>1
  <2> QED
    BY <2>2, <1>f
<1> DEFINE Uppers == {u \in Nat : \A y \in S : y <= u}
<1>6. PICK u \in Uppers : \A v \in Uppers : u <= v
  BY <1>5, LeastNatural
<1>7. u \in S
  <2> SUFFICES ASSUME u \notin S PROVE FALSE
    OBVIOUS
  <2>1. PICK z \in S : TRUE
    OBVIOUS
  <2>2. \A y \in S : y \in Nat /\ y <= u - 1
    BY <1>6
  <2>3. u - 1 \in Nat
    BY <1>6, <2>1, <2>2
  <2> QED
    BY <1>6, <2>2, <2>3
<1>8. \E m \in S : \A y \in S : m >= y
  BY <1>6, <1>7
<1> QED
  BY <1>8 DEF Max

\* Min and Max of two numbers.
LEMMA OfTwo ==
  ASSUME NEW a \in Int, NEW b \in Int
  PROVE  /\ Min({a, b}) = IF a <= b THEN a ELSE b
         /\ Max({a, b}) = IF a >= b THEN a ELSE b
<1>1. \E x \in {a, b} : \A y \in {a, b} : x <= y
  OBVIOUS
<1>2. \E x \in {a, b} : \A y \in {a, b} : x >= y
  OBVIOUS
<1>3. Min({a, b}) \in {a, b} /\ \A y \in {a, b} : Min({a, b}) <= y
  BY <1>1 DEF Min
<1>4. Max({a, b}) \in {a, b} /\ \A y \in {a, b} : Max({a, b}) >= y
  BY <1>2 DEF Max
<1> QED
  BY <1>3, <1>4

-----------------------------------------------------------------------------
(* Types: what the proofs about steps need to know of the functions.         *)

Places == {"none", "buffered", "waiting", "handling", "over", "lost"}
Phases == {"ready", "pending", "nacked", "acked", "gone"}

Typed ==
    /\ phase \in [Messages -> Phases]
    /\ count \in [Messages -> Nat]
    /\ at \in [Messages -> [Numbers -> Places]]
    /\ successes \in [Messages -> Nat]

LEMMA InitTyped == Init => Typed
BY DEF Init, Typed, Places, Phases

\* A delivery is put somewhere.
LEMMA PlaceTyped ==
  ASSUME Typed, NEW m \in Messages, NEW n, NEW p \in Places, Place(m, n, p)
  PROVE  /\ at' \in [Messages -> [Numbers -> Places]]
         /\ \A k \in Messages, l \in Numbers :
              at'[k][l] = IF k = m /\ l = n THEN p ELSE at[k][l]
<1>1. at \in [Messages -> [Numbers -> Places]] /\ at' = [at EXCEPT ![m][n] = p]
  BY DEF Typed, Place
<1> QED
  BY <1>1

\* Naks.
LEMMA NackedTyped ==
  ASSUME Typed, NEW M, Nacked(M)
  PROVE  /\ phase' \in [Messages -> Phases]
         /\ \A m \in Messages : phase'[m] = IF m \in M THEN AfterNak(phase[m]) ELSE phase[m]
<1>1. phase \in [Messages -> Phases]
  BY DEF Typed
<1>2. ASSUME NEW m \in Messages PROVE AfterNak(phase[m]) \in Phases
  BY <1>1 DEF AfterNak, Phases
<1>3. phase' = [m \in Messages |-> IF m \in M THEN AfterNak(phase[m]) ELSE phase[m]]
  BY DEF Nacked
<1> QED
  BY <1>1, <1>2, <1>3

\* An exit takes the instance's deliveries, and excuses their messages.
LEMMA ExitTyped ==
  ASSUME Typed, NEW i, Exit(i)
  PROVE  /\ at' \in [Messages -> [Numbers -> Places]]
         /\ UNCHANGED <<count, successes>>
         /\ \A m \in Messages, n \in Numbers :
              at'[m][n] = at[m][n] \/ (at'[m][n] = "lost" /\ at[m][n] \in Live)
         /\ excused \subseteq excused'
         /\ \A m \in Messages, n \in Numbers :
              m \notin excused' => at'[m][n] = at[m][n]
<1>1. at \in [Messages -> [Numbers -> Places]]
  BY DEF Typed
<1>2. at' = [m \in Messages |-> [n \in Numbers |->
                IF <<m, n>> \in Has(i, Live) THEN "lost" ELSE at[m][n]]]
  BY DEF Exit
<1>3. excused' = excused \cup {d[1] : d \in Has(i, Live)}
  BY DEF Exit
<1>4. ASSUME NEW m \in Messages, NEW n \in Numbers, <<m, n>> \in Has(i, Live)
      PROVE  m \in excused' /\ at[m][n] \in Live
  <2>1. at[<<m, n>>[1]][<<m, n>>[2]] \in Live
    BY <1>4 DEF Has
  <2>2. <<m, n>>[1] \in {d[1] : d \in Has(i, Live)}
    BY <1>4
  <2> QED
    BY <1>3, <2>1, <2>2
<1>5. UNCHANGED <<count, successes>>
  BY DEF Exit
<1>6. at' \in [Messages -> [Numbers -> Places]]
  BY <1>1, <1>2 DEF Places
<1> QED
  BY <1>2, <1>3, <1>4, <1>5, <1>6

\* Every step keeps the types.
LEMMA TypedStep ==
  ASSUME Typed, [Next]_vars
  PROVE  Typed'
<1>t. /\ phase \in [Messages -> Phases] /\ count \in [Messages -> Nat]
      /\ at \in [Messages -> [Numbers -> Places]] /\ successes \in [Messages -> Nat]
  BY DEF Typed
<1>1. CASE UNCHANGED <<phase, count, at, successes>>
  BY <1>1, <1>t DEF Typed
<1>2. ASSUME NEW m \in Messages, ServerStep(m) PROVE Typed'
  <2>1. ASSUME NEW i \in Instances, Send(m, i) PROVE Typed'
    <3>1. at' \in [Messages -> [Numbers -> Places]]
      <4>1. Place(m, count[m] + 1, "buffered") /\ "buffered" \in Places
        BY <2>1 DEF Send, Places
      <4> QED
        BY <4>1, PlaceTyped
    <3>2. count' \in [Messages -> Nat] /\ phase' \in [Messages -> Phases]
      BY <1>t, <2>1 DEF Send, Phases
    <3> QED
      BY <1>t, <2>1, <3>1, <3>2 DEF Typed, Send, history
  <2>2. CASE GiveUp(m)
    BY <1>t, <2>2 DEF Typed, GiveUp, Phases, local, history
  <2>3. CASE SendAgain(m)
    BY <1>t, <2>3 DEF Typed, SendAgain, Phases, local
  <2> QED
    BY <1>2, <2>1, <2>2, <2>3 DEF ServerStep
<1>3. ASSUME NEW m \in Messages, NEW n \in Numbers, LocalStep(m, n) PROVE Typed'
  <2>1. at' \in [Messages -> [Numbers -> Places]]
    <3>1. \E p \in Places : Place(m, n, p)
      BY <1>3 DEF LocalStep, Receive, BeginHandler, Places
    <3> QED
      BY <3>1, PlaceTyped
  <2> QED
    BY <1>3, <1>t, <2>1 DEF Typed, LocalStep, Receive, BeginHandler, server, history
<1>4. ASSUME NEW m \in Messages, NEW n \in Numbers, HandlerReturns(m, n) PROVE Typed'
  <2>1. at' \in [Messages -> [Numbers -> Places]]
    <3>1. Place(m, n, "over") /\ "over" \in Places
      BY <1>4 DEF HandlerReturns, Succeed, SucceedUnacked, Fail, Places
    <3> QED
      BY <3>1, PlaceTyped
  <2>2. CASE Succeed(m, n)
    <3>1. phase' \in [Messages -> Phases]
      BY <1>t, <2>2 DEF Succeed, Acked, Phases
    <3>2. successes' \in [Messages -> Nat] /\ count' = count
      BY <1>t, <2>2 DEF Succeed
    <3> QED
      BY <1>t, <2>1, <3>1, <3>2 DEF Typed
  <2>3. CASE SucceedUnacked(m, n)
    <3>1. successes' \in [Messages -> Nat] /\ UNCHANGED <<phase, count>>
      BY <1>t, <2>3 DEF SucceedUnacked, server
    <3> QED
      BY <1>t, <2>1, <3>1 DEF Typed
  <2>4. CASE Fail(m, n)
    <3>1. phase' \in [Messages -> Phases]
      <4>1. Nacked({m}) \/ phase' = phase
        BY <2>4 DEF Fail
      <4> QED
        BY <1>t, <4>1, NackedTyped
    <3> QED
      BY <1>t, <2>1, <2>4, <3>1 DEF Typed, Fail
  <2> QED
    BY <1>4, <2>2, <2>3, <2>4 DEF HandlerReturns
<1>5. ASSUME NEW i \in Instances, ProcessStep(i) PROVE Typed'
  <2>1. CASE StartInstance(i) \/ BeginStop(i)
    BY <1>1, <2>1 DEF StartInstance, BeginStop, server, local, history
  <2>2. CASE StopDrained(i) \/ Crash(i)
    <3>1. Exit(i) /\ phase' = phase
      BY <2>2 DEF StopDrained, Crash
    <3> QED
      BY <1>t, <3>1, ExitTyped DEF Typed
  <2>3. CASE StopAbandons(i)
    <3>1. Exit(i) /\ \E M : Nacked(M)
      BY <2>3 DEF StopAbandons
    <3> QED
      BY <1>t, <3>1, ExitTyped, NackedTyped DEF Typed
  <2> QED
    BY <1>5, <2>1, <2>2, <2>3 DEF ProcessStep
<1>6. CASE Tick \/ UNCHANGED vars
  BY <1>1, <1>6 DEF Tick, vars, server, local, history
<1> QED
  BY <1>2, <1>3, <1>4, <1>5, <1>6 DEF Next

-----------------------------------------------------------------------------
(* A message is handled again only with an excuse.                           *)

\* Without an excuse, the latest delivery is the only one there can be, and only
\* while the server waits for it; and after a success, the server has the ack.
Once(m) ==
    m \notin excused =>
        /\ \A n \in Numbers : at[m][n] \in Live => n = count[m] /\ phase[m] = "pending"
        /\ successes[m] > 0 => phase[m] = "acked"
        /\ successes[m] <= 1

OnceInv == Typed /\ \A m \in Messages : Once(m)

LEMMA SendOnce ==
  ASSUME OnceInv, NEW m \in Messages, NEW i, Send(m, i), NEW k \in Messages
  PROVE  Once(k)'
<1>t. /\ Typed /\ Once(k)
      /\ phase \in [Messages -> Phases] /\ count \in [Messages -> Nat]
  BY DEF OnceInv, Typed
<1>1. /\ phase[m] = "ready" /\ phase' = [phase EXCEPT ![m] = "pending"]
      /\ count' = [count EXCEPT ![m] = count[m] + 1]
      /\ UNCHANGED <<successes, excused>>
  BY DEF Send, history
<1>2. \A l \in Numbers :
        at'[k][l] = IF k = m /\ l = count[m] + 1 THEN "buffered" ELSE at[k][l]
  <2>1. Place(m, count[m] + 1, "buffered") /\ "buffered" \in Places
    BY DEF Send, Places
  <2> QED
    BY <1>t, <2>1, PlaceTyped
<1>3. CASE k = m
  BY <1>t, <1>1, <1>2, <1>3 DEF Once
<1>4. CASE k # m
  <2>1. phase'[k] = phase[k] /\ count'[k] = count[k]
    BY <1>t, <1>1, <1>4
  <2> QED
    BY <1>t, <1>1, <1>2, <1>4, <2>1 DEF Once
<1> QED
  BY <1>3, <1>4

\* The server has sent the message for the last time, or may send it again.
LEMMA TurnOnce ==
  ASSUME OnceInv, NEW m \in Messages, GiveUp(m) \/ SendAgain(m), NEW k \in Messages
  PROVE  Once(k)'
<1>t. /\ Typed /\ Once(k) /\ Once(m)
      /\ phase \in [Messages -> Phases] /\ count \in [Messages -> Nat]
  BY DEF OnceInv, Typed
<1>1. CASE GiveUp(m)
  <2>1. /\ phase[m] = "ready" /\ phase' = [phase EXCEPT ![m] = "gone"]
        /\ UNCHANGED <<count, at, successes, excused>>
    BY <1>1 DEF GiveUp, local, history
  <2> QED
    BY <1>t, <2>1 DEF Once
<1>2. CASE SendAgain(m)
  <2>1. /\ phase[m] \in {"pending", "nacked"} /\ phase' = [phase EXCEPT ![m] = "ready"]
        /\ UNCHANGED <<count, at, successes>>
        /\ excused' = IF phase[m] = "pending" /\ at[m][count[m]] \in Live
                        THEN excused \cup {m} ELSE excused
    BY <1>2 DEF SendAgain, local
  <2> QED
    BY <1>t, <2>1 DEF Once
<1> QED
  BY <1>1, <1>2

\* A callback has the message, or a handler.
LEMMA LocalOnce ==
  ASSUME OnceInv, NEW m \in Messages, NEW n \in Numbers, LocalStep(m, n), NEW k \in Messages
  PROVE  Once(k)'
<1>t. Typed /\ Once(k)
  BY DEF OnceInv
<1>1. UNCHANGED <<phase, count, successes, excused>> /\ at[m][n] \in Live
  BY DEF LocalStep, Receive, BeginHandler, server, history, Live
<1>2. \A l \in Numbers : at'[k][l] \in Live => at[k][l] \in Live
  <2>1. \E p \in Places : Place(m, n, p)
    BY DEF LocalStep, Receive, BeginHandler, Places
  <2> QED
    BY <1>t, <1>1, <2>1, PlaceTyped
<1> QED
  BY <1>t, <1>1, <1>2 DEF Once

\* A handler returns.
LEMMA ReturnOnce ==
  ASSUME OnceInv, NEW m \in Messages, NEW n \in Numbers, HandlerReturns(m, n),
         NEW k \in Messages
  PROVE  Once(k)'
<1>t. /\ Typed /\ Once(k) /\ Once(m)
      /\ phase \in [Messages -> Phases] /\ count \in [Messages -> Nat]
      /\ successes \in [Messages -> Nat]
  BY DEF OnceInv, Typed
<1>1. at[m][n] \in Live
  BY DEF HandlerReturns, Succeed, SucceedUnacked, Fail, Live
<1>2. \A l \in Numbers : at'[k][l] = IF k = m /\ l = n THEN "over" ELSE at[k][l]
  <2>1. Place(m, n, "over") /\ "over" \in Places
    BY DEF HandlerReturns, Succeed, SucceedUnacked, Fail, Places
  <2> QED
    BY <1>t, <2>1, PlaceTyped
<1>3. count' = count /\ excused \subseteq excused'
  BY DEF HandlerReturns, Succeed, SucceedUnacked, Fail, server
<1>4. CASE k # m
  <2>1. successes'[k] = successes[k]
    BY <1>t, <1>4 DEF HandlerReturns, Succeed, SucceedUnacked, Fail
  <2>2. phase'[k] = phase[k]
    <3>1. CASE Succeed(m, n)
      BY <1>t, <1>4, <3>1 DEF Succeed, Acked
    <3>2. CASE SucceedUnacked(m, n)
      BY <3>2 DEF SucceedUnacked, server
    <3>3. CASE Fail(m, n)
      <4>1. Nacked({m}) \/ phase' = phase
        BY <3>3 DEF Fail
      <4> QED
        BY <1>t, <1>4, <4>1, NackedTyped
    <3> QED
      BY <3>1, <3>2, <3>3 DEF HandlerReturns
  <2> QED
    BY <1>t, <1>2, <1>3, <1>4, <2>1, <2>2 DEF Once
<1>5. CASE k = m
  <2> SUFFICES ASSUME m \notin excused' PROVE Once(m)'
    BY <1>5 DEF Once
  <2>1. /\ n = count[m] /\ phase[m] = "pending" /\ successes[m] = 0
        /\ \A l \in Numbers : l # n => at[m][l] \notin Live
    BY <1>t, <1>1, <1>3 DEF Once
  <2>2. \A l \in Numbers : at'[m][l] \notin Live
    BY <1>2, <1>5, <2>1 DEF Live
  <2>3. CASE Succeed(m, n)
    <3>1. phase'[m] = "acked" /\ successes'[m] = 1
      BY <1>t, <2>1, <2>3 DEF Succeed, Acked
    <3> QED
      BY <2>2, <3>1 DEF Once
  <2>4. CASE SucceedUnacked(m, n)
    BY <2>4 DEF SucceedUnacked
  <2>5. CASE Fail(m, n)
    <3>1. successes'[m] = 0
      BY <2>1, <2>5 DEF Fail
    <3> QED
      BY <2>2, <3>1 DEF Once
  <2> QED
    BY <2>3, <2>4, <2>5 DEF HandlerReturns
<1> QED
  BY <1>4, <1>5

\* An instance stops or crashes: what it naks is of messages it had, and those
\* are excused.
LEMMA ProcessOnce ==
  ASSUME OnceInv, NEW i \in Instances, ProcessStep(i), NEW k \in Messages
  PROVE  Once(k)'
<1>t. /\ Typed /\ Once(k)
  BY DEF OnceInv
<1>1. CASE StartInstance(i) \/ BeginStop(i)
  <2>1. UNCHANGED <<phase, count, at, successes, excused>>
    BY <1>1 DEF StartInstance, BeginStop, server, local, history
  <2> QED
    BY <1>t, <2>1 DEF Once
<1>2. CASE StopDrained(i) \/ Crash(i) \/ StopAbandons(i)
  <2> SUFFICES ASSUME k \notin excused' PROVE Once(k)'
    BY DEF Once
  <2>1. /\ Exit(i) /\ \/ phase' = phase
                      \/ \E M : Nacked(M) /\ M \subseteq {d[1] : d \in Has(i, Live)}
    <3>1. CASE StopDrained(i) \/ Crash(i)
      BY <3>1 DEF StopDrained, Crash
    <3>2. CASE StopAbandons(i)
      <4>1. PICK B \in SUBSET Has(i, {"buffered"}) :
              Nacked({d[1] : d \in B \cup Has(i, {"waiting", "handling"})})
        BY <3>2 DEF StopAbandons
      <4>2. B \cup Has(i, {"waiting", "handling"}) \subseteq Has(i, Live)
        BY DEF Has, Live
      <4>3. {d[1] : d \in B \cup Has(i, {"waiting", "handling"})}
               \subseteq {d[1] : d \in Has(i, Live)}
        BY <4>2
      <4>4. Exit(i)
        BY <3>2 DEF StopAbandons
      <4> QED
        BY <4>1, <4>3, <4>4
    <3> QED
      BY <1>2, <3>1, <3>2
  <2>2. k \notin {d[1] : d \in Has(i, Live)}
    BY <2>1 DEF Exit
  <2>3. phase'[k] = phase[k]
    BY <1>t, <2>1, <2>2, NackedTyped
  <2>4. /\ UNCHANGED <<count, successes>> /\ k \notin excused
        /\ \A n \in Numbers : at'[k][n] = at[k][n]
    BY <1>t, <2>1, ExitTyped
  <2> QED
    BY <1>t, <2>3, <2>4 DEF Once
<1> QED
  BY <1>1, <1>2 DEF ProcessStep

LEMMA OnceStep ==
  ASSUME OnceInv, [Next]_vars
  PROVE  OnceInv'
<1>1. Typed'
  BY TypedStep DEF OnceInv
<1>2. ASSUME NEW k \in Messages PROVE Once(k)'
  <2>1. ASSUME NEW m \in Messages, ServerStep(m) PROVE Once(k)'
    BY <2>1, SendOnce, TurnOnce DEF ServerStep
  <2>2. CASE \E m \in Messages, n \in Numbers : LocalStep(m, n) \/ HandlerReturns(m, n)
    BY <2>2, LocalOnce, ReturnOnce
  <2>3. CASE \E i \in Instances : ProcessStep(i)
    BY <2>3, ProcessOnce
  <2>4. CASE Tick \/ UNCHANGED vars
    <3>1. UNCHANGED <<phase, count, at, successes, excused>>
      BY <2>4 DEF Tick, vars, server, local, history
    <3> QED
      BY <3>1 DEF OnceInv, Once
  <2> QED
    BY <2>1, <2>2, <2>3, <2>4 DEF Next
<1> QED
  BY <1>1, <1>2 DEF OnceInv

\* While nothing excuses it, a message has one delivery at work at most, and one
\* success at most (serveJetStream acks a success).
THEOREM OnceInvAlways == Spec => []OnceInv
<1>1. Init => OnceInv
  <2>1. ASSUME Init PROVE \A m \in Messages : Once(m)
    BY <2>1 DEF Init, Once, Live
  <2> QED
    BY <2>1, InitTyped DEF OnceInv
<1>2. OnceInv /\ [Next]_vars => OnceInv'
  BY OnceStep
<1> QED
  BY <1>1, <1>2, PTL DEF Spec

\* A message is handled again after a success only because of a missed
\* deadline, a failed ack, or an instance that stopped or crashed with it: never
\* because of what the runtime sent.
THEOREM HandledOnceUnlessExcusedAlways == Spec => []HandledOnceUnlessExcused
<1>1. OnceInv => HandledOnceUnlessExcused
  <2> SUFFICES ASSUME OnceInv, NEW m \in Messages, successes[m] > 1, m \notin excused
               PROVE  FALSE
    BY DEF HandledOnceUnlessExcused
  <2>1. successes[m] \in Nat /\ successes[m] <= 1
    BY DEF OnceInv, Typed, Once
  <2> QED
    BY <2>1
<1> QED
  BY <1>1, OnceInvAlways, PTL

-----------------------------------------------------------------------------
(* What a step can do to an instance's settings and to a delivery.           *)

Somebody == CHOOSE i \in Instances : TRUE

\* An instance that has started has read back the settings it wrote, and the
\* server has somebody's.
Configured ==
    /\ inst \in [Instances -> {"down", "up", "draining"}]
    /\ read \in [Instances -> ConsumerSettings \cup {<<>>}]
    /\ who \in [Messages -> [Numbers -> Instances \cup {Somebody}]]
    /\ consumer = <<>> \/ \E j \in Instances : consumer = Written[j]
    /\ \A i \in Instances : inst[i] # "down" \/ read[i] # <<>> =>
         read[i] = Written[i] /\ \E j \in Instances : consumer = Written[j]

LEMMA InitConfigured == Init => Configured
BY DEF Init, Configured, Somebody

LEMMA ConfiguredStep ==
  ASSUME Configured, [Next]_vars
  PROVE  /\ Configured'
         /\ \A i \in Instances : read[i] = Written[i] => read'[i] = Written[i]
<1>t. /\ inst \in [Instances -> {"down", "up", "draining"}]
      /\ read \in [Instances -> ConsumerSettings \cup {<<>>}]
      /\ who \in [Messages -> [Numbers -> Instances \cup {Somebody}]]
  BY DEF Configured
<1>1. CASE UNCHANGED <<inst, read, who, consumer>>
  BY <1>1 DEF Configured
<1>2. ASSUME NEW i \in Instances, StartInstance(i)
      PROVE  /\ Configured'
             /\ \A j \in Instances : read[j] = Written[j] => read'[j] = Written[j]
  <2>1. /\ inst' = [inst EXCEPT ![i] = "up"] /\ consumer' = Written[i]
        /\ read' = [read EXCEPT ![i] = Written[i]] /\ who' = who
    BY <1>2 DEF StartInstance, local
  <2>2. Written[i] \in ConsumerSettings
    BY WrittenAssumption
  <2>3. /\ inst' \in [Instances -> {"down", "up", "draining"}]
        /\ read' \in [Instances -> ConsumerSettings \cup {<<>>}]
    BY <1>t, <2>1, <2>2
  <2>4. ASSUME NEW j \in Instances, inst'[j] # "down" \/ read'[j] # <<>>
        PROVE  read'[j] = Written[j]
    BY <1>t, <2>1, <2>4 DEF Configured
  <2> QED
    BY <1>t, <2>1, <2>3, <2>4 DEF Configured
<1>3. ASSUME NEW i \in Instances, NEW m \in Messages, Send(m, i) PROVE Configured' /\ read' = read
  <2>1. /\ who' = [who EXCEPT ![m][count[m] + 1] = i]
        /\ UNCHANGED <<inst, read, consumer>>
    BY <1>3 DEF Send, processes
  <2>2. who' \in [Messages -> [Numbers -> Instances \cup {Somebody}]]
    BY <1>t, <2>1
  <2> QED
    BY <2>1, <2>2 DEF Configured
<1>4. ASSUME NEW i \in Instances, BeginStop(i) \/ StopDrained(i) \/ StopAbandons(i) \/ Crash(i)
      PROVE  Configured' /\ read' = read
  <2>1. /\ inst[i] # "down" /\ UNCHANGED <<read, who, consumer>>
        /\ \E s \in {"down", "draining"} : inst' = [inst EXCEPT ![i] = s]
    BY <1>4 DEF BeginStop, StopDrained, StopAbandons, Crash, Exit, server, local
  <2> QED
    BY <1>t, <2>1 DEF Configured
<1>5. ASSUME NEW m \in Messages, GiveUp(m) \/ SendAgain(m)
      PROVE  UNCHANGED <<inst, read, who, consumer>>
  BY <1>5 DEF GiveUp, SendAgain, processes, local
<1>6. ASSUME NEW m \in Messages, NEW n \in Numbers, LocalStep(m, n) \/ HandlerReturns(m, n)
      PROVE  UNCHANGED <<inst, read, who, consumer>>
  BY <1>6 DEF LocalStep, Receive, BeginHandler, HandlerReturns, Succeed, SucceedUnacked, Fail,
     processes, server
<1>7. Tick \/ UNCHANGED vars => UNCHANGED <<inst, read, who, consumer>>
  BY DEF Tick, vars, processes, server, local
<1> QED
  BY <1>1, <1>2, <1>3, <1>4, <1>5, <1>6, <1>7 DEF Next, ServerStep, ProcessStep

\* A delivery that there is was there, with the same instance, or has just been
\* sent; and it ends in a handler when its handler returns.
LEMMA DeliveryStep ==
  ASSUME Typed, Configured, [Next]_vars, NEW k \in Messages, NEW l \in Numbers
  PROVE  /\ at'[k][l] # "none" =>
              \/ at[k][l] # "none" /\ who'[k][l] = who[k][l]
              \/ \E i \in Instances : Send(k, i) /\ l = count[k] + 1 /\ who'[k][l] = i
         /\ at'[k][l] = "over" =>
              \/ at[k][l] = "over" /\ who'[k][l] = who[k][l]
              \/ HandlerReturns(k, l)
<1> DEFINE Goal ==
      /\ at'[k][l] # "none" =>
           \/ at[k][l] # "none" /\ who'[k][l] = who[k][l]
           \/ \E i \in Instances : Send(k, i) /\ l = count[k] + 1 /\ who'[k][l] = i
      /\ at'[k][l] = "over" =>
           \/ at[k][l] = "over" /\ who'[k][l] = who[k][l]
           \/ HandlerReturns(k, l)
<1> SUFFICES Goal
  OBVIOUS
<1>1. CASE UNCHANGED <<at, who>>
  BY <1>1
<1>2. ASSUME NEW m \in Messages, NEW i \in Instances, Send(m, i) PROVE Goal
  <2>1. at'[k][l] = IF k = m /\ l = count[m] + 1 THEN "buffered" ELSE at[k][l]
    <3>1. Place(m, count[m] + 1, "buffered") /\ "buffered" \in Places
      BY <1>2 DEF Send, Places
    <3> QED
      BY <3>1, PlaceTyped
  <2>2. who'[k][l] = IF k = m /\ l = count[m] + 1 THEN i ELSE who[k][l]
    <3>1. who' = [who EXCEPT ![m][count[m] + 1] = i]
      BY <1>2 DEF Send
    <3>2. who \in [Messages -> [Numbers -> Instances \cup {Somebody}]]
      BY DEF Configured
    <3> QED
      BY <3>1, <3>2
  <2> QED
    BY <1>2, <2>1, <2>2
<1>3. ASSUME NEW m \in Messages, NEW n \in Numbers, LocalStep(m, n) PROVE Goal
  <2>1. who' = who /\ at[m][n] # "none"
    BY <1>3 DEF LocalStep, Receive, BeginHandler
  <2>2. at'[k][l] = at[k][l] \/ (k = m /\ l = n /\ at'[k][l] # "over")
    <3>1. \E p \in {"waiting", "handling"} : Place(m, n, p)
      BY <1>3 DEF LocalStep, Receive, BeginHandler
    <3>2. {"waiting", "handling"} \subseteq Places /\ "over" \notin {"waiting", "handling"}
      BY DEF Places
    <3> QED
      BY <3>1, <3>2, PlaceTyped
  <2> QED
    BY <2>1, <2>2
<1>4. ASSUME NEW m \in Messages, NEW n \in Numbers, HandlerReturns(m, n) PROVE Goal
  <2>1. who' = who /\ at[m][n] # "none"
    BY <1>4 DEF HandlerReturns, Succeed, SucceedUnacked, Fail
  <2>2. at'[k][l] = IF k = m /\ l = n THEN "over" ELSE at[k][l]
    <3>1. Place(m, n, "over") /\ "over" \in Places
      BY <1>4 DEF HandlerReturns, Succeed, SucceedUnacked, Fail, Places
    <3> QED
      BY <3>1, PlaceTyped
  <2> QED
    BY <1>4, <2>1, <2>2
<1>5. ASSUME NEW i \in Instances, StopDrained(i) \/ StopAbandons(i) \/ Crash(i) PROVE Goal
  <2>1. Exit(i) /\ who' = who
    BY <1>5 DEF StopDrained, StopAbandons, Crash, Exit
  <2>2. at'[k][l] = at[k][l] \/ (at'[k][l] = "lost" /\ at[k][l] \in Live)
    BY <2>1, ExitTyped
  <2> QED
    BY <2>1, <2>2 DEF Live
<1>6. ASSUME NEW m \in Messages, GiveUp(m) \/ SendAgain(m) PROVE UNCHANGED <<at, who>>
  BY <1>6 DEF GiveUp, SendAgain, local
<1>7. ASSUME NEW i \in Instances, StartInstance(i) \/ BeginStop(i) PROVE UNCHANGED <<at, who>>
  BY <1>7 DEF StartInstance, BeginStop, local
<1>8. Tick \/ UNCHANGED vars => UNCHANGED <<at, who>>
  BY DEF Tick, vars, local
<1> HIDE DEF Goal
<1> QED
  BY <1>1, <1>2, <1>3, <1>4, <1>5, <1>6, <1>7, <1>8 DEF Next, ServerStep, ProcessStep

\* A message is counted when it is sent.
LEMMA CountStep ==
  ASSUME Typed, [Next]_vars, NEW k \in Messages
  PROVE  \/ count'[k] = count[k]
         \/ \E i \in Instances : Send(k, i) /\ count'[k] = count[k] + 1
<1>t. count \in [Messages -> Nat]
  BY DEF Typed
<1> DEFINE Goal == \/ count'[k] = count[k]
                   \/ \E i \in Instances : Send(k, i) /\ count'[k] = count[k] + 1
<1> SUFFICES Goal
  OBVIOUS
<1>1. ASSUME NEW m \in Messages, ServerStep(m) PROVE Goal
  <2>1. ASSUME NEW i \in Instances, Send(m, i) PROVE Goal
    <3>1. count' = [count EXCEPT ![m] = count[m] + 1]
      BY <2>1 DEF Send
    <3> QED
      BY <1>t, <2>1, <3>1
  <2>2. CASE GiveUp(m) \/ SendAgain(m)
    BY <2>2 DEF GiveUp, SendAgain
  <2> QED
    BY <1>1, <2>1, <2>2 DEF ServerStep
<1>2. ASSUME NEW m \in Messages, NEW n \in Numbers, LocalStep(m, n) \/ HandlerReturns(m, n)
      PROVE  count' = count
  BY <1>2 DEF LocalStep, Receive, BeginHandler, HandlerReturns, Succeed, SucceedUnacked, Fail, server
<1>3. ASSUME NEW i \in Instances, ProcessStep(i) PROVE count' = count
  BY <1>3 DEF ProcessStep, StartInstance, BeginStop, StopDrained, StopAbandons, Crash, Exit, server
<1>4. Tick \/ UNCHANGED vars => count' = count
  BY DEF Tick, vars, server
<1> QED
  BY <1>1, <1>2, <1>3, <1>4 DEF Next

\* What is logged stays logged, and is logged by a handler that failed; what has
\* succeeded has succeeded; and the server gives up only on what is used up.
LEMMA LogStep ==
  ASSUME Typed, [Next]_vars
  PROVE  /\ final \subseteq final'
         /\ \A k \in final' : \/ k \in final
                             \/ \E n \in Numbers : /\ k \in Messages /\ Fail(k, n)
                                                  /\ LastDelivery(read[who[k][n]], n)
         /\ \A k \in Messages : successes[k] > 0 => successes'[k] > 0
         /\ \A k \in Messages : phase'[k] = "gone" => phase[k] = "gone" \/ GiveUp(k)
<1>t. phase \in [Messages -> Phases] /\ successes \in [Messages -> Nat]
  BY DEF Typed
<1> DEFINE Goal ==
      /\ final \subseteq final'
      /\ \A k \in final' : \/ k \in final
                          \/ \E n \in Numbers : /\ k \in Messages /\ Fail(k, n)
                                               /\ LastDelivery(read[who[k][n]], n)
      /\ \A k \in Messages : successes[k] > 0 => successes'[k] > 0
      /\ \A k \in Messages : phase'[k] = "gone" => phase[k] = "gone" \/ GiveUp(k)
<1> SUFFICES Goal
  OBVIOUS
<1>n. ASSUME NEW M, Nacked(M), NEW k \in Messages, phase'[k] = "gone" PROVE phase[k] = "gone"
  <2>1. phase'[k] = phase[k] \/ phase'[k] = AfterNak(phase[k])
    BY <1>n, NackedTyped
  <2> QED
    BY <1>n, <2>1 DEF AfterNak
<1>1. CASE UNCHANGED <<final, successes, phase>>
  BY <1>1
<1>2. ASSUME NEW m \in Messages, ServerStep(m) PROVE Goal
  <2>1. ASSUME NEW i \in Instances, Send(m, i) PROVE Goal
    BY <1>t, <2>1 DEF Send, history
  <2>2. CASE GiveUp(m)
    BY <1>t, <2>2 DEF GiveUp, history
  <2>3. CASE SendAgain(m)
    BY <1>t, <2>3 DEF SendAgain
  <2> QED
    BY <1>2, <2>1, <2>2, <2>3 DEF ServerStep
<1>3. ASSUME NEW m \in Messages, NEW n \in Numbers, LocalStep(m, n)
      PROVE  UNCHANGED <<final, successes, phase>>
  BY <1>3 DEF LocalStep, Receive, BeginHandler, server, history
<1>4. ASSUME NEW m \in Messages, NEW n \in Numbers, HandlerReturns(m, n) PROVE Goal
  <2>1. CASE Succeed(m, n)
    <3>1. /\ final' = final /\ successes' = [successes EXCEPT ![m] = @ + 1] /\ Acked(m)
      BY <2>1 DEF Succeed
    <3>2. \A k \in Messages : phase'[k] = "gone" => phase[k] = "gone"
      BY <1>t, <3>1 DEF Acked
    <3>3. \A k \in Messages : successes[k] > 0 => successes'[k] > 0
      BY <1>t, <3>1
    <3> QED
      BY <3>1, <3>2, <3>3
  <2>2. CASE SucceedUnacked(m, n)
    <3>1. UNCHANGED <<final, phase>> /\ successes' = [successes EXCEPT ![m] = @ + 1]
      BY <2>2 DEF SucceedUnacked, server
    <3>2. \A k \in Messages : successes[k] > 0 => successes'[k] > 0
      BY <1>t, <3>1
    <3> QED
      BY <3>1, <3>2
  <2>3. CASE Fail(m, n)
    <3>1. /\ Nacked({m}) \/ phase' = phase
          /\ final' = IF LastDelivery(read[who[m][n]], n) THEN final \cup {m} ELSE final
          /\ successes' = successes
      BY <2>3 DEF Fail
    <3>2. \A k \in Messages : phase'[k] = "gone" => phase[k] = "gone"
      BY <3>1, <1>n
    <3> QED
      BY <2>3, <3>1, <3>2
  <2> QED
    BY <1>4, <2>1, <2>2, <2>3 DEF HandlerReturns
<1>5. ASSUME NEW i \in Instances, StopDrained(i) \/ StopAbandons(i) \/ Crash(i) PROVE Goal
  <2>1. UNCHANGED <<final, successes>> /\ (phase' = phase \/ \E M : Nacked(M))
    BY <1>5 DEF StopDrained, StopAbandons, Crash, Exit
  <2> QED
    BY <2>1, <1>n
<1>6. ASSUME NEW i \in Instances, StartInstance(i) \/ BeginStop(i)
      PROVE  UNCHANGED <<final, successes, phase>>
  BY <1>6 DEF StartInstance, BeginStop, server, history
<1>7. Tick \/ UNCHANGED vars => UNCHANGED <<final, successes, phase>>
  BY DEF Tick, vars, server, history
<1> QED
  BY <1>1, <1>2, <1>3, <1>4, <1>5, <1>6, <1>7 DEF Next, ProcessStep

-----------------------------------------------------------------------------
(* What is sent has a number, and its instance knows the last one: whatever   *)
(* settings the instances write.                                              *)

\* What the instances wrote of a setting is finite.
LEMMA WrittenIsFinite ==
  ASSUME NEW T, NEW g \in [Instances -> T]
  PROVE  IsFiniteSet({g[i] : i \in Instances})
<1> DEFINE S == {g[i] : i \in Instances}
<1>1. PICK n \in Nat : ExistsSurjection(1..n, Instances)
  BY BoundsAssumption, FS_NatSurjection
<1>2. PICK h \in [1..n -> Instances] : \A i \in Instances : \E k \in 1..n : h[k] = i
  BY <1>1 DEF ExistsSurjection, Surjection
<1> DEFINE e == [k \in 1..n |-> g[h[k]]]
<1>3. e \in [1..n -> S] /\ \A s \in S : \E k \in 1..n : e[k] = s
  BY <1>2
<1> HIDE DEF e, S
<1>4. ExistsSurjection(1..n, S)
  BY <1>3 DEF ExistsSurjection, Surjection
<1>5. IsFiniteSet(S)
  BY <1>4, FS_NatSurjection
<1> QED
  BY <1>5 DEF S

\* A max_deliver and the numbers up to it are numbers of deliveries.
LEMMA UpToMaxDeliver ==
  ASSUME NEW j \in Instances
  PROVE  /\ Written[j].maxDeliver \in Nat \ {0} /\ Written[j] # <<>>
         /\ 1..Written[j].maxDeliver \subseteq Numbers /\ Numbers \subseteq Nat \ {0}
<1> DEFINE g == [i \in Instances |-> Written[i].maxDeliver]
           S == {Written[i].maxDeliver : i \in Instances}
<1>1. \A i \in Instances : Written[i].maxDeliver \in Nat \ {0}
  BY WrittenAssumption DEF ConsumerSettings
<1>2. Written[j] # <<>>
  <2>1. "ackWait" \in DOMAIN Written[j]
    BY WrittenAssumption DEF ConsumerSettings
  <2>2. DOMAIN <<>> = {}
    OBVIOUS
  <2> QED
    BY <2>1, <2>2
<1>3. S \in SUBSET Nat /\ S # {}
  BY <1>1
<1>4. IsFiniteSet(S)
  <2>1. g \in [Instances -> Nat] /\ S = {g[i] : i \in Instances}
    BY <1>1
  <2> HIDE DEF g, S
  <2> QED
    BY <2>1, WrittenIsFinite
<1>5. Written[j].maxDeliver \in S
  OBVIOUS
<1> DEFINE most == Max(S)
<1>6. most \in Nat /\ Written[j].maxDeliver <= most
  <2> HIDE DEF S
  <2> QED
    BY <1>3, <1>4, <1>5, GreatestOfFinite
<1>7. Numbers = 1..most
  BY DEF Numbers
<1> HIDE DEF most
<1> QED
  BY <1>1, <1>2, <1>6, <1>7

\* What has been counted is a delivery.
Counted(m) == count[m] > 0 => count[m] \in Numbers

\* A delivery has been counted, and its instance knows the last one; once it
\* is over, the message has succeeded, is logged, or its instance took it for one
\* before the last.
Sent(m, n) ==
    /\ at[m][n] # "none" =>
         n \in 1..count[m] /\ who[m][n] \in Instances /\ read[who[m][n]] = Written[who[m][n]]
    /\ at[m][n] = "over" =>
         successes[m] > 0 \/ m \in final \/ n < Written[who[m][n]].maxDeliver

SentInv ==
    /\ Typed /\ Configured /\ final \subseteq Messages
    /\ \A m \in Messages : Counted(m)
    /\ \A m \in Messages, n \in Numbers : Sent(m, n)

\* A message that is sent had not been sent for the last time.
LEMMA SendIsNotLast ==
  ASSUME Configured, NEW m \in Messages, NEW i \in Instances, Send(m, i)
  PROVE  /\ read[i] = Written[i] /\ count[m] < consumer.maxDeliver
         /\ \E j \in Instances : consumer = Written[j]
BY DEF Configured, Send

LEMMA SentStep ==
  ASSUME Typed, Configured, [Next]_vars, NEW m \in Messages, NEW n \in Numbers, Sent(m, n)
  PROVE  Sent(m, n)'
<1>t. Typed /\ Configured /\ Sent(m, n) /\ count[m] \in Nat
  BY DEF Typed
<1>c. count'[m] \in Nat /\ count[m] <= count'[m]
  BY <1>t, CountStep
<1>1. ASSUME at'[m][n] # "none"
      PROVE  /\ n \in 1..count'[m] /\ who'[m][n] \in Instances
             /\ read'[who'[m][n]] = Written[who'[m][n]]
  <2>1. CASE at[m][n] # "none" /\ who'[m][n] = who[m][n]
    <3>1. n \in 1..count[m] /\ who[m][n] \in Instances /\ read[who[m][n]] = Written[who[m][n]]
      BY <1>t, <2>1 DEF Sent
    <3>2. n \in 1..count'[m]
      BY <1>t, <1>c, <3>1
    <3>3. read'[who[m][n]] = Written[who[m][n]]
      BY <1>t, <3>1, ConfiguredStep
    <3> QED
      BY <2>1, <3>1, <3>2, <3>3
  <2>2. ASSUME NEW i \in Instances, Send(m, i), n = count[m] + 1, who'[m][n] = i
        PROVE  /\ n \in 1..count'[m] /\ who'[m][n] \in Instances
               /\ read'[who'[m][n]] = Written[who'[m][n]]
    <3>1. count'[m] = count[m] + 1
      <4>1. count' = [count EXCEPT ![m] = count[m] + 1] /\ count \in [Messages -> Nat]
        BY <1>t, <2>2 DEF Send, Typed
      <4> QED
        BY <4>1
    <3>2. n \in 1..count'[m]
      BY <1>t, <2>2, <3>1
    <3>3. read'[i] = Written[i]
      BY <1>t, <2>2, SendIsNotLast, ConfiguredStep
    <3> QED
      BY <2>2, <3>2, <3>3
  <2> QED
    BY <1>1, <1>t, <2>1, <2>2, DeliveryStep
<1>2. ASSUME at'[m][n] = "over"
      PROVE  successes'[m] > 0 \/ m \in final' \/ n < Written[who'[m][n]].maxDeliver
  <2>1. CASE at[m][n] = "over" /\ who'[m][n] = who[m][n]
    BY <1>t, <2>1, LogStep DEF Sent
  <2>2. CASE Succeed(m, n) \/ SucceedUnacked(m, n)
    <3>1. successes' = [successes EXCEPT ![m] = @ + 1] /\ successes \in [Messages -> Nat]
      BY <1>t, <2>2 DEF Succeed, SucceedUnacked, Typed
    <3> QED
      BY <3>1
  <2>3. CASE Fail(m, n)
    <3>1. /\ at[m][n] = "handling" /\ who' = who
          /\ final' = IF LastDelivery(read[who[m][n]], n) THEN final \cup {m} ELSE final
      BY <2>3 DEF Fail
    <3>2. /\ n \in 1..count[m] /\ who[m][n] \in Instances
          /\ read[who[m][n]] = Written[who[m][n]]
      BY <1>t, <3>1 DEF Sent
    <3>3. Written[who[m][n]].maxDeliver \in Nat
      BY <3>2, WrittenAssumption DEF ConsumerSettings
    <3> QED
      BY <1>t, <3>1, <3>2, <3>3 DEF LastDelivery
  <2> QED
    BY <1>2, <1>t, <2>1, <2>2, <2>3, DeliveryStep DEF HandlerReturns
<1> QED
  BY <1>1, <1>2 DEF Sent

LEMMA CountedStep ==
  ASSUME SentInv, [Next]_vars, NEW m \in Messages
  PROVE  Counted(m)'
<1>t. Typed /\ Configured /\ Counted(m) /\ count[m] \in Nat
  BY DEF SentInv, Typed
<1>1. CASE count'[m] = count[m]
  BY <1>t, <1>1 DEF Counted
<1>2. ASSUME NEW i \in Instances, Send(m, i), count'[m] = count[m] + 1
      PROVE  count'[m] \in Numbers
  <2>1. PICK j \in Instances : consumer = Written[j]
    BY <1>t, <1>2, SendIsNotLast
  <2>2. count[m] < Written[j].maxDeliver
    BY <1>t, <1>2, <2>1, SendIsNotLast
  <2>3. Written[j].maxDeliver \in Nat /\ 1..Written[j].maxDeliver \subseteq Numbers
    BY UpToMaxDeliver
  <2>4. count[m] + 1 \in 1..Written[j].maxDeliver
    BY <1>t, <2>2, <2>3
  <2> QED
    BY <1>2, <2>3, <2>4
<1> QED
  BY <1>t, <1>1, <1>2, CountStep DEF Counted

LEMMA SentInvStep ==
  ASSUME SentInv, [Next]_vars
  PROVE  SentInv'
<1>1. Typed' /\ Configured'
  BY TypedStep, ConfiguredStep DEF SentInv
<1>2. final' \subseteq Messages
  BY LogStep DEF SentInv
<1> QED
  BY <1>1, <1>2, SentStep, CountedStep DEF SentInv

LEMMA InitSent == Init => SentInv
<1> SUFFICES ASSUME Init PROVE SentInv
  OBVIOUS
<1>1. Typed /\ Configured
  BY InitTyped, InitConfigured
<1>2. \A m \in Messages : Counted(m)
  BY DEF Init, Counted
<1>3. \A m \in Messages, n \in Numbers : Sent(m, n)
  BY DEF Init, Sent
<1> QED
  BY <1>1, <1>2, <1>3 DEF Init, SentInv

\* A delivery whose handler has returned was settled as a success, logged as the
\* last one, or taken for one before the last by an instance that read back what it
\* wrote: at any time, and whatever each instance writes.
THEOREM SentInvAlways == Spec => []SentInv
<1>1. SentInv /\ [Next]_vars => SentInv'
  BY SentInvStep
<1> QED
  BY <1>1, InitSent, PTL DEF Spec

-----------------------------------------------------------------------------
(* The last delivery when instances write different settings.  A Start may     *)
(* raise max_deliver, lower it or leave it (consumer is <<>> before the first).*)

NotRaised == consumer # <<>> => consumer'.maxDeliver <= consumer.maxDeliver
NotLowered == consumer # <<>> => consumer'.maxDeliver >= consumer.maxDeliver

\* Only a Start changes the server's settings, and only its own it reads back.
LEMMA ConsumerStep ==
  ASSUME Configured, [Next]_vars
  PROVE  \/ UNCHANGED <<consumer, read>>
         \/ \E i \in Instances :
              /\ consumer' = Written[i]
              /\ \A j \in Instances : j # i => read'[j] = read[j]
<1>t. read \in [Instances -> ConsumerSettings \cup {<<>>}]
  BY DEF Configured
<1>1. ASSUME NEW i \in Instances, StartInstance(i)
      PROVE  consumer' = Written[i] /\ \A j \in Instances : j # i => read'[j] = read[j]
  BY <1>t, <1>1 DEF StartInstance
<1>2. ASSUME NEW i \in Instances, BeginStop(i) \/ StopDrained(i) \/ StopAbandons(i) \/ Crash(i)
      PROVE  UNCHANGED <<consumer, read>>
  BY <1>2 DEF BeginStop, StopDrained, StopAbandons, Crash, Exit, server
<1>3. ASSUME NEW m \in Messages, ServerStep(m) PROVE UNCHANGED <<consumer, read>>
  BY <1>3 DEF ServerStep, Send, GiveUp, SendAgain, processes
<1>4. ASSUME NEW m \in Messages, NEW n \in Numbers, LocalStep(m, n) \/ HandlerReturns(m, n)
      PROVE  UNCHANGED <<consumer, read>>
  BY <1>4 DEF LocalStep, Receive, BeginHandler, HandlerReturns, Succeed, SucceedUnacked, Fail,
     processes, server
<1>5. Tick \/ UNCHANGED vars => UNCHANGED <<consumer, read>>
  BY DEF Tick, vars, processes, server
<1> QED
  BY <1>1, <1>2, <1>3, <1>4, <1>5 DEF Next, ProcessStep

\* While max_deliver is not raised, no instance's is below the server's, and what
\* is logged is used up.
LowInv ==
    /\ SentInv
    /\ \A i \in Instances : read[i] # <<>> => consumer.maxDeliver <= Written[i].maxDeliver
    /\ \A m \in final : consumer # <<>> /\ count[m] >= consumer.maxDeliver

\* While it is not lowered, no instance's is above the server's, and what the
\* server has given up on was sent for the last time by every account.
Gone(m) ==
    phase[m] = "gone" =>
        /\ count[m] > 0
        /\ \A n \in Numbers : at[m][n] # "none" => Written[who[m][n]].maxDeliver <= count[m]
HighInv ==
    /\ SentInv
    /\ \A i \in Instances : read[i] # <<>> => Written[i].maxDeliver <= consumer.maxDeliver
    /\ \A m \in Messages : Gone(m)

\* Settings that were read were written, and not before the server's.
LEMMA ReadIsWritten ==
  ASSUME Configured, NEW i \in Instances, read[i] # <<>> \/ read[i] = Written[i]
  PROVE  /\ read[i] # <<>> /\ Written[i].maxDeliver \in Nat
         /\ consumer # <<>> /\ consumer.maxDeliver \in Nat
<1>1. read[i] # <<>> /\ Written[i].maxDeliver \in Nat
  BY UpToMaxDeliver
<1>2. PICK j \in Instances : consumer = Written[j]
  BY <1>1 DEF Configured
<1>3. consumer # <<>> /\ consumer.maxDeliver \in Nat
  BY <1>2, UpToMaxDeliver
<1> QED
  BY <1>1, <1>3

LEMMA LowStep ==
  ASSUME LowInv, [Next]_vars, [NotRaised]_consumer
  PROVE  LowInv'
<1>t. SentInv /\ Typed /\ Configured /\ SentInv' /\ Configured'
  BY SentInvStep DEF LowInv, SentInv
<1>1. ASSUME NEW i \in Instances, read'[i] # <<>>
      PROVE  consumer'.maxDeliver <= Written[i].maxDeliver
  <2>1. CASE UNCHANGED <<consumer, read>>
    BY <1>1, <2>1 DEF LowInv
  <2>2. ASSUME NEW k \in Instances, consumer' = Written[k],
               \A j \in Instances : j # k => read'[j] = read[j]
        PROVE  consumer'.maxDeliver <= Written[i].maxDeliver
    <3>1. Written[k].maxDeliver \in Nat /\ Written[i].maxDeliver \in Nat
      BY UpToMaxDeliver
    <3>2. CASE i = k
      BY <2>2, <3>1, <3>2
    <3>3. CASE i # k
      <4>1. read[i] # <<>>
        BY <1>1, <2>2, <3>3
      <4>2. consumer # <<>> /\ consumer.maxDeliver \in Nat
        BY <1>t, <4>1, ReadIsWritten
      <4>3. consumer.maxDeliver <= Written[i].maxDeliver
        BY <4>1 DEF LowInv
      <4>4. consumer'.maxDeliver <= consumer.maxDeliver \/ consumer' = consumer
        BY <4>2 DEF NotRaised
      <4>5. consumer'.maxDeliver \in Nat
        BY <2>2, <3>1
      <4> QED
        BY <3>1, <4>2, <4>3, <4>4, <4>5
    <3> QED
      BY <3>2, <3>3
  <2> QED
    BY <1>t, <2>1, <2>2, ConsumerStep
<1>2. ASSUME NEW m \in final'
      PROVE  consumer' # <<>> /\ count'[m] >= consumer'.maxDeliver
  <2>m. m \in Messages /\ count[m] \in Nat /\ count'[m] \in Nat /\ count[m] <= count'[m]
    <3>1. m \in Messages
      BY <1>t DEF SentInv
    <3>2. count[m] \in Nat
      BY <1>t, <3>1 DEF Typed
    <3> QED
      BY <1>t, <3>1, <3>2, CountStep
  <2>1. /\ consumer # <<>> /\ consumer.maxDeliver \in Nat
        /\ count[m] >= consumer.maxDeliver
    <3>1. CASE m \in final
      <4>1. consumer # <<>> /\ count[m] >= consumer.maxDeliver
        BY <3>1 DEF LowInv
      <4>2. PICK j \in Instances : consumer = Written[j]
        BY <1>t, <4>1 DEF Configured
      <4> QED
        BY <4>1, <4>2, UpToMaxDeliver
    <3>2. ASSUME NEW n \in Numbers, Fail(m, n), LastDelivery(read[who[m][n]], n)
          PROVE  /\ consumer # <<>> /\ consumer.maxDeliver \in Nat
                 /\ count[m] >= consumer.maxDeliver
      <4> DEFINE i == who[m][n]
      <4>1. n \in 1..count[m] /\ i \in Instances /\ read[i] = Written[i]
        <5>1. at[m][n] # "none" /\ Sent(m, n)
          BY <1>t, <2>m, <3>2 DEF Fail, SentInv
        <5> QED
          BY <5>1 DEF Sent
      <4>2. n >= Written[i].maxDeliver
        BY <3>2, <4>1 DEF LastDelivery
      <4> HIDE DEF i
      <4>3. /\ read[i] # <<>> /\ Written[i].maxDeliver \in Nat
            /\ consumer # <<>> /\ consumer.maxDeliver \in Nat
        BY <1>t, <4>1, ReadIsWritten
      <4>4. consumer.maxDeliver <= Written[i].maxDeliver
        BY <4>1, <4>3 DEF LowInv
      <4> QED
        BY <2>m, <4>1, <4>2, <4>3, <4>4
    <3> QED
      BY <1>t, <3>1, <3>2, LogStep
  <2>2. consumer' = consumer \/ consumer'.maxDeliver <= consumer.maxDeliver
    BY <2>1 DEF NotRaised
  <2>3. consumer' # <<>> /\ consumer'.maxDeliver \in Nat
    <3>1. CASE consumer' = consumer
      BY <2>1, <3>1
    <3>2. ASSUME NEW k \in Instances, consumer' = Written[k]
          PROVE  consumer' # <<>> /\ consumer'.maxDeliver \in Nat
      BY <3>2, UpToMaxDeliver
    <3> QED
      BY <1>t, <3>1, <3>2, ConsumerStep
  <2> QED
    BY <2>m, <2>1, <2>2, <2>3
<1> QED
  BY <1>t, <1>1, <1>2 DEF LowInv

\* What is logged as "message will not be delivered again" is not, among instances
\* with any settings, as long as no Start raises max_deliver: RedeliveryRolling
\* shows that it takes that.
THEOREM FinalUnlessRaised == Spec /\ [][NotRaised]_consumer => FinalFailureIsFinal
<1>1. Init => LowInv
  <2> SUFFICES ASSUME Init PROVE LowInv
    OBVIOUS
  <2>1. SentInv
    BY InitSent
  <2> QED
    BY <2>1 DEF Init, LowInv
<1>2. LowInv /\ [Next]_vars /\ [NotRaised]_consumer => LowInv'
  BY LowStep
<1>3. LowInv /\ [Next]_vars => [\A m \in final : count'[m] = count[m]]_vars
  <2> SUFFICES ASSUME LowInv, [Next]_vars, NEW m \in final
               PROVE  count'[m] = count[m]
    OBVIOUS
  <2>1. m \in Messages /\ Typed /\ Configured /\ count[m] \in Nat
    BY DEF LowInv, SentInv, Typed
  <2>2. ASSUME NEW i \in Instances, Send(m, i) PROVE FALSE
    <3>1. PICK j \in Instances : consumer = Written[j]
      BY <2>1, <2>2, SendIsNotLast
    <3>2. consumer.maxDeliver \in Nat
      BY <3>1, UpToMaxDeliver
    <3>3. count[m] < consumer.maxDeliver
      BY <2>1, <2>2, SendIsNotLast
    <3>4. count[m] >= consumer.maxDeliver
      BY DEF LowInv
    <3> QED
      BY <2>1, <3>2, <3>3, <3>4
  <2> QED
    BY <2>1, <2>2, CountStep
<1> QED
  BY <1>1, <1>2, <1>3, PTL DEF Spec, FinalFailureIsFinal

LEMMA HighStep ==
  ASSUME HighInv, [Next]_vars, [NotLowered]_consumer
  PROVE  HighInv'
<1>t. SentInv /\ Typed /\ Configured /\ SentInv' /\ Configured'
  BY SentInvStep DEF HighInv, SentInv
<1>1. ASSUME NEW i \in Instances, read'[i] # <<>>
      PROVE  Written[i].maxDeliver <= consumer'.maxDeliver
  <2>1. CASE UNCHANGED <<consumer, read>>
    BY <1>1, <2>1 DEF HighInv
  <2>2. ASSUME NEW k \in Instances, consumer' = Written[k],
               \A j \in Instances : j # k => read'[j] = read[j]
        PROVE  Written[i].maxDeliver <= consumer'.maxDeliver
    <3>1. Written[k].maxDeliver \in Nat /\ Written[i].maxDeliver \in Nat
      BY UpToMaxDeliver
    <3>2. CASE i = k
      BY <2>2, <3>1, <3>2
    <3>3. CASE i # k
      <4>1. read[i] # <<>>
        BY <1>1, <2>2, <3>3
      <4>2. consumer # <<>> /\ consumer.maxDeliver \in Nat
        BY <1>t, <4>1, ReadIsWritten
      <4>3. Written[i].maxDeliver <= consumer.maxDeliver
        BY <4>1 DEF HighInv
      <4>4. consumer'.maxDeliver >= consumer.maxDeliver \/ consumer' = consumer
        BY <4>2 DEF NotLowered
      <4>5. consumer'.maxDeliver \in Nat
        BY <2>2, <3>1
      <4> QED
        BY <3>1, <4>2, <4>3, <4>4, <4>5
    <3> QED
      BY <3>2, <3>3
  <2> QED
    BY <1>t, <2>1, <2>2, ConsumerStep
<1>2. ASSUME NEW m \in Messages, phase'[m] = "gone"
      PROVE  (phase[m] = "gone" \/ GiveUp(m)) /\ count'[m] = count[m] /\ \A i \in Instances : ~ Send(m, i)
  <2>1. phase[m] = "gone" \/ GiveUp(m)
    BY <1>t, <1>2, LogStep
  <2>2. \A i \in Instances : ~ Send(m, i)
    <3>1. phase \in [Messages -> Phases]
      BY <1>t DEF Typed
    <3> SUFFICES ASSUME NEW i \in Instances, Send(m, i) PROVE FALSE
      OBVIOUS
    <3>2. phase'[m] = "pending"
      BY <3>1 DEF Send
    <3> QED
      BY <1>2, <3>2
  <2>3. count'[m] = count[m]
    BY <1>t, <2>2, CountStep
  <2> QED
    BY <2>1, <2>2, <2>3
<1>3. ASSUME NEW m \in Messages, phase'[m] = "gone" PROVE count'[m] > 0
  <2>1. count'[m] = count[m] /\ count[m] \in Nat /\ (phase[m] = "gone" \/ GiveUp(m))
    BY <1>t, <1>2, <1>3 DEF Typed
  <2>2. CASE phase[m] = "gone"
    BY <2>1, <2>2 DEF HighInv, Gone
  <2>3. CASE GiveUp(m)
    <3>1. PICK j \in Instances : consumer = Written[j]
      BY <1>t, <2>3 DEF GiveUp, Configured
    <3>2. consumer.maxDeliver \in Nat \ {0}
      BY <3>1, UpToMaxDeliver
    <3>3. count[m] >= consumer.maxDeliver
      BY <2>3 DEF GiveUp
    <3> QED
      BY <2>1, <3>2, <3>3
  <2> QED
    BY <2>1, <2>2, <2>3
<1>4. ASSUME NEW m \in Messages, phase'[m] = "gone", NEW n \in Numbers, at'[m][n] # "none"
      PROVE  Written[who'[m][n]].maxDeliver <= count'[m]
  <2>4. at[m][n] # "none" /\ who'[m][n] = who[m][n]
    BY <1>t, <1>2, <1>4, DeliveryStep
  <2>5. Written[who[m][n]].maxDeliver <= count[m]
    <3>1. CASE phase[m] = "gone"
      BY <2>4, <3>1 DEF HighInv, Gone
    <3>2. CASE GiveUp(m)
      <4> DEFINE i == who[m][n]
      <4>1. i \in Instances /\ read[i] = Written[i]
        BY <1>t, <2>4 DEF SentInv, Sent
      <4> HIDE DEF i
      <4>2. /\ read[i] # <<>> /\ Written[i].maxDeliver \in Nat /\ consumer.maxDeliver \in Nat
        BY <1>t, <4>1, ReadIsWritten
      <4>3. Written[i].maxDeliver <= consumer.maxDeliver
        BY <4>1, <4>2 DEF HighInv
      <4>4. count[m] >= consumer.maxDeliver
        BY <3>2 DEF GiveUp
      <4>5. count[m] \in Nat
        BY <1>t DEF Typed
      <4>6. Written[i].maxDeliver <= count[m]
        BY <4>2, <4>3, <4>4, <4>5
      <4> QED
        BY <4>6 DEF i
    <3> QED
      BY <1>2, <1>4, <3>1, <3>2
  <2> QED
    BY <1>2, <1>4, <2>4, <2>5
<1> QED
  BY <1>t, <1>1, <1>3, <1>4 DEF HighInv, Gone

\* A message the server has given up on, whose last delivery ended in a handler,
\* was handled with success or is logged as not delivered again, also when the
\* handler returned long after another delivery's: among instances with any
\* settings, as long as no Start lowers max_deliver.  (If one does, an instance that
\* started before it takes the new last delivery for one before the last.)
THEOREM LoggedUnlessLowered == Spec /\ [][NotLowered]_consumer => []UsedUpIsLogged
<1>1. Init => HighInv
  <2> SUFFICES ASSUME Init PROVE HighInv
    OBVIOUS
  <2>1. SentInv
    BY InitSent
  <2> QED
    BY <2>1 DEF Init, HighInv, Gone
<1>2. HighInv /\ [Next]_vars /\ [NotLowered]_consumer => HighInv'
  BY HighStep
<1>3. HighInv => UsedUpIsLogged
  <2> SUFFICES ASSUME HighInv, NEW m \in Messages, phase[m] = "gone",
                      at[m][count[m]] = "over"
               PROVE  successes[m] > 0 \/ m \in final
    BY DEF UsedUpIsLogged
  <2>1. count[m] \in Nat /\ Counted(m) /\ Gone(m)
    BY DEF HighInv, SentInv, Typed
  <2>2. count[m] \in Numbers
    BY <2>1 DEF Counted, Gone
  <2>3. Sent(m, count[m])
    BY <2>2 DEF HighInv, SentInv
  <2>4. who[m][count[m]] \in Instances
    BY <2>3 DEF Sent
  <2>5. Written[who[m][count[m]]].maxDeliver \in Nat
    BY <2>4, UpToMaxDeliver
  <2>6. Written[who[m][count[m]]].maxDeliver <= count[m]
    BY <2>1, <2>2 DEF Gone
  <2>7. ~ (count[m] < Written[who[m][count[m]]].maxDeliver)
    BY <2>1, <2>5, <2>6
  <2> QED
    BY <2>3, <2>7 DEF Sent
<1> QED
  BY <1>1, <1>2, <1>3, PTL DEF Spec

-----------------------------------------------------------------------------
(* Deadlines when instances write different settings.  A Start may lengthen    *)
(* the wait for some delivery, or not.                                         *)

NotLengthened ==
    consumer # <<>> => \A n \in Numbers : Wait(consumer', n) <= Wait(consumer, n)

\* The server's entry of backoff for a delivery is the runtime's: one counts from
\* 1, the other from 0.
LEMMA OneWait ==
  ASSUME NEW i \in Instances, consumer = Written[i], NEW n \in Nat \ {0}
  PROVE  ServerWait(n) = Wait(Written[i], n)
<1> DEFINE c == Written[i]
<1>1. c.backoff \in Seq(Nat \ {0}) /\ c.ackWait = consumer.ackWait /\ c.backoff = consumer.backoff
  BY WrittenAssumption DEF ConsumerSettings
<1>2. CASE c.backoff = <<>>
  BY <1>1, <1>2 DEF ServerWait, Wait
<1>3. CASE c.backoff # <<>>
  <2>1. Len(c.backoff) \in Nat \ {0}
    BY <1>1, <1>3
  <2>2. Min({n, Len(c.backoff)}) = Min({Max({n - 1, 0}), Len(c.backoff) - 1}) + 1
    <3> DEFINE l == Len(c.backoff)
    <3>1. l \in Int /\ n \in Int /\ n - 1 \in Int /\ 0 \in Int /\ l - 1 \in Int
      BY <2>1
    <3>2. Max({n - 1, 0}) = n - 1
      <4>1. n - 1 >= 0 /\ Max({n - 1, 0}) = IF n - 1 >= 0 THEN n - 1 ELSE 0
        BY <3>1, OfTwo
      <4> QED
        BY <4>1
    <3>3. Min({n - 1, l - 1}) = IF n - 1 <= l - 1 THEN n - 1 ELSE l - 1
      BY <3>1, OfTwo
    <3>4. Min({n, l}) = IF n <= l THEN n ELSE l
      BY <3>1, OfTwo
    <3> HIDE DEF l
    <3>5. Min({n, l}) = Min({Max({n - 1, 0}), l - 1}) + 1
      BY <3>1, <3>2, <3>3, <3>4
    <3> QED
      BY <3>5 DEF l
  <2> QED
    BY <1>1, <1>3, <2>2 DEF ServerWait, Wait
<1> QED
  BY <1>2, <1>3

LEMMA WaitIsNatural ==
  ASSUME NEW i \in Instances, NEW n \in Nat \ {0}
  PROVE  Wait(Written[i], n) \in Nat
<1> DEFINE b == Written[i].backoff
<1>1. b \in Seq(Nat \ {0}) /\ Written[i].ackWait \in Nat
  BY WrittenAssumption DEF ConsumerSettings
<1>2. CASE b = <<>>
  BY <1>1, <1>2 DEF Wait
<1>3. CASE b # <<>>
  <2>1. Min({Max({n - 1, 0}), Len(b) - 1}) + 1 \in 1..Len(b)
    <3> DEFINE l == Len(b)
    <3>1. l \in Nat \ {0} /\ l - 1 \in Int /\ n - 1 \in Int /\ 0 \in Int /\ n - 1 >= 0
      BY <1>1, <1>3
    <3>2. Max({n - 1, 0}) = n - 1
      BY <3>1, OfTwo
    <3>3. Min({n - 1, l - 1}) = IF n - 1 <= l - 1 THEN n - 1 ELSE l - 1
      BY <3>1, OfTwo
    <3> HIDE DEF l
    <3>4. Min({Max({n - 1, 0}), l - 1}) + 1 \in 1..l
      BY <3>1, <3>2, <3>3
    <3> QED
      BY <3>4 DEF l
  <2>2. \A x \in 1..Len(b) : b[x] \in Nat
    BY <1>1
  <2>3. b[Min({Max({n - 1, 0}), Len(b) - 1}) + 1] \in Nat
    BY <2>1, <2>2
  <2> QED
    BY <1>3, <2>3 DEF Wait
<1> QED
  BY <1>2, <1>3

\* The age of a delivery has a cap.
LEMMA LongestIsNatural == Longest \in Nat
<1> DEFINE Of(i) == {Written[i].ackWait} \cup Range(Written[i].backoff)
           Waits == {Of(i) : i \in Instances}
           All == {NakDelay} \cup UNION Waits
<1>1. \A i \in Instances : Of(i) \in SUBSET Nat
  BY WrittenAssumption DEF ConsumerSettings, Range
<1>2. All \in SUBSET Nat /\ All # {}
  BY <1>1, BoundsAssumption
<1>3. ASSUME NEW j \in Instances PROVE IsFiniteSet(Of(j))
  <2> DEFINE b == Written[j].backoff
  <2>1. b \in Seq(Nat \ {0})
    BY WrittenAssumption DEF ConsumerSettings
  <2>2. Len(b) \in Nat /\ b \in Surjection(1..Len(b), Range(b))
    BY <2>1 DEF Surjection, Range
  <2> HIDE DEF b
  <2>3. ExistsSurjection(1..Len(b), Range(b))
    BY <2>2 DEF ExistsSurjection
  <2>4. IsFiniteSet(Range(b))
    BY <2>2, <2>3, FS_NatSurjection
  <2>5. IsFiniteSet({Written[j].ackWait})
    BY FS_Singleton
  <2> QED
    BY <2>4, <2>5, FS_Union DEF b
<1>4. IsFiniteSet(Waits)
  <2> DEFINE g == [i \in Instances |-> Of(i)]
  <2>1. g \in [Instances -> SUBSET Nat] /\ Waits = {g[i] : i \in Instances}
    BY <1>1
  <2> HIDE DEF g, Waits
  <2> QED
    BY <2>1, WrittenIsFinite
<1>5. IsFiniteSet(UNION Waits)
  <2>1. \A W \in Waits : IsFiniteSet(W)
    BY <1>3
  <2> HIDE DEF Waits
  <2> QED
    BY <1>4, <2>1, FS_UNION
<1>6. IsFiniteSet(All)
  <2>1. IsFiniteSet({NakDelay})
    BY FS_Singleton
  <2> HIDE DEF Waits
  <2> QED
    BY <1>5, <2>1, FS_Union
<1> HIDE DEF All
<1>7. Max(All) \in Nat
  BY <1>2, <1>6, GreatestOfFinite
<1> QED
  BY <1>7 DEF All, Longest

Due(m, n) == Wait(Written[who[m][n]], n)

LEMMA DueIsNatural ==
  ASSUME Typed, NEW m \in Messages, NEW n \in Numbers, Sent(m, n), at[m][n] # "none"
  PROVE  Due(m, n) \in Nat
<1>1. n \in Nat \ {0} /\ who[m][n] \in Instances
  BY DEF Typed, Sent
<1> QED
  BY <1>1, WaitIsNatural DEF Due

\* While the server waits for a delivery, it does so no longer than the deadline
\* leaves.
Timely(m, n) ==
    n = count[m] /\ phase[m] = "pending" =>
        /\ at[m][n] = "buffered" => left[m] <= Due(m, n)
        /\ at[m][n] = "waiting" => left[m] = 0 \/ left[m] + timer[m][n] <= Due(m, n)
        /\ at[m][n] = "handling" => left[m] <= timer[m][n]

Timed ==
    /\ left \in [Messages -> Nat]
    /\ timer \in [Messages -> [Numbers -> Nat]]

\* While no wait is lengthened, the server's are no longer than an instance's.
WaitsInv ==
    /\ Typed /\ Configured /\ Timed
    /\ \A i \in Instances : read[i] # <<>> =>
         \A n \in Numbers : Wait(consumer, n) <= Wait(Written[i], n)
    /\ \A m \in Messages, n \in Numbers : Sent(m, n) /\ Timely(m, n)

\* A delivery that a step leaves alone stays timely.
Still(m, n) ==
    /\ at'[m][n] = at[m][n] /\ who'[m][n] = who[m][n] /\ timer'[m][n] = timer[m][n]
    /\ count'[m] = count[m]
    /\ phase'[m] = "pending" => phase[m] = "pending" /\ left'[m] = left[m]

LEMMA StillTimely ==
  ASSUME NEW m \in Messages, NEW n \in Numbers, Timely(m, n), Still(m, n)
  PROVE  Timely(m, n)'
BY DEF Timely, Still, Due, Wait

\* What a nak leaves with the server for the delivery, it leaves alone.
LEMMA NackedStill ==
  ASSUME Typed, Timed, NEW M, Nacked(M)
  PROVE  /\ left' \in [Messages -> Nat]
         /\ \A m \in Messages :
              phase'[m] = "pending" => phase[m] = "pending" /\ left'[m] = left[m]
<1>1. left' = [m \in Messages |-> IF m \in M /\ AfterNak(phase[m]) = "nacked"
                                   THEN NakDelay ELSE left[m]]
  BY DEF Nacked
<1>2. left \in [Messages -> Nat] /\ NakDelay \in Nat
  BY BoundsAssumption DEF Timed
<1>3. ASSUME NEW m \in Messages, phase'[m] = "pending"
      PROVE  phase[m] = "pending" /\ left'[m] = left[m]
  <2>1. m \notin M /\ phase[m] = "pending"
    <3>1. phase'[m] = IF m \in M THEN AfterNak(phase[m]) ELSE phase[m]
      BY NackedTyped
    <3>2. AfterNak(phase[m]) # "pending"
      BY DEF AfterNak
    <3> QED
      BY <1>3, <3>1, <3>2
  <2> QED
    BY <1>1, <2>1
<1> QED
  BY <1>1, <1>2, <1>3

\* The clock of a message's deliveries.
LEMMA TimerTyped ==
  ASSUME Timed, NEW m \in Messages, NEW n, NEW t \in Nat, SetTimer(m, n, t)
  PROVE  /\ timer' \in [Messages -> [Numbers -> Nat]]
         /\ \A k \in Messages, l \in Numbers :
              timer'[k][l] = IF k = m /\ l = n THEN t ELSE timer[k][l]
<1>1. timer \in [Messages -> [Numbers -> Nat]] /\ timer' = [timer EXCEPT ![m][n] = t]
  BY DEF Timed, SetTimer
<1> QED
  BY <1>1

LEMMA TickTimely ==
  ASSUME WaitsInv, Tick
  PROVE  Timed' /\ \A k \in Messages, l \in Numbers : Timely(k, l)'
<1>t. left \in [Messages -> Nat] /\ timer \in [Messages -> [Numbers -> Nat]] /\ Longest \in Nat
  BY LongestIsNatural DEF WaitsInv, Timed
<1>1. /\ left' = [m \in Messages |-> Down(left[m])]
      /\ timer' = [m \in Messages |-> [n \in Numbers |->
                     IF at[m][n] = "waiting" THEN Min({timer[m][n] + 1, Longest})
                                             ELSE Down(timer[m][n])]]
      /\ UNCHANGED <<phase, count, at, who>>
  BY DEF Tick
<1>d. \A x \in Nat : Down(x) \in Nat /\ Down(x) <= x /\ (x # 0 => Down(x) = x - 1)
  BY DEF Down
<1>m. \A x \in Nat : Min({x + 1, Longest}) \in Nat /\ Min({x + 1, Longest}) <= x + 1
  <2> TAKE x \in Nat
  <2>1. Min({x + 1, Longest}) = IF x + 1 <= Longest THEN x + 1 ELSE Longest
    BY <1>t, OfTwo
  <2> QED
    BY <1>t, <2>1
<1>2. left' \in [Messages -> Nat]
  BY <1>t, <1>1, <1>d
<1>3. timer' \in [Messages -> [Numbers -> Nat]]
  BY <1>t, <1>1, <1>d, <1>m
<1>4. ASSUME NEW k \in Messages, NEW l \in Numbers PROVE Timely(k, l)'
  <2> SUFFICES ASSUME l = count[k], phase[k] = "pending"
               PROVE  /\ at[k][l] = "buffered" => left'[k] <= Due(k, l)'
                      /\ at[k][l] = "waiting" => left'[k] = 0 \/ left'[k] + timer'[k][l] <= Due(k, l)'
                      /\ at[k][l] = "handling" => left'[k] <= timer'[k][l]
    BY <1>1 DEF Timely
  <2>1. Timely(k, l) /\ left[k] \in Nat /\ timer[k][l] \in Nat
    BY <1>t DEF WaitsInv
  <2>2. Due(k, l)' = Due(k, l)
    BY <1>1 DEF Due, Wait
  <2>3. left'[k] = Down(left[k])
    BY <1>1
  <2>4. Sent(k, l)
    BY DEF WaitsInv
  <2>5. at[k][l] # "none" => Due(k, l) \in Nat
    BY <2>4, DueIsNatural DEF WaitsInv
  <2>6. ASSUME at[k][l] = "buffered" PROVE left'[k] <= Due(k, l)
    BY <2>1, <2>3, <2>5, <2>6, <1>d DEF Timely
  <2>7. ASSUME at[k][l] = "waiting" PROVE left'[k] = 0 \/ left'[k] + timer'[k][l] <= Due(k, l)
    <3>1. timer'[k][l] = Min({timer[k][l] + 1, Longest})
      BY <1>1, <2>7
    <3>2. timer'[k][l] \in Nat /\ timer'[k][l] <= timer[k][l] + 1
      BY <2>1, <3>1, <1>m
    <3>3. left[k] = 0 \/ left[k] + timer[k][l] <= Due(k, l)
      BY <2>1, <2>7 DEF Timely
    <3>4. Down(left[k]) = IF left[k] = 0 THEN 0 ELSE left[k] - 1
      BY <2>1 DEF Down
    <3> QED
      BY <2>1, <2>3, <2>5, <2>7, <3>2, <3>3, <3>4
  <2>8. ASSUME at[k][l] = "handling" PROVE left'[k] <= timer'[k][l]
    <3>1. timer'[k][l] = Down(timer[k][l])
      BY <1>1, <2>8
    <3>2. left[k] <= timer[k][l]
      BY <2>1, <2>8 DEF Timely
    <3> QED
      BY <2>1, <2>3, <3>1, <3>2 DEF Down
  <2> QED
    BY <2>2, <2>6, <2>7, <2>8
<1> QED
  BY <1>2, <1>3, <1>4 DEF Timed

\* The server starts to wait for a delivery when it sends it.
LEMMA SendTimely ==
  ASSUME WaitsInv, NEW m \in Messages, NEW i \in Instances, Send(m, i)
  PROVE  Timed' /\ \A k \in Messages, l \in Numbers : Timely(k, l)'
<1>t. Typed /\ Configured /\ Timed /\ count \in [Messages -> Nat]
  BY DEF WaitsInv, Typed
<1> DEFINE n == count[m] + 1
<1>1. /\ count' = [count EXCEPT ![m] = n] /\ left' = [left EXCEPT ![m] = ServerWait(n)]
      /\ Place(m, n, "buffered") /\ who' = [who EXCEPT ![m][n] = i]
      /\ phase' = [phase EXCEPT ![m] = "pending"] /\ timer' = timer
      /\ inst[i] = "up"
  BY DEF Send
<1>2. ServerWait(n) \in Nat /\ ServerWait(n) <= Wait(Written[i], n)
  <2>1. PICK j \in Instances : consumer = Written[j]
    BY <1>t, SendIsNotLast
  <2>2. n \in Numbers /\ n \in Nat \ {0}
    <3>1. count[m] \in Nat /\ count[m] < Written[j].maxDeliver
      BY <1>t, <2>1, SendIsNotLast
    <3>2. Written[j].maxDeliver \in Nat /\ 1..Written[j].maxDeliver \subseteq Numbers
      BY UpToMaxDeliver
    <3> QED
      BY <3>1, <3>2
  <2>3. ServerWait(n) = Wait(consumer, n) /\ ServerWait(n) \in Nat
    <3> HIDE DEF n
    <3> QED
      BY <2>1, <2>2, OneWait, WaitIsNatural
  <2>4. read[i] # <<>>
    BY <1>t, SendIsNotLast, ReadIsWritten
  <2>5. Wait(consumer, n) <= Wait(Written[i], n)
    BY <2>2, <2>4 DEF WaitsInv
  <2> QED
    BY <2>3, <2>5
<1>3. Timed'
  BY <1>t, <1>1, <1>2 DEF Timed
<1>4. ASSUME NEW k \in Messages, NEW l \in Numbers PROVE Timely(k, l)'
  <2>p. at'[k][l] = IF k = m /\ l = n THEN "buffered" ELSE at[k][l]
    <3>1. "buffered" \in Places
      BY DEF Places
    <3> QED
      BY <1>t, <1>1, <3>1, PlaceTyped
  <2>1. CASE k # m
    <3>1. Still(k, l)
      <4>1. /\ who \in [Messages -> [Numbers -> Instances \cup {Somebody}]]
            /\ left \in [Messages -> Nat] /\ phase \in [Messages -> Phases]
        BY <1>t DEF Configured, Timed, Typed
      <4> HIDE DEF n
      <4> QED
        BY <1>t, <1>1, <2>p, <2>1, <4>1 DEF Still
    <3>2. Timely(k, l)
      BY DEF WaitsInv
    <3> QED
      BY <3>1, <3>2, StillTimely
  <2>2. CASE k = m /\ l # n
    <3>1. count'[m] = n
      BY <1>t, <1>1
    <3> QED
      BY <2>2, <3>1 DEF Timely
  <2>3. CASE k = m /\ l = n
    <3>1. left'[m] = ServerWait(n)
      BY <1>t, <1>1 DEF Timed
    <3>2. who'[m][n] = i
      <4>1. who \in [Messages -> [Numbers -> Instances \cup {Somebody}]]
        BY <1>t DEF Configured
      <4> QED
        BY <1>1, <2>3, <4>1
    <3>3. Due(k, l)' = Wait(Written[i], n)
      BY <2>3, <3>2 DEF Due, Wait
    <3>4. left'[m] <= Wait(Written[i], n)
      BY <1>2, <3>1
    <3> QED
      BY <2>p, <2>3, <3>3, <3>4 DEF Timely
  <2> QED
    BY <2>1, <2>2, <2>3
<1> QED
  BY <1>3, <1>4

\* The server gives a message up, or is ready to send it again.
LEMMA TurnTimely ==
  ASSUME WaitsInv, NEW m \in Messages, GiveUp(m) \/ SendAgain(m)
  PROVE  Timed' /\ \A k \in Messages, l \in Numbers : Timely(k, l)'
<1>1. UNCHANGED <<left, count, at, who, timer>>
  BY DEF GiveUp, SendAgain, local
<1>2. \A k \in Messages : phase'[k] = "pending" => phase[k] = "pending"
  <2>1. phase \in [Messages -> Phases]
    BY DEF WaitsInv, Typed
  <2>2. \E p \in {"gone", "ready"} : phase' = [phase EXCEPT ![m] = p]
    BY DEF GiveUp, SendAgain
  <2> QED
    BY <2>1, <2>2
<1>3. ASSUME NEW k \in Messages, NEW l \in Numbers PROVE Timely(k, l)'
  <2>1. Still(k, l) /\ Timely(k, l)
    BY <1>1, <1>2 DEF Still, WaitsInv
  <2> QED
    BY <2>1, StillTimely
<1> QED
  BY <1>1, <1>3 DEF WaitsInv, Timed

\* The arrival is stamped; and the handler is told what is left.
LEMMA LocalTimely ==
  ASSUME WaitsInv, NEW m \in Messages, NEW n \in Numbers, LocalStep(m, n)
  PROVE  Timed' /\ \A k \in Messages, l \in Numbers : Timely(k, l)'
<1>t. Typed /\ Timed /\ Sent(m, n) /\ Timely(m, n)
  BY DEF WaitsInv
<1>n. timer[m][n] \in Nat /\ left[m] \in Nat
  BY <1>t DEF Timed
<1>u. UNCHANGED <<phase, left, count, who>>
  BY DEF LocalStep, Receive, BeginHandler, server
<1>d. Due(m, n) \in Nat /\ Due(m, n)' = Due(m, n)
  <2>1. at[m][n] # "none"
    BY DEF LocalStep, Receive, BeginHandler
  <2> QED
    BY <1>t, <1>u, <2>1, DueIsNatural DEF Due, Wait
<1>1. CASE Receive(m, n)
  <2>1. /\ at[m][n] = "buffered" /\ Place(m, n, "waiting") /\ SetTimer(m, n, 0)
        /\ "waiting" \in Places /\ 0 \in Nat
    BY <1>1 DEF Receive, Places
  <2>2. \A k \in Messages, l \in Numbers :
          /\ at'[k][l] = IF k = m /\ l = n THEN "waiting" ELSE at[k][l]
          /\ timer'[k][l] = IF k = m /\ l = n THEN 0 ELSE timer[k][l]
    BY <1>t, <2>1, PlaceTyped, TimerTyped
  <2>3. Timed'
    BY <1>t, <1>u, <2>1, TimerTyped DEF Timed
  <2>4. ASSUME NEW k \in Messages, NEW l \in Numbers PROVE Timely(k, l)'
    <3>1. CASE k = m /\ l = n
      <4>1. n = count[m] /\ phase[m] = "pending" => left[m] + 0 <= Due(m, n)
        BY <1>t, <1>n, <1>d, <2>1 DEF Timely
      <4>2. at'[m][n] = "waiting" /\ timer'[m][n] = 0
        BY <2>2
      <4> QED
        BY <1>u, <1>d, <3>1, <4>1, <4>2 DEF Timely
    <3>2. CASE ~(k = m /\ l = n)
      <4>1. Still(k, l) /\ Timely(k, l)
        BY <1>u, <2>2, <3>2 DEF Still, WaitsInv
      <4> QED
        BY <4>1, StillTimely
    <3> QED
      BY <3>1, <3>2
  <2> QED
    BY <2>3, <2>4
<1>2. CASE BeginHandler(m, n)
  <2> DEFINE t == Max({Due(m, n) - timer[m][n], 0})
  <2>1. t = IF Due(m, n) >= timer[m][n] THEN Due(m, n) - timer[m][n] ELSE 0
    <3> DEFINE a == Due(m, n) - timer[m][n]
    <3>1. a \in Int /\ 0 \in Int /\ (a >= 0 <=> Due(m, n) >= timer[m][n])
      BY <1>d, <1>n
    <3>2. Max({a, 0}) = IF a >= 0 THEN a ELSE 0
      <4> HIDE DEF a
      <4> QED
        BY <3>1, OfTwo
    <3> QED
      BY <3>1, <3>2
  <2>2. /\ at[m][n] = "waiting" /\ Place(m, n, "handling") /\ SetTimer(m, n, t)
        /\ "handling" \in Places /\ t \in Nat
    <3>1. read[who[m][n]] = Written[who[m][n]] /\ at[m][n] = "waiting"
      BY <1>2, <1>t DEF BeginHandler, Sent
    <3>2. SetTimer(m, n, t) /\ Place(m, n, "handling")
      BY <1>2, <3>1 DEF BeginHandler, Due
    <3>3. t \in Nat
      BY <1>d, <1>n, <2>1
    <3> HIDE DEF t
    <3> QED
      BY <3>1, <3>2, <3>3 DEF Places
  <2>3. \A k \in Messages, l \in Numbers :
          /\ at'[k][l] = IF k = m /\ l = n THEN "handling" ELSE at[k][l]
          /\ timer'[k][l] = IF k = m /\ l = n THEN t ELSE timer[k][l]
    <3> HIDE DEF t
    <3> QED
      BY <1>t, <2>2, PlaceTyped, TimerTyped
  <2>4. Timed'
    <3> HIDE DEF t
    <3> QED
      BY <1>t, <1>u, <2>2, TimerTyped DEF Timed
  <2>5. ASSUME NEW k \in Messages, NEW l \in Numbers PROVE Timely(k, l)'
    <3>1. CASE k = m /\ l = n
      <4>1. n = count[m] /\ phase[m] = "pending" => left[m] <= t
        <5>1. n = count[m] /\ phase[m] = "pending" =>
                left[m] = 0 \/ left[m] + timer[m][n] <= Due(m, n)
          BY <1>t, <2>2 DEF Timely
        <5>2. t \in Nat
          BY <2>2
        <5> HIDE DEF t
        <5> QED
          BY <1>n, <1>d, <2>1, <5>1, <5>2
      <4>2. at'[m][n] = "handling" /\ timer'[m][n] = t
        BY <2>3
      <4> HIDE DEF t
      <4> QED
        BY <1>u, <3>1, <4>1, <4>2 DEF Timely
    <3>2. CASE ~(k = m /\ l = n)
      <4>1. Still(k, l) /\ Timely(k, l)
        BY <1>u, <2>3, <3>2 DEF Still, WaitsInv
      <4> QED
        BY <4>1, StillTimely
    <3> QED
      BY <3>1, <3>2
  <2> QED
    BY <2>4, <2>5
<1> QED
  BY <1>1, <1>2 DEF LocalStep

\* A handler returns: its delivery has no deadline any more, and the server waits
\* for the others as before or not at all.
LEMMA ReturnTimely ==
  ASSUME WaitsInv, NEW m \in Messages, NEW n \in Numbers, HandlerReturns(m, n)
  PROVE  Timed' /\ \A k \in Messages, l \in Numbers : Timely(k, l)'
<1>t. Typed /\ Timed
  BY DEF WaitsInv
<1>1. /\ Place(m, n, "over") /\ SetTimer(m, n, 0) /\ "over" \in Places /\ 0 \in Nat
      /\ UNCHANGED <<count, who>>
  BY DEF HandlerReturns, Succeed, SucceedUnacked, Fail, Places, server
<1>2. \A k \in Messages, l \in Numbers :
        /\ at'[k][l] = IF k = m /\ l = n THEN "over" ELSE at[k][l]
        /\ timer'[k][l] = IF k = m /\ l = n THEN 0 ELSE timer[k][l]
  BY <1>t, <1>1, PlaceTyped, TimerTyped
<1>3. /\ left' \in [Messages -> Nat]
      /\ \A k \in Messages : phase'[k] = "pending" => phase[k] = "pending" /\ left'[k] = left[k]
  <2>1. CASE Succeed(m, n)
    <3>1. phase \in [Messages -> Phases]
      BY <1>t DEF Typed
    <3>2. left' = left /\ Acked(m)
      BY <2>1 DEF Succeed
    <3>3. \A k \in Messages : phase'[k] = "pending" => phase[k] = "pending"
      BY <3>1, <3>2 DEF Acked
    <3> QED
      BY <1>t, <3>2, <3>3 DEF Timed
  <2>2. CASE SucceedUnacked(m, n)
    BY <1>t, <2>2 DEF SucceedUnacked, server, Timed
  <2>3. CASE Fail(m, n)
    <3>1. Nacked({m}) \/ UNCHANGED <<phase, left>>
      BY <2>3 DEF Fail
    <3>2. CASE UNCHANGED <<phase, left>>
      BY <1>t, <3>2 DEF Timed
    <3> QED
      BY <1>t, <3>1, <3>2, NackedStill
  <2> QED
    BY <2>1, <2>2, <2>3 DEF HandlerReturns
<1>4. timer' \in [Messages -> [Numbers -> Nat]]
  BY <1>t, <1>1, TimerTyped
<1>5. ASSUME NEW k \in Messages, NEW l \in Numbers PROVE Timely(k, l)'
  <2>1. CASE k = m /\ l = n
    BY <1>2, <2>1 DEF Timely
  <2>2. CASE ~(k = m /\ l = n)
    <3>1. Still(k, l) /\ Timely(k, l)
      BY <1>1, <1>2, <1>3, <2>2 DEF Still, WaitsInv
    <3> QED
      BY <3>1, StillTimely
  <2> QED
    BY <2>1, <2>2
<1> QED
  BY <1>3, <1>4, <1>5 DEF Timed

\* An instance starts, stops or crashes.
LEMMA ProcessTimely ==
  ASSUME WaitsInv, NEW i \in Instances, ProcessStep(i)
  PROVE  Timed' /\ \A k \in Messages, l \in Numbers : Timely(k, l)'
<1>t. Typed /\ Timed
  BY DEF WaitsInv
<1>1. CASE StartInstance(i) \/ BeginStop(i)
  <2>1. UNCHANGED <<phase, left, count, at, who, timer>>
    BY <1>1 DEF StartInstance, BeginStop, server, local
  <2>2. ASSUME NEW k \in Messages, NEW l \in Numbers PROVE Timely(k, l)'
    <3>1. Still(k, l) /\ Timely(k, l)
      BY <2>1 DEF Still, WaitsInv
    <3> QED
      BY <3>1, StillTimely
  <2> QED
    BY <1>t, <2>1, <2>2 DEF Timed
<1>2. CASE StopDrained(i) \/ StopAbandons(i) \/ Crash(i)
  <2>1. Exit(i) /\ (UNCHANGED <<phase, left>> \/ \E M : Nacked(M))
    BY <1>2 DEF StopDrained, StopAbandons, Crash
  <2>2. /\ left' \in [Messages -> Nat]
        /\ \A k \in Messages :
             phase'[k] = "pending" => phase[k] = "pending" /\ left'[k] = left[k]
    <3>1. CASE UNCHANGED <<phase, left>>
      BY <1>t, <3>1 DEF Timed
    <3> QED
      BY <1>t, <2>1, <3>1, NackedStill
  <2>3. /\ UNCHANGED <<count, who>>
        /\ timer' = [m \in Messages |-> [n \in Numbers |->
                       IF <<m, n>> \in Has(i, Live) THEN 0 ELSE timer[m][n]]]
        /\ at' = [m \in Messages |-> [n \in Numbers |->
                    IF <<m, n>> \in Has(i, Live) THEN "lost" ELSE at[m][n]]]
    BY <2>1 DEF Exit
  <2>4. timer' \in [Messages -> [Numbers -> Nat]]
    BY <1>t, <2>3 DEF Timed
  <2>5. ASSUME NEW k \in Messages, NEW l \in Numbers PROVE Timely(k, l)'
    <3>1. CASE <<k, l>> \in Has(i, Live)
      <4>1. at'[k][l] = "lost"
        BY <2>3, <3>1
      <4> QED
        BY <4>1 DEF Timely
    <3>2. CASE <<k, l>> \notin Has(i, Live)
      <4>1. at'[k][l] = at[k][l] /\ timer'[k][l] = timer[k][l]
        BY <2>3, <3>2
      <4>2. Still(k, l) /\ Timely(k, l)
        BY <2>2, <2>3, <4>1 DEF Still, WaitsInv
      <4> QED
        BY <4>2, StillTimely
    <3> QED
      BY <3>1, <3>2
  <2> QED
    BY <2>2, <2>4, <2>5 DEF Timed
<1> QED
  BY <1>1, <1>2 DEF ProcessStep

LEMMA WaitsStep ==
  ASSUME WaitsInv, [Next]_vars, [NotLengthened]_consumer
  PROVE  WaitsInv'
<1> DEFINE Kept == Timed' /\ \A k \in Messages, l \in Numbers : Timely(k, l)'
<1>1. Typed' /\ Configured' /\ \A k \in Messages, l \in Numbers : Sent(k, l)'
  BY TypedStep, ConfiguredStep, SentStep DEF WaitsInv
<1>2. Kept
  <2>1. ASSUME NEW m \in Messages, ServerStep(m) PROVE Kept
    BY <2>1, SendTimely, TurnTimely DEF ServerStep
  <2>2. ASSUME NEW m \in Messages, NEW n \in Numbers, LocalStep(m, n) \/ HandlerReturns(m, n)
        PROVE  Kept
    BY <2>2, LocalTimely, ReturnTimely
  <2>3. ASSUME NEW i \in Instances, ProcessStep(i) PROVE Kept
    BY <2>3, ProcessTimely
  <2>4. CASE Tick
    BY <2>4, TickTimely
  <2>5. CASE UNCHANGED vars
    <3>1. UNCHANGED <<phase, left, count, at, who, timer>>
      BY <2>5 DEF vars, server, local
    <3>2. ASSUME NEW k \in Messages, NEW l \in Numbers PROVE Timely(k, l)'
      <4>1. Still(k, l) /\ Timely(k, l)
        BY <3>1 DEF Still, WaitsInv
      <4> QED
        BY <4>1, StillTimely
    <3> QED
      BY <3>1, <3>2 DEF WaitsInv, Timed
  <2> HIDE DEF Kept
  <2> QED
    BY <2>1, <2>2, <2>3, <2>4, <2>5 DEF Next
<1>3. ASSUME NEW i \in Instances, read'[i] # <<>>, NEW n \in Numbers
      PROVE  Wait(consumer', n) <= Wait(Written[i], n)
  <2>1. CASE UNCHANGED <<consumer, read>>
    BY <1>3, <2>1 DEF WaitsInv
  <2>2. ASSUME NEW k \in Instances, consumer' = Written[k],
               \A j \in Instances : j # k => read'[j] = read[j]
        PROVE  Wait(consumer', n) <= Wait(Written[i], n)
    <3>1. n \in Nat \ {0}
      BY UpToMaxDeliver
    <3>2. Wait(Written[k], n) \in Nat /\ Wait(Written[i], n) \in Nat
      BY <3>1, WaitIsNatural
    <3>3. CASE i = k
      BY <2>2, <3>2, <3>3
    <3>4. CASE i # k
      <4>1. read[i] # <<>>
        BY <1>3, <2>2, <3>4
      <4>2. Configured /\ consumer # <<>>
        BY <4>1, ReadIsWritten DEF WaitsInv
      <4>3. PICK j \in Instances : consumer = Written[j]
        BY <4>2 DEF Configured
      <4>4. Wait(consumer, n) \in Nat
        BY <3>1, <4>3, WaitIsNatural
      <4>5. Wait(consumer, n) <= Wait(Written[i], n)
        BY <4>1 DEF WaitsInv
      <4>6. Wait(consumer', n) <= Wait(consumer, n)
        <5>1. CASE consumer' = consumer
          BY <4>4, <5>1
        <5>2. CASE NotLengthened
          BY <4>2, <5>2 DEF NotLengthened
        <5> QED
          BY <5>1, <5>2
      <4> QED
        BY <2>2, <3>2, <4>4, <4>5, <4>6
    <3> QED
      BY <3>3, <3>4
  <2>3. Configured
    BY DEF WaitsInv
  <2> QED
    BY <2>1, <2>2, <2>3, ConsumerStep
<1>4. \A i \in Instances : read'[i] # <<>> =>
        \A n \in Numbers : Wait(consumer, n)' <= Wait(Written[i], n)'
  BY <1>3 DEF Wait
<1> QED
  BY <1>1, <1>2, <1>4 DEF WaitsInv

\* The deadline a handler's context and Mesh-Deadline carry is not before the
\* moment the server stops waiting for that delivery, whatever waits the instances
\* write, as long as no Start lengthens one.
THEOREM NotCutShortUnlessLengthened == Spec /\ [][NotLengthened]_consumer => []NotCutShort
<1>1. Init => WaitsInv
  <2> SUFFICES ASSUME Init PROVE WaitsInv
    OBVIOUS
  <2>1. Typed /\ Configured
    BY InitTyped, InitConfigured
  <2>2. Timed
    BY DEF Init, Timed
  <2>3. \A m \in Messages, n \in Numbers : Sent(m, n) /\ Timely(m, n)
    BY DEF Init, Sent, Timely
  <2>4. \A i \in Instances : read[i] = <<>>
    BY DEF Init
  <2> QED
    BY <2>1, <2>2, <2>3, <2>4 DEF WaitsInv
<1>2. WaitsInv /\ [Next]_vars /\ [NotLengthened]_consumer => WaitsInv'
  BY WaitsStep
<1>3. WaitsInv => NotCutShort
  BY DEF WaitsInv, Timely, NotCutShort
<1> QED
  BY <1>1, <1>2, <1>3, PTL DEF Spec

-----------------------------------------------------------------------------
(* A group whose instances write the same settings, as between deploys.       *)

SameLast == \A i, j \in Instances : Written[i].maxDeliver = Written[j].maxDeliver
SameWaits ==
    \A i, j \in Instances :
      Written[i].ackWait = Written[j].ackWait /\ Written[i].backoff = Written[j].backoff

\* A Start of such a group writes what the server has.
LEMMA Rewritten ==
  ASSUME Configured, [Next]_vars, consumer # <<>>, consumer' # consumer
  PROVE  \E i, j \in Instances : consumer = Written[i] /\ consumer' = Written[j]
<1>1. PICK i \in Instances : consumer = Written[i]
  BY DEF Configured
<1>2. PICK j \in Instances : consumer' = Written[j]
  BY ConsumerStep
<1> QED
  BY <1>1, <1>2

LEMMA ConfiguredAlways == Spec => []Configured
<1>1. Configured /\ [Next]_vars => Configured'
  BY ConfiguredStep
<1> QED
  BY <1>1, InitConfigured, PTL DEF Spec

LEMMA SameLastIsKept ==
  ASSUME SameLast
  PROVE  Spec => [][NotRaised]_consumer /\ [][NotLowered]_consumer
<1>1. Configured /\ [Next]_vars => [NotRaised]_consumer /\ [NotLowered]_consumer
  <2> SUFFICES ASSUME Configured, [Next]_vars, consumer # <<>>, consumer' # consumer
               PROVE  /\ consumer'.maxDeliver <= consumer.maxDeliver
                      /\ consumer'.maxDeliver >= consumer.maxDeliver
    BY DEF NotRaised, NotLowered
  <2>1. PICK i, j \in Instances : consumer = Written[i] /\ consumer' = Written[j]
    BY Rewritten
  <2>2. consumer.maxDeliver \in Nat /\ consumer'.maxDeliver = consumer.maxDeliver
    BY <2>1, UpToMaxDeliver DEF SameLast
  <2> QED
    BY <2>2
<1> QED
  BY <1>1, ConfiguredAlways, PTL DEF Spec

LEMMA SameWaitsAreKept ==
  ASSUME SameWaits
  PROVE  Spec => [][NotLengthened]_consumer
<1>1. Configured /\ [Next]_vars => [NotLengthened]_consumer
  <2> SUFFICES ASSUME Configured, [Next]_vars, consumer # <<>>, consumer' # consumer,
                      NEW n \in Numbers
               PROVE  Wait(consumer', n) <= Wait(consumer, n)
    BY DEF NotLengthened
  <2>1. PICK i, j \in Instances : consumer = Written[i] /\ consumer' = Written[j]
    BY Rewritten
  <2>2. Wait(Written[i], n) \in Nat
    <3>1. n \in Nat \ {0}
      BY <2>1, UpToMaxDeliver
    <3> QED
      BY <3>1, WaitIsNatural
  <2>3. Wait(Written[j], n) = Wait(Written[i], n)
    BY DEF Wait, SameWaits
  <2> QED
    BY <2>1, <2>2, <2>3
<1> QED
  BY <1>1, ConfiguredAlways, PTL DEF Spec

\* A message the server has given up on, whose last delivery ended in a handler,
\* was handled with success or is logged as not delivered again: in a group with
\* one max_deliver.
THEOREM UsedUpIsLoggedAlways ==
  ASSUME SameLast
  PROVE  Spec => []UsedUpIsLogged
BY SameLastIsKept, LoggedUnlessLowered, PTL

\* What is logged as "message will not be delivered again" is not: in a group with
\* one max_deliver.
THEOREM FinalFailureIsFinalAlways ==
  ASSUME SameLast
  PROVE  Spec => FinalFailureIsFinal
BY SameLastIsKept, FinalUnlessRaised, PTL

\* No handler is told to give up a message that is still its own: in a group with
\* one ack_wait and backoff.
THEOREM NotCutShortAlways ==
  ASSUME SameWaits
  PROVE  Spec => []NotCutShort
BY SameWaitsAreKept, NotCutShortUnlessLengthened, PTL

=============================================================================
