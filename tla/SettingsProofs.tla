--------------------------- MODULE SettingsProofs ---------------------------
(***************************************************************************)
(* Proofs about Settings, for anything New or a call may be given, any      *)
(* consumer of the server, and any width of int: which setting applies,     *)
(* which pull limits reach nats.go, what a delivery number means, and that  *)
(* two accepted targets do not share a subject.                             *)
(***************************************************************************)
EXTENDS Settings, FiniteSetTheorems, SequenceTheorems, WellFoundedInduction, TLAPS

-----------------------------------------------------------------------------
(* Delivery numbers.                                                         *)

LEMMA Half ==
  /\ Word \in Nat \ {0} /\ MaxInt \in Nat /\ Word = 2 * (MaxInt + 1)
  /\ Word \div 2 = MaxInt + 1 /\ DefaultMaxDeliver \in 1..MaxInt
BY WordAssumption DEF MaxInt, DefaultMaxDeliver

\* A number that fits is itself, and a negative one is far up.
LEMMA Modulo ==
  ASSUME NEW x \in -Word..(Word - 1)
  PROVE  x % Word = IF x >= 0 THEN x ELSE x + Word
<1>1. ASSUME NEW w \in Nat \ {0}, NEW y \in -w..(w - 1)
      PROVE  y % w = IF y >= 0 THEN y ELSE y + w
  OBVIOUS
<1> QED
  BY <1>1, Half

LEMMA ToIntIs ==
  ASSUME NEW x \in -Word..(Word - 1)
  PROVE  /\ ToInt(x) \in Int
         /\ x \in -(MaxInt + 1)..MaxInt => ToInt(x) = x
         /\ x < -(MaxInt + 1) => ToInt(x) = x + Word
         /\ x > MaxInt => ToInt(x) = x - Word
<1> DEFINE r == x % Word
<1>1. r = IF x >= 0 THEN x ELSE x + Word
  BY Modulo
<1>2. ToInt(x) = IF r < MaxInt + 1 THEN r ELSE r - Word
  BY Half DEF ToInt
<1> HIDE DEF r
<1> QED
  BY <1>1, <1>2, Half

\* The index of a delivery's backoff entry, for a list whose length is an int.
LEMMA IndexOfDelivery ==
  ASSUME NEW c, Len(c.backoff) \in 1..MaxInt
  PROVE  /\ \A n \in 0..(Word - 1) : BackoffIndex(c, n) \in 0..(Len(c.backoff) - 1)
         /\ \A n \in 1..(MaxInt + 1) :
              BackoffIndex(c, n) = (IF n <= Len(c.backoff) THEN n ELSE Len(c.backoff)) - 1
<1> DEFINE l == Len(c.backoff)
<1>l. l \in 1..MaxInt /\ MaxInt \in Nat
  BY Half
<1>1. ASSUME NEW n \in 0..(Word - 1) PROVE BackoffIndex(c, n) \in 0..(l - 1)
  <2>1. n \in -Word..(Word - 1)
    BY Half
  <2>2. ToInt(n) - 1 \in -Word..(Word - 1)
    BY <2>1, ToIntIs, Half
  <2>3. ToInt(ToInt(n) - 1) \in Int
    BY <2>2, ToIntIs
  <2> HIDE DEF l
  <2>4. \A x \in Int : Min2(Max2(x, 0), l - 1) \in 0..(l - 1)
    BY <1>l DEF Min2, Max2
  <2> QED
    BY <2>3, <2>4 DEF BackoffIndex, l
<1>2. ASSUME NEW n \in 1..(MaxInt + 1) PROVE BackoffIndex(c, n) = (IF n <= l THEN n ELSE l) - 1
  <2>1. n \in -Word..(Word - 1)
    BY Half
  <2>2. CASE n <= MaxInt
    <3>1. ToInt(n) = n
      BY <2>1, <2>2, ToIntIs, Half
    <3>2. n - 1 \in -Word..(Word - 1) /\ n - 1 \in -(MaxInt + 1)..MaxInt
      BY <2>1, <2>2, Half
    <3>3. ToInt(n - 1) = n - 1
      BY <3>2, ToIntIs
    <3> HIDE DEF l
    <3>4. Min2(Max2(n - 1, 0), l - 1) = (IF n <= l THEN n ELSE l) - 1
      BY <1>l, <2>2 DEF Min2, Max2
    <3> QED
      BY <3>1, <3>3, <3>4 DEF BackoffIndex, l
  <2>3. CASE n = MaxInt + 1
    <3>1. ToInt(n) = -(MaxInt + 1)
      BY <2>1, <2>3, ToIntIs, Half
    <3>2. ToInt(n) - 1 \in -Word..(Word - 1) /\ ToInt(n) - 1 < -(MaxInt + 1)
      BY <3>1, Half
    <3>3. ToInt(ToInt(n) - 1) = MaxInt
      BY <3>1, <3>2, ToIntIs, Half
    <3> HIDE DEF l
    <3>4. Min2(Max2(MaxInt, 0), l - 1) = (IF n <= l THEN n ELSE l) - 1
      BY <1>l, <2>3 DEF Min2, Max2
    <3> QED
      BY <3>3, <3>4 DEF BackoffIndex, l
  <2> QED
    BY <1>l, <2>2, <2>3
<1> QED
  BY <1>1, <1>2

\* The last delivery: max_deliver, and none when it is -1.
LEMMA LastOf ==
  ASSUME NEW c, c.maxDeliver \in {-1} \cup 1..MaxInt, NEW n \in 1..(Word - 2)
  PROVE  LastDelivery(c, n) <=> c.maxDeliver # -1 /\ n >= c.maxDeliver
<1>1. c.maxDeliver \in -Word..(Word - 1)
  BY Half
<1>2. c.maxDeliver % Word = IF c.maxDeliver >= 0 THEN c.maxDeliver ELSE c.maxDeliver + Word
  BY <1>1, Modulo
<1> QED
  BY <1>2, Half DEF LastDelivery

-----------------------------------------------------------------------------
(* Pull limits.                                                              *)

\* Every limit is in an option, and one option at most is the size of a pull.
LEMMA LimitsReachOpts ==
  ASSUME NEW p \in [PullKeys -> Nat]
  PROVE  /\ \A k \in PullKeys : p[k] # Unset =>
              \E opt \in ConsumeOpts(p) : p[k] \in ToSet(Tail(opt))
         /\ Cardinality({opt \in ConsumeOpts(p) : opt[1] \notin ToSet(<<OptOf["pull_expiry"],
               OptOf["pull_heartbeat"], OptOf["pull_threshold_messages"]>>)}) <= 1
<1>p. PullKeys = {"pull_max_messages", "pull_max_bytes"} \cup DOMAIN OptOf
  BY DEF PullKeys, OptOf
<1>n. \A k \in PullKeys : p[k] \in Nat /\ (p[k] > 0 <=> p[k] # Unset)
  BY DEF Unset
<1>1. ASSUME NEW k \in DOMAIN OptOf, p[k] # Unset
      PROVE  \E opt \in ConsumeOpts(p) : p[k] \in ToSet(Tail(opt))
  <2>1. <<OptOf[k], p[k]>> \in ConsumeOpts(p)
    BY <1>1, <1>p, <1>n DEF ConsumeOpts
  <2>2. p[k] \in ToSet(Tail(<<OptOf[k], p[k]>>))
    BY DEF ToSet
  <2> QED
    BY <2>1, <2>2
<1>2. ASSUME p["pull_max_messages"] # Unset
      PROVE  \E opt \in ConsumeOpts(p) : p["pull_max_messages"] \in ToSet(Tail(opt))
  <2> DEFINE m == p["pull_max_messages"]
             b == p["pull_max_bytes"]
  <2>1. CASE b > 0
    <3>1. <<"PullMaxMessagesWithBytesLimit", m, b>> \in ConsumeOpts(p)
      BY <1>2, <1>p, <1>n, <2>1 DEF ConsumeOpts, MaxOpt
    <3>2. m \in ToSet(Tail(<<"PullMaxMessagesWithBytesLimit", m, b>>))
      BY DEF ToSet
    <3> QED
      BY <3>1, <3>2
  <2>2. CASE b = Unset
    <3>1. <<"PullMaxMessages", m>> \in ConsumeOpts(p)
      BY <1>2, <1>p, <1>n, <2>2 DEF ConsumeOpts, MaxOpt
    <3>2. m \in ToSet(Tail(<<"PullMaxMessages", m>>))
      BY DEF ToSet
    <3> QED
      BY <3>1, <3>2
  <2> QED
    BY <1>p, <1>n, <2>1, <2>2
<1>3. ASSUME p["pull_max_bytes"] # Unset
      PROVE  \E opt \in ConsumeOpts(p) : p["pull_max_bytes"] \in ToSet(Tail(opt))
  <2> DEFINE m == p["pull_max_messages"]
             b == p["pull_max_bytes"]
  <2>1. CASE m > 0
    <3>1. <<"PullMaxMessagesWithBytesLimit", m, b>> \in ConsumeOpts(p)
      BY <1>3, <1>p, <1>n, <2>1 DEF ConsumeOpts, MaxOpt
    <3>2. b \in ToSet(Tail(<<"PullMaxMessagesWithBytesLimit", m, b>>))
      BY DEF ToSet
    <3> QED
      BY <3>1, <3>2
  <2>2. CASE m = Unset
    <3>1. <<"PullMaxBytes", b>> \in ConsumeOpts(p)
      BY <1>3, <1>p, <1>n, <2>2 DEF ConsumeOpts, MaxOpt
    <3>2. b \in ToSet(Tail(<<"PullMaxBytes", b>>))
      BY DEF ToSet
    <3> QED
      BY <3>1, <3>2
  <2> QED
    BY <1>p, <1>n, <2>1, <2>2
<1>4. ASSUME NEW k \in PullKeys, p[k] # Unset
      PROVE  \E opt \in ConsumeOpts(p) : p[k] \in ToSet(Tail(opt))
  BY <1>1, <1>2, <1>3, <1>4, <1>p
<1> DEFINE Others == ToSet(<<OptOf["pull_expiry"], OptOf["pull_heartbeat"],
                             OptOf["pull_threshold_messages"]>>)
           Sizes == {opt \in ConsumeOpts(p) : opt[1] \notin Others}
<1>5. Sizes \subseteq MaxOpt(p)
  <2>1. \A k \in DOMAIN OptOf : OptOf[k] \in Others
    BY DEF OptOf, ToSet
  <2> HIDE DEF Others
  <2> QED
    BY <2>1 DEF ConsumeOpts
<1>6. IsFiniteSet(MaxOpt(p)) /\ Cardinality(MaxOpt(p)) <= 1
  <2>1. MaxOpt(p) = {} \/ \E opt : MaxOpt(p) = {opt}
    BY DEF MaxOpt
  <2>2. CASE MaxOpt(p) = {}
    BY <2>2, FS_EmptySet
  <2>3. ASSUME NEW opt, MaxOpt(p) = {opt} PROVE IsFiniteSet(MaxOpt(p)) /\ Cardinality(MaxOpt(p)) = 1
    BY <2>3, FS_Singleton
  <2> QED
    BY <2>1, <2>2, <2>3
<1>7. Cardinality(Sizes) <= 1
  <2> HIDE DEF Sizes
  <2>1. Cardinality(Sizes) <= Cardinality(MaxOpt(p)) /\ IsFiniteSet(Sizes)
    BY <1>5, <1>6, FS_Subset
  <2> QED
    BY <1>6, <2>1, FS_CardinalityType
<1> QED
  BY <1>4, <1>7

-----------------------------------------------------------------------------
(* Where a setting comes from.                                               *)

LEMMA MergedGet ==
  ASSUME NEW target, NEW own, NEW key, NEW absent
  PROVE  Get(Merge(target, own), key, absent) = Get(own, key, Get(target, key, absent))
BY DEF Get, Has, Merge

LEMMA LeastIs ==
  ASSUME NEW S \in SUBSET Int, NEW x \in S, \A y \in S : x <= y
  PROVE  Min(S) = x
<1>1. \E z \in S : \A y \in S : z <= y
  OBVIOUS
<1>2. Min(S) \in S /\ \A y \in S : Min(S) <= y
  BY <1>1 DEF Min
<1>3. Min(S) \in Int /\ x \in Int /\ Min(S) <= x /\ x <= Min(S)
  BY <1>2
<1> QED
  BY <1>3

\* The first of two or three maps that set a key.
LEMMA FirstOfTwo ==
  ASSUME NEW own, NEW target, NEW key, NEW default
  PROVE  FirstOf(key, <<own, target>>, default) = Get(Merge(target, own), key, default)
<1> DEFINE maps == <<own, target>>
           setting == {i \in DOMAIN maps : Has(maps[i], key)}
<1>1. setting = (IF Has(own, key) THEN {1} ELSE {}) \cup (IF Has(target, key) THEN {2} ELSE {})
  OBVIOUS
<1>2. maps[1] = own /\ maps[2] = target
  OBVIOUS
<1>3. FirstOf(key, maps, default) = IF setting = {} THEN default ELSE maps[Min(setting)][key]
  BY DEF FirstOf
<1>g. Get(Merge(target, own), key, default) = Get(own, key, Get(target, key, default))
  BY MergedGet
<1> HIDE DEF setting, maps
<1>4. CASE Has(own, key)
  <2>1. Min(setting) = 1
    BY <1>1, <1>4, LeastIs
  <2> QED
    BY <1>1, <1>2, <1>3, <1>g, <1>4, <2>1 DEF Get, maps
<1>5. CASE ~Has(own, key) /\ Has(target, key)
  <2>1. Min(setting) = 2
    BY <1>1, <1>5, LeastIs
  <2> QED
    BY <1>1, <1>2, <1>3, <1>g, <1>5, <2>1 DEF Get, maps
<1>6. CASE ~Has(own, key) /\ ~Has(target, key)
  BY <1>1, <1>3, <1>g, <1>6 DEF Get, maps
<1> QED
  BY <1>4, <1>5, <1>6

LEMMA FirstOfThree ==
  ASSUME NEW own, NEW target, NEW cfg, NEW key, NEW default
  PROVE  FirstOf(key, <<own, target, cfg>>, default) =
            Get(Merge(target, own), key, Get(cfg, key, default))
<1> DEFINE maps == <<own, target, cfg>>
           setting == {i \in DOMAIN maps : Has(maps[i], key)}
<1>1. setting = (IF Has(own, key) THEN {1} ELSE {}) \cup (IF Has(target, key) THEN {2} ELSE {})
                   \cup (IF Has(cfg, key) THEN {3} ELSE {})
  OBVIOUS
<1>2. maps[1] = own /\ maps[2] = target /\ maps[3] = cfg
  OBVIOUS
<1>3. FirstOf(key, maps, default) = IF setting = {} THEN default ELSE maps[Min(setting)][key]
  BY DEF FirstOf
<1>g. Get(Merge(target, own), key, Get(cfg, key, default)) =
        Get(own, key, Get(target, key, Get(cfg, key, default)))
  BY MergedGet
<1> HIDE DEF setting, maps
<1>4. CASE Has(own, key)
  <2>1. Min(setting) = 1
    BY <1>1, <1>4, LeastIs
  <2> QED
    BY <1>1, <1>2, <1>3, <1>g, <1>4, <2>1 DEF Get, maps
<1>5. CASE ~Has(own, key) /\ Has(target, key)
  <2>1. Min(setting) = 2
    BY <1>1, <1>5, LeastIs
  <2> QED
    BY <1>1, <1>2, <1>3, <1>g, <1>5, <2>1 DEF Get, maps
<1>6. CASE ~Has(own, key) /\ ~Has(target, key) /\ Has(cfg, key)
  <2>1. Min(setting) = 3
    BY <1>1, <1>6, LeastIs
  <2> QED
    BY <1>1, <1>2, <1>3, <1>g, <1>6, <2>1 DEF Get, maps
<1>7. CASE ~Has(own, key) /\ ~Has(target, key) /\ ~Has(cfg, key)
  BY <1>1, <1>3, <1>g, <1>7 DEF Get, maps
<1> QED
  BY <1>4, <1>5, <1>6, <1>7

\* What fits before mergeSettings fits after it.
LEMMA MergedFits ==
  ASSUME NEW g \in Givens
  PROVE  IntsFit(Merge(g.target, g.own)) /\ IntsFit(g.cfg)
<1>1. IntsFit(g.target) /\ IntsFit(g.own) /\ IntsFit(g.cfg)
  BY GivensAssumption
<1> DEFINE md == Merge(g.target, g.own)
<1>2. \A key, absent :
        \/ Get(md, key, absent) = Get(g.own, key, absent)
        \/ Get(md, key, absent) = Get(g.target, key, absent)
  BY MergedGet DEF Get
<1> HIDE DEF md
<1>3. IntsFit(md)
  BY <1>1, <1>2 DEF IntsFit
<1> QED
  BY <1>1, <1>3 DEF md

-----------------------------------------------------------------------------
(* Induction along a sequence.                                               *)

\* A set of naturals has a least element: its intervals 0..(x - 1) are finite sets,
\* of which a smallest one is of its least element.
LEMMA LeastNumber ==
  ASSUME NEW S \in SUBSET Nat, S # {}
  PROVE  \E x \in S : \A y \in S : x <= y
<1> DEFINE Below(x) == 0..(x - 1)
           B == {Below(x) : x \in S}
<1>0. ASSUME NEW x \in S PROVE Below(x) \in SUBSET Nat /\ IsFiniteSet(Below(x))
  <2>1. x \in Nat /\ 0 \in Int /\ x - 1 \in Int
    OBVIOUS
  <2>2. IsFiniteSet(Below(x))
    BY <2>1, FS_Interval
  <2> QED
    BY <2>1, <2>2
<1>1. B \subseteq FiniteSubsetsOf(Nat) /\ B # {}
  BY <1>0 DEF FiniteSubsetsOf
<1>2. PICK b \in B : \A a \in B : ~ (<<a, b>> \in StrictSubsetOrdering(Nat))
  BY <1>1, WFMin, FS_StrictSubsetOrderingWellFounded
<1>3. PICK x \in S : b = Below(x)
  OBVIOUS
<1>4. ASSUME NEW y \in S, y < x PROVE FALSE
  <2>1. Below(y) \in B /\ Below(y) \subseteq Nat /\ Below(x) \subseteq Nat
    OBVIOUS
  <2>2. Below(y) \subseteq Below(x) /\ y \in Below(x) /\ y \notin Below(y)
    BY <1>4
  <2> QED
    BY <1>2, <1>3, <2>1, <2>2 DEF StrictSubsetOrdering
<1> QED
  BY <1>4

\* So what holds of 1, and of the next number when it does of one, holds up to any
\* length.
LEMMA UpTo ==
  ASSUME NEW l \in Nat, NEW S, 1 \in S, \A n \in 1..l : n \in S /\ n + 1 \in 1..l => n + 1 \in S
  PROVE  1..l \subseteq S
<1> SUFFICES ASSUME (1..l) \ S # {} PROVE FALSE
  OBVIOUS
<1> DEFINE R == (1..l) \ S
<1>0. R \in SUBSET Nat /\ R # {}
  OBVIOUS
<1> HIDE DEF R
<1>r. \E x \in R : \A y \in R : x <= y
  BY <1>0, LeastNumber
<1>1. PICK x \in (1..l) \ S : \A y \in (1..l) \ S : x <= y
  BY <1>r DEF R
<1>2. x - 1 \in 1..l /\ x - 1 < x /\ (x - 1) + 1 = x
  BY <1>1
<1>3. x - 1 \in S
  BY <1>1, <1>2
<1> QED
  BY <1>1, <1>2, <1>3

-----------------------------------------------------------------------------
(* Subjects.                                                                 *)

\* joined joins the first n segments.
Joins(joined, segs, n) ==
    joined = [k \in 1..n |->
                 IF k = 1 THEN segs[1] ELSE joined[k - 1] \o <<".">> \o segs[k]]

\* The recursion in Subject, over a target's segments, has a solution.
LEMMA JoinExists ==
  ASSUME NEW segs, NEW l \in Nat, l >= 1
  PROVE  \E joined : Joins(joined, segs, l)
<1> DEFINE S == {n \in 1..l : \E joined : Joins(joined, segs, n)}
<1>1. 1 \in S
  <2>1. Joins([k \in 1..1 |-> segs[1]], segs, 1)
    BY DEF Joins
  <2> QED
    BY <2>1
<1>2. ASSUME NEW n \in 1..l, n \in S, n + 1 \in 1..l PROVE n + 1 \in S
  <2>1. PICK joined : Joins(joined, segs, n)
    BY <1>2
  <2> DEFINE more == [k \in 1..(n + 1) |-> IF k = n + 1 THEN joined[n] \o <<".">> \o segs[n + 1]
                                           ELSE joined[k]]
  <2>2. ASSUME NEW k \in 1..(n + 1)
        PROVE  more[k] = IF k = 1 THEN segs[1] ELSE more[k - 1] \o <<".">> \o segs[k]
    <3>1. CASE k = n + 1
      <4>1. n \in 1..(n + 1) /\ n # n + 1 /\ k # 1 /\ k - 1 = n
        BY <3>1
      <4>2. more[n] = joined[n] /\ more[k] = joined[n] \o <<".">> \o segs[n + 1]
        BY <3>1, <4>1
      <4> HIDE DEF more
      <4> QED
        BY <3>1, <4>1, <4>2
    <3>2. CASE k # n + 1
      <4>1. k \in 1..n /\ (k # 1 => k - 1 \in 1..n /\ k - 1 # n + 1)
        BY <3>2
      <4>2. joined[k] = IF k = 1 THEN segs[1] ELSE joined[k - 1] \o <<".">> \o segs[k]
        BY <2>1, <4>1 DEF Joins
      <4> QED
        BY <3>2, <4>1, <4>2
    <3> QED
      BY <3>1, <3>2
  <2>3. Joins(more, segs, n + 1)
    <3>1. more = [k \in 1..(n + 1) |-> more[k]]
      OBVIOUS
    <3> HIDE DEF more
    <3> QED
      BY <2>2, <3>1 DEF Joins
  <2> QED
    BY <1>2, <2>3
<1> HIDE DEF S
<1>3. l \in 1..l /\ 1..l \subseteq S
  BY <1>1, <1>2, UpTo
<1> QED
  BY <1>3 DEF S

LEMMA SubjectJoins ==
  ASSUME NEW segs \in Seq(Seq(STRING)), segs # <<>>
  PROVE  \E joined : Joins(joined, segs, Len(segs)) /\ Subject(segs) = joined[Len(segs)]
<1>1. DOMAIN segs = 1..Len(segs) /\ Len(segs) \in Nat /\ Len(segs) >= 1
  BY EmptySeq
<1> DEFINE join == CHOOSE g : g = [n \in DOMAIN segs |->
                              IF n = 1 THEN segs[1] ELSE g[n - 1] \o <<".">> \o segs[n]]
<1>2. Subject(segs) = join[Len(segs)]
  BY DEF Subject
<1>3. PICK g : Joins(g, segs, Len(segs))
  BY <1>1, JoinExists
<1>4. g = [n \in DOMAIN segs |-> IF n = 1 THEN segs[1] ELSE g[n - 1] \o <<".">> \o segs[n]]
  BY <1>1, <1>3 DEF Joins
<1>5. join = [n \in DOMAIN segs |-> IF n = 1 THEN segs[1] ELSE join[n - 1] \o <<".">> \o segs[n]]
  BY <1>4
<1>6. Joins(join, segs, Len(segs))
  BY <1>1, <1>5 DEF Joins
<1> QED
  BY <1>2, <1>6

\* The characters of a subject.  (The provers do not know "." to be a string.)
Char == STRING \cup {"."}
Free(seg) == \A i \in 1..Len(seg) : seg[i] # "." /\ seg[i] # "wildcard"

LEMMA SegmentsAreFree ==
  ASSUME NEW seg \in Seq(Char), SegmentOK(seg)
  PROVE  Free(seg) /\ Len(seg) \in Nat \ {0}
<1>1. \A i \in 1..Len(seg) : seg[i] \in ToSet(seg)
  BY DEF ToSet
<1>2. "." \notin ToSet(seg) /\ "wildcard" \notin ToSet(seg) /\ seg # <<>>
  BY DEF SegmentOK
<1> QED
  BY <1>1, <1>2, EmptySeq DEF Free

\* The characters of two strings with a dot between them.
Dotted(w, x, a) ==
    /\ w \in Seq(Char) /\ Len(w) = Len(x) + 1 + Len(a)
    /\ \A i \in 1..Len(x) : w[i] = x[i]
    /\ w[Len(x) + 1] = "."
    /\ \A i \in 1..Len(a) : w[Len(x) + 1 + i] = a[i]

LEMMA DotBetween ==
  ASSUME NEW x \in Seq(Char), NEW a \in Seq(Char)
  PROVE  Dotted(x \o <<".">> \o a, x, a)
<1>0. "." \in Char
  BY DEF Char
<1>1. <<".">> \in Seq(Char) /\ Len(<<".">>) = 1 /\ <<".">>[1] = "."
  BY <1>0
<1> DEFINE v == x \o <<".">>
<1>2. /\ v \in Seq(Char) /\ Len(v) = Len(x) + 1
      /\ \A i \in 1..Len(x) : v[i] = x[i]
      /\ v[Len(x) + 1] = "."
  BY <1>1, ConcatProperties, LenProperties
<1> HIDE DEF v
<1>3. /\ v \o a \in Seq(Char) /\ Len(v \o a) = Len(v) + Len(a)
      /\ \A i \in 1..(Len(v) + Len(a)) : (v \o a)[i] = IF i <= Len(v) THEN v[i] ELSE a[i - Len(v)]
  BY <1>2, ConcatProperties
<1>4. Len(x) \in Nat /\ Len(a) \in Nat
  BY LenProperties
<1>5. \A i \in 1..Len(x) : (v \o a)[i] = x[i]
  BY <1>2, <1>3, <1>4
<1>6. (v \o a)[Len(x) + 1] = "."
  BY <1>2, <1>3, <1>4
<1>7. ASSUME NEW i \in 1..Len(a) PROVE (v \o a)[Len(x) + 1 + i] = a[i]
  <2>1. Len(x) + 1 + i \in 1..(Len(v) + Len(a)) /\ ~(Len(x) + 1 + i <= Len(v))
        /\ Len(x) + 1 + i - Len(v) = i
    BY <1>2, <1>4
  <2> QED
    BY <1>3, <2>1
<1> QED
  BY <1>2, <1>3, <1>5, <1>6, <1>7 DEF v, Dotted

\* The last dot of such a string is the one before its last segment, so it has only
\* one.
LEMMA LastDot ==
  ASSUME NEW x \in Seq(Char), NEW a \in Seq(Char), NEW y \in Seq(Char), NEW b \in Seq(Char),
         Free(a), x \o <<".">> \o a = y \o <<".">> \o b
  PROVE  Len(y) <= Len(x)
<1> SUFFICES ASSUME Len(x) < Len(y) PROVE FALSE
  BY LenProperties
<1> DEFINE w == x \o <<".">> \o a
           i == Len(y) - Len(x)
<1>d. Dotted(w, x, a) /\ Dotted(w, y, b)
  <2>1. Dotted(x \o <<".">> \o a, x, a) /\ Dotted(y \o <<".">> \o b, y, b)
    BY DotBetween
  <2> QED
    BY <2>1
<1>1. Len(x) \in Nat /\ Len(a) \in Nat /\ Len(y) \in Nat /\ Len(b) \in Nat
  BY LenProperties
<1>2. Len(w) = Len(x) + 1 + Len(a) /\ \A j \in 1..Len(a) : w[Len(x) + 1 + j] = a[j]
  BY <1>d DEF Dotted
<1>3. Len(w) = Len(y) + 1 + Len(b) /\ w[Len(y) + 1] = "."
  BY <1>d DEF Dotted
<1> HIDE DEF w
<1>4. i \in 1..Len(a) /\ Len(x) + 1 + i = Len(y) + 1
  BY <1>1, <1>2, <1>3
<1>5. a[i] = "."
  BY <1>2, <1>3, <1>4
<1> QED
  BY <1>4, <1>5 DEF Free

LEMMA OneLastDot ==
  ASSUME NEW x \in Seq(Char), NEW a \in Seq(Char), NEW y \in Seq(Char), NEW b \in Seq(Char),
         Free(a), Free(b), x \o <<".">> \o a = y \o <<".">> \o b
  PROVE  x = y /\ a = b
<1>1. Len(x) \in Nat /\ Len(a) \in Nat /\ Len(y) \in Nat /\ Len(b) \in Nat
  BY LenProperties
<1>2. Len(y) <= Len(x) /\ Len(x) <= Len(y)
  BY LastDot
<1>3. Len(x) = Len(y)
  BY <1>1, <1>2
<1> DEFINE w == x \o <<".">> \o a
<1>d. Dotted(w, x, a) /\ Dotted(w, y, b)
  <2>1. Dotted(x \o <<".">> \o a, x, a) /\ Dotted(y \o <<".">> \o b, y, b)
    BY DotBetween
  <2> QED
    BY <2>1
<1>4. Len(w) = Len(x) + 1 + Len(a) /\ (\A j \in 1..Len(x) : w[j] = x[j])
      /\ (\A j \in 1..Len(a) : w[Len(x) + 1 + j] = a[j])
  BY <1>d DEF Dotted
<1>5. Len(w) = Len(y) + 1 + Len(b) /\ (\A j \in 1..Len(y) : w[j] = y[j])
      /\ (\A j \in 1..Len(b) : w[Len(y) + 1 + j] = b[j])
  BY <1>d DEF Dotted
<1> HIDE DEF w
<1>6. Len(a) = Len(b)
  BY <1>1, <1>3, <1>4, <1>5
<1>7. \A j \in 1..Len(x) : x[j] = y[j]
  BY <1>3, <1>4, <1>5
<1>8. \A j \in 1..Len(a) : a[j] = b[j]
  BY <1>3, <1>4, <1>5, <1>6
<1>9. x = y
  BY <1>3, <1>7, SeqEqual
<1>10. a = b
  BY <1>6, <1>8, SeqEqual
<1> QED
  BY <1>9, <1>10

\* A joined subject has a dot or is one segment, and no wildcard.
OKSegments(segs) == segs \in Seq(Seq(Char)) /\ TargetOK(segs)

LEMMA TargetSegments ==
  ASSUME NEW segs, OKSegments(segs)
  PROVE  /\ Len(segs) \in Nat /\ Len(segs) >= 1 /\ segs # <<>>
         /\ \A i \in 1..Len(segs) : segs[i] \in Seq(Char) /\ Free(segs[i])
<1>1. segs \in Seq(Seq(Char)) /\ segs # <<>> /\ \A seg \in ToSet(segs) : SegmentOK(seg)
  BY DEF OKSegments, TargetOK
<1>2. Len(segs) \in Nat /\ Len(segs) >= 1
  BY <1>1, EmptySeq
<1>3. ASSUME NEW i \in 1..Len(segs) PROVE segs[i] \in Seq(Char) /\ Free(segs[i])
  <2>1. segs[i] \in Seq(Char) /\ segs[i] \in ToSet(segs)
    BY <1>1 DEF ToSet
  <2> QED
    BY <1>1, <2>1, SegmentsAreFree
<1> QED
  BY <1>1, <1>2, <1>3

LEMMA JoinSteps ==
  ASSUME NEW segs, NEW joined, NEW l \in Nat, l >= 1, Joins(joined, segs, l)
  PROVE  /\ joined[1] = segs[1]
         /\ \A n \in 1..l : n # 1 => joined[n] = joined[n - 1] \o <<".">> \o segs[n]
<1>1. \A n \in 1..l : joined[n] = IF n = 1 THEN segs[1] ELSE joined[n - 1] \o <<".">> \o segs[n]
  BY DEF Joins
<1>2. 1 \in 1..l
  OBVIOUS
<1> QED
  BY <1>1, <1>2

LEMMA JoinTyped ==
  ASSUME NEW segs, OKSegments(segs), NEW joined, Joins(joined, segs, Len(segs))
  PROVE  \A n \in 1..Len(segs) :
            /\ joined[n] \in Seq(Char)
            /\ \A i \in 1..Len(joined[n]) : joined[n][i] # "wildcard"
<1>0. /\ Len(segs) \in Nat /\ Len(segs) >= 1
      /\ \A i \in 1..Len(segs) : segs[i] \in Seq(Char) /\ Free(segs[i])
  BY TargetSegments
<1>j. /\ joined[1] = segs[1]
      /\ \A n \in 1..Len(segs) : n # 1 => joined[n] = joined[n - 1] \o <<".">> \o segs[n]
  BY <1>0, JoinSteps
<1> DEFINE Plain(w) == w \in Seq(Char) /\ \A i \in 1..Len(w) : w[i] # "wildcard"
           S == {n \in 1..Len(segs) : Plain(joined[n])}
<1>1. 1 \in S
  BY <1>0, <1>j DEF Free
<1>2. ASSUME NEW n \in 1..Len(segs), n \in S, n + 1 \in 1..Len(segs) PROVE n + 1 \in S
  <2>1. joined[n + 1] = joined[n] \o <<".">> \o segs[n + 1]
    <3>1. n + 1 # 1 /\ (n + 1) - 1 = n
      OBVIOUS
    <3> QED
      BY <1>j, <1>2, <3>1
  <2>2. joined[n] \in Seq(Char) /\ \A i \in 1..Len(joined[n]) : joined[n][i] # "wildcard"
    BY <1>2
  <2>3. segs[n + 1] \in Seq(Char) /\ Free(segs[n + 1])
    BY <1>0, <1>2
  <2> DEFINE x == joined[n]
             a == segs[n + 1]
             w == joined[n + 1]
  <2>4. /\ w \in Seq(Char) /\ Len(w) = Len(x) + 1 + Len(a)
        /\ \A i \in 1..Len(x) : w[i] = x[i]
        /\ w[Len(x) + 1] = "."
        /\ \A i \in 1..Len(a) : w[Len(x) + 1 + i] = a[i]
    <3>1. Dotted(x \o <<".">> \o a, x, a)
      BY <2>2, <2>3, DotBetween
    <3>2. w = x \o <<".">> \o a
      BY <2>1
    <3> HIDE DEF w, x, a
    <3>3. Dotted(w, x, a)
      BY <3>1, <3>2
    <3> QED
      BY <3>3 DEF Dotted
  <2>5. Len(x) \in Nat /\ Len(a) \in Nat
    BY <2>2, <2>3, LenProperties
  <2>6. \A i \in 1..Len(x) : x[i] # "wildcard"
    BY <2>2
  <2>7. \A i \in 1..Len(a) : a[i] # "wildcard"
    BY <2>3 DEF Free
  <2> HIDE DEF x, a, w
  <2>8. ASSUME NEW i \in 1..Len(w) PROVE w[i] # "wildcard"
    <3>1. CASE i <= Len(x)
      BY <2>4, <2>5, <2>6, <3>1
    <3>2. CASE i = Len(x) + 1
      BY <2>4, <3>2
    <3>3. CASE i > Len(x) + 1
      <4>1. i - (Len(x) + 1) \in 1..Len(a) /\ Len(x) + 1 + (i - (Len(x) + 1)) = i
        BY <2>4, <2>5, <3>3
      <4>2. w[i] = a[i - (Len(x) + 1)]
        BY <2>4, <4>1
      <4> QED
        BY <2>7, <4>1, <4>2
    <3> QED
      BY <2>5, <3>1, <3>2, <3>3
  <2> QED
    BY <1>2, <2>4, <2>8 DEF w
<1> HIDE DEF S
<1>3. 1..Len(segs) \subseteq S
  BY <1>0, <1>1, <1>2, UpTo
<1> QED
  BY <1>3 DEF S

\* Only a target of one segment has a subject without a dot.
LEMMA FirstHasNoDot ==
  ASSUME NEW segs, OKSegments(segs), NEW other, OKSegments(other),
         NEW joined, Joins(joined, segs, Len(segs)), NEW l \in 1..Len(segs),
         joined[l] = other[1]
  PROVE  l = 1
<1> SUFFICES ASSUME l # 1 PROVE FALSE
  OBVIOUS
<1>1. /\ Len(segs) \in Nat /\ Len(segs) >= 1 /\ Len(other) \in Nat /\ Len(other) >= 1
      /\ \A i \in 1..Len(segs) : segs[i] \in Seq(Char)
      /\ \A i \in 1..Len(other) : other[i] \in Seq(Char) /\ Free(other[i])
  BY TargetSegments
<1>2. joined[l] = joined[l - 1] \o <<".">> \o segs[l]
  BY <1>1, JoinSteps
<1>3. joined[l - 1] \in Seq(Char) /\ segs[l] \in Seq(Char)
  <2>1. l - 1 \in 1..Len(segs)
    BY <1>1
  <2> QED
    BY <1>1, <2>1, JoinTyped
<1> DEFINE x == joined[l - 1]
           a == segs[l]
           w == other[1]
<1>4. w = x \o <<".">> \o a
  BY <1>2
<1>5. 1 \in 1..Len(other)
  BY <1>1
<1>6. Free(w)
  BY <1>1, <1>5
<1> HIDE DEF x, a, w
<1>7. Dotted(w, x, a)
  <2>1. x \in Seq(Char) /\ a \in Seq(Char)
    BY <1>3 DEF x, a
  <2>2. Dotted(x \o <<".">> \o a, x, a)
    BY <2>1, DotBetween
  <2> QED
    BY <1>4, <2>2
<1>8. Len(x) \in Nat /\ Len(a) \in Nat
  BY <1>3, LenProperties DEF x, a
<1>9. w[Len(x) + 1] = "." /\ Len(x) + 1 \in 1..Len(w)
  BY <1>7, <1>8 DEF Dotted
<1> QED
  BY <1>6, <1>9 DEF Free

\* Joins of the first segments of two targets are equal only when these are as many,
\* and equal.
Same(s, t, k) == \A i \in 1..k : s[i] = t[i]

LEMMA EqualJoins ==
  ASSUME NEW s, OKSegments(s), NEW t, OKSegments(t),
         NEW p, Joins(p, s, Len(s)), NEW q, Joins(q, t, Len(t))
  PROVE  \A k \in 1..Len(s) : \A l \in 1..Len(t) : p[k] = q[l] => k = l /\ Same(s, t, k)
<1> DEFINE Distinct(k) == \A l \in 1..Len(t) : p[k] = q[l] => k = l /\ Same(s, t, k)
           S == {k \in 1..Len(s) : Distinct(k)}
<1>0. /\ Len(s) \in Nat /\ Len(s) >= 1 /\ Len(t) \in Nat /\ Len(t) >= 1
      /\ \A i \in 1..Len(s) : s[i] \in Seq(Char) /\ Free(s[i])
      /\ \A i \in 1..Len(t) : t[i] \in Seq(Char) /\ Free(t[i])
  BY TargetSegments
<1>p. p[1] = s[1] /\ \A n \in 1..Len(s) : n # 1 => p[n] = p[n - 1] \o <<".">> \o s[n]
  BY <1>0, JoinSteps
<1>q. q[1] = t[1] /\ \A n \in 1..Len(t) : n # 1 => q[n] = q[n - 1] \o <<".">> \o t[n]
  BY <1>0, JoinSteps
<1>1. Distinct(1)
  <2> SUFFICES ASSUME NEW l \in 1..Len(t), p[1] = q[l] PROVE 1 = l /\ Same(s, t, 1)
    OBVIOUS
  <2>1. q[l] = s[1]
    BY <1>p
  <2>2. l = 1
    BY <2>1, FirstHasNoDot
  <2>3. s[1] = t[1]
    BY <2>1, <2>2, <1>q
  <2> QED
    BY <2>2, <2>3 DEF Same
<1>2. ASSUME NEW n \in 1..Len(s), Distinct(n), n + 1 \in 1..Len(s) PROVE Distinct(n + 1)
  <2> SUFFICES ASSUME NEW l \in 1..Len(t), p[n + 1] = q[l]
               PROVE  n + 1 = l /\ Same(s, t, n + 1)
    OBVIOUS
  <2>1. n + 1 # 1 /\ (n + 1) - 1 = n
    OBVIOUS
  <2>2. l # 1
    <3> SUFFICES ASSUME l = 1 PROVE FALSE
      OBVIOUS
    <3>1. p[n + 1] = t[1]
      BY <1>q
    <3>2. n + 1 = 1
      BY <1>2, <3>1, FirstHasNoDot
    <3> QED
      BY <2>1, <3>2
  <2>3. l - 1 \in 1..Len(t) /\ (l - 1) + 1 = l
    BY <2>2, <1>0
  <2>4. p[n + 1] = p[n] \o <<".">> \o s[n + 1]
    BY <1>p, <1>2, <2>1
  <2>5. q[l] = q[l - 1] \o <<".">> \o t[l]
    BY <1>q, <2>2
  <2>6. p[n] \in Seq(Char) /\ q[l - 1] \in Seq(Char)
    <3>1. \A i \in 1..Len(s) : p[i] \in Seq(Char)
      BY JoinTyped
    <3>2. \A i \in 1..Len(t) : q[i] \in Seq(Char)
      BY JoinTyped
    <3> QED
      BY <2>3, <3>1, <3>2
  <2>7. s[n + 1] \in Seq(Char) /\ Free(s[n + 1]) /\ t[l] \in Seq(Char) /\ Free(t[l])
    BY <1>0, <1>2
  <2>8. p[n] \o <<".">> \o s[n + 1] = q[l - 1] \o <<".">> \o t[l]
    BY <2>4, <2>5
  <2>9. p[n] = q[l - 1] /\ s[n + 1] = t[l]
    <3> DEFINE x == p[n]
               a == s[n + 1]
               y == q[l - 1]
               b == t[l]
    <3>1. x \in Seq(Char) /\ a \in Seq(Char) /\ y \in Seq(Char) /\ b \in Seq(Char)
      BY <2>6, <2>7
    <3>2. Free(a) /\ Free(b)
      BY <2>7
    <3>3. x \o <<".">> \o a = y \o <<".">> \o b
      BY <2>8
    <3> HIDE DEF x, a, y, b
    <3>4. x = y /\ a = b
      BY <3>1, <3>2, <3>3, OneLastDot
    <3> QED
      BY <3>4 DEF x, a, y, b
  <2>10. n = l - 1 /\ Same(s, t, n)
    BY <1>2, <2>3, <2>9
  <2>11. n + 1 = l
    BY <2>3, <2>10
  <2>12. ASSUME NEW i \in 1..(n + 1) PROVE s[i] = t[i]
    <3>1. CASE i = n + 1
      BY <2>9, <2>11, <3>1
    <3>2. CASE i # n + 1
      <4>1. i \in 1..n
        BY <3>2
      <4> QED
        BY <2>10, <4>1 DEF Same
    <3> QED
      BY <3>1, <3>2
  <2> QED
    BY <2>11, <2>12 DEF Same
<1>3. 1 \in S
  BY <1>0, <1>1
<1>4. \A n \in 1..Len(s) : n \in S /\ n + 1 \in 1..Len(s) => n + 1 \in S
  BY <1>2
<1> HIDE DEF S
<1>5. 1..Len(s) \subseteq S
  BY <1>0, <1>3, <1>4, UpTo
<1>6. ASSUME NEW k \in 1..Len(s) PROVE Distinct(k)
  BY <1>5 DEF S
<1> QED
  BY <1>6

\* Two targets that New accepts have one subject only when they have the same
\* segments, and it is a literal one (subject, checkSegment): strings.Join loses
\* nothing where no segment has a dot.
THEOREM SubjectIsInjective ==
  ASSUME NEW s \in Seq(Seq(STRING)), NEW t \in Seq(Seq(STRING)), TargetOK(s), TargetOK(t)
  PROVE  /\ "wildcard" \notin ToSet(Subject(s))
         /\ Subject(s) = Subject(t) => s = t
<1>1. OKSegments(s) /\ OKSegments(t)
  <2>1. STRING \subseteq Char
    BY DEF Char
  <2>2. Seq(STRING) \subseteq Seq(Char)
    BY <2>1, SeqMonotonic
  <2>3. Seq(Seq(STRING)) \subseteq Seq(Seq(Char))
    BY <2>2, SeqMonotonic
  <2> QED
    BY <2>3 DEF OKSegments
<1>2. Len(s) \in Nat /\ Len(s) >= 1 /\ s # <<>> /\ Len(t) \in Nat /\ Len(t) >= 1 /\ t # <<>>
  BY <1>1, TargetSegments
<1>3. PICK p : Joins(p, s, Len(s)) /\ Subject(s) = p[Len(s)]
  BY <1>2, SubjectJoins
<1>4. PICK q : Joins(q, t, Len(t)) /\ Subject(t) = q[Len(t)]
  BY <1>2, SubjectJoins
<1>5. Len(s) \in 1..Len(s) /\ Len(t) \in 1..Len(t)
  BY <1>2
<1>6. /\ Subject(s) \in Seq(Char)
      /\ \A i \in 1..Len(Subject(s)) : Subject(s)[i] # "wildcard"
  BY <1>1, <1>3, <1>5, JoinTyped
<1>7. "wildcard" \notin ToSet(Subject(s))
  BY <1>6 DEF ToSet
<1>8. ASSUME Subject(s) = Subject(t) PROVE s = t
  <2>1. Len(s) = Len(t) /\ Same(s, t, Len(s))
    <3>1. p[Len(s)] = q[Len(t)]
      BY <1>3, <1>4, <1>8
    <3>2. Joins(p, s, Len(s)) /\ Joins(q, t, Len(t))
      BY <1>3, <1>4
    <3>3. \A k \in 1..Len(s) : \A l \in 1..Len(t) : p[k] = q[l] => k = l /\ Same(s, t, k)
      BY <1>1, <3>2, EqualJoins
    <3> QED
      BY <1>5, <3>1, <3>3
  <2>2. \A i \in 1..Len(s) : s[i] = t[i]
    BY <2>1 DEF Same
  <2> QED
    BY <2>1, <2>2, SeqEqual
<1> QED
  BY <1>7, <1>8

-----------------------------------------------------------------------------
(* What New, a call and Start make of it.                                    *)

Ready == RuntimeSettings(given.cfg)
ReadJetStream == JetStream(Settings, Queue, Ready)

\* A subscriber's JetStream settings are those New read and checked; a call's
\* timeout is the nearest; and what may not have a stream has none.
SubInv ==
    /\ given \in Givens
    /\ phase \in {"given", "rejected"} => sub = NoSub /\ call = NoCall
    /\ sub.js # <<>> => /\ ConfigOK(given.cfg) /\ JetStreamOK(Settings, Queue, Ready)
                       /\ sub.js = ReadJetStream
    /\ call.timeout \in {Unset, Get(Settings, "request_timeout", ClientTimeout(given.cfg))}
    /\ phase = "ready" /\ given.role \in {"endpoint", "request"} => ~Streams(Settings)

\* The settings a consumer may have: those the server is sent, or those it had.
ConsumerAcks ==
    IF sub.js.create THEN {sub.js.config.ack} ELSE {c.ack : c \in ServerConfigs}

\* A consumer that is open has such settings, and acks only as New read it.
ConsumerInv ==
    /\ phase # "open" => consumer = NoConsumer
    /\ phase = "open" =>
         /\ sub.js # <<>>
         /\ \/ ~consumer.acks /\ consumer.backoff = <<>>
            \/ /\ consumer.acks => sub.js.ack # "none"
               /\ \E ack \in ConsumerAcks :
                     consumer.backoff = ack.backoff /\ consumer.maxDeliver = ack.maxDeliver

SettingsInv == SubInv /\ ConsumerInv

LEMMA Nothing ==
  /\ NoSub.js = <<>> /\ NoCall.timeout = Unset
  /\ ~NoConsumer.acks /\ NoConsumer.backoff = <<>>
BY DEF NoSub, NoCall, NoConsumer

LEMMA SettingsInit == Init => SettingsInv
<1> SUFFICES ASSUME Init PROVE SettingsInv
  OBVIOUS
<1>1. phase = "given" /\ given \in Givens /\ sub = NoSub /\ call = NoCall /\ consumer = NoConsumer
  BY DEF Init
<1>2. sub.js = <<>> /\ call.timeout = Unset
  BY <1>1, Nothing
<1> QED
  BY <1>1, <1>2 DEF SettingsInv, SubInv, ConsumerInv

LEMMA RejectKeeps ==
  ASSUME SettingsInv, NewRejects \/ CallRejects
  PROVE  SettingsInv'
<1>1. /\ phase = "given" /\ phase' = "rejected"
      /\ UNCHANGED <<given, sub, call, consumer>>
  BY DEF NewRejects, CallRejects
<1>2. sub = NoSub /\ call = NoCall /\ given \in Givens /\ consumer = NoConsumer
  BY <1>1 DEF SettingsInv, SubInv, ConsumerInv
<1>3. sub'.js = <<>> /\ call'.timeout = Unset
  BY <1>1, <1>2, Nothing
<1> QED
  BY <1>1, <1>2, <1>3 DEF SettingsInv, SubInv, ConsumerInv

LEMMA NewKeeps ==
  ASSUME SettingsInv, NewAccepts
  PROVE  SettingsInv'
<1>1. /\ phase = "given" /\ phase' = "ready" /\ Accepted
      /\ given.role \in {"endpoint", "subscriber"}
      /\ UNCHANGED <<given, call, consumer>>
      /\ sub' = [subject |-> Subject(given.segments), queue |-> Queue,
                 js |-> IF Streams(Settings) THEN ReadJetStream ELSE <<>>]
  BY DEF NewAccepts, ReadJetStream, Ready
<1>2. sub'.js = IF Streams(Settings) THEN ReadJetStream ELSE <<>>
  BY <1>1
<1>0. call = NoCall /\ given \in Givens /\ consumer = NoConsumer
  BY <1>1 DEF SettingsInv, SubInv, ConsumerInv
<1>3. call.timeout = Unset
  BY <1>0, Nothing
<1>4. given.role = "endpoint" => ~Streams(Settings)
  BY <1>1 DEF Accepted, EndpointOK
<1>5. Streams(Settings) => /\ ConfigOK(given.cfg) /\ JetStreamOK(Settings, Queue, Ready)
  BY <1>1 DEF Accepted, EndpointOK, SubscriberOK, Ready
<1>6. /\ Settings' = Settings /\ Queue' = Queue /\ Ready' = Ready
      /\ ReadJetStream' = ReadJetStream
  BY <1>1 DEF Settings, Queue, Ready, ReadJetStream
<1>7. SubInv'
  BY <1>0, <1>1, <1>2, <1>3, <1>4, <1>5, <1>6 DEF SubInv
<1>8. ConsumerInv'
  BY <1>0, <1>1 DEF ConsumerInv
<1> QED
  BY <1>7, <1>8 DEF SettingsInv

LEMMA CallKeeps ==
  ASSUME SettingsInv, CallGoesOn
  PROVE  SettingsInv'
<1>1. /\ phase = "given" /\ phase' = "ready" /\ CallAccepted
      /\ given.role \in {"request", "publish"}
      /\ UNCHANGED <<given, consumer>>
      /\ sub' = [sub EXCEPT !.subject = Subject(given.segments)]
  BY DEF CallGoesOn
<1>0. sub = NoSub /\ given \in Givens /\ consumer = NoConsumer
  BY <1>1 DEF SettingsInv, SubInv, ConsumerInv
<1>2. sub'.js = <<>>
  BY <1>0, <1>1 DEF NoSub
<1>3. call'.timeout \in {Unset, Get(Settings, "request_timeout", ClientTimeout(given.cfg))}
  BY DEF CallGoesOn
<1>4. given.role = "request" => ~Streams(Settings)
  BY <1>1 DEF CallAccepted, RequestOK, EndpointOK
<1>5. Settings' = Settings
  BY <1>1 DEF Settings
<1>6. SubInv'
  BY <1>0, <1>1, <1>2, <1>3, <1>4, <1>5 DEF SubInv
<1>7. ConsumerInv'
  BY <1>0, <1>1 DEF ConsumerInv
<1> QED
  BY <1>6, <1>7 DEF SettingsInv

\* The server sets the ack wait, and nothing else the runtime reads back.
LEMMA ServerSetsWait ==
  ASSUME NEW ack, {"wait", "maxDeliver", "backoff"} \subseteq DOMAIN ack
  PROVE  ServerSets(ack).backoff = ack.backoff /\ ServerSets(ack).maxDeliver = ack.maxDeliver
BY DEF ServerSets

\* What New keeps of a subscriber's settings, and what is sent of them.
LEMMA JetStreamReads ==
  ASSUME NEW md, NEW group, NEW s
  PROVE  /\ JetStream(md, group, s).stream = Get(md, "stream", "")
         /\ JetStream(md, group, s).create = Creates(md)
         /\ JetStream(md, group, s).ack = Ack(md)
         /\ JetStream(md, group, s).pull = PullSettings(md, s.pull)
         /\ JetStream(md, group, s).config = ConsumerConfig(md, group, s)
BY DEF JetStream

LEMMA ConsumerConfigSends ==
  ASSUME NEW md, NEW group, NEW s
  PROVE  /\ ConsumerConfig(md, group, s).ackPolicy =
               IF Ack(md) = "none" THEN "none" ELSE "explicit"
         /\ ConsumerConfig(md, group, s).ack =
               IF Ack(md) = "none" THEN NoAckSettings ELSE AckSettings(md, s.maxDeliver)
BY DEF ConsumerConfig

LEMMA OpenKeeps ==
  ASSUME SettingsInv, OpenCreated \/ OpenLookedUp
  PROVE  SettingsInv'
<1>1. /\ phase = "ready" /\ phase' = "open" /\ sub.js # <<>>
      /\ UNCHANGED <<given, sub, call>>
  BY DEF OpenCreated, OpenLookedUp, OpenWith
<1>2. \E ackPolicy, ack :
        /\ OpenWith(ackPolicy, ServerSets(ack))
        /\ {"wait", "maxDeliver", "backoff"} \subseteq DOMAIN ack
        /\ ack \in ConsumerAcks
  <2>1. CASE OpenCreated
    <3>1. sub.js = ReadJetStream
      BY <1>1 DEF SettingsInv, SubInv
    <3>2. {"wait", "maxDeliver", "backoff"} \subseteq DOMAIN sub.js.config.ack
      <4>1. sub.js.config.ack = IF Ack(Settings) = "none" THEN NoAckSettings
                                ELSE AckSettings(Settings, Ready.maxDeliver)
        <5>1. sub.js.config = ConsumerConfig(Settings, Queue, Ready)
          BY <3>1, JetStreamReads DEF ReadJetStream
        <5> QED
          BY <5>1, ConsumerConfigSends
      <4>2. {"wait", "maxDeliver", "backoff"} \subseteq DOMAIN NoAckSettings
        BY DEF NoAckSettings
      <4>3. {"wait", "maxDeliver", "backoff"} \subseteq DOMAIN AckSettings(Settings, Ready.maxDeliver)
        BY DEF AckSettings
      <4> QED
        BY <4>1, <4>2, <4>3
    <3> QED
      BY <2>1, <3>2 DEF OpenCreated, ConsumerAcks
  <2>2. CASE OpenLookedUp
    <3>1. PICK c \in ServerConfigs : OpenWith(c.ackPolicy, ServerSets(c.ack))
      BY <2>2 DEF OpenLookedUp
    <3>2. {"wait", "maxDeliver", "backoff"} \subseteq DOMAIN c.ack
      BY ServerAssumption
    <3>3. ~sub.js.create
      BY <2>2 DEF OpenLookedUp
    <3> QED
      BY <3>1, <3>2, <3>3 DEF ConsumerAcks
  <2> QED
    BY <2>1, <2>2
<1>3. PICK ackPolicy, ack :
        /\ OpenWith(ackPolicy, ServerSets(ack))
        /\ {"wait", "maxDeliver", "backoff"} \subseteq DOMAIN ack
        /\ ack \in ConsumerAcks
  BY <1>2
<1>4. ServerSets(ack).backoff = ack.backoff /\ ServerSets(ack).maxDeliver = ack.maxDeliver
  BY <1>3, ServerSetsWait
<1>a. ConsumerAcks' = ConsumerAcks
  BY <1>1 DEF ConsumerAcks
<1>5. SubInv'
  <2>1. /\ Settings' = Settings /\ Queue' = Queue /\ Ready' = Ready
        /\ ReadJetStream' = ReadJetStream
    BY <1>1 DEF Settings, Queue, Ready, ReadJetStream
  <2> QED
    BY <1>1, <2>1 DEF SettingsInv, SubInv
<1>6. ConsumerInv'
  <2>1. CASE sub.js.ordered
    <3>1. consumer' = NoConsumer
      BY <1>3, <2>1 DEF OpenWith
    <3> QED
      BY <1>1, <3>1, Nothing DEF ConsumerInv
  <2>2. CASE ~sub.js.ordered
    <3>1. consumer' = [acks |-> sub.js.ack # "none" /\ ackPolicy # "none",
                       ackWait |-> ServerSets(ack).wait, backoff |-> ServerSets(ack).backoff,
                       maxDeliver |-> ServerSets(ack).maxDeliver]
      BY <1>3, <2>2 DEF OpenWith
    <3>2. /\ consumer'.backoff = ack.backoff /\ consumer'.maxDeliver = ack.maxDeliver
      BY <3>1, <1>4
    <3>3. consumer'.acks => sub.js.ack # "none"
      BY <3>1
    <3> QED
      BY <1>1, <1>3, <1>a, <3>2, <3>3 DEF ConsumerInv
  <2> QED
    BY <2>1, <2>2
<1> QED
  BY <1>5, <1>6 DEF SettingsInv

\* What New and a call keep of the settings, and Start of a consumer, is what they
\* read and checked (parseJetStream, Request, openConsumer).
THEOREM SettingsInvAlways == Spec => []SettingsInv
<1>1. SettingsInv /\ [Next]_vars => SettingsInv'
  <2> SUFFICES ASSUME SettingsInv, [Next]_vars PROVE SettingsInv'
    OBVIOUS
  <2>1. CASE UNCHANGED vars
    <3>1. UNCHANGED <<phase, given, sub, call, consumer>>
      BY <2>1 DEF vars
    <3>2. /\ Settings' = Settings /\ Queue' = Queue /\ Ready' = Ready
          /\ ReadJetStream' = ReadJetStream
      BY <3>1 DEF Settings, Queue, Ready, ReadJetStream
    <3>3. SubInv'
      BY <3>1, <3>2 DEF SettingsInv, SubInv
    <3>4. ConsumerInv'
      BY <3>1 DEF SettingsInv, ConsumerInv, ConsumerAcks
    <3> QED
      BY <3>3, <3>4 DEF SettingsInv
  <2> QED
    BY <2>1, RejectKeeps, NewKeeps, CallKeeps, OpenKeeps DEF Next
<1> QED
  BY <1>1, SettingsInit, PTL DEF Spec

-----------------------------------------------------------------------------
(* What follows for the properties.                                          *)

LEMMA JetStreamSettings ==
  ASSUME SettingsInv, sub.js # <<>>
  PROVE  /\ given \in Givens /\ ConfigOK(given.cfg) /\ JetStreamOK(Settings, Queue, Ready)
         /\ sub.js.stream = Get(Settings, "stream", "")
         /\ sub.js.create = Creates(Settings) /\ sub.js.ack = Ack(Settings)
         /\ sub.js.pull = PullSettings(Settings, Ready.pull)
         /\ sub.js.config.ackPolicy = IF Ack(Settings) = "none" THEN "none" ELSE "explicit"
         /\ sub.js.config.ack = IF Ack(Settings) = "none" THEN NoAckSettings
                                ELSE AckSettings(Settings, Ready.maxDeliver)
<1>1. sub.js = ReadJetStream
  BY DEF SettingsInv, SubInv
<1>2. given \in Givens /\ ConfigOK(given.cfg) /\ JetStreamOK(Settings, Queue, Ready)
  BY DEF SettingsInv, SubInv
<1>3. /\ sub.js.stream = Get(Settings, "stream", "") /\ sub.js.ack = Ack(Settings)
      /\ sub.js.config = ConsumerConfig(Settings, Queue, Ready)
  BY <1>1, JetStreamReads DEF ReadJetStream
<1>c. sub.js.create = Creates(Settings)
  BY <1>1, JetStreamReads DEF ReadJetStream
<1>p. sub.js.pull = PullSettings(Settings, Ready.pull)
  <2>1. JetStream(Settings, Queue, Ready).pull = PullSettings(Settings, Ready.pull)
    BY JetStreamReads
  <2> QED
    BY <1>1, <2>1 DEF ReadJetStream
<1>4. /\ sub.js.config.ackPolicy = IF Ack(Settings) = "none" THEN "none" ELSE "explicit"
      /\ sub.js.config.ack = IF Ack(Settings) = "none" THEN NoAckSettings
                             ELSE AckSettings(Settings, Ready.maxDeliver)
  BY <1>3, ConsumerConfigSends
<1> QED
  BY <1>2, <1>3, <1>c, <1>p, <1>4

\* The max_deliver New reads is positive and an int, and 5 when nothing sets it.
LEMMA MaxDeliverFits ==
  ASSUME SettingsInv, sub.js # <<>>
  PROVE  AckSettings(Settings, Ready.maxDeliver).maxDeliver \in 1..MaxInt
<1> DEFINE own == Get(Settings, "max_deliver", Ready.maxDeliver)
           cfg == Get(given.cfg, "max_deliver", DefaultMaxDeliver)
<1>1. Ready.maxDeliver = cfg
  BY DEF Ready, RuntimeSettings
<1>2. IntsFit(Settings) /\ IntsFit(given.cfg)
  BY MergedFits, JetStreamSettings DEF Settings
<1>3. Get(Settings, "max_deliver", Bad) \in 0..MaxInt /\ Get(given.cfg, "max_deliver", Bad) \in 0..MaxInt
  BY <1>2 DEF IntsFit
<1>4. Parses(given.cfg, "max_deliver") /\ Parses(Settings, "max_deliver")
  BY JetStreamSettings DEF ConfigOK, JetStreamOK, AckSettingsOK
<1>5. cfg \in 1..MaxInt
  BY <1>3, <1>4, Half DEF Get, Parses, Bad
<1>6. own \in 1..MaxInt
  <2>1. CASE Has(Settings, "max_deliver")
    BY <1>3, <1>4, <2>1 DEF Get, Parses, Bad
  <2>2. CASE ~Has(Settings, "max_deliver")
    BY <1>1, <1>5, <2>2 DEF Get
  <2> QED
    BY <2>1, <2>2
<1> QED
  BY <1>6 DEF AckSettings

\* What an open consumer says fits the arithmetic on delivery numbers.
LEMMA OpenConsumer ==
  ASSUME SettingsInv, phase = "open"
  PROVE  /\ consumer.backoff \in Seq(Nat) /\ Len(consumer.backoff) <= MaxInt
         /\ consumer.acks => consumer.maxDeliver \in {-1} \cup 1..MaxInt
         /\ sub.js.create /\ consumer.acks =>
               consumer.maxDeliver \in 1..MaxInt /\ Len(consumer.backoff) < consumer.maxDeliver
<1>1. sub.js # <<>>
  BY DEF SettingsInv, ConsumerInv
<1>2. CASE ~consumer.acks /\ consumer.backoff = <<>>
  BY <1>2, Half
<1>3. ASSUME NEW ack,
             consumer.backoff = ack.backoff, consumer.maxDeliver = ack.maxDeliver,
             consumer.acks => sub.js.ack # "none",
             sub.js.create, ack = sub.js.config.ack
      PROVE  /\ consumer.backoff \in Seq(Nat) /\ Len(consumer.backoff) <= MaxInt
             /\ consumer.acks => consumer.maxDeliver \in 1..MaxInt
                                 /\ Len(consumer.backoff) < consumer.maxDeliver
  <2>1. CASE Ack(Settings) = "none"
    <3>1. consumer.backoff = <<>>
      <4>1. ack = NoAckSettings
        BY <1>1, <1>3, <2>1, JetStreamSettings
      <4> QED
        BY <1>3, <4>1 DEF NoAckSettings
    <3>2. ~consumer.acks
      BY <1>1, <1>3, <2>1, JetStreamSettings
    <3> QED
      BY <3>1, <3>2, Half
  <2>2. CASE Ack(Settings) # "none"
    <3> DEFINE sent == AckSettings(Settings, Ready.maxDeliver)
    <3>1. ack = sent
      BY <1>1, <1>3, <2>2, JetStreamSettings
    <3>2. sent.maxDeliver \in 1..MaxInt
      BY <1>1, MaxDeliverFits
    <3>3. sent.backoff = Get(Settings, "backoff", <<>>)
      BY DEF AckSettings
    <3>4. sent.backoff \in Seq(Nat) /\ Len(sent.backoff) <= MaxInt
      BY <1>1, <3>3, MergedFits, JetStreamSettings DEF Settings, IntsFit
    <3>5. Creates(Settings)
      BY <1>1, <1>3, JetStreamSettings
    <3>6. Len(sent.backoff) < sent.maxDeliver
      BY <1>1, <2>2, <3>5, JetStreamSettings DEF JetStreamOK, BackoffFits
    <3> QED
      BY <1>3, <3>1, <3>2, <3>4, <3>6
  <2> QED
    BY <2>1, <2>2
<1>4. ASSUME NEW c \in ServerConfigs,
             consumer.backoff = c.ack.backoff, consumer.maxDeliver = c.ack.maxDeliver,
             ~sub.js.create
      PROVE  /\ consumer.backoff \in Seq(Nat) /\ Len(consumer.backoff) <= MaxInt
             /\ consumer.maxDeliver \in {-1} \cup 1..MaxInt
  BY <1>4, ServerAssumption
<1>5. \/ ~consumer.acks /\ consumer.backoff = <<>>
      \/ /\ consumer.acks => sub.js.ack # "none"
         /\ \E ack \in ConsumerAcks :
               consumer.backoff = ack.backoff /\ consumer.maxDeliver = ack.maxDeliver
  BY DEF SettingsInv, ConsumerInv
<1>6. CASE sub.js.create
  BY <1>2, <1>3, <1>5, <1>6 DEF ConsumerAcks
<1>7. CASE ~sub.js.create
  BY <1>2, <1>4, <1>5, <1>7 DEF ConsumerAcks
<1> QED
  BY <1>6, <1>7

\* A delivery is taken for the last exactly when the server sends no more
\* (lastDelivery), for any max_deliver and any width of int.
THEOREM LastIsMaxDeliverAlways == Spec => []LastIsMaxDeliver
<1>1. SettingsInv => LastIsMaxDeliver
  <2> SUFFICES ASSUME SettingsInv, phase = "open", consumer.acks, NEW n \in 1..(Word - 2)
               PROVE  LastDelivery(consumer, n) =
                         (consumer.maxDeliver # -1 /\ n >= consumer.maxDeliver)
    BY DEF LastIsMaxDeliver
  <2>1. consumer.maxDeliver \in {-1} \cup 1..MaxInt
    BY OpenConsumer
  <2>2. LastDelivery(consumer, n) <=> consumer.maxDeliver # -1 /\ n >= consumer.maxDeliver
    BY <2>1, LastOf
  <2> QED
    BY <2>2 DEF LastDelivery
<1> QED
  BY <1>1, SettingsInvAlways, PTL

\* Each delivery's ack deadline uses its own backoff entry, and no delivery
\* number is out of the list's range (deadline), for any backoff.
THEOREM BackoffInTurnAlways == Spec => []BackoffInTurn
<1>1. SettingsInv => BackoffInTurn
  <2> SUFFICES ASSUME SettingsInv, phase = "open", consumer.backoff # <<>>
               PROVE  /\ \A n \in 0..(Word - 1) :
                            BackoffIndex(consumer, n) \in 0..(Len(consumer.backoff) - 1)
                      /\ \A n \in 1..(Word \div 2) :
                            AckWait(consumer, n) =
                               (IF n <= Len(consumer.backoff) THEN consumer.backoff[n]
                                ELSE Last(consumer.backoff))
    BY DEF BackoffInTurn
  <2>1. consumer.backoff \in Seq(Nat) /\ Len(consumer.backoff) <= MaxInt
    BY OpenConsumer
  <2>2. Len(consumer.backoff) \in 1..MaxInt
    BY <2>1, Half
  <2>3. ASSUME NEW n \in 1..(Word \div 2)
        PROVE  AckWait(consumer, n) =
                  (IF n <= Len(consumer.backoff) THEN consumer.backoff[n] ELSE Last(consumer.backoff))
    <3>1. n \in 1..(MaxInt + 1)
      BY Half
    <3>2. BackoffIndex(consumer, n) + 1 = IF n <= Len(consumer.backoff) THEN n ELSE Len(consumer.backoff)
      BY <2>2, <3>1, IndexOfDelivery
    <3> QED
      BY <3>2 DEF AckWait, Last
  <2> QED
    BY <2>2, <2>3, IndexOfDelivery
<1> QED
  BY <1>1, SettingsInvAlways, PTL

\* In a consumer the runtime creates, another delivery follows every backoff
\* entry (consumerConfig), whatever the settings.
THEOREM BackoffEntriesAreUsedAlways == Spec => []BackoffEntriesAreUsed
<1>1. SettingsInv => BackoffEntriesAreUsed
  <2> SUFFICES ASSUME SettingsInv, phase = "open", sub.js.create, consumer.acks,
                      NEW i \in DOMAIN consumer.backoff
               PROVE  ~LastDelivery(consumer, i)
    BY DEF BackoffEntriesAreUsed
  <2>1. /\ consumer.backoff \in Seq(Nat) /\ consumer.maxDeliver \in 1..MaxInt
        /\ Len(consumer.backoff) < consumer.maxDeliver
    BY OpenConsumer
  <2>2. i \in Nat /\ i >= 1 /\ i < consumer.maxDeliver
    BY <2>1
  <2>3. i \in 1..(Word - 2)
    BY <2>1, <2>2, Half
  <2> QED
    BY <2>1, <2>2, <2>3, LastOf
<1> QED
  BY <1>1, SettingsInvAlways, PTL

\* Every pull limit in force reaches nats.go, and one option at most is the
\* size of a pull (consumeOpts), wherever the limits come from.
THEOREM PullLimitsAreUsedAlways == Spec => []PullLimitsAreUsed
<1>1. SettingsInv => PullLimitsAreUsed
  <2> SUFFICES ASSUME SettingsInv, sub.js # <<>>
               PROVE  sub.js.pull \in [PullKeys -> Nat]
    BY LimitsReachOpts DEF PullLimitsAreUsed
  <2>1. IntsFit(Settings) /\ IntsFit(given.cfg)
    BY MergedFits, JetStreamSettings DEF Settings
  <2>2. ASSUME NEW k \in PullKeys PROVE Get(Settings, k, Get(given.cfg, k, Unset)) \in Nat
    <3>1. Get(Settings, k, Bad) \in Nat /\ Get(given.cfg, k, Bad) \in Nat
      BY <2>1, Half DEF IntsFit
    <3> QED
      BY <3>1 DEF Get, Unset
  <2>3. sub.js.pull = [k \in PullKeys |-> Get(Settings, k, Get(given.cfg, k, Unset))]
    BY JetStreamSettings DEF PullSettings, Ready, RuntimeSettings
  <2> QED
    BY <2>2, <2>3
<1> QED
  BY <1>1, SettingsInvAlways, PTL

\* The nearest setting applies (mergeSettings, readPullSettings, Request), in
\* all that New or a call may be given.
THEOREM NearestSettingAppliesAlways == Spec => []NearestSettingApplies
<1>1. SettingsInv => NearestSettingApplies
  <2> SUFFICES ASSUME SettingsInv PROVE NearestSettingApplies
    OBVIOUS
  <2>1. call.timeout # Unset =>
          call.timeout = FirstOf("request_timeout", <<given.own, given.target, given.cfg>>,
                                 DefaultRequestTimeout)
    BY FirstOfThree DEF SettingsInv, SubInv, Settings, ClientTimeout
  <2>s. FirstOf("stream", <<given.own, given.target>>, "") = Get(Settings, "stream", "")
    BY FirstOfTwo DEF Settings
  <2>2. sub.js # <<>> => sub.js.stream = FirstOf("stream", <<given.own, given.target>>, "")
    BY <2>s, JetStreamSettings
  <2>3. sub.js # <<>> /\ sub.js.config.ackPolicy = "explicit" =>
          sub.js.config.ack.maxDeliver =
             FirstOf("max_deliver", <<given.own, given.target, given.cfg>>, DefaultMaxDeliver)
    <3> SUFFICES ASSUME sub.js # <<>>, sub.js.config.ackPolicy = "explicit"
                 PROVE  sub.js.config.ack.maxDeliver =
                          FirstOf("max_deliver", <<given.own, given.target, given.cfg>>,
                                  DefaultMaxDeliver)
      OBVIOUS
    <3>1. sub.js.config.ack = AckSettings(Settings, Ready.maxDeliver)
      BY JetStreamSettings
    <3>2. sub.js.config.ack.maxDeliver =
            Get(Settings, "max_deliver", Get(given.cfg, "max_deliver", DefaultMaxDeliver))
      BY <3>1 DEF AckSettings, Ready, RuntimeSettings
    <3> QED
      BY <3>2, FirstOfThree DEF Settings
  <2>4. sub.js # <<>> =>
          \A k \in PullKeys :
             sub.js.pull[k] = FirstOf(k, <<given.own, given.target, given.cfg>>, Unset)
    <3> SUFFICES ASSUME sub.js # <<>>, NEW k \in PullKeys
                 PROVE  sub.js.pull[k] = FirstOf(k, <<given.own, given.target, given.cfg>>, Unset)
      OBVIOUS
    <3>1. sub.js.pull[k] = Get(Settings, k, Get(given.cfg, k, Unset))
      BY JetStreamSettings DEF PullSettings, Ready, RuntimeSettings
    <3> QED
      BY <3>1, FirstOfThree DEF Settings
  <2>5. phase = "ready" /\ given.role \in {"endpoint", "request"} =>
          FirstOf("stream", <<given.own, given.target>>, "") = ""
    BY <2>s DEF SettingsInv, SubInv, Streams
  <2> QED
    BY <2>1, <2>2, <2>3, <2>4, <2>5 DEF NearestSettingApplies
<1> QED
  BY <1>1, SettingsInvAlways, PTL

\* What New, Request and Publish accepted is a target, and its subject is theirs.
SubjectInv ==
    /\ given \in Givens
    /\ phase \in {"given", "rejected"} => sub = NoSub
    /\ phase \in {"ready", "open"} =>
          TargetOK(given.segments) /\ sub.subject = Subject(given.segments)

THEOREM SubjectsAreDistinctAlways == Spec => []SubjectsAreDistinct
<1>1. Init => SubjectInv
  BY DEF Init, SubjectInv
<1>2. SubjectInv /\ [Next]_vars => SubjectInv'
  <2> SUFFICES ASSUME SubjectInv, [Next]_vars PROVE SubjectInv'
    OBVIOUS
  <2>1. CASE NewRejects \/ CallRejects
    <3>1. phase = "given" /\ phase' = "rejected" /\ UNCHANGED <<given, sub>>
      BY <2>1 DEF NewRejects, CallRejects
    <3> QED
      BY <3>1 DEF SubjectInv
  <2>2. CASE NewAccepts
    <3>1. phase' = "ready" /\ given' = given /\ TargetOK(given.segments)
      BY <2>2 DEF NewAccepts, Accepted
    <3>2. sub'.subject = Subject(given.segments)
      BY <2>2 DEF NewAccepts
    <3> QED
      BY <3>1, <3>2 DEF SubjectInv
  <2>3. CASE CallGoesOn
    <3>1. phase = "given" /\ phase' = "ready" /\ given' = given /\ TargetOK(given.segments)
      BY <2>3 DEF CallGoesOn, CallAccepted
    <3>2. sub = NoSub /\ sub' = [sub EXCEPT !.subject = Subject(given.segments)]
      BY <2>3, <3>1 DEF CallGoesOn, SubjectInv
    <3>3. sub'.subject = Subject(given.segments)
      BY <3>2 DEF NoSub
    <3> QED
      BY <3>1, <3>3 DEF SubjectInv
  <2>4. CASE OpenCreated \/ OpenLookedUp
    <3>1. phase = "ready" /\ phase' = "open" /\ UNCHANGED <<given, sub>>
      BY <2>4 DEF OpenCreated, OpenLookedUp, OpenWith
    <3> QED
      BY <3>1 DEF SubjectInv
  <2>5. CASE UNCHANGED vars
    BY <2>5 DEF vars, SubjectInv
  <2> QED
    BY <2>1, <2>2, <2>3, <2>4, <2>5 DEF Next
<1>3. SubjectInv => SubjectsAreDistinct
  <2> SUFFICES ASSUME SubjectInv, phase \in {"ready", "open"}
               PROVE  /\ "wildcard" \notin ToSet(sub.subject)
                      /\ \A segs \in Segments :
                            TargetOK(segs) /\ Subject(segs) = sub.subject => segs = given.segments
    BY DEF SubjectsAreDistinct
  <2>1. TargetOK(given.segments) /\ sub.subject = Subject(given.segments)
        /\ given.segments \in Segments
    BY SegmentsAssumption DEF SubjectInv
  <2>2. Segments \subseteq Seq(Seq(STRING))
    BY SegmentsAssumption
  <2> QED
    BY <2>1, <2>2, SubjectIsInjective
<1> QED
  BY <1>1, <1>2, <1>3, PTL DEF Spec
=============================================================================
