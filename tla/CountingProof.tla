--------------------------- MODULE CountingProof ---------------------------
(***************************************************************************)
(* Theorems about the three small modules whose properties count:          *)
(*   - ConnPool: the handlers are stuck only when lists hold every         *)
(*     connection and each waits for another, and then for good;           *)
(*   - RateLimiter: what an address is served, by the buckets made for it; *)
(*   - History: no message is on two pages, and the reader has the newest  *)
(*     part of the history, but for messages of one timestamp.             *)
(* The modules share nothing but the facts about finite sets their proofs  *)
(* rest on.  All hold for any number of handlers, requests and messages.   *)
(***************************************************************************)
EXTENDS ConnPool, RateLimiter, History, FiniteSetTheorems, TLAPS

-----------------------------------------------------------------------------
(* ConnPool                                                                *)

\* What a handler holds where.  Only a lister has rows left or a nested
\* query, and the nested query is the only one with a second connection.
Holding ==
    \A w \in Worker :
        /\ stage[w] \in {"idle", "query"} => outer[w] = NoConn
        /\ stage[w] # "nested" => inner[w] = NoConn
        /\ stage[w] \in {"nested query", "nested"} => w \in Lister
        /\ left[w] > 0 => w \in Lister

PoolInv == PoolTypeOK /\ Holding

LEMMA PoolInitInv == PoolInit => PoolInv
BY PoolAssumption DEF PoolInit, PoolInv, PoolTypeOK, Holding, PoolStage

-----------------------------------------------------------------------------
LEMMA PoolTypeStep == PoolTypeOK /\ [PoolNext]_poolVars => PoolTypeOK'
<1> SUFFICES ASSUME PoolTypeOK, [PoolNext]_poolVars PROVE PoolTypeOK'
  OBVIOUS
<1> USE PoolAssumption
<1>1. ASSUME NEW w \in Worker, Call(w) PROVE PoolTypeOK'
  BY <1>1 DEF Call, PoolTypeOK, PoolStage
<1>2. ASSUME NEW w \in Worker, NEW c \in Conn, Query(w, c) PROVE PoolTypeOK'
  <2>1. PICK n \in (IF w \in Lister THEN 0..MaxRows ELSE {0}) : left' = [left EXCEPT ![w] = n]
    BY <1>2 DEF Query
  <2>2. n \in 0..MaxRows
    BY <2>1
  <2> QED
    BY <1>2, <2>1, <2>2 DEF Query, PoolTypeOK, PoolStage
<1>3. ASSUME NEW w \in Worker, NextRow(w) PROVE PoolTypeOK'
  <2>1. left[w] \in 0..MaxRows /\ left[w] > 0
    BY <1>3 DEF NextRow, PoolTypeOK
  <2>2. left[w] - 1 \in 0..MaxRows
    BY <2>1
  <2> QED
    BY <1>3, <2>2 DEF NextRow, PoolTypeOK, PoolStage
<1>4. ASSUME NEW w \in Worker, NEW c \in Conn, NestedQuery(w, c) PROVE PoolTypeOK'
  BY <1>4 DEF NestedQuery, PoolTypeOK, PoolStage
<1>5. ASSUME NEW w \in Worker, NestedDone(w) PROVE PoolTypeOK'
  BY <1>5 DEF NestedDone, PoolTypeOK, PoolStage
<1>6. ASSUME NEW w \in Worker, Done(w) PROVE PoolTypeOK'
  <2>1. /\ stage' = [stage EXCEPT ![w] = "idle"]
        /\ outer' = [outer EXCEPT ![w] = NoConn]
        /\ left' = [left EXCEPT ![w] = 0]
        /\ UNCHANGED inner
    BY <1>6 DEF Done
  <2>2. 0 \in 0..MaxRows
    OBVIOUS
  <2> QED
    BY <2>1, <2>2 DEF PoolTypeOK, PoolStage
<1>7. CASE UNCHANGED poolVars
  BY <1>7 DEF poolVars, PoolTypeOK
<1> QED
  BY <1>1, <1>2, <1>3, <1>4, <1>5, <1>6, <1>7 DEF PoolNext, Enter, Work

\* What the invariant says of one handler.
Held(v) ==
    /\ stage[v] \in {"idle", "query"} => outer[v] = NoConn
    /\ stage[v] # "nested" => inner[v] = NoConn
    /\ stage[v] \in {"nested query", "nested"} => v \in Lister
    /\ left[v] > 0 => v \in Lister

LEMMA HoldingStep == PoolInv /\ [PoolNext]_poolVars => Holding'
<1> SUFFICES ASSUME PoolTypeOK, Holding, [PoolNext]_poolVars, NEW v \in Worker
             PROVE  Held(v)'
  BY DEF PoolInv, Holding, Held
<1>0. Held(v)
  BY DEF Holding, Held
<1>1. ASSUME NEW w \in Worker, Call(w) PROVE Held(v)'
  BY <1>0, <1>1 DEF Call, PoolTypeOK, Held
<1>2. ASSUME NEW w \in Worker, NEW c \in Conn, Query(w, c) PROVE Held(v)'
  <2>1. PICK n \in (IF w \in Lister THEN 0..MaxRows ELSE {0}) : left' = [left EXCEPT ![w] = n]
    BY <1>2 DEF Query
  <2>2. n > 0 => w \in Lister
    BY <2>1
  <2> QED
    BY <1>0, <1>2, <2>1, <2>2 DEF Query, PoolTypeOK, Held
<1>3. ASSUME NEW w \in Worker, NextRow(w) PROVE Held(v)'
  <2>1. w \in Lister
    BY <1>3 DEF NextRow, Holding
  <2> QED
    BY <1>0, <1>3, <2>1 DEF NextRow, PoolTypeOK, Held
<1>4. ASSUME NEW w \in Worker, NEW c \in Conn, NestedQuery(w, c) PROVE Held(v)'
  BY <1>0, <1>4 DEF NestedQuery, PoolTypeOK, Held
<1>5. ASSUME NEW w \in Worker, NestedDone(w) PROVE Held(v)'
  BY <1>0, <1>5 DEF NestedDone, PoolTypeOK, Held
<1>6. ASSUME NEW w \in Worker, Done(w) PROVE Held(v)'
  <2>1. /\ stage[w] = "rows"
        /\ stage' = [stage EXCEPT ![w] = "idle"]
        /\ outer' = [outer EXCEPT ![w] = NoConn]
        /\ left' = [left EXCEPT ![w] = 0]
        /\ UNCHANGED inner
    BY <1>6 DEF Done
  <2>2. CASE v = w
    BY <1>0, <2>1, <2>2, ~(0 > 0) DEF PoolTypeOK, Held
  <2>3. CASE v # w
    BY <1>0, <2>1, <2>3 DEF PoolTypeOK, Held
  <2> QED
    BY <2>2, <2>3
<1>7. CASE UNCHANGED poolVars
  BY <1>0, <1>7 DEF poolVars, Held
<1> QED
  BY <1>1, <1>2, <1>3, <1>4, <1>5, <1>6, <1>7 DEF PoolNext, Enter, Work

LEMMA PoolInvariance == PoolSpec => []PoolInv
<1>1. PoolInv /\ [PoolNext]_poolVars => PoolInv'
  BY PoolTypeStep, HoldingStep DEF PoolInv
<1> QED
  BY PoolInitInv, <1>1, PTL DEF PoolSpec

\* The pool, its connections and what handlers hold keep their types.
THEOREM PoolTypeCorrect == PoolSpec => []PoolTypeOK
BY PoolInvariance, PTL DEF PoolInv

-----------------------------------------------------------------------------
\* If every connection is held and nobody but waiting handlers holds one,
\* each has the rows of a handler that waits for a second one.
LEMMA HeldByListers ==
    ASSUME PoolInv,
           \A w \in Worker : stage[w] # "idle" => Waits(w),
           \A c \in Conn : ~Free(c)
    PROVE  Exhausted
<1> SUFFICES ASSUME NEW c \in Conn PROVE \E w \in Worker : stage[w] = "nested query" /\ outer[w] = c
  BY DEF Exhausted
<1>1. PICK w \in Worker : outer[w] = c \/ inner[w] = c
  BY DEF Free
<1>2. c # NoConn
  BY PoolAssumption
<1>3. stage[w] # "nested"
  BY DEF Waits
<1>4. inner[w] = NoConn /\ outer[w] = c
  BY <1>1, <1>2, <1>3 DEF PoolInv, Holding
<1>5. stage[w] = "nested query"
  BY <1>2, <1>4 DEF PoolInv, Holding, Waits
<1> QED
  BY <1>4, <1>5

\* However many connections there are and however many lists are read, the
\* handlers are stuck in one way only: lists hold every connection and each
\* waits for another.
THEOREM PoolIsNeverStuck == PoolSpec => []NeverStuck
<1>1. PoolInv => NeverStuck
  <2> SUFFICES ASSUME PoolInv, NEW w \in Worker, stage[w] # "idle",
                      \A x \in Worker : stage[x] # "idle" => Waits(x) /\ \A c \in Conn : ~Free(c)
               PROVE  Exhausted
    BY DEF NeverStuck
  <2> QED
    BY HeldByListers
<1> QED
  BY <1>1, PoolInvariance, PTL

\* Lists that hold the whole pool never let go of it: they wait for each
\* other, and nobody else has a connection to give back.
THEOREM ExhaustionIsForGood == PoolSpec => StaysExhausted
<1>1. PoolInv /\ [PoolNext]_poolVars => [Exhausted => Exhausted']_poolVars
  <2> SUFFICES ASSUME PoolInv, [PoolNext]_poolVars, Exhausted PROVE Exhausted'
    OBVIOUS
  <2>1. \A c \in Conn : ~Free(c)
    BY DEF Exhausted, Free
  <2>2. SUFFICES ASSUME NEW w \in Worker, stage[w] = "nested query"
                 PROVE  stage'[w] = "nested query" /\ outer'[w] = outer[w]
    BY DEF Exhausted
  <2>3. \A v \in Worker, c \in Conn : ~Query(v, c) /\ ~NestedQuery(v, c)
    BY <2>1 DEF Query, NestedQuery
  <2>4. ASSUME NEW v \in Worker, Call(v) \/ Work(v) PROVE stage'[w] = "nested query" /\ outer'[w] = outer[w]
    <3>1. v # w
      BY <2>2, <2>4 DEF Call, Work, NextRow, NestedDone, Done
    <3> QED
      BY <2>2, <2>4, <3>1 DEF Call, Work, NextRow, NestedDone, Done, PoolInv, PoolTypeOK
  <2>5. CASE UNCHANGED poolVars
    BY <2>2, <2>5 DEF poolVars
  <2> QED
    BY <2>3, <2>4, <2>5 DEF PoolNext, Enter
<1> QED
  BY <1>1, PoolInvariance, PTL DEF PoolSpec, StaysExhausted

-----------------------------------------------------------------------------
(* RateLimiter                                                             *)

ServedBy(b) == {r \in Request : step[r] = "served" /\ held[r] = b}
Started     == {r \in Request : step[r] # "new"}

\* A bucket in the map, or held, was made by a racer of the same address.
BucketsSound ==
    /\ \A r \in early : step[r] # "new"
    /\ \A a \in Address : ips[a] # NoBucket => ips[a] \in early /\ From[ips[a]] = a
    /\ \A r \in Request :
          /\ step[r] = "store" => r \in early
          /\ step[r] \in {"allow", "served"} => held[r] \in early /\ From[held[r]] = From[r]

\* A bucket gives what it was born with and what it got since.
BucketsGive ==
    /\ IsFiniteSet(Started)
    /\ \A b \in Request : Cardinality(ServedBy(b)) + tokens[b] <= Burst + elapsed

LimiterInv == LimiterTypeOK /\ BucketsSound /\ BucketsGive

-----------------------------------------------------------------------------
\* A set that maps to T with at most k elements on each of T has at most
\* k times as many elements as T: an element is named by its image and its
\* number among those of that image.
LEMMA BoundedFibres ==
    ASSUME NEW S, NEW T, IsFiniteSet(T), NEW f \in [S -> T], NEW k \in Nat,
           \A t \in T : /\ IsFiniteSet({s \in S : f[s] = t})
                        /\ Cardinality({s \in S : f[s] = t}) <= k
    PROVE  IsFiniteSet(S) /\ Cardinality(S) <= Cardinality(T) * k
<1> DEFINE Fibre(t)  == {s \in S : f[s] = t}
           Numbers(g, t) == \A s \in Fibre(t) : \E i \in 1..k : g[i] = s
           numbering == [t \in T |-> CHOOSE g : Numbers(g, t)]
           number(s) == CHOOSE i \in 1..k : numbering[f[s]][i] = s
           name      == [s \in S |-> <<f[s], number(s)>>]
<1>1. ASSUME NEW t \in T PROVE Numbers(numbering[t], t)
  <2>1. Cardinality(Fibre(t)) \in Nat /\ ExistsBijection(1..Cardinality(Fibre(t)), Fibre(t))
    BY FS_CardinalityType
  <2>2. PICK g \in Bijection(1..Cardinality(Fibre(t)), Fibre(t)) : TRUE
    BY <2>1 DEF ExistsBijection
  <2>3. Numbers(g, t)
    <3>1. \A s \in Fibre(t) : \E i \in 1..Cardinality(Fibre(t)) : g[i] = s
      BY <2>2 DEF Bijection, Surjection
    <3>2. Cardinality(Fibre(t)) <= k
      OBVIOUS
    <3>3. 1..Cardinality(Fibre(t)) \subseteq 1..k
      <4> HIDE DEF Fibre
      <4> QED
        BY <2>1, <3>2
    <3> QED
      BY <3>1, <3>3
  <2> HIDE DEF Numbers
  <2> QED
    BY <2>3
<1>2. ASSUME NEW s \in S PROVE number(s) \in 1..k /\ numbering[f[s]][number(s)] = s
  <2>1. f[s] \in T /\ s \in Fibre(f[s])
    OBVIOUS
  <2>2. \E i \in 1..k : numbering[f[s]][i] = s
    BY <1>1, <2>1
  <2> HIDE DEF numbering
  <2> QED
    BY <2>2
<1>3. name \in Injection(S, T \X (1..k))
  <2> HIDE DEF numbering, number
  <2>1. name \in [S -> T \X (1..k)]
    BY <1>2
  <2>2. ASSUME NEW r \in S, NEW s \in S, name[r] = name[s] PROVE r = s
    <3>1. f[r] = f[s] /\ number(r) = number(s)
      BY <2>2
    <3> QED
      BY <1>2, <3>1
  <2> QED
    BY <2>1, <2>2 DEF Injection, IsInjective
<1>4. /\ IsFiniteSet(T \X (1..k))
      /\ Cardinality(T \X (1..k)) = Cardinality(T) * k
  <2>1. IsFiniteSet(1..k) /\ Cardinality(1..k) = k
    BY FS_Interval
  <2> QED
    BY <2>1, FS_Product
<1> QED
  <2> HIDE DEF name
  <2> QED
    BY <1>3, <1>4, FS_Injection

LEMMA LimiterInitInv == LimiterInit => LimiterInv
<1> SUFFICES ASSUME LimiterInit PROVE LimiterInv
  OBVIOUS
<1>1. LimiterTypeOK
  BY LimiterAssumption DEF LimiterInit, LimiterTypeOK, Step
<1>2. BucketsSound
  BY DEF LimiterInit, BucketsSound
<1>3. Started = {} /\ \A b \in Request : ServedBy(b) = {}
  BY DEF LimiterInit, Started, ServedBy
<1>4. BucketsGive
  BY <1>3, FS_EmptySet, LimiterAssumption DEF BucketsGive, LimiterInit
<1> QED
  BY <1>1, <1>2, <1>4 DEF LimiterInv

LEMMA LimiterTypeStep ==
    ASSUME LimiterInv, [LimiterNext]_limiterVars
    PROVE  LimiterTypeOK'
<1> USE LimiterAssumption DEF LimiterTypeOK
<1>0. LimiterTypeOK /\ BucketsSound
  BY DEF LimiterInv
<1>1. ASSUME NEW r \in Request, Load(r) PROVE LimiterTypeOK'
  BY <1>0, <1>1 DEF Load, Step
<1>2. ASSUME NEW r \in Request, Store(r) PROVE LimiterTypeOK'
  BY <1>0, <1>2 DEF Store, Step
<1>3. ASSUME NEW r \in Request, Allow(r) PROVE LimiterTypeOK'
  <2>1. held[r] \in Request
    BY <1>0, <1>3 DEF Allow, BucketsSound
  <2>2. tokens' \in [Request -> 0..Burst]
    BY <1>0, <1>3, <2>1 DEF Allow
  <2>3. step' \in [Request -> Step]
    BY <1>0, <1>3 DEF Allow, Step
  <2> QED
    BY <1>0, <1>3, <2>2, <2>3 DEF Allow
<1>4. CASE Refill
  <2>1. tokens' \in [Request -> 0..Burst]
    BY <1>0, <1>4 DEF Refill
  <2>2. elapsed' \in 0..MaxElapsed
    BY <1>0, <1>4 DEF Refill
  <2> QED
    BY <1>0, <1>4, <2>1, <2>2 DEF Refill
<1>5. CASE UNCHANGED limiterVars
  BY <1>0, <1>5 DEF limiterVars
<1> QED
  BY <1>1, <1>2, <1>3, <1>4, <1>5 DEF LimiterNext

LEMMA BucketsSoundStep ==
    ASSUME LimiterInv, [LimiterNext]_limiterVars
    PROVE  BucketsSound'
<1> USE LimiterAssumption DEF BucketsSound
<1>0. LimiterTypeOK /\ BucketsSound
  BY DEF LimiterInv
<1>1. ASSUME NEW r \in Request, Load(r) PROVE BucketsSound'
  BY <1>0, <1>1 DEF Load, LimiterTypeOK
<1>2. ASSUME NEW r \in Request, Store(r) PROVE BucketsSound'
  BY <1>0, <1>2 DEF Store, LimiterTypeOK
<1>3. ASSUME NEW r \in Request, Allow(r) PROVE BucketsSound'
  BY <1>0, <1>3 DEF Allow, LimiterTypeOK
<1>4. CASE Refill
  BY <1>0, <1>4 DEF Refill
<1>5. CASE UNCHANGED limiterVars
  BY <1>0, <1>5 DEF limiterVars
<1> QED
  BY <1>1, <1>2, <1>3, <1>4, <1>5 DEF LimiterNext

LEMMA ServedByFinite ==
    ASSUME IsFiniteSet(Started), NEW b
    PROVE  IsFiniteSet(ServedBy(b)) /\ Cardinality(ServedBy(b)) \in Nat
<1>1. ServedBy(b) \subseteq Started
  BY DEF ServedBy, Started
<1> QED
  BY <1>1, FS_Subset, FS_CardinalityType

\* A step that neither serves a request nor refills keeps what was given.
LEMMA SameServed ==
    ASSUME BucketsGive, IsFiniteSet(Started'), UNCHANGED <<tokens, elapsed>>,
           \A b \in Request : ServedBy(b)' = ServedBy(b)
    PROVE  BucketsGive'
BY DEF BucketsGive

LEMMA BucketsGiveStep ==
    ASSUME LimiterInv, [LimiterNext]_limiterVars
    PROVE  BucketsGive'
<1>0. LimiterTypeOK /\ BucketsSound /\ BucketsGive /\ IsFiniteSet(Started)
  BY DEF LimiterInv, BucketsGive
<1>1. ASSUME NEW r \in Request, Load(r) PROVE BucketsGive'
  <2>1. Started' = Started \cup {r}
    BY <1>0, <1>1 DEF Load, Started, LimiterTypeOK
  <2>2. \A b \in Request : ServedBy(b)' = ServedBy(b)
    BY <1>0, <1>1 DEF Load, ServedBy, LimiterTypeOK
  <2>3. IsFiniteSet(Started')
    BY <1>0, <2>1, FS_AddElement
  <2> QED
    BY <1>0, <1>1, <2>2, <2>3, SameServed DEF Load
<1>2. ASSUME NEW r \in Request, Store(r) PROVE BucketsGive'
  <2>1. Started' = Started
    BY <1>0, <1>2 DEF Store, Started, LimiterTypeOK
  <2>2. \A b \in Request : ServedBy(b)' = ServedBy(b)
    BY <1>0, <1>2 DEF Store, ServedBy, LimiterTypeOK
  <2> QED
    BY <1>0, <1>2, <2>1, <2>2, SameServed DEF Store
<1>3. ASSUME NEW r \in Request, Allow(r) PROVE BucketsGive'
  <2>1. Started' = Started
    BY <1>0, <1>3 DEF Allow, Started, LimiterTypeOK
  <2>2. CASE tokens[held[r]] > 0
    <3> DEFINE h == held[r]
    <3>1. /\ step[r] = "allow" /\ step' = [step EXCEPT ![r] = "served"]
          /\ tokens' = [tokens EXCEPT ![h] = @ - 1]
          /\ UNCHANGED <<held, elapsed>>
      BY <1>3, <2>2 DEF Allow
    <3>2. h \in Request
      BY <1>0, <3>1 DEF BucketsSound, LimiterTypeOK
    <3>3. ServedBy(h)' = ServedBy(h) \cup {r} /\ r \notin ServedBy(h)
      BY <1>0, <3>1 DEF ServedBy, LimiterTypeOK
    <3>4. Cardinality(ServedBy(h))' = Cardinality(ServedBy(h)) + 1
      BY <1>0, <3>3, ServedByFinite, FS_AddElement
    <3>5. tokens'[h] = tokens[h] - 1 /\ tokens[h] \in Nat
      BY <1>0, <3>1, <3>2, LimiterAssumption DEF LimiterTypeOK
    <3>6. ASSUME NEW b \in Request, b # h
          PROVE  ServedBy(b)' = ServedBy(b) /\ tokens'[b] = tokens[b]
      BY <1>0, <3>1, <3>6 DEF ServedBy, LimiterTypeOK
    <3>7. ASSUME NEW b \in Request
          PROVE  Cardinality(ServedBy(b))' + tokens'[b] <= Burst + elapsed'
      <4>1. Cardinality(ServedBy(b)) + tokens[b] <= Burst + elapsed
        BY <1>0 DEF BucketsGive
      <4>2. CASE b = h
        <5>1. Cardinality(ServedBy(h)) \in Nat
          BY <1>0, ServedByFinite
        <5>2. (Cardinality(ServedBy(h)) + 1) + (tokens[h] - 1) = Cardinality(ServedBy(h)) + tokens[h]
          BY <3>5, <5>1
        <5> QED
          BY <3>1, <3>4, <3>5, <4>1, <4>2, <5>2
      <4>3. CASE b # h
        BY <3>1, <3>6, <4>1, <4>3
      <4> QED
        BY <4>2, <4>3
    <3> QED
      BY <1>0, <2>1, <3>7 DEF BucketsGive
  <2>3. CASE ~(tokens[held[r]] > 0)
    <3>1. \A b \in Request : ServedBy(b)' = ServedBy(b)
      BY <1>0, <1>3, <2>3 DEF Allow, ServedBy, LimiterTypeOK
    <3> QED
      BY <1>0, <1>3, <2>1, <2>3, <3>1, SameServed DEF Allow
  <2> QED
    BY <2>2, <2>3
<1>4. CASE Refill
  <2>1. Started' = Started /\ \A b \in Request : ServedBy(b)' = ServedBy(b)
    BY <1>4 DEF Refill, Started, ServedBy
  <2>2. elapsed' = elapsed + 1 /\ elapsed \in Nat
    BY <1>0, <1>4, LimiterAssumption DEF Refill, LimiterTypeOK
  <2>3. \A b \in Request : tokens[b] \in Nat /\ tokens'[b] \in Nat /\ tokens'[b] <= tokens[b] + 1
    BY <1>0, <1>4, LimiterAssumption DEF Refill, LimiterTypeOK
  <2>4. ASSUME NEW b \in Request
        PROVE  Cardinality(ServedBy(b))' + tokens'[b] <= Burst + elapsed'
    <3>1. Cardinality(ServedBy(b)) + tokens[b] <= Burst + elapsed
      BY <1>0 DEF BucketsGive
    <3>2. Cardinality(ServedBy(b)) \in Nat
      BY <1>0, ServedByFinite
    <3>3. Cardinality(ServedBy(b)) + tokens'[b] <= Burst + (elapsed + 1)
      BY <2>2, <2>3, <3>1, <3>2, LimiterAssumption
    <3> QED
      BY <2>1, <2>2, <3>3
  <2> QED
    BY <1>0, <2>1, <2>4 DEF BucketsGive
<1>5. CASE UNCHANGED limiterVars
  BY <1>0, <1>5 DEF limiterVars, BucketsGive, Started, ServedBy
<1> QED
  BY <1>1, <1>2, <1>3, <1>4, <1>5 DEF LimiterNext

LEMMA LimiterInvariance == LimiterSpec => []LimiterInv
<1>1. LimiterInv /\ [LimiterNext]_limiterVars => LimiterInv'
  BY LimiterTypeStep, BucketsSoundStep, BucketsGiveStep DEF LimiterInv
<1> QED
  BY LimiterInitInv, <1>1, PTL DEF LimiterSpec

\* The map, the buckets and the requests keep their types.
THEOREM LimiterTypeCorrect == LimiterSpec => []LimiterTypeOK
<1>1. LimiterInv => LimiterTypeOK
  BY DEF LimiterInv
<1> QED
  BY <1>1, LimiterInvariance, PTL

\* However many requests race for the first bucket of an address, and however
\* long it goes on, the address is served a burst and the time's tokens for
\* each of them, and nothing for those that came later.
THEOREM RateIsBounded == LimiterSpec => []BucketPerRacer
<1>1. LimiterInv => BucketPerRacer
  <2> SUFFICES ASSUME LimiterInv, NEW a \in Address
               PROVE  Cardinality(Served(a)) <= Cardinality(Early(a)) * (Burst + elapsed)
    BY DEF BucketPerRacer
  <2> DEFINE bucket == [r \in Served(a) |-> held[r]]
  <2>0. LimiterTypeOK /\ BucketsSound /\ BucketsGive /\ IsFiniteSet(Started)
    BY DEF LimiterInv, BucketsGive
  <2>1. bucket \in [Served(a) -> Early(a)]
    BY <2>0 DEF Served, Early, BucketsSound
  <2>2. IsFiniteSet(Early(a)) /\ IsFiniteSet(Served(a))
    <3>1. Early(a) \subseteq Started /\ Served(a) \subseteq Started
      BY <2>0 DEF Early, Served, Started, BucketsSound, LimiterTypeOK
    <3> QED
      BY <2>0, <3>1, FS_Subset
  <2>3. ASSUME NEW b \in Early(a)
        PROVE  /\ IsFiniteSet({r \in Served(a) : bucket[r] = b})
               /\ Cardinality({r \in Served(a) : bucket[r] = b}) <= Burst + elapsed
    <3> DEFINE F == {r \in Served(a) : bucket[r] = b}
    <3>1. F \subseteq ServedBy(b)
      BY DEF Served, ServedBy
    <3>2. b \in Request /\ tokens[b] \in Nat /\ Burst + elapsed \in Nat
      BY <2>0, LimiterAssumption DEF Early, LimiterTypeOK
    <3>3. IsFiniteSet(ServedBy(b)) /\ Cardinality(ServedBy(b)) \in Nat
      BY <2>0, ServedByFinite
    <3>4. IsFiniteSet(F) /\ Cardinality(F) \in Nat /\ Cardinality(F) <= Cardinality(ServedBy(b))
      BY <3>1, <3>3, FS_Subset, FS_CardinalityType
    <3>5. Cardinality(ServedBy(b)) + tokens[b] <= Burst + elapsed
      BY <2>0, <3>2 DEF BucketsGive
    <3> HIDE DEF F
    <3>6. Cardinality(F) <= Burst + elapsed
      BY <3>2, <3>3, <3>4, <3>5
    <3> QED
      BY <3>4, <3>6 DEF F
  <2>4. Burst + elapsed \in Nat
    BY <2>0, LimiterAssumption DEF LimiterTypeOK
  <2> HIDE DEF bucket
  <2> QED
    BY <2>1, <2>2, <2>3, <2>4, BoundedFibres
<1> QED
  BY <1>1, LimiterInvariance, PTL

-----------------------------------------------------------------------------
(* History                                                                 *)

\* The reader has message m, or another one with the timestamp of m.
Covered(m) == times[m] > 0 \/ \E k \in stored \ {m} : at[k] = at[m] /\ times[k] > 0

RowsSound ==
    /\ IsFiniteSet(stored)
    /\ \A m \in stored : at[m] > 0
    /\ atStart \subseteq stored
    /\ \A m \in Message : times[m] > 0 => m \in stored
    /\ reader = "closed" => \A m \in Message : times[m] = 0
    /\ reader = "lookup" => cursor \in stored

\* With every lookup a success, the next page is below all pages so far.
PagesDescend ==
    failed = 0 =>
        /\ \A m \in Message : times[m] <= 1
        /\ reader = "fetch" => \A m \in Message : times[m] > 0 => bound > 0 /\ at[m] >= bound
        /\ reader = "lookup" => \A m \in Message : times[m] > 0 => at[m] >= at[cursor]

\* Whatever was there at the start and is not below the next page is covered,
\* and what is not covered is older than all that the reader has.
PagesCover ==
    \A m \in atStart :
        /\ reader = "fetch" => (bound > 0 /\ at[m] >= bound => Covered(m))
        /\ reader = "lookup" => (at[m] >= at[cursor] => Covered(m))
        /\ reader = "done" => Covered(m) \/ cut
        /\ Covered(m) \/ \A k \in Message : times[k] > 0 => at[m] < at[k]

HistoryInv == HistoryTypeOK /\ RowsSound /\ PagesDescend /\ PagesCover

-----------------------------------------------------------------------------
LEMMA MinOfTwo ==
    ASSUME NEW a \in Nat, NEW b \in Nat
    PROVE  Min({a, b}) = IF a <= b THEN a ELSE b
<1> DEFINE m == IF a <= b THEN a ELSE b
<1>1. m \in {a, b} /\ \A y \in {a, b} : m <= y
  OBVIOUS
<1>2. \A x \in {a, b} : (\A y \in {a, b} : x <= y) => x = m
  OBVIOUS
<1> QED
  BY <1>1, <1>2 DEF Min

\* A page of full size that is not full has all rows the query matches.
LEMMA LastPage ==
    ASSUME IsFiniteSet(stored), NEW page, page \subseteq Matching,
           Cardinality(page) = PageSize, Cardinality(page) < Limit
    PROVE  page = Matching
<1>1. IsFiniteSet(Matching)
  <2>1. Matching \subseteq stored
    BY DEF Matching
  <2> QED
    BY <2>1, FS_Subset
<1>2. Cardinality(Matching) \in Nat /\ Limit \in Nat
  BY <1>1, FS_CardinalityType, HistoryAssumption
<1>3. Cardinality(page) = IF Limit <= Cardinality(Matching) THEN Limit ELSE Cardinality(Matching)
  BY <1>2, MinOfTwo DEF PageSize
<1>4. Cardinality(page) = Cardinality(Matching)
  BY <1>2, <1>3
<1> QED
  BY <1>1, <1>4, FS_Subset

LEMMA HistoryInitInv == HistoryInit => HistoryInv
<1> SUFFICES ASSUME HistoryInit PROVE HistoryInv
  OBVIOUS
<1>1. HistoryTypeOK
  BY HistoryAssumption DEF HistoryInit, HistoryTypeOK, Place
<1>2. RowsSound
  BY FS_EmptySet DEF HistoryInit, RowsSound
<1>3. PagesDescend /\ PagesCover
  BY DEF HistoryInit, PagesDescend, PagesCover
<1> QED
  BY <1>1, <1>2, <1>3 DEF HistoryInv

\* Senders add rows, and change nothing about those that are there.
LEMMA SenderStep ==
    ASSUME HistoryInv,
           Tick \/ \E m \in Message : Stamp(m) \/ Insert(m)
    PROVE  HistoryInv'
<1>0. HistoryTypeOK /\ RowsSound /\ PagesDescend /\ PagesCover
  BY DEF HistoryInv
<1>1. /\ UNCHANGED reading
      /\ stored \subseteq stored'
      /\ \A m \in stored : at'[m] = at[m]
  BY <1>0 DEF Tick, Stamp, Insert, RowsSound, HistoryTypeOK
<1>2. HistoryTypeOK'
  BY <1>0 DEF Tick, Stamp, Insert, HistoryTypeOK, reading
<1>3. RowsSound'
  <2>1. IsFiniteSet(stored')
    BY <1>0, FS_AddElement DEF Tick, Stamp, Insert, RowsSound
  <2>2. \A m \in stored' : at'[m] > 0
    BY <1>0 DEF Tick, Stamp, Insert, RowsSound, HistoryTypeOK
  <2> QED
    BY <1>0, <1>1, <2>1, <2>2 DEF RowsSound, reading
<1>4. PagesDescend'
  BY <1>0, <1>1 DEF PagesDescend, RowsSound, HistoryTypeOK, reading
<1>5. PagesCover'
  <2>1. \A m \in atStart : at'[m] = at[m] /\ (Covered(m) => Covered(m)')
    BY <1>0, <1>1 DEF Covered, RowsSound, HistoryTypeOK, reading
  <2>2. reader = "lookup" => at'[cursor] = at[cursor]
    BY <1>0, <1>1 DEF RowsSound
  <2>3. \A k \in Message : times[k] > 0 => at'[k] = at[k]
    BY <1>0, <1>1 DEF RowsSound
  <2>4. UNCHANGED <<reader, cursor, bound, times, atStart, cut>>
    BY <1>1 DEF reading
  <2> QED
    BY <1>0, <2>1, <2>2, <2>3, <2>4 DEF PagesCover
<1> QED
  BY <1>2, <1>3, <1>4, <1>5 DEF HistoryInv

LEMMA LookupStep ==
    ASSUME HistoryInv, Open \/ Lookup \/ LookupFails
    PROVE  HistoryInv'
<1>0. HistoryTypeOK /\ RowsSound /\ PagesDescend /\ PagesCover
  BY DEF HistoryInv
<1>1. CASE Open
  <2>1. HistoryTypeOK'
    BY <1>0, <1>1 DEF Open, HistoryTypeOK, Place
  <2>2. RowsSound' /\ PagesDescend' /\ PagesCover'
    BY <1>0, <1>1 DEF Open, RowsSound, PagesDescend, PagesCover, HistoryTypeOK
  <2> QED
    BY <2>1, <2>2 DEF HistoryInv
<1>2. CASE Lookup
  <2>1. HistoryTypeOK' /\ cursor \in stored /\ at[cursor] > 0
    BY <1>0, <1>2 DEF Lookup, HistoryTypeOK, RowsSound, Place
  <2>2. RowsSound' /\ PagesDescend'
    BY <1>0, <1>2, <2>1 DEF Lookup, RowsSound, PagesDescend
  <2>3. PagesCover'
    BY <1>0, <1>2, <2>1 DEF Lookup, PagesCover, Covered
  <2> QED
    BY <2>1, <2>2, <2>3 DEF HistoryInv
<1>3. CASE LookupFails
  <2>1. HistoryTypeOK'
    BY <1>0, <1>3 DEF LookupFails, HistoryTypeOK, Place
  <2>2. RowsSound' /\ PagesCover'
    <3>1. \A m \in atStart : Covered(m)' <=> Covered(m)
      BY <1>3 DEF LookupFails, Covered
    <3> QED
      BY <1>0, <1>3, <3>1 DEF LookupFails, RowsSound, PagesCover
  <2>3. PagesDescend'
    <3>1. failed' = failed + 1 /\ failed \in Nat
      BY <1>0, <1>3 DEF LookupFails, HistoryTypeOK
    <3> QED
      BY <3>1 DEF PagesDescend
  <2> QED
    BY <2>1, <2>2, <2>3 DEF HistoryInv
<1> QED
  BY <1>1, <1>2, <1>3

\* The next page, whole or broken off, has none of the messages of the pages so
\* far, and what it leaves out is below its oldest message or as old as that.
LEMMA FetchStep ==
    ASSUME HistoryInv, NEW page \in SUBSET stored, Fetch(page) \/ FetchCut(page)
    PROVE  HistoryInv'
<1>0. HistoryTypeOK /\ RowsSound /\ PagesDescend /\ PagesCover
  BY DEF HistoryInv
<1>1. /\ reader = "fetch"
      /\ Newest(page)
      /\ times' = [m \in Message |-> times[m] + (IF m \in page THEN 1 ELSE 0)]
      /\ UNCHANGED <<stored, at, clock, bound, atStart, failed>>
  BY DEF Fetch, FetchCut, Receive
<1>2. /\ \/ reader' = "done" /\ UNCHANGED cursor /\ (page = Matching \/ cut')
         \/ /\ reader' = "lookup"
            /\ cursor' \in page /\ \A k \in page : at[cursor'] <= at[k]
      /\ cut' \in BOOLEAN
  <2>0. cut \in BOOLEAN
    BY <1>0 DEF HistoryTypeOK
  <2>1. CASE Fetch(page) /\ Cardinality(page) < Limit
    <3>1. page = Matching
      BY <1>0, <2>1, LastPage DEF Fetch, Newest, RowsSound
    <3> QED
      BY <2>0, <2>1, <3>1 DEF Fetch
  <2>2. CASE Fetch(page) /\ ~(Cardinality(page) < Limit)
    BY <2>0, <2>2 DEF Fetch
  <2>3. CASE FetchCut(page)
    BY <2>3 DEF FetchCut
  <2> QED
    BY <2>1, <2>2, <2>3
<1>3. page \subseteq Matching /\ Matching \subseteq stored /\ stored \subseteq Message
  BY <1>0, <1>1 DEF Newest, Matching, HistoryTypeOK
<1>4. \A m \in Message : /\ m \in page => times'[m] = times[m] + 1
                         /\ m \notin page => times'[m] = times[m]
                         /\ times[m] \in Nat /\ times'[m] \in Nat
  BY <1>0, <1>1 DEF HistoryTypeOK
<1>5. at \in [Message -> Nat] /\ bound \in Nat
  BY <1>0 DEF HistoryTypeOK
<1>6. HistoryTypeOK'
  BY <1>0, <1>1, <1>2, <1>3, <1>4 DEF HistoryTypeOK, Place
<1>7. RowsSound'
  BY <1>0, <1>1, <1>2, <1>3, <1>4 DEF RowsSound
<1>8. PagesDescend'
  <2> SUFFICES ASSUME failed = 0
               PROVE  /\ \A m \in Message : times'[m] <= 1
                      /\ reader' = "lookup" =>
                            \A m \in Message : times'[m] > 0 => at[m] >= at[cursor']
    BY <1>1, <1>2 DEF PagesDescend
  <2>1. \A m \in Message : /\ times[m] <= 1
                           /\ times[m] > 0 => bound > 0 /\ at[m] >= bound
    BY <1>0, <1>1 DEF PagesDescend
  <2>2. \A m \in page : times[m] = 0
    BY <1>3, <1>4, <1>5, <2>1 DEF Matching
  <2>3. \A m \in Message : times'[m] <= 1
    BY <1>4, <2>1, <2>2
  <2>4. ASSUME reader' = "lookup", NEW m \in Message, times'[m] > 0 PROVE at[m] >= at[cursor']
    <3>1. cursor' \in page /\ \A k \in page : at[cursor'] <= at[k]
      BY <1>2, <2>4
    <3>2. CASE m \in page
      BY <1>3, <1>5, <3>1, <3>2
    <3>3. CASE m \notin page
      <4>1. bound > 0 /\ at[m] >= bound
        BY <1>4, <2>1, <2>4, <3>3
      <4>2. at[cursor'] < bound
        BY <1>3, <3>1, <4>1 DEF Matching
      <4> QED
        BY <1>3, <1>5, <3>1, <4>1, <4>2
    <3> QED
      BY <3>2, <3>3
  <2> QED
    BY <2>3, <2>4
<1>9. PagesCover'
  <2> SUFFICES ASSUME NEW m \in atStart
               PROVE  /\ reader' = "lookup" => (at[m] >= at[cursor'] => Covered(m)')
                      /\ reader' = "done" => Covered(m)' \/ cut'
                      /\ Covered(m)' \/ \A k \in Message : times'[k] > 0 => at[m] < at[k]
    BY <1>1, <1>2 DEF PagesCover
  <2>1. m \in stored /\ m \in Message
    BY <1>0, <1>3 DEF RowsSound
  <2>2. m \in page => Covered(m)'
    BY <1>4, <2>1 DEF Covered
  <2>3. Covered(m) => Covered(m)'
    BY <1>1, <1>3, <1>4, <2>1 DEF Covered
  <2>4. m \notin Matching => Covered(m)
    BY <1>0, <1>1, <1>5, <2>1 DEF Matching, PagesCover
  <2>5. ASSUME reader' = "done" PROVE Covered(m)' \/ cut'
    BY <1>2, <2>2, <2>3, <2>4, <2>5
  <2>6. ASSUME reader' = "lookup", m \in Matching, m \notin page, at[m] >= at[cursor']
        PROVE  Covered(m)'
    <3>1. cursor' \in page /\ cursor' \in stored \ {m}
      BY <1>2, <1>3, <2>6
    <3>2. at[cursor'] >= at[m]
      BY <1>1, <2>6, <3>1 DEF Newest
    <3>3. at[cursor'] = at[m]
      BY <1>3, <1>5, <2>1, <2>6, <3>1, <3>2
    <3>4. times'[cursor'] > 0
      BY <1>3, <1>4, <3>1
    <3> DEFINE k == cursor'
    <3> HIDE DEF k
    <3>5. \E x \in stored \ {m} : at[x] = at[m] /\ times'[x] > 0
      BY <3>1, <3>3, <3>4
    <3> QED
      BY <1>1, <3>5 DEF Covered
  <2>7. ASSUME ~Covered(m)', NEW k \in Message, times'[k] > 0 PROVE at[m] < at[k]
    <3>1. ~Covered(m) /\ m \in Matching \ page
      BY <2>2, <2>3, <2>4, <2>7
    <3>2. CASE k \in page
      <4>1. at[k] >= at[m] /\ k # m /\ k \in stored
        BY <1>1, <1>3, <3>1, <3>2 DEF Newest
      <4>2. at[k] # at[m]
        BY <1>1, <2>7, <4>1 DEF Covered
      <4> QED
        BY <1>5, <2>1, <4>1, <4>2
    <3>3. CASE k \notin page
      BY <1>0, <1>4, <2>7, <3>1, <3>3 DEF PagesCover
    <3> QED
      BY <3>2, <3>3
  <2> QED
    BY <1>2, <2>2, <2>3, <2>4, <2>5, <2>6, <2>7
<1> QED
  BY <1>6, <1>7, <1>8, <1>9 DEF HistoryInv

LEMMA HistoryInvariance == HistorySpec => []HistoryInv
<1>1. HistoryInv /\ [HistoryNext]_historyVars => HistoryInv'
  <2> SUFFICES ASSUME HistoryInv, [HistoryNext]_historyVars PROVE HistoryInv'
    OBVIOUS
  <2>1. CASE UNCHANGED historyVars
    BY <2>1 DEF historyVars, reading, HistoryInv, HistoryTypeOK, RowsSound, PagesDescend,
                PagesCover, Covered
  <2> QED
    BY <2>1, SenderStep, LookupStep, FetchStep DEF HistoryNext
<1> QED
  BY HistoryInitInv, <1>1, PTL DEF HistorySpec

\* The rows and what the reader keeps have their types.
THEOREM HistoryTypeCorrect == HistorySpec => []HistoryTypeOK
<1>1. HistoryInv => HistoryTypeOK
  BY DEF HistoryInv
<1> QED
  BY <1>1, HistoryInvariance, PTL

\* Pages of any size, however many messages arrive between them: no message
\* is on two, unless the lookup of a cursor failed.
THEOREM PagesAreDisjoint == HistorySpec => []NoRepeat
<1>1. HistoryInv => NoRepeat
  BY DEF HistoryInv, PagesDescend, NoRepeat
<1> QED
  BY <1>1, HistoryInvariance, PTL

\* What the reader lacks of the history it asked for has the timestamp of a
\* message it has, or is older than all it has; at the end only the former,
\* unless the last page broke off.  Failed lookups only make it start over.
THEOREM HistoryHasNoGaps == HistorySpec => []NoGaps
<1>1. HistoryInv => NoGaps
  <2> SUFFICES ASSUME HistoryInv, NEW m \in atStart, times[m] = 0
               PROVE  \/ \E k \in stored \ {m} : at[k] = at[m] /\ times[k] > 0
                      \/ /\ reader # "done" \/ cut
                         /\ \A k \in Message : times[k] > 0 => at[m] < at[k]
    BY DEF NoGaps
  <2>1. Covered(m) => \E k \in stored \ {m} : at[k] = at[m] /\ times[k] > 0
    BY DEF Covered
  <2>2. /\ reader = "done" => Covered(m) \/ cut
        /\ Covered(m) \/ \A k \in Message : times[k] > 0 => at[m] < at[k]
    BY DEF HistoryInv, PagesCover
  <2> QED
    BY <2>1, <2>2
<1> QED
  BY <1>1, HistoryInvariance, PTL
=============================================================================
