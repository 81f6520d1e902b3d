----------------------------- MODULE RateLimiter -----------------------------
(***************************************************************************)
(* The per-address rate limiter in front of every HTTP endpoint            *)
(* (internal/middleware/ratelimit.go): a map from addresses to token       *)
(* buckets, filled by the first request of an address.  Looking an address *)
(* up and storing its bucket are two calls of sync.Map, not one            *)
(* LoadOrStore.  A unit of time is what one token takes.                   *)
(***************************************************************************)
EXTENDS Integers, FiniteSets

CONSTANTS Address,
          Request,    \* each request passes the limiter once
          From,       \* the address of a request
          Burst,      \* tokens of a full bucket: RATE_LIMIT_RPM
          MaxElapsed, \* bound of the time that passes
          NoBucket

ASSUME LimiterAssumption ==
    /\ From \in [Request -> Address]
    /\ Burst \in Nat
    /\ MaxElapsed \in Nat
    /\ NoBucket \notin Request

VARIABLES ips,       \* the map; a bucket is named after the request that made it
          tokens,    \* tokens left in each bucket
          step,      \* where each request is
          held,      \* the bucket GetLimiter returned to it
          elapsed,   \* time since the start
          early      \* requests that looked before their address had a bucket

limiterVars == <<ips, tokens, step, held, elapsed, early>>

Step == {"new", "store", "allow", "served", "refused"}

LimiterTypeOK ==
    /\ ips \in [Address -> Request \cup {NoBucket}]
    /\ tokens \in [Request -> 0..Burst]
    /\ step \in [Request -> Step]
    /\ held \in [Request -> Request \cup {NoBucket}]
    /\ elapsed \in 0..MaxElapsed
    /\ early \in SUBSET Request

LimiterInit ==
    /\ ips = [a \in Address |-> NoBucket]
    /\ tokens = [r \in Request |-> Burst]
    /\ step = [r \in Request |-> "new"]
    /\ held = [r \in Request |-> NoBucket]
    /\ elapsed = 0
    /\ early = {}

-----------------------------------------------------------------------------
Load_NeverFinds(r) ==
    /\ step[r] = "new"
    /\ early' = IF ips[From[r]] = NoBucket THEN early \cup {r} ELSE early
    /\ step' = [step EXCEPT ![r] = "store"]
    /\ UNCHANGED <<ips, tokens, held, elapsed>>
Load(r) ==
    /\ step[r] = "new"
    /\ LET found == ips[From[r]] IN
       IF found = NoBucket
       THEN /\ step' = [step EXCEPT ![r] = "store"]
            /\ early' = early \cup {r}
            /\ UNCHANGED held
       ELSE /\ step' = [step EXCEPT ![r] = "allow"]
            /\ held' = [held EXCEPT ![r] = found]
            /\ UNCHANGED early
    /\ UNCHANGED <<ips, tokens, elapsed>>

\* A new bucket, full, replaces whatever the map has by now.
Store(r) ==
    /\ step[r] = "store"
    /\ ips' = [ips EXCEPT ![From[r]] = r]
    /\ held' = [held EXCEPT ![r] = r]
    /\ step' = [step EXCEPT ![r] = "allow"]
    /\ UNCHANGED <<tokens, elapsed, early>>

\* Allow of golang.org/x/time/rate: it takes a token if there is one.
Allow(r) ==
    /\ step[r] = "allow"
    /\ IF tokens[held[r]] > 0
       THEN /\ tokens' = [tokens EXCEPT ![held[r]] = @ - 1]
            /\ step' = [step EXCEPT ![r] = "served"]
       ELSE /\ step' = [step EXCEPT ![r] = "refused"]
            /\ UNCHANGED tokens
    /\ UNCHANGED <<ips, held, elapsed, early>>

\* Every bucket that is not full gets a token.
Refill ==
    /\ elapsed < MaxElapsed
    /\ elapsed' = elapsed + 1
    /\ tokens' = [r \in Request |-> IF tokens[r] < Burst THEN tokens[r] + 1 ELSE Burst]
    /\ UNCHANGED <<ips, step, held, early>>

LimiterNext ==
    \/ \E r \in Request : Load(r) \/ Store(r) \/ Allow(r)
    \/ Refill

LimiterSpec == LimiterInit /\ [][LimiterNext]_limiterVars

-----------------------------------------------------------------------------
Served(a) == {r \in Request : From[r] = a /\ step[r] = "served"}
Early(a)  == {r \in early : From[r] = a}

\* "Built-in per-IP token bucket rate limiting" (README.md:16): an address is
\* served a burst and what the time since has earned it, once for each request
\* that looked before the address had a bucket, and no more for any later one.
BucketPerRacer ==
    \A a \in Address : Cardinality(Served(a)) <= Cardinality(Early(a)) * (Burst + elapsed)
=============================================================================
