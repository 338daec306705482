------------------------- MODULE RateLimiterProofs --------------------------
(***************************************************************************)
(* Theorems of the rate limiter, for every number of clients, requests and *)
(* limiters, every burst and every time to live.                           *)
(***************************************************************************)
EXTENDS RateLimiter, TLAPS

\* Where a request is tells whether it has an address and a limiter.
RequestsOK ==
    \A r \in Requests :
        /\ pc[r] # "idle" => key[r] \in Keys
        /\ pc[r] \in {"touch", "allow"} <=> limiter[r] \in Limiters
        /\ pc[r] \in {"idle", "look", "create"} <=> limiter[r] = None

\* A request has the limiter that is in the map, unless it was removed since.
HeldLimiters ==
    \A r \in Requests \ removed : limiter[r] # None => limiters[key[r]] = limiter[r]

\* No two addresses share a limiter.
OwnLimiters ==
    \A k1, k2 \in Keys : k1 # k2 /\ limiters[k1] # None => limiters[k1] # limiters[k2]

\* A limiter that was removed is in the map no more, so its last requests take no
\* token of anyone else's.
RemovedApart ==
    \A r \in removed : limiter[r] \in Limiters /\ \A k \in Keys : limiters[k] # limiter[r]

\* What was let through and what is left make up the burst.
BurstAccounted ==
    \A k \in Keys :
        /\ limiters[k] = None => granted[k] = 0
        /\ limiters[k] # None => granted[k] + tokens[limiters[k]] = Burst

LimiterInv ==
    /\ LimiterTypeOK /\ RequestsOK /\ HeldLimiters /\ OwnLimiters /\ RemovedApart
    /\ BurstAccounted /\ LimitersHaveTimes

\* The limiter starts empty, with every request idle.
LEMMA LimiterInvInit == LimiterInit => LimiterInv
BY LimiterAssumption
   DEF LimiterInit, LimiterInv, LimiterTypeOK, RequestsOK, HeldLimiters, OwnLimiters,
       RemovedApart, BurstAccounted, LimitersHaveTimes

\* A request that has a limiter is let through only at the cost of a token of the
\* limiter in the map.
LEMMA AllowKeeps == ASSUME LimiterInv, NEW r \in Requests, Allow(r) PROVE LimiterInv'
<1> USE LimiterAssumption
<1>1. /\ key[r] \in Keys
      /\ limiter[r] \in Limiters /\ limiter[r] # None
      /\ limiters[key[r]] \in Limiters \cup {None}
      /\ tokens[limiter[r]] \in 0..Burst
  BY DEF LimiterInv, LimiterTypeOK, RequestsOK, Allow
<1>2. LimiterTypeOK'
  BY <1>1 DEF LimiterInv, LimiterTypeOK, Allow, Done, mapVars, janitorVars
<1>3. RequestsOK' /\ HeldLimiters' /\ RemovedApart'
  BY <1>1 DEF LimiterInv, LimiterTypeOK, RequestsOK, HeldLimiters, RemovedApart, Allow, Done,
              mapVars
<1>4. OwnLimiters' /\ LimitersHaveTimes'
  BY DEF LimiterInv, OwnLimiters, LimitersHaveTimes, Allow, Done, mapVars
<1>5. BurstAccounted'
  <2> SUFFICES ASSUME NEW k \in Keys
               PROVE  /\ limiters[k] = None => granted'[k] = 0
                      /\ limiters[k] # None => granted'[k] + tokens'[limiters[k]] = Burst
    BY DEF BurstAccounted, Allow, Done, mapVars
  <2>1. /\ limiters[k] \in Limiters \cup {None} /\ granted[k] \in Nat
        /\ limiters[k] = None => granted[k] = 0
        /\ limiters[k] # None => /\ granted[k] + tokens[limiters[k]] = Burst
                                 /\ tokens[limiters[k]] \in 0..Burst
    BY DEF LimiterInv, LimiterTypeOK, BurstAccounted
  <2>2. CASE tokens[limiter[r]] = 0 /\ UNCHANGED <<tokens, granted>>
    BY <2>1, <2>2
  <2>3. CASE tokens[limiter[r]] > 0 /\ r \in removed
    <3>1. granted' = granted /\ tokens' = [tokens EXCEPT ![limiter[r]] = @ - 1]
      BY <2>3, <1>1 DEF Allow
    <3>2. limiters[k] # limiter[r]
      BY <2>3 DEF LimiterInv, RemovedApart
    <3>3. limiters[k] # None => tokens'[limiters[k]] = tokens[limiters[k]]
      BY <3>1, <3>2, <1>1, <2>1 DEF LimiterInv, LimiterTypeOK
    <3> QED
      BY <3>1, <3>3, <2>1
  <2>4. CASE tokens[limiter[r]] > 0 /\ r \notin removed
    <3>1. /\ granted' = [granted EXCEPT ![key[r]] = @ + 1]
          /\ tokens' = [tokens EXCEPT ![limiter[r]] = @ - 1]
      BY <2>4, <1>1 DEF Allow
    <3>2. limiters[key[r]] = limiter[r]
      BY <2>4, <1>1 DEF LimiterInv, HeldLimiters
    <3>3. CASE k = key[r]
      BY <3>1, <3>2, <3>3, <2>1, <1>1 DEF LimiterInv, LimiterTypeOK
    <3>4. CASE k # key[r]
      <4>1. limiters[k] # limiter[r] \/ limiters[k] = None
        BY <3>2, <3>4, <1>1 DEF LimiterInv, OwnLimiters
      <4>2. granted'[k] = granted[k]
        BY <3>1, <3>4 DEF LimiterInv, LimiterTypeOK
      <4>3. limiters[k] # None => tokens'[limiters[k]] = tokens[limiters[k]]
        BY <3>1, <4>1, <2>1 DEF LimiterInv, LimiterTypeOK
      <4> QED
        BY <4>2, <4>3, <2>1
    <3> QED
      BY <3>3, <3>4
  <2> QED
    BY <2>2, <2>3, <2>4, <1>1 DEF Allow
<1> QED
  BY <1>2, <1>3, <1>4, <1>5 DEF LimiterInv

\* A new limiter takes the place of none, whether or not others wait to create it.
LEMMA CreateKeeps ==
    ASSUME LimiterInv, NEW r \in Requests, NEW l \in Limiters, Create(r, l)
    PROVE  LimiterInv'
<1> USE LimiterAssumption
<1>1. /\ key[r] \in Keys /\ limiters[key[r]] = None /\ limiter[r] = None
      /\ l # None
      /\ \A k \in Keys : limiters[k] # l
      /\ \A q \in Requests : limiter[q] # l
  BY DEF LimiterInv, RequestsOK, Create, Put, Unused
<1>2. /\ limiters' = [limiters EXCEPT ![key[r]] = l]
      /\ lastSeen' = [lastSeen EXCEPT ![key[r]] = now]
      /\ tokens' = [tokens EXCEPT ![l] = Burst]
      /\ limiter' = [limiter EXCEPT ![r] = l]
      /\ pc' = [pc EXCEPT ![r] = "allow"]
      /\ UNCHANGED <<now, key, janitor, passTime, keysToDelete, granted, removed>>
  BY DEF Create, Put, janitorVars
<1> HIDE DEF Create
<1>3. LimiterTypeOK'
  BY <1>1, <1>2 DEF LimiterInv, LimiterTypeOK
<1>4. RequestsOK'
  BY <1>1, <1>2 DEF LimiterInv, LimiterTypeOK, RequestsOK
<1>5. HeldLimiters'
  BY <1>1, <1>2 DEF LimiterInv, LimiterTypeOK, HeldLimiters, RequestsOK
<1>6. OwnLimiters' /\ RemovedApart'
  BY <1>1, <1>2 DEF LimiterInv, LimiterTypeOK, OwnLimiters, RemovedApart
<1>7. BurstAccounted'
  BY <1>1, <1>2 DEF LimiterInv, LimiterTypeOK, BurstAccounted
<1>8. LimitersHaveTimes'
  BY <1>1, <1>2 DEF LimiterInv, LimiterTypeOK, LimitersHaveTimes
<1> QED
  BY <1>3, <1>4, <1>5, <1>6, <1>7, <1>8 DEF LimiterInv

\* The janitor takes limiter and time together, and the requests that hold what it
\* took count as removed.
LEMMA DeleteKeeps == ASSUME LimiterInv, DeleteKeys PROVE LimiterInv'
<1> USE LimiterAssumption
<1>1. LimiterTypeOK'
  BY DEF LimiterInv, LimiterTypeOK, DeleteKeys
<1>2. RequestsOK' /\ HeldLimiters'
  BY DEF LimiterInv, LimiterTypeOK, RequestsOK, HeldLimiters, DeleteKeys
<1>3. OwnLimiters' /\ LimitersHaveTimes'
  BY DEF LimiterInv, LimiterTypeOK, OwnLimiters, LimitersHaveTimes, DeleteKeys
<1>4. BurstAccounted'
  BY DEF LimiterInv, LimiterTypeOK, BurstAccounted, DeleteKeys
<1>5. RemovedApart'
  <2> SUFFICES ASSUME NEW r \in removed'
               PROVE  (limiter[r] \in Limiters /\ \A k \in Keys : limiters[k] # limiter[r])'
    BY DEF RemovedApart
  <2>0. limiter' = limiter
    BY DEF DeleteKeys
  <2>1. \A k \in Keys : limiters'[k] = IF k \in keysToDelete THEN None ELSE limiters[k]
    BY DEF DeleteKeys
  <2>2. CASE r \in removed
    BY <2>0, <2>1, <2>2, LimiterAssumption DEF LimiterInv, RemovedApart
  <2>3. CASE r \notin removed
    <3>1. r \in Requests /\ limiter[r] # None /\ key[r] \in keysToDelete
      BY <2>3 DEF DeleteKeys
    <3>2. limiter[r] \in Limiters /\ limiters[key[r]] = limiter[r] /\ key[r] \in Keys
      BY <2>3, <3>1 DEF LimiterInv, LimiterTypeOK, HeldLimiters
    <3> QED
      BY <2>0, <2>1, <3>1, <3>2 DEF LimiterInv, OwnLimiters
  <2> QED
    BY <2>2, <2>3
<1> QED
  BY <1>1, <1>2, <1>3, <1>4, <1>5 DEF LimiterInv

\* Every step keeps the invariant.
LEMMA LimiterInvStep == LimiterInv /\ [LimiterNext]_limiterVars => LimiterInv'
<1> SUFFICES ASSUME LimiterInv, [LimiterNext]_limiterVars PROVE LimiterInv'
  OBVIOUS
<1> USE LimiterAssumption
        DEF LimiterInv, LimiterTypeOK, RequestsOK, HeldLimiters, OwnLimiters,
            RemovedApart, BurstAccounted, LimitersHaveTimes
<1>1. CASE Tick
  <2>1. now' \in 1..MaxTime
    BY <1>1 DEF Tick
  <2>2. BurstAccounted'
    BY <1>1 DEF Tick, mapVars
  <2> QED
    BY <1>1, <2>1, <2>2 DEF Tick, mapVars, janitorVars
<1>2. ASSUME NEW r \in Requests, NEW k \in Keys, Arrive(r, k) PROVE LimiterInv'
  BY <1>2 DEF Arrive, mapVars, janitorVars
<1>3. ASSUME NEW r \in Requests, Look(r) PROVE LimiterInv'
  BY <1>3 DEF Look, mapVars, janitorVars
<1>4. ASSUME NEW r \in Requests, Recheck(r) PROVE LimiterInv'
  BY <1>4 DEF Recheck, mapVars, janitorVars
<1>5. ASSUME NEW r \in Requests, Touch(r) PROVE LimiterInv'
  BY <1>5 DEF Touch, janitorVars
<1>6. ASSUME NEW r \in Requests, RequestStep(r) PROVE LimiterInv'
  <2> HIDE DEF LimiterInv
  <2> QED
    BY <1>3, <1>4, <1>5, <1>6, AllowKeeps, CreateKeeps DEF RequestStep
<1>7. CASE Janitor
  <2>1. CASE StartPass
    BY <2>1 DEF StartPass, mapVars
  <2>2. CASE Collect
    BY <2>2 DEF Collect, mapVars
  <2>3. CASE DeleteKeys
    <3> HIDE DEF LimiterInv
    <3> QED
      BY <2>3, DeleteKeeps
  <2> QED
    BY <1>7, <2>1, <2>2, <2>3 DEF Janitor
<1>8. CASE UNCHANGED limiterVars
  BY <1>8 DEF limiterVars, mapVars, janitorVars
<1> HIDE DEF LimiterInv
<1> QED
  BY <1>1, <1>2, <1>6, <1>7, <1>8 DEF LimiterNext

\* The rate limiter is type-correct.
THEOREM LimiterTypeCorrect == LimiterSpec => []LimiterTypeOK
<1>1. LimiterInv => LimiterTypeOK
  BY DEF LimiterInv
<1> QED
  BY <1>1, LimiterInvInit, LimiterInvStep, PTL DEF LimiterSpec

\* A client address shares one bucket, whatever requests race and whenever the
\* janitor runs (GetLimiter and the middleware of ratelimit.go).
THEOREM BurstCorrect == LimiterSpec => []BurstKept
<1>1. LimiterInv => BurstKept
  <2> SUFFICES ASSUME LimiterInv, NEW k \in Keys PROVE granted[k] <= Burst
    BY DEF BurstKept
  <2>1. /\ limiters[k] \in Limiters \cup {None} /\ granted[k] \in Nat
        /\ limiters[k] # None => tokens[limiters[k]] \in 0..Burst
    BY DEF LimiterInv, LimiterTypeOK
  <2> QED
    BY <2>1, LimiterAssumption DEF LimiterInv, BurstAccounted
<1> QED
  BY <1>1, LimiterInvInit, LimiterInvStep, PTL DEF LimiterSpec

\* A client is refused only when its own burst is spent: Allow in the middleware
\* takes tokens of no one else's limiter.
THEOREM RefusalCorrect == LimiterSpec => []RefusedOnlyWhenSpent
<1>1. LimiterInv => RefusedOnlyWhenSpent
  <2> SUFFICES ASSUME LimiterInv, NEW r \in Requests \ removed,
                      pc[r] = "allow", tokens[limiter[r]] = 0
               PROVE  granted[key[r]] >= Burst
    BY DEF RefusedOnlyWhenSpent
  <2>1. key[r] \in Keys /\ limiter[r] \in Limiters
    BY DEF LimiterInv, RequestsOK
  <2>2. limiters[key[r]] = limiter[r] /\ limiter[r] # None
    BY <2>1, LimiterAssumption DEF LimiterInv, HeldLimiters
  <2>3. granted[key[r]] + 0 = Burst /\ granted[key[r]] \in Nat
    BY <2>1, <2>2 DEF LimiterInv, LimiterTypeOK, BurstAccounted
  <2> QED
    BY <2>3, LimiterAssumption
<1> QED
  BY <1>1, LimiterInvInit, LimiterInvStep, PTL DEF LimiterSpec

\* Every limiter has a time, by which the janitor finds it.
THEOREM TimesCorrect == LimiterSpec => []LimitersHaveTimes
<1>1. LimiterInv => LimitersHaveTimes
  BY DEF LimiterInv
<1> QED
  BY <1>1, LimiterInvInit, LimiterInvStep, PTL DEF LimiterSpec
=============================================================================
