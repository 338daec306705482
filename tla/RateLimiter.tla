---------------------------- MODULE RateLimiter -----------------------------
(***************************************************************************)
(* The rate limiter of internal/middleware/ratelimit.go: a token bucket    *)
(* per client address, made when the address is first seen and removed by  *)
(* the janitor when it has not been seen for a while.                      *)
(*                                                                         *)
(* What happens between Lock and Unlock of mu is one step; GetLimiter and  *)
(* the janitor each take mu more than once.  A unit of the clock is longer *)
(* than a bucket takes to fill up (two seconds) and much shorter than the  *)
(* time to live (an hour).                                                 *)
(***************************************************************************)
EXTENDS Integers, FiniteSets

CONSTANTS
    Keys,       \* the client addresses
    Requests,   \* the goroutines of requests
    Limiters,   \* the limiter objects in memory
    Burst,      \* b, the size of a bucket
    TTL,        \* ttl, in clock units
    MaxTime,    \* bound: the clock stops here
    None

ASSUME LimiterAssumption ==
    /\ IsFiniteSet(Limiters)
    /\ Burst \in Nat \ {0} /\ TTL \in Nat \ {0} /\ MaxTime \in Nat \ {0}
    /\ None \notin Keys \cup Limiters

VARIABLES
    limiters,      \* the map of limiters
    lastSeen,      \* the map of times; 0 is an absent key
    tokens,        \* per limiter, the tokens left
    now,           \* time.Now()
    pc,            \* per request, where it is
    key,           \* per request, its address, or None
    limiter,       \* per request, the limiter it got, or None
    janitor,       \* where the janitor is
    passTime,      \* its local now
    keysToDelete,  \* its local
    granted,       \* history: requests of an address let through on this unit of
                   \* the clock, since the address was removed last
    removed        \* history: the requests under way when their address was removed

mapVars == <<limiters, lastSeen>>
janitorVars == <<janitor, passTime, keysToDelete>>
limiterVars == <<mapVars, tokens, now, pc, key, limiter, janitorVars, granted, removed>>

LimiterInit ==
    /\ limiters = [k \in Keys |-> None]
    /\ lastSeen = [k \in Keys |-> 0]
    /\ tokens = [l \in Limiters |-> 0]
    /\ now = 1
    /\ pc = [r \in Requests |-> "idle"]
    /\ key = [r \in Requests |-> None]
    /\ limiter = [r \in Requests |-> None]
    /\ janitor = "idle" /\ passTime = 0 /\ keysToDelete = {}
    /\ granted = [k \in Keys |-> 0]
    /\ removed = {}

\* By the next unit of the clock every bucket is full again.
Tick ==
    /\ now < MaxTime
    /\ now' = now + 1
    /\ tokens' = [l \in Limiters |-> Burst]
    /\ granted' = [k \in Keys |-> 0]
    /\ UNCHANGED <<mapVars, pc, key, limiter, janitorVars, removed>>

-----------------------------------------------------------------------------
(* A request: the middleware RateLimit with GetLimiter.                    *)

Arrive(r, k) ==
    /\ pc[r] = "idle"
    /\ pc' = [pc EXCEPT ![r] = "look"]
    /\ key' = [key EXCEPT ![r] = k]
    /\ UNCHANGED <<mapVars, tokens, now, limiter, janitorVars, granted, removed>>

\* Under the read lock.
Look(r) ==
    /\ pc[r] = "look"
    /\ pc' = [pc EXCEPT ![r] = IF limiters[key[r]] = None THEN "create" ELSE "touch"]
    /\ limiter' = [limiter EXCEPT ![r] = limiters[key[r]]]
    /\ UNCHANGED <<mapVars, tokens, now, key, janitorVars, granted, removed>>

\* A new object: one that is neither in the map nor held by a request.
Unused(l) == (\A k \in Keys : limiters[k] # l) /\ (\A r \in Requests : limiter[r] # l)

Put(r, l) ==
    /\ Unused(l)
    /\ limiters' = [limiters EXCEPT ![key[r]] = l]
    /\ tokens' = [tokens EXCEPT ![l] = Burst]
    /\ limiter' = [limiter EXCEPT ![r] = l]

\* Mutant: the map is not looked at again under the lock.
CreateUnchecked(r, l) ==
    /\ pc[r] = "create"
    /\ pc' = [pc EXCEPT ![r] = "allow"]
    /\ Put(r, l)
    /\ lastSeen' = [lastSeen EXCEPT ![key[r]] = now]
    /\ UNCHANGED <<now, key, janitorVars, granted, removed>>

\* Mutant: the new limiter gets its time only when it is used again.
CreateUnseen(r, l) ==
    /\ pc[r] = "create"
    /\ limiters[key[r]] = None
    /\ pc' = [pc EXCEPT ![r] = "allow"]
    /\ Put(r, l)
    /\ UNCHANGED <<lastSeen, now, key, janitorVars, granted, removed>>

\* Under the lock, the key is still absent.
Create(r, l) ==
    /\ pc[r] = "create"
    /\ limiters[key[r]] = None
    /\ pc' = [pc EXCEPT ![r] = "allow"]
    /\ Put(r, l)
    /\ lastSeen' = [lastSeen EXCEPT ![key[r]] = now]
    /\ UNCHANGED <<now, key, janitorVars, granted, removed>>

\* Under the lock, another request has created the limiter meanwhile.
Recheck(r) ==
    /\ pc[r] = "create"
    /\ limiters[key[r]] # None
    /\ pc' = [pc EXCEPT ![r] = "allow"]
    /\ limiter' = [limiter EXCEPT ![r] = limiters[key[r]]]
    /\ UNCHANGED <<mapVars, tokens, now, key, janitorVars, granted, removed>>

\* The limiter was there: note the time, whether or not it is there still.
Touch(r) ==
    /\ pc[r] = "touch"
    /\ pc' = [pc EXCEPT ![r] = "allow"]
    /\ lastSeen' = [lastSeen EXCEPT ![key[r]] = now]
    /\ UNCHANGED <<limiters, tokens, now, key, limiter, janitorVars, granted, removed>>

\* Go on to the next handler, or answer 429.
Done(r) ==
    /\ pc' = [pc EXCEPT ![r] = "idle"]
    /\ key' = [key EXCEPT ![r] = None]
    /\ limiter' = [limiter EXCEPT ![r] = None]
    /\ removed' = removed \ {r}
    /\ UNCHANGED <<mapVars, now, janitorVars>>

\* Mutant: the bucket is not looked at.
AllowUnchecked(r) ==
    /\ pc[r] = "allow"
    /\ tokens' = [tokens EXCEPT ![limiter[r]] = @ - 1]
    /\ UNCHANGED granted
    /\ Done(r)

\* Mutant: the bucket is asked twice.
AllowTwice(r) ==
    /\ pc[r] = "allow"
    /\ \/ /\ tokens[limiter[r]] > 0
          /\ tokens' = [tokens EXCEPT ![limiter[r]] = IF @ > 1 THEN @ - 2 ELSE 0]
          /\ granted' = IF r \in removed THEN granted
                        ELSE [granted EXCEPT ![key[r]] = @ + 1]
       \/ tokens[limiter[r]] = 0 /\ UNCHANGED <<tokens, granted>>
    /\ Done(r)

Allow(r) ==
    /\ pc[r] = "allow"
    /\ \/ /\ tokens[limiter[r]] > 0
          /\ tokens' = [tokens EXCEPT ![limiter[r]] = @ - 1]
          /\ granted' = IF r \in removed THEN granted
                        ELSE [granted EXCEPT ![key[r]] = @ + 1]
       \/ tokens[limiter[r]] = 0 /\ UNCHANGED <<tokens, granted>>
    /\ Done(r)

RequestStep(r) ==
    \/ Look(r) \/ Recheck(r) \/ Touch(r) \/ Allow(r)
    \/ \E l \in Limiters : Create(r, l)

-----------------------------------------------------------------------------
(* The janitor.  Its ticker is left out: a pass may begin at any time.     *)

StartPass ==
    /\ janitor = "idle"
    /\ janitor' = "collect"
    /\ passTime' = now
    /\ UNCHANGED <<mapVars, tokens, now, pc, key, limiter, keysToDelete, granted, removed>>

Old(k) == lastSeen[k] # 0 /\ passTime - lastSeen[k] > TTL

\* Mutant: a pass that finds nothing old is the last one.
CollectOnce ==
    /\ janitor = "collect"
    /\ keysToDelete' = {k \in Keys : Old(k)}
    /\ janitor' = IF keysToDelete' = {} THEN "collect" ELSE "delete"
    /\ UNCHANGED <<mapVars, tokens, now, pc, key, limiter, passTime, granted, removed>>

\* Under the read lock.
Collect ==
    /\ janitor = "collect"
    /\ keysToDelete' = {k \in Keys : Old(k)}
    /\ janitor' = IF keysToDelete' = {} THEN "idle" ELSE "delete"
    /\ passTime' = 0
    /\ UNCHANGED <<mapVars, tokens, now, pc, key, limiter, granted, removed>>

\* Under the lock, whatever became of the keys since they were collected.
DeleteKeys ==
    /\ janitor = "delete"
    /\ janitor' = "idle" /\ keysToDelete' = {}
    /\ limiters' = [k \in Keys |-> IF k \in keysToDelete THEN None ELSE limiters[k]]
    /\ lastSeen' = [k \in Keys |-> IF k \in keysToDelete THEN 0 ELSE lastSeen[k]]
    /\ granted' = [k \in Keys |-> IF k \in keysToDelete THEN 0 ELSE granted[k]]
    /\ removed' = removed \cup {r \in Requests : limiter[r] # None /\ key[r] \in keysToDelete}
    /\ UNCHANGED <<tokens, now, pc, key, limiter, passTime>>

Janitor == StartPass \/ Collect \/ DeleteKeys

-----------------------------------------------------------------------------

LimiterNext ==
    \/ Tick
    \/ \E r \in Requests : RequestStep(r) \/ \E k \in Keys : Arrive(r, k)
    \/ Janitor

LimiterSpec == LimiterInit /\ [][LimiterNext]_limiterVars

\* The janitor's ticker fires again and again, and the janitor goes on.
FairLimiterSpec == LimiterSpec /\ WF_limiterVars(Janitor)

-----------------------------------------------------------------------------
(* Properties *)

\* Every variable has its type.
LimiterTypeOK ==
    /\ limiters \in [Keys -> Limiters \cup {None}]
    /\ lastSeen \in [Keys -> 0..MaxTime]
    /\ tokens \in [Limiters -> 0..Burst]
    /\ now \in 1..MaxTime
    /\ pc \in [Requests -> {"idle", "look", "create", "touch", "allow"}]
    /\ key \in [Requests -> Keys \cup {None}]
    /\ limiter \in [Requests -> Limiters \cup {None}]
    /\ janitor \in {"idle", "collect", "delete"}
    /\ passTime \in 0..MaxTime
    /\ keysToDelete \subseteq Keys
    /\ granted \in [Keys -> Nat]
    /\ removed \subseteq Requests

\* A client address shares one bucket as long as it is not removed: while no
\* bucket fills up, no more than the burst is let through, however many first
\* requests race to create the limiter.
BurstKept == \A k \in Keys : granted[k] <= Burst

\* A request that is about to be refused, and whose address was not removed under
\* it, has had the whole burst let through: no race to create the limiter, no pass
\* of the janitor and no other address costs a client a token.
RefusedOnlyWhenSpent ==
    \A r \in Requests \ removed :
        pc[r] = "allow" /\ tokens[limiter[r]] = 0 => granted[key[r]] >= Burst

\* Every limiter has a time, so the janitor, which goes by the times, can find it:
\* no limiter stays in memory forever because its time was removed without it.
LimitersHaveTimes == \A k \in Keys : limiters[k] # None => lastSeen[k] # 0

\* A limiter that is not used for longer than its time to live is removed, or its
\* address is seen again.
IdleLimitersRemoved ==
    \A k \in Keys :
        LET Idle == limiters[k] # None /\ now - lastSeen[k] > TTL IN Idle ~> ~Idle
=============================================================================
