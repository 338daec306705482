---------------------------- MODULE LoadBalancer ----------------------------
(***************************************************************************)
(* One load balancer of internal/discovery/loadbalancer.go: the goroutines *)
(* of proxied requests select an instance and count their connection to    *)
(* it, while the watcher of the service replaces the list of instances.    *)
(*                                                                         *)
(* instanceLock is a sync.RWMutex.  Every method but UpdateInstances takes *)
(* it for reading, so any number of them run at once and the counters are  *)
(* accessed atomically; what is more than one atomic access is more than   *)
(* one step here.  A writer that waits keeps new readers out.              *)
(***************************************************************************)
EXTENDS Integers, Sequences, FiniteSets

CONSTANTS
    Instances,       \* the IDs of the instances of the service
    Permanent,       \* those that the registry never stops listing
    Requests,        \* the goroutines of proxied requests
    LBTypes,         \* the algorithms to choose from
    Word,            \* the number of values of a uint64
    MaxSelections,   \* bound: selections by round robin
    MaxUpdates,      \* bound: calls of UpdateInstances
    None             \* no instance; no update

ElementsOf(list) == {list[k] : k \in 1..Len(list)}

\* What the registry may list: each instance at most once, in any order.  IDs, which
\* are unique in a Consul agent, are taken to be unique in the cluster.
Lists == {list \in UNION {[1..n -> Instances] : n \in 0..Cardinality(Instances)} :
              /\ \A k, l \in 1..Len(list) : list[k] = list[l] => k = l
              /\ Permanent \subseteq ElementsOf(list)}

ASSUME LoadBalancerAssumption ==
    /\ IsFiniteSet(Instances) /\ IsFiniteSet(Requests)
    /\ Permanent \subseteq Instances
    /\ LBTypes \subseteq {"round_robin", "random", "least_connections"}
    /\ Word \in Nat /\ Cardinality(Requests) < Word
    /\ MaxSelections \in Nat /\ MaxUpdates \in Nat
    /\ None \notin Instances \cup Lists

VARIABLES
    lbType,            \* the algorithm
    serviceInstances,  \* the instances, as listed last
    connectionCount,   \* per listed instance, its counter
    counter,           \* the counter of round robin
    writer,            \* the list of the UpdateInstances that waits, or None
    pc,                \* per request, where it is
    instance,          \* per request, the instance it selected, or None
    scan,              \* per request, the locals of the search for the least
    picks,             \* history: selections by round robin from this list
    updates            \* history: calls of UpdateInstances so far

requestVars == <<pc, instance, scan>>
lbVars == <<lbType, serviceInstances, connectionCount, counter, writer,
            requestVars, picks, updates>>

\* The next position to look at, the least count so far, and where it was.
Scan == [next : Nat, minConnections : 0..Word - 1, selectedIdx : Nat]
NoScan == [next |-> 0, minConnections |-> 0, selectedIdx |-> 0]

\* The methods that hold the lock from one step to the next.
Reading(r) == pc[r] \in {"scan", "ending"}

\* NewLoadBalancer.
LBInit ==
    /\ lbType \in LBTypes
    /\ serviceInstances \in Lists
    /\ connectionCount = [i \in ElementsOf(serviceInstances) |-> 0]
    /\ counter = 0
    /\ writer = None
    /\ pc = [r \in Requests |-> "idle"]
    /\ instance = [r \in Requests |-> None]
    /\ scan = [r \in Requests |-> NoScan]
    /\ picks = [i \in Instances |-> 0]
    /\ updates = 0

-----------------------------------------------------------------------------
(* GetInstance.  Without an instance it returns an error and changes       *)
(* nothing, which is no step here.                                         *)

Select(r, i) ==
    /\ pc' = [pc EXCEPT ![r] = "selected"]
    /\ instance' = [instance EXCEPT ![r] = i]

\* Mutant: the last instance is left out.
IndexOfAllButLast(count) == 1 + (IF Len(serviceInstances) > 1
                                 THEN count % (Len(serviceInstances) - 1) ELSE 0)

\* The position in the list (TLA+ counts from 1).  int(count) is count: it would
\* be negative only from selection 2^63 on.
IndexOf(count) == (count % Len(serviceInstances)) + 1

GetByRoundRobin(r) ==
    /\ lbType = "round_robin"
    /\ pc[r] = "idle" /\ writer = None /\ serviceInstances # <<>>
    /\ counter < MaxSelections
    /\ counter' = counter + 1
    /\ LET i == serviceInstances[IndexOf(counter')]
       IN Select(r, i) /\ picks' = [picks EXCEPT ![i] = @ + 1]
    /\ UNCHANGED <<lbType, serviceInstances, connectionCount, writer, scan, updates>>

GetByRandom(r) ==
    /\ lbType = "random"
    /\ pc[r] = "idle" /\ writer = None
    /\ \E i \in ElementsOf(serviceInstances) : Select(r, i)
    /\ UNCHANGED <<lbType, serviceInstances, connectionCount, counter, writer, scan,
                   picks, updates>>

StartScan(r) ==
    /\ lbType = "least_connections"
    /\ pc[r] = "idle" /\ writer = None /\ serviceInstances # <<>>
    /\ pc' = [pc EXCEPT ![r] = "scan"]
    /\ scan' = [scan EXCEPT ![r] = [next |-> 1, minConnections |-> Word - 1, selectedIdx |-> 1]]
    /\ UNCHANGED <<lbType, serviceInstances, connectionCount, counter, writer,
                   instance, picks, updates>>

\* One turn of the loop: the counter is loaded while other requests change it.
ScanNext(r) ==
    /\ pc[r] = "scan" /\ scan[r].next <= Len(serviceInstances)
    /\ LET k == scan[r].next
           connections == connectionCount[serviceInstances[k]]
       IN scan' = [scan EXCEPT ![r] =
              IF connections < @.minConnections
              THEN [next |-> k + 1, minConnections |-> connections, selectedIdx |-> k]
              ELSE [@ EXCEPT !.next = k + 1]]
    /\ UNCHANGED <<lbType, serviceInstances, connectionCount, counter, writer,
                   pc, instance, picks, updates>>

EndScan(r) ==
    /\ pc[r] = "scan" /\ scan[r].next > Len(serviceInstances)
    /\ Select(r, serviceInstances[scan[r].selectedIdx])
    /\ scan' = [scan EXCEPT ![r] = NoScan]
    /\ UNCHANGED <<lbType, serviceInstances, connectionCount, counter, writer, picks, updates>>

-----------------------------------------------------------------------------
(* InstanceBegin and InstanceEnd.                                          *)

Listed(i) == i \in DOMAIN connectionCount

InstanceBegin(r) ==
    /\ pc[r] = "selected" /\ writer = None
    /\ pc' = [pc EXCEPT ![r] = "active"]
    /\ connectionCount' = IF Listed(instance[r])
                          THEN [connectionCount EXCEPT ![instance[r]] = (@ + 1) % Word]
                          ELSE connectionCount
    /\ UNCHANGED <<lbType, serviceInstances, counter, writer, instance, scan, picks, updates>>

Leave(r) ==
    /\ pc' = [pc EXCEPT ![r] = "idle"]
    /\ instance' = [instance EXCEPT ![r] = None]

\* Mutant: the lock is released only together with the decrement.
InstanceEndKeepsLock(r) ==
    /\ pc[r] = "active" /\ writer = None
    /\ pc' = [pc EXCEPT ![r] = "ending"]
    /\ UNCHANGED <<lbType, serviceInstances, connectionCount, counter, writer, instance,
                   scan, picks, updates>>

\* InstanceEnd, its first half: load the counter, and leave it alone at zero.
InstanceEnd(r) ==
    /\ pc[r] = "active" /\ writer = None
    /\ \/ /\ Listed(instance[r]) /\ connectionCount[instance[r]] > 0
          /\ pc' = [pc EXCEPT ![r] = "ending"]
          /\ UNCHANGED instance
       \/ /\ Listed(instance[r]) => connectionCount[instance[r]] = 0
          /\ Leave(r)
    /\ UNCHANGED <<lbType, serviceInstances, connectionCount, counter, writer,
                   scan, picks, updates>>

\* Its second half: add the two's complement of one.
Decrement(r) ==
    /\ pc[r] = "ending" /\ Listed(instance[r])
    /\ connectionCount' = [connectionCount EXCEPT ![instance[r]] = (@ + Word - 1) % Word]
    /\ Leave(r)
    /\ UNCHANGED <<lbType, serviceInstances, counter, writer, scan, picks, updates>>

-----------------------------------------------------------------------------
(* UpdateInstances.                                                        *)

\* The watcher calls it, and waits for the lock.
CallUpdate(list) ==
    /\ writer = None /\ updates < MaxUpdates
    /\ writer' = list
    /\ updates' = updates + 1
    /\ UNCHANGED <<lbType, serviceInstances, connectionCount, counter, requestVars, picks>>

Replace(list, counts) ==
    /\ serviceInstances' = list
    /\ connectionCount' = counts
    /\ writer' = None
    /\ picks' = [i \in Instances |-> 0]
    /\ UNCHANGED <<lbType, counter, requestVars, updates>>

Preserved(list) ==
    [i \in ElementsOf(list) |-> IF Listed(i) THEN connectionCount[i] ELSE 0]

\* Mutant: every counter starts again.
UpdateResets ==
    /\ writer # None
    /\ \A r \in Requests : ~Reading(r)
    /\ Replace(writer, [i \in ElementsOf(writer) |-> 0])

\* Mutant: the counters of instances that are gone stay.
UpdateKeepsAll ==
    /\ writer # None
    /\ \A r \in Requests : ~Reading(r)
    /\ Replace(writer, [i \in ElementsOf(writer) \cup DOMAIN connectionCount |->
                            IF Listed(i) THEN connectionCount[i] ELSE 0])

\* Mutant: the lists are swapped without the lock.
UpdateUnlocked ==
    /\ writer # None
    /\ Replace(writer, Preserved(writer))

UpdateInstances ==
    /\ writer # None
    /\ \A r \in Requests : ~Reading(r)
    /\ Replace(writer, Preserved(writer))

-----------------------------------------------------------------------------

RequestNext(r) ==
    \/ GetByRoundRobin(r) \/ GetByRandom(r)
    \/ StartScan(r) \/ ScanNext(r) \/ EndScan(r)
    \/ InstanceBegin(r) \/ InstanceEnd(r) \/ Decrement(r)

LBNext ==
    \/ \E r \in Requests : RequestNext(r)
    \/ \E list \in Lists : CallUpdate(list)
    \/ UpdateInstances

LBSpec == LBInit /\ [][LBNext]_lbVars

\* A goroutine that holds the lock or waits for it goes on.  Nothing is assumed
\* of the arrival of requests, of the backends or of the registry.
FairLBSpec ==
    /\ LBSpec
    /\ WF_lbVars(UpdateInstances)
    /\ \A r \in Requests : WF_lbVars(ScanNext(r) \/ EndScan(r) \/ Decrement(r))

-----------------------------------------------------------------------------
(* Properties *)

\* Every variable has its type; in particular the listed instances, and no
\* others, have a counter.
LBTypeOK ==
    /\ lbType \in LBTypes
    /\ serviceInstances \in Lists
    /\ connectionCount \in [ElementsOf(serviceInstances) -> 0..Word - 1]
    /\ counter \in Nat
    /\ writer \in Lists \cup {None}
    /\ pc \in [Requests -> {"idle", "scan", "selected", "active", "ending"}]
    /\ instance \in [Requests -> Instances \cup {None}]
    /\ scan \in [Requests -> Scan]
    /\ picks \in [Instances -> Nat]
    /\ updates \in Nat

\* The requests that count as connections of an instance.
Connected(i) == {r \in Requests : instance[r] = i /\ pc[r] \in {"active", "ending"}}

\* The counter of an instance that stays listed is exact at every moment, however
\* the requests interleave and whatever other instances come and go.
ConnectionsCounted ==
    \A i \in Permanent : connectionCount[i] = Cardinality(Connected(i))

\* A list that is not replaced is used evenly: after any number of concurrent
\* selections by round robin no instance is ahead of another by more than one.
RoundRobinEven ==
    lbType = "round_robin" =>
        \A i, j \in ElementsOf(serviceInstances) : picks[i] - picks[j] <= 1

\* The search for the least connections never leaves the list it searches: a
\* list is not replaced under it, so no index is out of range.
ScanInRange ==
    \A r \in Requests : pc[r] = "scan" =>
        /\ scan[r].selectedIdx \in 1..Len(serviceInstances)
        /\ scan[r].next \in 1..Len(serviceInstances) + 1

\* Nobody waits for the lock forever: an update that waits is applied, and a
\* request that holds the lock lets go of it.
LockIsReleased ==
    /\ writer # None ~> writer = None
    /\ \A r \in Requests : Reading(r) ~> ~Reading(r)

\* "Make sure we don't go below zero" (loadbalancer.go:152): a counter that went
\* below zero would be close to 2^64, more than there are requests.
NotBelowZero ==
    \A i \in DOMAIN connectionCount : connectionCount[i] <= Cardinality(Requests)
=============================================================================
