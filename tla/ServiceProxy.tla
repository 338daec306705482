---------------------------- MODULE ServiceProxy ----------------------------
(***************************************************************************)
(* The reverse proxy of internal/proxy/proxy.go over the service registry  *)
(* of internal/discovery/consul.go: the first request to a service creates *)
(* its load balancer and starts a watcher, which keeps the list of the     *)
(* balancer up to date.                                                    *)
(*                                                                         *)
(* The map loadBalancers is not synchronised.  An access during another    *)
(* goroutine's assignment may be noticed by the Go runtime, which then     *)
(* stops the process; otherwise it finds the map before or after the       *)
(* assignment.  What a balancer does with its list is in LoadBalancer;     *)
(* here it selects any of the instances.                                   *)
(***************************************************************************)
EXTENDS Integers, FiniteSets

CONSTANTS
    Services,    \* the names of services
    Instances,   \* the IDs of their instances
    Requests,    \* the proxied requests; a balancer bears the name of its creator
    MaxIndex,    \* bound: the last index of Consul
    None

\* The healthy instances of a service, and Consul's index when they were read.
List == [instances : SUBSET Instances, index : 0..MaxIndex]

ASSUME ProxyAssumption ==
    /\ MaxIndex \in Nat \ {0}
    /\ None \notin Services \cup Instances \cup Requests \cup List

VARIABLES
    healthy,        \* Consul: the healthy instances of each service
    index,          \* Consul: the index of their last change
    loadBalancers,  \* per service, its balancer, or None
    lists,          \* per balancer, the list it selects from, or None
    assigning,      \* the requests inside an assignment to loadBalancers
    pc,             \* per request, where it is
    service,        \* per request, the service it is for, or None
    found,          \* per request, what DiscoverService returned, or None
    began,          \* per request, the balancer that counts its connection, or None
    ends,           \* per request, the balancer its deferred InstanceEnd is for, or None
    query,          \* per balancer, its WatchService goroutine
    batch,          \* per balancer, the list that goroutine offers, or None
    lastIndex,      \* per balancer, the index it has seen last
    update,         \* per balancer, the list watchServiceChanges applies, or None
    dead            \* whether the runtime has stopped the process

registryVars == <<healthy, index>>
countVars == <<began, ends>>
requestVars == <<pc, service, found, countVars>>
watchVars == <<query, batch, lastIndex, update>>
mapVars == <<loadBalancers, lists, assigning>>
proxyVars == <<registryVars, mapVars, requestVars, watchVars, dead>>

ProxyInit ==
    /\ healthy \in [Services -> SUBSET Instances]
    /\ index = [s \in Services |-> 1]
    /\ loadBalancers = [s \in Services |-> None]
    /\ lists = [x \in Requests |-> None]
    /\ assigning = {}
    /\ pc = [r \in Requests |-> "idle"]
    /\ service = [r \in Requests |-> None]
    /\ found = [r \in Requests |-> None]
    /\ began = [r \in Requests |-> None]
    /\ ends = [r \in Requests |-> None]
    /\ query = [x \in Requests |-> "none"]
    /\ batch = [x \in Requests |-> None]
    /\ lastIndex = [x \in Requests |-> 0]
    /\ update = [x \in Requests |-> None]
    /\ dead = FALSE

Balancer(r) == loadBalancers[service[r]]
Registered(s) == [instances |-> healthy[s], index |-> index[s]]

-----------------------------------------------------------------------------
(* Consul.  It is not part of the repository.                              *)

RegistryChanges(s) ==
    /\ index[s] < MaxIndex
    /\ index' = [index EXCEPT ![s] = @ + 1]
    /\ \E new \in SUBSET Instances : healthy' = [healthy EXCEPT ![s] = new]
    /\ UNCHANGED <<mapVars, requestVars, watchVars, dead>>

-----------------------------------------------------------------------------
(* Requests: HandleProxy and getServiceInstance.                           *)

Goto(r, label) == pc' = [pc EXCEPT ![r] = label]

Arrive(r, s) ==
    /\ ~dead
    /\ pc[r] = "idle"
    /\ Goto(r, "check")
    /\ service' = [service EXCEPT ![r] = s]
    /\ UNCHANGED <<registryVars, mapVars, found, countVars, watchVars, dead>>

Check(r) ==
    /\ ~dead
    /\ pc[r] = "check"
    /\ Goto(r, IF Balancer(r) = None THEN "discover" ELSE "get")
    /\ UNCHANGED <<registryVars, mapVars, service, found, countVars, watchVars, dead>>

\* Mutant: that nothing was found is not noticed.
DiscoverUnchecked(r) ==
    /\ ~dead
    /\ pc[r] = "discover"
    /\ \/ Goto(r, "done") /\ UNCHANGED found
       \/ healthy[service[r]] = {} /\ Goto(r, "get") /\ UNCHANGED found
       \/ /\ healthy[service[r]] # {}
          /\ Goto(r, "assign")
          /\ found' = [found EXCEPT ![r] = Registered(service[r])]
    /\ UNCHANGED <<registryVars, mapVars, service, countVars, watchVars, dead>>

\* DiscoverService fails, finds nothing, or finds healthy instances.
Discover(r) ==
    /\ ~dead
    /\ pc[r] = "discover"
    /\ \/ Goto(r, "done") /\ UNCHANGED found
       \/ /\ healthy[service[r]] # {}
          /\ Goto(r, "assign")
          /\ found' = [found EXCEPT ![r] = Registered(service[r])]
    /\ UNCHANGED <<registryVars, mapVars, service, countVars, watchVars, dead>>

BeginAssign(r) ==
    /\ ~dead
    /\ pc[r] = "assign"
    /\ Goto(r, "assigning")
    /\ assigning' = assigning \cup {r}
    /\ UNCHANGED <<registryVars, loadBalancers, lists, service, found, countVars, watchVars, dead>>

\* The new balancer is in the map, and its watcher is started.
EndAssign(r) ==
    /\ ~dead
    /\ pc[r] = "assigning"
    /\ Goto(r, "get")
    /\ assigning' = assigning \ {r}
    /\ loadBalancers' = [loadBalancers EXCEPT ![service[r]] = r]
    /\ lists' = [lists EXCEPT ![r] = found[r]]
    /\ found' = [found EXCEPT ![r] = None]
    /\ query' = [query EXCEPT ![r] = "query"]
    /\ UNCHANGED <<registryVars, service, countVars, batch, lastIndex, update, dead>>

\* GetInstance of the balancer that is in the map now.
Get(r) ==
    /\ ~dead
    /\ pc[r] = "get"
    /\ Goto(r, IF lists[Balancer(r)].instances = {} THEN "done" ELSE "begin")
    /\ UNCHANGED <<registryVars, mapVars, service, found, countVars, watchVars, dead>>

\* InstanceBegin of the balancer that is in the map by now.
Begin(r) ==
    /\ ~dead
    /\ pc[r] = "begin"
    /\ Goto(r, "defer")
    /\ began' = [began EXCEPT ![r] = Balancer(r)]
    /\ UNCHANGED <<registryVars, mapVars, service, found, ends,
                   watchVars, dead>>

\* The defer statement evaluates the receiver of InstanceEnd: the map is read again.
Defer(r) ==
    /\ ~dead
    /\ pc[r] = "defer"
    /\ Goto(r, "proxy")
    /\ ends' = [ends EXCEPT ![r] = Balancer(r)]
    /\ UNCHANGED <<registryVars, mapVars, service, found, began,
                   watchVars, dead>>

\* ServeHTTP returns, or panics when the client is gone, and the deferred
\* InstanceEnd runs in both cases.
Proxy(r) ==
    /\ ~dead
    /\ pc[r] = "proxy"
    /\ Goto(r, "done")
    /\ began' = [began EXCEPT ![r] = None]
    /\ ends' = [ends EXCEPT ![r] = None]
    /\ UNCHANGED <<registryVars, mapVars, service, found, watchVars, dead>>

RequestStep(r) ==
    \/ Check(r) \/ Discover(r) \/ BeginAssign(r) \/ EndAssign(r)
    \/ Get(r) \/ Begin(r) \/ Defer(r) \/ Proxy(r)

-----------------------------------------------------------------------------
(* The goroutine of WatchService, and the loop of watchServiceChanges that *)
(* takes from its two unbuffered channels.                                 *)

\* Mutant: the next query waits for the change after the next.
QueryAnsweredSkipsOne(x) ==
    /\ ~dead
    /\ query[x] = "query"
    /\ index[service[x]] > lastIndex[x]
    /\ lastIndex' = [lastIndex EXCEPT ![x] = index[service[x]] + 1]
    /\ batch' = [batch EXCEPT ![x] = Registered(service[x])]
    /\ query' = [query EXCEPT ![x] = "offer"]
    /\ UNCHANGED <<registryVars, mapVars, requestVars, update, dead>>

\* The blocking query returns when there is something newer than lastIndex.  It
\* would also return after WaitTime, but the HTTP client gives up long before.
QueryAnswered(x) ==
    /\ ~dead
    /\ query[x] = "query"
    /\ index[service[x]] > lastIndex[x]
    /\ lastIndex' = [lastIndex EXCEPT ![x] = index[service[x]]]
    /\ batch' = [batch EXCEPT ![x] = Registered(service[x])]
    /\ query' = [query EXCEPT ![x] = "offer"]
    /\ UNCHANGED <<registryVars, mapVars, requestVars, update, dead>>

\* Mutant: a failed query counts as one that has seen what there is.
QueryFailedSkips(x) ==
    /\ ~dead
    /\ query[x] = "query"
    /\ query' = [query EXCEPT ![x] = "report"]
    /\ lastIndex' = [lastIndex EXCEPT ![x] = index[service[x]]]
    /\ UNCHANGED <<registryVars, mapVars, requestVars, batch, update, dead>>

\* An error, or the timeout of the client.
QueryFailed(x) ==
    /\ ~dead
    /\ query[x] = "query"
    /\ query' = [query EXCEPT ![x] = "report"]
    /\ UNCHANGED <<registryVars, mapVars, requestVars,
                   batch, lastIndex, update, dead>>

\* Mutant: an error is taken for a list without instances.
TakeErrorEmpties(x) ==
    /\ ~dead
    /\ query[x] = "report" /\ update[x] = None
    /\ query' = [query EXCEPT ![x] = "sleep"]
    /\ update' = [update EXCEPT ![x] = [instances |-> {}, index |-> 0]]
    /\ UNCHANGED <<registryVars, mapVars, requestVars, batch, lastIndex, dead>>

\* The loop takes from errChan, and the goroutine sleeps for a second.
TakeError(x) ==
    /\ ~dead
    /\ query[x] = "report" /\ update[x] = None
    /\ query' = [query EXCEPT ![x] = "sleep"]
    /\ UNCHANGED <<registryVars, mapVars, requestVars,
                   batch, lastIndex, update, dead>>

Retry(x) ==
    /\ ~dead
    /\ query[x] = "sleep"
    /\ query' = [query EXCEPT ![x] = "query"]
    /\ UNCHANGED <<registryVars, mapVars, requestVars,
                   batch, lastIndex, update, dead>>

\* The loop takes from instancesChan, and the goroutine queries again.
TakeInstances(x) ==
    /\ ~dead
    /\ query[x] = "offer" /\ update[x] = None
    /\ update' = [update EXCEPT ![x] = batch[x]]
    /\ batch' = [batch EXCEPT ![x] = None]
    /\ query' = [query EXCEPT ![x] = "query"]
    /\ UNCHANGED <<registryVars, mapVars, requestVars, lastIndex, dead>>

\* Mutant: an update without an instance is not applied.
UpdateUnlessEmpty(x) ==
    /\ ~dead
    /\ update[x] # None
    /\ lists' = IF update[x].instances = {} THEN lists
                ELSE [lists EXCEPT ![Balancer(x)] = update[x]]
    /\ update' = [update EXCEPT ![x] = None]
    /\ UNCHANGED <<registryVars, loadBalancers, assigning, requestVars, query, batch,
                   lastIndex, dead>>

\* Mutant: the watcher puts the balancer it was started for back into the map.
UpdateReinstalls(x) ==
    /\ ~dead
    /\ update[x] # None
    /\ loadBalancers' = [loadBalancers EXCEPT ![service[x]] = x]
    /\ lists' = [lists EXCEPT ![x] = update[x]]
    /\ update' = [update EXCEPT ![x] = None]
    /\ UNCHANGED <<registryVars, assigning, requestVars, query, batch, lastIndex, dead>>

\* UpdateInstances of the balancer that is in the map now.
UpdateInstances(x) ==
    /\ ~dead
    /\ update[x] # None
    /\ lists' = [lists EXCEPT ![Balancer(x)] = update[x]]
    /\ update' = [update EXCEPT ![x] = None]
    /\ UNCHANGED <<registryVars, loadBalancers, assigning, requestVars, query, batch,
                   lastIndex, dead>>

WatcherStep(x) == TakeError(x) \/ Retry(x) \/ TakeInstances(x) \/ UpdateInstances(x)

-----------------------------------------------------------------------------

\* A request, or its watcher, is about to access the map.
AtMap(g) == pc[g] \in {"check", "assign", "assigning", "get", "begin", "defer"} \/ update[g] # None

\* "concurrent map read and map write", or two writes: no recover() stops that.
FatalError(w, g) ==
    /\ ~dead
    /\ w \in assigning /\ g # w /\ AtMap(g)
    /\ dead' = TRUE
    /\ UNCHANGED <<registryVars, mapVars, requestVars, watchVars>>

ProxyNext ==
    \/ \E s \in Services : RegistryChanges(s)
    \/ \E r \in Requests : \/ \E s \in Services : Arrive(r, s)
                           \/ RequestStep(r)
    \/ \E x \in Requests : QueryAnswered(x) \/ QueryFailed(x) \/ WatcherStep(x)
    \/ \E w, g \in Requests : FatalError(w, g)

ProxySpec == ProxyInit /\ [][ProxyNext]_proxyVars

\* The goroutines of a watcher go on, and while Consul has news, not every one
\* of its queries fails.
FairProxySpec ==
    /\ ProxySpec
    /\ \A x \in Requests : WF_proxyVars(WatcherStep(x)) /\ SF_proxyVars(QueryAnswered(x))

-----------------------------------------------------------------------------
(* Properties *)

\* Every variable has its type.
ProxyTypeOK ==
    /\ healthy \in [Services -> SUBSET Instances]
    /\ index \in [Services -> 1..MaxIndex]
    /\ loadBalancers \in [Services -> Requests \cup {None}]
    /\ lists \in [Requests -> List \cup {None}]
    /\ assigning \subseteq Requests
    /\ pc \in [Requests -> {"idle", "check", "discover", "assign", "assigning", "get", "begin",
                            "defer", "proxy", "done"}]
    /\ service \in [Requests -> Services \cup {None}]
    /\ found \in [Requests -> List \cup {None}]
    /\ began \in [Requests -> Requests \cup {None}]
    /\ ends \in [Requests -> Requests \cup {None}]
    /\ query \in [Requests -> {"none", "query", "offer", "report", "sleep"}]
    /\ batch \in [Requests -> List \cup {None}]
    /\ lastIndex \in [Requests -> 0..MaxIndex]
    /\ update \in [Requests -> List \cup {None}]
    /\ dead \in BOOLEAN

\* The watchers that were started for a service.
Watchers(s) == {x \in Requests : service[x] = s /\ query[x] # "none"}

\* A watcher that has seen Consul's last change and passed it on.
CaughtUp(x) == lastIndex[x] = index[service[x]] /\ batch[x] = None /\ update[x] = None

\* With every watcher of a service caught up, its balancer selects from the
\* instances Consul reports now: although first requests may race to create the
\* balancer, and the watchers of one service may apply an older list after a newer
\* one, no outdated list stays.
CaughtUpIsCurrent ==
    \A s \in Services :
        loadBalancers[s] # None /\ (\A x \in Watchers(s) : CaughtUp(x)) =>
            lists[loadBalancers[s]].instances = healthy[s]

\* No request selects from a balancer that is not there: past the check, the map
\* has one for the service, with a list and with a watcher that was started.
BalancersReady ==
    /\ \A r \in Requests : pc[r] \in {"get", "begin", "defer"} => Balancer(r) # None
    /\ \A s \in Services : loadBalancers[s] # None =>
          /\ service[loadBalancers[s]] = s
          /\ lists[loadBalancers[s]] # None
          /\ loadBalancers[s] \in Watchers(s)

\* Once Consul has settled, the balancers have its instances, for good: an update
\* is not lost to the errors and retries of the queries.
ListsConverge ==
    <>[](dead \/ \A s \in Services : loadBalancers[s] # None =>
                     lists[loadBalancers[s]].instances = healthy[s])

\* A connection that the balancer in use counts ends there: however its creators
\* raced, no counter of that balancer stays too high when a request has ended, as it
\* would if the map could go back to a balancer it has moved on from.
NoConnectionLeaks ==
    \A r \in Requests : ends[r] # None /\ began[r] = Balancer(r) => ends[r] = began[r]

\* A service has one watcher.
LoneWatcher(s) == \A x, y \in Watchers(s) : x = y

\* The balancer of a service never goes back to an older list of instances as long as
\* a single watcher keeps it: neither an update that was on its way, nor an error, nor
\* the discovery at its creation can overtake what watchServiceChanges has applied.
LoneWatcherAdvances ==
    [][\A s \in Services : loadBalancers[s] # None /\ LoneWatcher(s)' =>
           lists[loadBalancers[s]].index <= lists'[loadBalancers'[s]].index]_proxyVars
=============================================================================
