------------------------- MODULE ServiceProxyProofs --------------------------
(***************************************************************************)
(* ServiceProxy for every set of services, instances and requests: that    *)
(* the balancers are there, that no outdated list stays, that the list of  *)
(* a service with one watcher never gets older, and that a connection ends *)
(* at the balancer that counts it.                                         *)
(***************************************************************************)
EXTENDS ServiceProxy, TLAPS

Unstarted == {"idle", "check", "discover", "assign", "assigning"}

\* A request has its service, and what it needs for the assignment.  A balancer that
\* was in the map has a watcher, which is started once, at the end of its assignment.
RequestsOK ==
    \A r \in Requests :
        /\ pc[r] = "idle" => service[r] = None
        /\ pc[r] # "idle" => service[r] \in Services
        /\ pc[r] \in {"assign", "assigning"} => found[r] # None
        /\ pc[r] \in Unstarted => query[r] = "none"
        /\ ends[r] # None => pc[r] = "proxy"
        /\ began[r] # None => query[began[r]] # "none"

\* A watcher has nothing before it is started, and a list when it offers one.
WatchersOK ==
    \A x \in Requests :
        /\ query[x] = "none" => lastIndex[x] = 0 /\ batch[x] = None /\ update[x] = None
        /\ query[x] # "none" => Balancer(x) # None
        /\ query[x] = "offer" => batch[x] # None

\* A watcher that has seen Consul's last change has it in hand until it has applied it.
HoldsNews(x) ==
    LET s == service[x] IN
    /\ lastIndex[x] <= index[s]
    /\ lastIndex[x] = index[s] =>
          /\ batch[x] # None => batch[x] = Registered(s)
          /\ batch[x] = None /\ update[x] # None => update[x] = Registered(s)

WatchersHoldNews == \A x \in Requests : query[x] # "none" => HoldsNews(x)

StructureOK == ProxyTypeOK /\ RequestsOK /\ WatchersOK /\ BalancersReady

-----------------------------------------------------------------------------
(* Types and structure *)

\* What Consul tells is a list.
LEMMA RegisteredType ==
    ASSUME ProxyTypeOK, NEW s \in Services
    PROVE  Registered(s) \in List /\ Registered(s) # None
<1>1. healthy[s] \in SUBSET Instances /\ index[s] \in 0..MaxIndex
  BY ProxyAssumption DEF ProxyTypeOK
<1>2. Registered(s) \in List
  BY <1>1 DEF Registered, List
<1>3. None \notin List
  BY ProxyAssumption
<1> QED BY <1>2, <1>3

\* The map is empty, and no watcher runs.
LEMMA StructureInit == ProxyInit => StructureOK
<1> SUFFICES ASSUME ProxyInit PROVE StructureOK
  OBVIOUS
<1>1. ProxyTypeOK
  <2>1. 1 \in 1..MaxIndex /\ 0 \in 0..MaxIndex
    BY ProxyAssumption
  <2>2. index \in [Services -> 1..MaxIndex] /\ lastIndex \in [Requests -> 0..MaxIndex]
    BY <2>1 DEF ProxyInit
  <2>3. /\ loadBalancers \in [Services -> Requests \cup {None}]
        /\ service \in [Requests -> Services \cup {None}]
    BY DEF ProxyInit
  <2>4. /\ lists \in [Requests -> List \cup {None}] /\ found \in [Requests -> List \cup {None}]
        /\ batch \in [Requests -> List \cup {None}] /\ update \in [Requests -> List \cup {None}]
    BY DEF ProxyInit
  <2>5. /\ began \in [Requests -> Requests \cup {None}]
        /\ ends \in [Requests -> Requests \cup {None}]
    BY DEF ProxyInit
  <2> QED BY <2>2, <2>3, <2>4, <2>5 DEF ProxyInit, ProxyTypeOK
<1>2. RequestsOK
  BY DEF ProxyInit, RequestsOK
<1>3. WatchersOK
  BY DEF ProxyInit, WatchersOK
<1>4. BalancersReady
  BY DEF ProxyInit, BalancersReady
<1> QED BY <1>1, <1>2, <1>3, <1>4 DEF StructureOK

\* Steps of a request that leave the map and the watchers alone.
LEMMA RequestKeepsStructure ==
    ASSUME StructureOK, NEW r \in Requests,
           \/ \E s \in Services : Arrive(r, s)
           \/ Check(r) \/ Discover(r) \/ BeginAssign(r) \/ Get(r)
           \/ Begin(r) \/ Defer(r) \/ Proxy(r)
    PROVE  StructureOK'
<1> USE ProxyAssumption DEF registryVars, mapVars, countVars, requestVars, watchVars, Goto,
        StructureOK, RequestsOK, WatchersOK, BalancersReady, Watchers, Balancer, ProxyTypeOK, Unstarted
<1>1. CASE \E s \in Services : Arrive(r, s)
  BY <1>1 DEF Arrive
<1>2. CASE Check(r)
  BY <1>2 DEF Check
<1>3. CASE Discover(r)
  BY <1>3, RegisteredType DEF Discover
<1>4. CASE BeginAssign(r)
  BY <1>4 DEF BeginAssign
<1>5. CASE Get(r)
  BY <1>5 DEF Get
<1>6. CASE Begin(r)
  BY <1>6 DEF Begin
<1>7. CASE Defer(r)
  BY <1>7 DEF Defer
<1>8. CASE Proxy(r)
  BY <1>8 DEF Proxy
<1> QED BY <1>1, <1>2, <1>3, <1>4, <1>5, <1>6, <1>7, <1>8

\* A balancer enters the map with its list and its watcher.
LEMMA EndAssignKeepsStructure ==
    ASSUME StructureOK, NEW r \in Requests, EndAssign(r)
    PROVE  StructureOK'
<1> USE ProxyAssumption DEF registryVars, countVars, Goto, EndAssign, StructureOK
<1>1. /\ service' = service /\ service[r] \in Services
      /\ loadBalancers' = [loadBalancers EXCEPT ![service[r]] = r]
      /\ lists' = [lists EXCEPT ![r] = found[r]]
      /\ query' = [query EXCEPT ![r] = "query"]
      /\ found[r] \in List /\ found[r] # None
  BY DEF RequestsOK, ProxyTypeOK
<1>2. ProxyTypeOK'
  BY <1>1 DEF ProxyTypeOK
<1>3. RequestsOK'
  BY <1>1 DEF RequestsOK, ProxyTypeOK, Unstarted
<1>4. WatchersOK'
  BY <1>1 DEF WatchersOK, ProxyTypeOK, Balancer
<1>5. BalancersReady'
  BY <1>1 DEF BalancersReady, ProxyTypeOK, Balancer, Watchers
<1> QED BY <1>2, <1>3, <1>4, <1>5

\* A watcher changes nothing but lists.
LEMMA WatcherKeepsStructure ==
    ASSUME StructureOK, NEW x \in Requests,
           QueryAnswered(x) \/ QueryFailed(x) \/ WatcherStep(x)
    PROVE  StructureOK'
<1> USE ProxyAssumption DEF registryVars, mapVars, countVars, requestVars,
        StructureOK, RequestsOK, WatchersOK, BalancersReady, Watchers, Balancer, ProxyTypeOK, Unstarted
<1>1. CASE QueryAnswered(x)
  BY <1>1, RegisteredType DEF QueryAnswered
<1>2. CASE QueryFailed(x) \/ TakeError(x) \/ Retry(x)
  BY <1>2 DEF QueryFailed, TakeError, Retry
<1>3. CASE TakeInstances(x)
  BY <1>3 DEF TakeInstances
<1>4. CASE UpdateInstances(x)
  BY <1>4 DEF UpdateInstances
<1> QED BY <1>1, <1>2, <1>3, <1>4 DEF WatcherStep

\* Every step keeps the structure.
LEMMA StructureStep == StructureOK /\ [ProxyNext]_proxyVars => StructureOK'
<1> SUFFICES ASSUME StructureOK, [ProxyNext]_proxyVars PROVE StructureOK'
  OBVIOUS
<1> USE DEF registryVars, mapVars, countVars, requestVars, watchVars
<1>1. ASSUME NEW s \in Services, RegistryChanges(s) PROVE StructureOK'
  BY <1>1, ProxyAssumption
     DEF RegistryChanges, StructureOK, ProxyTypeOK, RequestsOK, WatchersOK, BalancersReady,
         Balancer, Watchers
<1>2. ASSUME NEW w \in Requests, NEW g \in Requests, FatalError(w, g) PROVE StructureOK'
  BY <1>2 DEF FatalError, StructureOK, ProxyTypeOK, RequestsOK, WatchersOK, BalancersReady,
              Balancer, Watchers
<1>3. CASE UNCHANGED proxyVars
  BY <1>3 DEF proxyVars, StructureOK, ProxyTypeOK, RequestsOK, WatchersOK, BalancersReady,
              Balancer, Watchers
<1> QED BY <1>1, <1>2, <1>3, RequestKeepsStructure, EndAssignKeepsStructure,
           WatcherKeepsStructure
        DEF ProxyNext, RequestStep

\* What is in the map of balancers is always complete.
THEOREM StructureCorrect == ProxySpec => []StructureOK
  BY StructureInit, StructureStep, PTL DEF ProxySpec

\* Every variable has its type: the map, the requests and the watchers.
THEOREM ProxyTypeCorrect == ProxySpec => []ProxyTypeOK
<1>1. StructureOK => ProxyTypeOK
  BY DEF StructureOK
<1> QED BY <1>1, StructureCorrect, PTL

\* getServiceInstance leaves a balancer in the map, with a list and a watcher, before
\* it selects from it.
THEOREM BalancersCorrect == ProxySpec => []BalancersReady
<1>1. StructureOK => BalancersReady
  BY DEF StructureOK
<1> QED BY <1>1, StructureCorrect, PTL

-----------------------------------------------------------------------------
(* No outdated list stays.                                                 *)

\* Every step of a watcher keeps what it has in hand the last it has seen.
LEMMA HoldsNewsStep ==
    StructureOK /\ WatchersHoldNews /\ [ProxyNext]_proxyVars => WatchersHoldNews'
<1> SUFFICES ASSUME StructureOK, WatchersHoldNews, [ProxyNext]_proxyVars,
                    NEW x \in Requests, query'[x] # "none"
             PROVE  HoldsNews(x)'
  BY DEF WatchersHoldNews
<1> USE DEF registryVars, mapVars, countVars, requestVars, watchVars, StructureOK, ProxyTypeOK
<1>1. ASSUME NEW s \in Services, RegistryChanges(s) PROVE HoldsNews(x)'
  <2>1. query[x] # "none" /\ HoldsNews(x) /\ service[x] \in Services
    BY <1>1 DEF RegistryChanges, WatchersHoldNews, RequestsOK, Unstarted
  <2>2. CASE service[x] = s
    BY <1>1, <2>1, <2>2 DEF RegistryChanges, HoldsNews
  <2>3. CASE service[x] # s
    BY <1>1, <2>1, <2>3 DEF RegistryChanges, HoldsNews, Registered
  <2> QED BY <2>2, <2>3
<1>2. ASSUME NEW r \in Requests,
             \/ \E s \in Services : Arrive(r, s)
             \/ Check(r) \/ Discover(r) \/ BeginAssign(r) \/ Get(r)
             \/ Begin(r) \/ Defer(r) \/ Proxy(r)
      PROVE  HoldsNews(x)'
  <2>1. query[x] # "none" /\ HoldsNews(x) /\ pc[x] # "idle"
    BY <1>2 DEF Arrive, Check, Discover, BeginAssign, Get, Begin, Defer, Proxy,
                WatchersHoldNews, RequestsOK, Unstarted
  <2>2. service'[x] = service[x]
    BY <1>2, <2>1 DEF Arrive, Check, Discover, BeginAssign, Get, Begin, Defer, Proxy
  <2>3. UNCHANGED <<healthy, index, batch, lastIndex, update>>
    BY <1>2 DEF Arrive, Check, Discover, BeginAssign, Get, Begin, Defer, Proxy
  <2> QED BY <2>1, <2>2, <2>3 DEF HoldsNews, Registered
<1>3. ASSUME NEW r \in Requests, EndAssign(r) PROVE HoldsNews(x)'
  <2>1. UNCHANGED <<healthy, index, service, batch, lastIndex, update>>
    BY <1>3 DEF EndAssign
  <2>2. CASE x = r
    <3>1. lastIndex[x] = 0 /\ service[x] \in Services
      BY <1>3, <2>2 DEF EndAssign, RequestsOK, WatchersOK, Unstarted
    <3> QED BY <2>1, <3>1 DEF HoldsNews
  <2>3. CASE x # r
    <3>1. query[x] # "none"
      BY <1>3, <2>3 DEF EndAssign
    <3> QED BY <2>1, <3>1 DEF WatchersHoldNews, HoldsNews, Registered
  <2> QED BY <2>2, <2>3
<1>4. ASSUME NEW y \in Requests, QueryAnswered(y) PROVE HoldsNews(x)'
  <2>1. UNCHANGED <<healthy, index, service, update>>
    BY <1>4 DEF QueryAnswered
  <2>2. CASE x = y
    <3>1. service[x] \in Services
      BY <1>4, <2>2 DEF QueryAnswered, RequestsOK, Unstarted
    <3>2. lastIndex'[x] = index[service[x]] /\ batch'[x] = Registered(service[x])
      BY <1>4, <2>2 DEF QueryAnswered
    <3>3. Registered(service[x]) # None
      BY <3>1, RegisteredType
    <3>4. lastIndex'[x] <= index[service[x]]
      BY <3>1, <3>2
    <3> QED BY <2>1, <3>2, <3>3, <3>4 DEF HoldsNews, Registered
  <2>3. CASE x # y
    <3>1. query[x] # "none" /\ batch'[x] = batch[x] /\ lastIndex'[x] = lastIndex[x]
      BY <1>4, <2>3 DEF QueryAnswered
    <3> QED BY <2>1, <3>1 DEF WatchersHoldNews, HoldsNews, Registered
  <2> QED BY <2>2, <2>3
<1>5. ASSUME NEW y \in Requests, QueryFailed(y) \/ TakeError(y) \/ Retry(y)
      PROVE  HoldsNews(x)'
  <2>1. UNCHANGED <<healthy, index, service, batch, lastIndex, update>> /\ query[x] # "none"
    BY <1>5 DEF QueryFailed, TakeError, Retry
  <2> QED BY <2>1 DEF WatchersHoldNews, HoldsNews, Registered
<1>6. ASSUME NEW y \in Requests, TakeInstances(y) PROVE HoldsNews(x)'
  <2>1. UNCHANGED <<healthy, index, service, lastIndex>> /\ query[x] # "none"
    BY <1>6 DEF TakeInstances
  <2>2. batch[y] # None
    BY <1>6 DEF TakeInstances, WatchersOK
  <2>3. CASE x = y
    <3>1. batch'[x] = None /\ update'[x] = batch[x]
      BY <1>6, <2>3 DEF TakeInstances
    <3> QED BY <2>1, <2>2, <2>3, <3>1 DEF WatchersHoldNews, HoldsNews, Registered
  <2>4. CASE x # y
    <3>1. batch'[x] = batch[x] /\ update'[x] = update[x]
      BY <1>6, <2>4 DEF TakeInstances
    <3> QED BY <2>1, <3>1 DEF WatchersHoldNews, HoldsNews, Registered
  <2> QED BY <2>3, <2>4
<1>7. ASSUME NEW y \in Requests, UpdateInstances(y) PROVE HoldsNews(x)'
  <2>1. UNCHANGED <<healthy, index, service, batch, lastIndex>> /\ query[x] # "none"
    BY <1>7 DEF UpdateInstances
  <2>2. update'[x] = update[x] \/ update'[x] = None
    BY <1>7 DEF UpdateInstances
  <2> QED BY <2>1, <2>2 DEF WatchersHoldNews, HoldsNews, Registered
<1>8. CASE UNCHANGED proxyVars \/ \E w, g \in Requests : FatalError(w, g)
  <2>1. UNCHANGED <<healthy, index, service, batch, lastIndex, update, query>>
    BY <1>8 DEF proxyVars, FatalError
  <2> QED BY <2>1 DEF WatchersHoldNews, HoldsNews, Registered
<1> QED BY <1>1, <1>2, <1>3, <1>4, <1>5, <1>6, <1>7, <1>8 DEF ProxyNext, RequestStep, WatcherStep

\* The watchers of a service have nothing to do, and its balancer is up to date.
Settled(s) == \A x \in Watchers(s) : CaughtUp(x)
Current(s) == lists[loadBalancers[s]].instances = healthy[s]

\* The balancer of a settled service stays up to date: whoever would leave it behind
\* has news to see or to apply.
LEMMA CurrentStep ==
    StructureOK /\ WatchersHoldNews /\ CaughtUpIsCurrent /\ [ProxyNext]_proxyVars
        => CaughtUpIsCurrent'
<1> SUFFICES ASSUME StructureOK, WatchersHoldNews, CaughtUpIsCurrent, [ProxyNext]_proxyVars,
                    NEW s \in Services, loadBalancers'[s] # None, Settled(s)'
             PROVE  Current(s)'
  BY DEF CaughtUpIsCurrent, Settled, Current
<1> USE DEF registryVars, mapVars, countVars, requestVars, watchVars, StructureOK, ProxyTypeOK
<1>1. ASSUME NEW t \in Services, RegistryChanges(t) PROVE Current(s)'
  <2>1. UNCHANGED <<loadBalancers, lists, service, query, lastIndex, batch, update>>
    BY <1>1 DEF RegistryChanges
  <2>2. CASE s = t
    <3>1. PICK x \in Requests : x \in Watchers(s)
      BY <2>1 DEF BalancersReady
    <3>2. lastIndex[x] <= index[s] /\ lastIndex[x] \in Nat /\ service[x] = s
      BY <3>1 DEF WatchersHoldNews, HoldsNews, Watchers
    <3>3. index'[s] = index[s] + 1
      BY <1>1, <2>2 DEF RegistryChanges
    <3>4. lastIndex[x] = index'[s]
      BY <2>1, <3>1, <3>2 DEF Settled, CaughtUp, Watchers
    <3> QED BY <3>2, <3>3, <3>4
  <2>3. CASE s # t
    <3>1. healthy'[s] = healthy[s] /\ index'[s] = index[s]
      BY <1>1, <2>3 DEF RegistryChanges
    <3>2. Settled(s)
      BY <2>1, <3>1 DEF Settled, CaughtUp, Watchers
    <3> QED BY <2>1, <3>1, <3>2 DEF CaughtUpIsCurrent, Settled, Current
  <2> QED BY <2>2, <2>3
<1>2. ASSUME NEW r \in Requests,
             \/ \E t \in Services : Arrive(r, t)
             \/ Check(r) \/ Discover(r) \/ BeginAssign(r) \/ Get(r)
             \/ Begin(r) \/ Defer(r) \/ Proxy(r)
      PROVE  Current(s)'
  <2>1. UNCHANGED <<healthy, index, loadBalancers, lists, query, batch, lastIndex, update>>
    BY <1>2 DEF Arrive, Check, Discover, BeginAssign, Get, Begin, Defer, Proxy
  <2>2. \A x \in Requests : query[x] # "none" => service'[x] = service[x]
    BY <1>2 DEF Arrive, Check, Discover, BeginAssign, Get, Begin, Defer, Proxy, RequestsOK, Unstarted
  <2>3. Settled(s)
    BY <2>1, <2>2 DEF Settled, CaughtUp, Watchers
  <2> QED BY <2>1, <2>3 DEF CaughtUpIsCurrent, Settled, Current
<1>3. ASSUME NEW r \in Requests, EndAssign(r) PROVE Current(s)'
  <2>1. UNCHANGED <<healthy, index, service, batch, lastIndex, update>>
    BY <1>3 DEF EndAssign
  <2>2. CASE service[r] = s
    <3>1. r \in Watchers(s)'
      BY <1>3, <2>1, <2>2 DEF EndAssign, Watchers
    <3>2. lastIndex[r] = 0
      BY <1>3 DEF EndAssign, RequestsOK, WatchersOK, Unstarted
    <3>3. lastIndex[r] = index[s]
      BY <2>1, <2>2, <3>1 DEF Settled, CaughtUp
    <3> QED BY <3>2, <3>3
  <2>3. CASE service[r] # s
    <3>1. loadBalancers'[s] = loadBalancers[s] /\ loadBalancers[s] # r
      BY <1>3, <2>3 DEF EndAssign, BalancersReady
    <3>2. lists'[loadBalancers[s]] = lists[loadBalancers[s]]
      BY <1>3, <3>1 DEF EndAssign
    <3>3. Watchers(s)' = Watchers(s)
      BY <1>3, <2>1, <2>3 DEF EndAssign, Watchers
    <3>4. Settled(s)
      BY <2>1, <3>3 DEF Settled, CaughtUp
    <3> QED BY <2>1, <3>1, <3>2, <3>4 DEF CaughtUpIsCurrent, Settled, Current
  <2> QED BY <2>2, <2>3
<1>4. ASSUME NEW y \in Requests,
             QueryAnswered(y) \/ QueryFailed(y) \/ TakeError(y) \/ Retry(y) \/ TakeInstances(y)
      PROVE  Current(s)'
  <2>1. UNCHANGED <<healthy, index, loadBalancers, lists, service>>
    BY <1>4 DEF QueryAnswered, QueryFailed, TakeError, Retry, TakeInstances
  <2>2. \A x \in Requests : query'[x] = "none" <=> query[x] = "none"
    BY <1>4 DEF QueryAnswered, QueryFailed, TakeError, Retry, TakeInstances
  <2>3. ASSUME NEW x \in Watchers(s), ~CaughtUp(x) PROVE ~CaughtUp(x)'
    <3>1. CASE QueryAnswered(y) /\ x = y
      <4>1. Registered(service[x]) # None
        BY RegisteredType DEF Watchers
      <4> QED BY <2>1, <3>1, <4>1 DEF QueryAnswered, CaughtUp, Watchers
    <3>2. CASE TakeInstances(y) /\ x = y
      BY <2>1, <3>2 DEF TakeInstances, CaughtUp, WatchersOK, Watchers
    <3>3. CASE UNCHANGED <<batch[x], lastIndex[x], update[x]>>
      BY <2>1, <2>3, <3>3 DEF CaughtUp, Watchers
    <3> QED BY <1>4, <3>1, <3>2, <3>3
            DEF QueryAnswered, QueryFailed, TakeError, Retry, TakeInstances, Watchers
  <2>4. Watchers(s)' = Watchers(s)
    BY <2>1, <2>2 DEF Watchers
  <2>5. Settled(s)
    BY <2>3, <2>4 DEF Settled
  <2> QED BY <2>1, <2>5 DEF CaughtUpIsCurrent, Settled, Current
<1>5. ASSUME NEW y \in Requests, UpdateInstances(y) PROVE Current(s)'
  <2>1. UNCHANGED <<healthy, index, loadBalancers, service, query, batch, lastIndex>>
    BY <1>5 DEF UpdateInstances
  <2>2. query[y] # "none" /\ service[y] \in Services /\ Balancer(y) \in Requests
    BY <1>5 DEF UpdateInstances, WatchersOK, RequestsOK, Unstarted, Balancer
  <2>3. CASE service[y] = s
    <3>1. y \in Watchers(s)'
      BY <2>1, <2>2, <2>3 DEF Watchers
    <3>2. lastIndex[y] = index[s] /\ batch[y] = None
      BY <2>1, <2>3, <3>1 DEF Settled, CaughtUp
    <3>3. update[y] = Registered(s)
      BY <1>5, <2>2, <2>3, <3>2 DEF UpdateInstances, WatchersHoldNews, HoldsNews
    <3>4. lists'[loadBalancers[s]] = update[y]
      BY <1>5, <2>2, <2>3 DEF UpdateInstances, Balancer
    <3> QED BY <2>1, <3>3, <3>4 DEF Current, Registered
  <2>4. CASE service[y] # s
    <3>1. loadBalancers[s] # Balancer(y)
      BY <2>1, <2>2, <2>4 DEF BalancersReady, Balancer
    <3>2. lists'[loadBalancers[s]] = lists[loadBalancers[s]]
      BY <1>5, <3>1 DEF UpdateInstances
    <3>3. \A x \in Watchers(s) : update'[x] = update[x]
      BY <1>5, <2>4 DEF UpdateInstances, Watchers
    <3>4. Settled(s)
      BY <2>1, <3>3 DEF Settled, CaughtUp, Watchers
    <3> QED BY <2>1, <3>2, <3>4 DEF CaughtUpIsCurrent, Settled, Current
  <2> QED BY <2>3, <2>4
<1>6. CASE UNCHANGED proxyVars \/ \E w, g \in Requests : FatalError(w, g)
  <2>1. UNCHANGED <<healthy, index, loadBalancers, lists, service, batch, lastIndex, update, query>>
    BY <1>6 DEF proxyVars, FatalError
  <2> QED BY <2>1 DEF CaughtUpIsCurrent, Settled, CaughtUp, Watchers, Current
<1> QED BY <1>1, <1>2, <1>3, <1>4, <1>5, <1>6 DEF ProxyNext, RequestStep, WatcherStep

\* watchServiceChanges leaves no outdated list in use: once all watchers of a service
\* have caught up with Consul, so has the balancer in the map.
THEOREM CaughtUpCorrect == ProxySpec => []CaughtUpIsCurrent
<1>1. ProxyInit => WatchersHoldNews /\ CaughtUpIsCurrent
  BY DEF ProxyInit, WatchersHoldNews, CaughtUpIsCurrent
<1> QED BY <1>1, StructureInit, StructureStep, HoldsNewsStep, CurrentStep, PTL DEF ProxySpec

-----------------------------------------------------------------------------
(* Connections                                                             *)

\* No step lets an ended connection meet another balancer than it began at.
LEMMA LeakStep == StructureOK /\ NoConnectionLeaks /\ [ProxyNext]_proxyVars => NoConnectionLeaks'
<1> SUFFICES ASSUME StructureOK, NoConnectionLeaks, [ProxyNext]_proxyVars,
                    NEW q \in Requests, ends'[q] # None, began'[q] = Balancer(q)'
             PROVE  ends'[q] = began'[q]
  BY DEF NoConnectionLeaks
<1> USE DEF registryVars, mapVars, countVars, requestVars, watchVars, StructureOK, ProxyTypeOK,
            NoConnectionLeaks
<1>1. ASSUME NEW r \in Requests, EndAssign(r) PROVE ends'[q] = began'[q]
  <2>1. UNCHANGED <<began, ends, service>> /\ query[r] = "none"
    BY <1>1 DEF EndAssign, RequestsOK, Unstarted
  <2>2. ends[q] # None /\ service[q] \in Services
    BY <2>1 DEF RequestsOK
  <2>3. CASE service[q] = service[r]
    <3>1. Balancer(q)' = r
      BY <1>1, <2>1, <2>2, <2>3 DEF EndAssign, Balancer
    <3>2. began[q] = r /\ r # None
      BY <2>1, <3>1, ProxyAssumption
    <3> QED BY <2>1, <3>2 DEF RequestsOK
  <2>4. CASE service[q] # service[r]
    <3>1. Balancer(q)' = Balancer(q)
      BY <1>1, <2>1, <2>2, <2>4 DEF EndAssign, Balancer
    <3> QED BY <2>1, <2>2, <3>1
  <2> QED BY <2>3, <2>4
<1>2. ASSUME NEW r \in Requests, Begin(r) \/ Proxy(r) PROVE ends'[q] = began'[q]
  <2>1. UNCHANGED <<loadBalancers, service>>
    BY <1>2 DEF Begin, Proxy
  <2>2. CASE q = r
    BY <1>2, <2>2 DEF Begin, Proxy, RequestsOK
  <2>3. CASE q # r
    BY <1>2, <2>1, <2>3 DEF Begin, Proxy, Balancer
  <2> QED BY <2>2, <2>3
<1>3. ASSUME NEW r \in Requests, Defer(r) PROVE ends'[q] = began'[q]
  <2>1. UNCHANGED <<loadBalancers, service, began>>
    BY <1>3 DEF Defer
  <2> QED BY <1>3, <2>1 DEF Defer, Balancer
<1>4. ASSUME NEW r \in Requests, NEW s \in Services, Arrive(r, s) PROVE ends'[q] = began'[q]
  <2>1. UNCHANGED <<loadBalancers, began, ends>> /\ pc[r] = "idle"
    BY <1>4 DEF Arrive
  <2>2. q # r
    BY <2>1 DEF RequestsOK
  <2>3. service'[q] = service[q]
    BY <1>4, <2>2 DEF Arrive
  <2> QED BY <2>1, <2>3 DEF Balancer
<1>5. ASSUME NEW r \in Requests,
             \/ Check(r) \/ Discover(r) \/ BeginAssign(r) \/ Get(r)
             \/ QueryAnswered(r) \/ QueryFailed(r) \/ WatcherStep(r)
             \/ \E g \in Requests : FatalError(r, g)
      PROVE  ends'[q] = began'[q]
  <2>1. UNCHANGED <<loadBalancers, began, ends, service>>
    BY <1>5 DEF Check, Discover, BeginAssign, Get, QueryAnswered, QueryFailed, WatcherStep,
                TakeError, Retry, TakeInstances, UpdateInstances, FatalError
  <2> QED BY <2>1 DEF Balancer
<1>6. ASSUME NEW s \in Services, RegistryChanges(s) PROVE ends'[q] = began'[q]
  BY <1>6 DEF RegistryChanges, Balancer
<1>7. CASE UNCHANGED proxyVars
  BY <1>7 DEF proxyVars, Balancer
<1> QED BY <1>1, <1>2, <1>3, <1>4, <1>5, <1>6, <1>7 DEF ProxyNext, RequestStep

\* InstanceBegin and the deferred InstanceEnd meet the same balancer when the first is
\* still in use: the map never goes back to a balancer it has moved on from.
THEOREM LeakFree == ProxySpec => []NoConnectionLeaks
<1>1. ProxyInit => NoConnectionLeaks
  BY DEF ProxyInit, NoConnectionLeaks
<1> QED BY <1>1, StructureInit, StructureStep, LeakStep, PTL DEF ProxySpec

-----------------------------------------------------------------------------
(* A lone watcher never goes back.                                         *)

\* Of two lists, where both are there, the first is not the newer one.
Precedes(old, new) == old # None /\ new # None => old.index <= new.index
NoNewerThan(list, s) == list # None => s \in Services /\ list.index <= index[s]

\* Every list on its way was read from Consul for its service.
ListsWereRead ==
    \A r \in Requests :
        /\ NoNewerThan(found[r], service[r])
        /\ NoNewerThan(lists[r], service[r])
        /\ NoNewerThan(batch[r], service[r])
        /\ NoNewerThan(update[r], service[r])

\* What the watcher x still has to apply is no older than the list of its balancer.
InOrder(x) ==
    /\ Precedes(lists[x], update[x])
    /\ Precedes(lists[x], batch[x])
    /\ Precedes(update[x], batch[x])

LoneWatchersInOrder ==
    \A s \in Services : loadBalancers[s] # None /\ LoneWatcher(s) => InOrder(loadBalancers[s])

\* Lists are read when Consul answers, and Consul's index only grows.
LEMMA ListsWereReadStep ==
    StructureOK /\ ListsWereRead /\ [ProxyNext]_proxyVars => ListsWereRead'
<1> SUFFICES ASSUME StructureOK, ListsWereRead, [ProxyNext]_proxyVars PROVE ListsWereRead'
  OBVIOUS
<1> USE ProxyAssumption DEF registryVars, mapVars, countVars, requestVars, watchVars, Goto,
        StructureOK, ProxyTypeOK, ListsWereRead, NoNewerThan
<1>1. ASSUME NEW s \in Services, RegistryChanges(s) PROVE ListsWereRead'
  <2>1. \A t \in Services : index[t] \in Nat /\ index'[t] \in Nat /\ index[t] <= index'[t]
    BY <1>1 DEF RegistryChanges
  <2>2. UNCHANGED <<found, lists, batch, update, service>>
    BY <1>1 DEF RegistryChanges
  <2>3. \A l \in List : l.index \in Nat
    BY DEF List
  <2> QED BY <2>1, <2>2, <2>3
<1>2. ASSUME NEW r \in Requests, NEW s \in Services, Arrive(r, s) PROVE ListsWereRead'
  BY <1>2 DEF Arrive, RequestsOK
<1>3. ASSUME NEW r \in Requests, Discover(r) PROVE ListsWereRead'
  <2>1. service[r] \in Services
    BY <1>3 DEF Discover, RequestsOK
  <2>2. Registered(service[r]).index <= index[service[r]]
    BY <2>1 DEF Registered
  <2> QED BY <1>3, <2>1, <2>2 DEF Discover
<1>4. ASSUME NEW r \in Requests, EndAssign(r) PROVE ListsWereRead'
  BY <1>4 DEF EndAssign
<1>5. ASSUME NEW x \in Requests, QueryAnswered(x) PROVE ListsWereRead'
  <2>1. service[x] \in Services
    BY <1>5 DEF QueryAnswered, RequestsOK, Unstarted
  <2>2. Registered(service[x]).index <= index[service[x]]
    BY <2>1 DEF Registered
  <2> QED BY <1>5, <2>1, <2>2 DEF QueryAnswered
<1>6. ASSUME NEW x \in Requests, TakeInstances(x) PROVE ListsWereRead'
  BY <1>6 DEF TakeInstances
<1>7. ASSUME NEW x \in Requests, UpdateInstances(x) PROVE ListsWereRead'
  <2>1. service[x] \in Services /\ Balancer(x) \in Requests /\ service[Balancer(x)] = service[x]
    BY <1>7 DEF UpdateInstances, WatchersOK, RequestsOK, Unstarted, Balancer, BalancersReady
  <2> QED BY <1>7, <2>1 DEF UpdateInstances
<1>8. ASSUME NEW r \in Requests,
             \/ Check(r) \/ BeginAssign(r) \/ Get(r) \/ Begin(r) \/ Defer(r) \/ Proxy(r)
             \/ QueryFailed(r) \/ TakeError(r) \/ Retry(r)
             \/ \E g \in Requests : FatalError(r, g)
      PROVE  ListsWereRead'
  BY <1>8 DEF Check, BeginAssign, Get, Begin, Defer, Proxy, QueryFailed, TakeError, Retry, FatalError
<1>9. CASE UNCHANGED proxyVars
  BY <1>9 DEF proxyVars
<1> QED BY <1>1, <1>2, <1>3, <1>4, <1>5, <1>6, <1>7, <1>8, <1>9
        DEF ProxyNext, RequestStep, WatcherStep

\* The balancer of a service that has one watcher after a step, and had a balancer
\* before it, is the one it had, and its watcher is the one that was started for it.
LEMMA LoneWatcherKept ==
    ASSUME StructureOK, [ProxyNext]_proxyVars, NEW s \in Services,
           loadBalancers[s] # None, LoneWatcher(s)'
    PROVE  /\ loadBalancers'[s] = loadBalancers[s]
           /\ loadBalancers[s] \in Requests
           /\ service[loadBalancers[s]] = s /\ service'[loadBalancers[s]] = s
           /\ query[loadBalancers[s]] # "none"
           /\ Watchers(s)' = {loadBalancers[s]}
           /\ LoneWatcher(s)
<1> DEFINE b == loadBalancers[s]
<1> USE DEF registryVars, mapVars, countVars, requestVars, watchVars, Goto, StructureOK, ProxyTypeOK
<1>1. b \in Requests /\ b \in Watchers(s) /\ service[b] = s /\ query[b] # "none"
  BY DEF BalancersReady, Watchers
<1>2. \A x \in Watchers(s) : x \in Watchers(s)'
  <2> SUFFICES ASSUME NEW x \in Watchers(s) PROVE x \in Watchers(s)'
    OBVIOUS
  <2>1. x \in Requests /\ service[x] = s /\ query[x] # "none" /\ pc[x] # "idle"
    BY DEF Watchers, RequestsOK, Unstarted
  <2>2. service'[x] = service[x] /\ query'[x] # "none"
    BY <2>1 DEF ProxyNext, RequestStep, WatcherStep, RegistryChanges, Arrive, Check, Discover,
        BeginAssign, EndAssign, Get, Begin, Defer, Proxy, QueryAnswered, QueryFailed, TakeError,
        Retry, TakeInstances, UpdateInstances, FatalError, proxyVars
  <2> QED BY <2>1, <2>2 DEF Watchers
<1>3. LoneWatcher(s) /\ Watchers(s)' = {b}
  BY <1>1, <1>2 DEF LoneWatcher
<1>4. loadBalancers'[s] = b
  <2>1. CASE \E r \in Requests : EndAssign(r)
    <3>1. PICK r \in Requests : EndAssign(r)
      BY <2>1
    <3>2. query[r] = "none" /\ service[r] \in Services
      BY <3>1 DEF EndAssign, RequestsOK, Unstarted
    <3>3. service[r] = s => r \in Watchers(s)'
      BY <3>1 DEF EndAssign, Watchers
    <3>4. service[r] # s
      BY <1>1, <1>3, <3>2, <3>3
    <3> QED BY <3>1, <3>2, <3>4 DEF EndAssign
  <2>2. CASE ~\E r \in Requests : EndAssign(r)
    BY <2>2 DEF ProxyNext, RequestStep, WatcherStep, RegistryChanges, Arrive, Check, Discover,
        BeginAssign, Get, Begin, Defer, Proxy, QueryAnswered, QueryFailed, TakeError,
        Retry, TakeInstances, UpdateInstances, FatalError, proxyVars
  <2> QED BY <2>1, <2>2
<1>5. service'[b] = s
  BY <1>1, <1>2 DEF Watchers
<1> QED BY <1>1, <1>3, <1>4, <1>5

\* What a lone watcher has in hand stays in order, and is not behind its balancer.
LEMMA InOrderStep ==
    StructureOK /\ ListsWereRead /\ LoneWatchersInOrder /\ [ProxyNext]_proxyVars
        => LoneWatchersInOrder'
<1> SUFFICES ASSUME StructureOK, ListsWereRead, LoneWatchersInOrder, [ProxyNext]_proxyVars,
                    NEW s \in Services, loadBalancers'[s] # None, LoneWatcher(s)'
             PROVE  InOrder(loadBalancers[s])'
  BY DEF LoneWatchersInOrder
<1> DEFINE b == loadBalancers[s]
<1> USE DEF registryVars, mapVars, countVars, requestVars, watchVars, StructureOK, ProxyTypeOK
<1>1. CASE b = None
  <2>1. PICK r \in Requests : EndAssign(r)
    BY <1>1 DEF ProxyNext, RequestStep, WatcherStep, RegistryChanges, Arrive, Check, Discover,
        BeginAssign, Get, Begin, Defer, Proxy, QueryAnswered, QueryFailed, TakeError,
        Retry, TakeInstances, UpdateInstances, FatalError, proxyVars
  <2>2. loadBalancers'[s] = r
    BY <1>1, <2>1 DEF EndAssign
  <2>3. update'[r] = None /\ batch'[r] = None
    BY <2>1 DEF EndAssign, RequestsOK, Unstarted, WatchersOK
  <2> QED BY <2>2, <2>3 DEF InOrder, Precedes
<1>2. CASE b # None
  <2>1. /\ b \in Requests /\ loadBalancers'[s] = b /\ service[b] = s /\ query[b] # "none"
        /\ Watchers(s)' = {b} /\ LoneWatcher(s)
    BY <1>2, LoneWatcherKept
  <2>2. InOrder(b)
    BY <1>2, <2>1 DEF LoneWatchersInOrder
  <2>3. CASE UNCHANGED <<lists[b], update[b], batch[b]>>
    BY <2>1, <2>2, <2>3 DEF InOrder, Precedes
  <2>4. ASSUME NEW x \in Requests, QueryAnswered(x) PROVE InOrder(b)'
    <3>1. CASE x = b
      <4>1. UNCHANGED <<lists, update>> /\ batch'[b] = Registered(s)
        BY <2>1, <2>4, <3>1 DEF QueryAnswered
      <4>2. Registered(s).index = index[s]
        BY DEF Registered
      <4>3. NoNewerThan(lists[b], s) /\ NoNewerThan(update[b], s)
        BY <2>1 DEF ListsWereRead
      <4> QED BY <2>1, <2>2, <4>1, <4>2, <4>3 DEF InOrder, Precedes, NoNewerThan
    <3>2. CASE x # b
      BY <2>3, <2>4, <3>2 DEF QueryAnswered
    <3> QED BY <2>1, <3>1, <3>2
  <2>5. ASSUME NEW x \in Requests, TakeInstances(x) PROVE InOrder(b)'
    <3>1. CASE x = b
      <4>1. lists' = lists /\ update'[b] = batch[b] /\ batch'[b] = None
        BY <2>5, <3>1 DEF TakeInstances
      <4> QED BY <2>1, <2>2, <4>1 DEF InOrder, Precedes
    <3>2. CASE x # b
      BY <2>3, <2>5, <3>2 DEF TakeInstances
    <3> QED BY <2>1, <3>1, <3>2
  <2>6. ASSUME NEW x \in Requests, UpdateInstances(x) PROVE InOrder(b)'
    <3>1. UNCHANGED <<loadBalancers, service, query, batch>> /\ update[x] # None
      BY <2>6 DEF UpdateInstances
    <3>2. query[x] # "none" /\ service[x] \in Services /\ Balancer(x) \in Requests
      BY <3>1 DEF WatchersOK, RequestsOK, Unstarted, Balancer
    <3>3. CASE service[x] = s
      <4>1. x = b
        BY <2>1, <3>1, <3>2, <3>3 DEF Watchers
      <4>2. lists'[b] = update[b] /\ update'[b] = None
        BY <2>1, <2>6, <4>1 DEF UpdateInstances, Balancer
      <4> QED BY <2>2, <3>1, <4>2 DEF InOrder, Precedes
    <3>4. CASE service[x] # s
      <4>1. Balancer(x) # b /\ x # b
        BY <2>1, <3>2, <3>4 DEF BalancersReady, Balancer
      <4> QED BY <2>3, <2>6, <4>1 DEF UpdateInstances
    <3> QED BY <2>1, <3>3, <3>4
  <2>7. ASSUME NEW r \in Requests, EndAssign(r) PROVE InOrder(b)'
    <3>1. r # b
      BY <2>1, <2>7 DEF EndAssign, RequestsOK, Unstarted
    <3> QED BY <2>1, <2>3, <2>7, <3>1 DEF EndAssign
  <2>8. CASE UNCHANGED <<lists, update, batch>>
    BY <2>1, <2>3, <2>8
  <2>9. \/ UNCHANGED <<lists, update, batch>>
        \/ \E x \in Requests : \/ QueryAnswered(x) \/ TakeInstances(x)
                               \/ UpdateInstances(x) \/ EndAssign(x)
    BY DEF ProxyNext, RequestStep, WatcherStep, RegistryChanges, Arrive, Check, Discover,
        BeginAssign, Get, Begin, Defer, Proxy, QueryFailed, TakeError, Retry, FatalError, proxyVars
  <2> QED BY <2>1, <2>4, <2>5, <2>6, <2>7, <2>8, <2>9
<1> QED BY <1>1, <1>2

\* The list in use of a service with one watcher only gets newer: its watcher hands the
\* lists over in the order in which Consul answered.
THEOREM LoneWatcherCorrect == ProxySpec => LoneWatcherAdvances
<1>1. ProxyInit => ListsWereRead /\ LoneWatchersInOrder
  BY DEF ProxyInit, ListsWereRead, NoNewerThan, LoneWatchersInOrder
<1>2. StructureOK /\ ListsWereRead /\ LoneWatchersInOrder /\ [ProxyNext]_proxyVars
          => [\A s \in Services : loadBalancers[s] # None /\ LoneWatcher(s)' =>
                 lists[loadBalancers[s]].index <= lists'[loadBalancers'[s]].index]_proxyVars
  <2> SUFFICES ASSUME StructureOK, LoneWatchersInOrder, [ProxyNext]_proxyVars,
                      NEW s \in Services, loadBalancers[s] # None, LoneWatcher(s)'
               PROVE  lists[loadBalancers[s]].index <= lists'[loadBalancers'[s]].index
    OBVIOUS
  <2> DEFINE b == loadBalancers[s]
  <2>1. /\ b \in Requests /\ loadBalancers'[s] = b /\ service[b] = s /\ query[b] # "none"
        /\ Watchers(s)' = {b} /\ LoneWatcher(s)
    BY LoneWatcherKept
  <2>2. lists[b] \in List /\ lists[b] # None /\ lists[b].index \in Nat
    BY ProxyAssumption DEF StructureOK, ProxyTypeOK, BalancersReady, List
  <2>3. CASE lists'[b] = lists[b]
    BY <2>1, <2>2, <2>3
  <2>4. CASE \E x \in Requests : UpdateInstances(x)
    <3>1. PICK x \in Requests : UpdateInstances(x)
      BY <2>4
    <3>2. x \in Watchers(service[x])' /\ service[x] \in Services
      BY <3>1 DEF UpdateInstances, Watchers, requestVars, StructureOK, WatchersOK, RequestsOK, Unstarted
    <3>3. CASE service[x] = s
      <4>1. x = b /\ Balancer(x) = b
        BY <2>1, <3>1, <3>2, <3>3 DEF Balancer, UpdateInstances, requestVars, Watchers
      <4>2. update[b] # None /\ lists'[b] = update[b]
        BY <2>1, <3>1, <4>1 DEF UpdateInstances, StructureOK, ProxyTypeOK
      <4>3. lists[b].index <= update[b].index
        BY <2>1, <2>2, <4>2 DEF LoneWatchersInOrder, InOrder, Precedes
      <4> QED BY <2>1, <4>2, <4>3
    <3>4. CASE service[x] # s
      <4>1. Balancer(x) # b
        BY <2>1, <3>1, <3>2, <3>4 DEF UpdateInstances, StructureOK, WatchersOK, BalancersReady, Balancer
      <4>2. lists'[b] = lists[b]
        BY <3>1, <4>1 DEF UpdateInstances
      <4> QED BY <2>3, <4>2
    <3> QED BY <3>3, <3>4
  <2>5. CASE \E r \in Requests : EndAssign(r)
    <3>1. PICK r \in Requests : EndAssign(r)
      BY <2>5
    <3>2. r # b
      BY <2>1, <3>1 DEF EndAssign, StructureOK, RequestsOK, Unstarted
    <3> QED BY <2>3, <3>1, <3>2 DEF EndAssign
  <2>6. CASE ~(\E r \in Requests : EndAssign(r) \/ UpdateInstances(r))
    <3>1. lists' = lists
      BY <2>6 DEF ProxyNext, RequestStep, WatcherStep, RegistryChanges, Arrive, Check, Discover,
          BeginAssign, Get, Begin, Defer, Proxy, QueryAnswered, QueryFailed, TakeError,
          Retry, TakeInstances, FatalError, proxyVars, mapVars
    <3> QED BY <2>3, <3>1
  <2> QED BY <2>4, <2>5, <2>6
<1> QED BY <1>1, <1>2, StructureInit, StructureStep, ListsWereReadStep, InOrderStep, PTL
        DEF ProxySpec, LoneWatcherAdvances
=============================================================================
