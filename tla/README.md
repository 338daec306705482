# A TLA+ model of the SIGER API gateway

The gateway is an HTTP server in Go. It accepts jobs and hands them to workers
over NATS, keeps the state of every job in memory, and forwards other requests
to services it finds in Consul. This directory holds TLA+ modules of its
concurrent parts, TLC configurations that check them on small instances, and
TLAPS proofs of what matters most, for every value of the constants.

Paths below are relative to `internal/` unless they begin with `cmd/`.

## 1. The system

| Component | Code | State | Operations | Hard behaviour |
|---|---|---|---|---|
| Job store | `storage/job_store.go` | a `sync.Map` of `JobInfo`, `updateMutex`, the locals of the cleanup goroutine | `AddJob`, `GetJob`, `UpdateJobStatus`, `DeleteJob`, `Count`, listings, `periodicCleanup` | `UpdateJobStatus` is a Load and a Store under a mutex the other writers do not take; the cleanup counts, collects, sorts and deletes with three `Range` calls while the map changes |
| Job pipeline | `handlers/job_submission.go`, `messaging/nats.go` | the client's `jobStore`, its subscription; per request and per message a goroutine | `SubmitJob`, `CancelJob`, `PublishToStream`, `Publish`, `SetJobStore`, `SubscribeToStatusUpdates` and its callback | a goroutine per status message; a publish that fails after the job was stored; a job copied out of the store and added back |
| Workers, JetStream, core NATS | not in the repository | messages | deliver at least once / at most once | duplicates, loss, delay |
| Startup and shutdown | `cmd/main.go` | what exists of a process, its listener, its requests in flight; its entry in Consul | register, connect, serve, be notified, `Shutdown`, the deferred `Close` and `Deregister` | the order of the calls; a listener that fails in its own goroutine; a signal that comes too early; requests that hang; what a dead process leaves behind |
| Load balancer | `discovery/loadbalancer.go` | the list of instances, a counter per instance, the round-robin counter, an RWMutex | `GetInstance`, `InstanceBegin`, `InstanceEnd`, `UpdateInstances` | atomic counters under a lock that readers share; counters that come and go with their instance |
| Service proxy | `proxy/proxy.go` | an unsynchronised map from services to balancers | `HandleProxy`, `getServiceInstance`, `watchServiceChanges` | first requests to a service race; several watchers of one service |
| Service registry | `discovery/consul.go` | `lastIndex` of each watcher, two channels | `DiscoverService`, `WatchService`, `Register`, `Deregister` | blocking queries, timeouts, retries |
| Rate limiter | `middleware/ratelimit.go` | two maps under an RWMutex, a token bucket per client | `GetLimiter`, the middleware, the janitor | double-checked creation; a janitor that collects under one lock and deletes under another |
| Authentication and roles | `middleware/auth.go`, `handlers/auth.go` | an unsynchronised map of users; tokens outlive the process | `Register`, `Login`, `GenerateToken`, `JWTAuth`, `RequireRole`, `GetProfile` | check, then insert; a token made from a copy of the user; a restart that forgets the users but not the tokens |
| Configuration, logging, metrics, CORS, recovery, request log | the other files | none that changes what the gateway does | | |

**How they interact.** `main()` builds one job store and shares it between the
HTTP handlers and the NATS client. A submission adds the job to the store, then
publishes it to the stream; workers report on `jobs.status`; the client's
subscription starts a goroutine for each report, which calls `UpdateJobStatus`
and then reads the job and adds it back with the reported times. The proxy owns
the balancers, one per service, and starts a watcher with each; the watcher's
goroutine sends Consul's lists over an unbuffered channel to a loop that calls
`UpdateInstances`. The rate limiter stands before all handlers and shares
nothing with them.

**What correctness means here.**

- *Job store*: no update is lost; a finished job can be found by the cleanup; a
  job keeps its place in the order of eviction; a pass bounds the store; the
  oldest jobs go first; the mutex is never left locked.
- *Pipeline*: a job is in the store before a worker can report on it; answers to
  clients are true; every request and every message handler ends; the status of
  a job is the latest that was reported; reports are received at all.
- *Load balancer*: counters are exact; round robin is even; no index leaves the
  list; the lock is let go of.
- *Proxy and registry*: no outdated list stays; no request selects from a missing
  balancer; no change is lost to timeouts; the process survives its own map.
- *Rate limiter*: one bucket per client however its requests race; nobody is
  refused before his own burst is spent; nothing stays in memory for ever.
- *Startup and shutdown*: NATS outlives the requests that use it; a gateway that
  stops leaves nothing in Consul and takes nothing of another gateway with it (which is
  so unless they started in one second); a stop ends although requests hang; a dead gateway does not stay listed.
- *Users*: a name is given out once, but for registrations that overlap; a token
  shows and opens what belongs to the account it was got with.

`PROJECT.json` lists the places where these can go wrong, line by line
(`hazards`), with the properties that watch them.

## 2. The modules

    JobRecords          the record of a job, and what an update makes of it
      AtomicJobTable    what the store promises: a table changed in single steps
      JobStore          the store; refines AtomicJobTable when there are no rewriters
        JobPipeline     the store with its real callers; refines JobStore
    LoadBalancer        one balancer, with its lock and its atomic counters
    ServiceProxy        the map of balancers, the watchers, Consul
    RateLimiter         the limiters and the janitor
    GatewayLifecycle    processes on one host, from registration to their end
    Accounts            users, logins and tokens
    ExchangeSort        the loops that sort the slice of the cleanup
    <component>Proofs   theorems about JobStore, JobPipeline, RateLimiter,
                        GatewayLifecycle, Accounts, ServiceProxy, LoadBalancer
    JobStoreCleanupProofs  theorems about the cleanup of JobStore
    MC*                 instances for TLC; MCJobStoreLocked also extends ExchangeSort

A definition of a model bears the name of the code it stands for where TLA+
allows it, and `PROJECT.json` (`map`) gives the lines. Definitions commented
"Mutant" are plausible bugs, one per checked property. No specification uses
them; each shows, when put in place of the real definition, that its property
can fail.

### JobStore

`jobs` is the `sync.Map`. Each Load, Store and Delete of it is a step;
`UpdateJobStatus` is two (`UpdateLoad`, `UpdateStore`) with `mutex` held between
them and the loaded record in `call`. A `Range` is a step per key in any order,
since `sync.Map.Range` promises no snapshot (`CollectExpired`, `CountNext`,
`CollectAll`); deletions are a step per key (`DeleteNext`). `AddJob`'s
defaulting of status and submission time is `Filled`. The sort is modelled by
its result, the `len(allJobs)-maxJobs` oldest with ties in any order
(`OldestOf`). `ExchangeSort` has the loops themselves (`job_store.go:264-277`), as
a fold over the pairs of indices they go through, and `MCJobStoreLocked` assumes,
so that TLC computes it, that for all slices of up to four jobs they sort and
that what is then deleted is an `OldestOf`. `GetJob` appears only where its result is used later, in a caller
that adds the copy back (a *rewriter*, such as the status handler); listings
only read and are left out.

The callers are the most general ones that keep to the protocol of the code:
`AddNewJob` with an ID never used before (`uuid.New()`), updates and deletions of
any job, rewriters that replace a timestamp by a time that has passed.
`DeleteJob` has no caller in the repository but is exported.

### JobPipeline

It extends `JobStore` and binds its goroutines: `Threads` are the HTTP requests
and the handlers of status messages, and `Rewriters` are the handlers. The
steps of `SubmitJob`, `CancelJob` and the status callback are the store's actions
with a program counter and an answer. `PublishToStream` is two steps, since the
stream may have a message whose acknowledgement is lost (`StreamStores`, then
`StreamAcks` or `PublishFails`). `Startup` is the sequence of calls `main()` makes
of the client, as a constant: `MainStartup` is the order of `cmd/main.go`
(156-177), `IntendedStartup` the one `SetJobStore` and `SubscribeToStatusUpdates`
document. Workers, the stream and the `jobs.status` subject are external: a job
is delivered any number of times up to `MaxDeliveries`, a status message may be
lost (`Lossy`) and arrives in order. A message with an unknown status is dropped
by the callback and is not told apart from a lost one. Workers are assumed to
report times that have passed (the message says what has happened) and not to
report "queued".

A goroutine that has returned frees its place, so the number of handlers bounds
how many messages are handled *at once*, not how many there are. Of an answered
request the answer stays.

### LoadBalancer

Every method except `UpdateInstances` holds the lock for reading, so requests
interleave between atomic accesses: the search of least-connections is a step
per instance, `InstanceEnd` a step for the load and one for the decrement. What
is a single atomic access under the lock is one step. A waiting writer keeps
readers out, as `sync.RWMutex` does. Counters are modulo `Word`, for 2^64.
The IDs of a list are
taken to differ; Consul promises that of one agent. `int(count)` in line 99 is taken as `count`: it is negative only from selection
2^63 on. `Permanent` are instances the registry never drops. The default branch
of the switch repeats round robin.

### ServiceProxy

The assignment `loadBalancers[name] = lb` is two steps, `BeginAssign` and
`EndAssign`. The Go runtime may notice another goroutine's access between them and
stop the process (`FatalError`), or it may not; both are allowed. So two first
requests to a service can end the gateway, which is not what "the gateway adjusts
without any restarts or downtime" (`proxy/proxy.go:170`) suggests. A balancer
bears the name of the request that created it and is reduced to its list:
which instance it selects is `LoadBalancer`'s matter. `Begin` and `Defer` are the two
further reads of the map in `HandleProxy` (`proxy/proxy.go:53-54`): the balancer whose
`InstanceBegin` counts the connection (`began`) and the receiver the defer statement
evaluates for `InstanceEnd` (`ends`). They may be different balancers; what is checked
is that a connection which the balancer in use counts ends there. One that begins at a balancer
which is replaced before the defer statement ends at the new one, which then counts one too
few; that happens in the model too, and no property excludes it. A watcher is the pair of
goroutines of `WatchService` and `watchServiceChanges` with the lists in their
hands (`batch`, `update`) and `lastIndex`. `QueryFailed` stands for every error of
a query, of which the timeout is the common one: `WaitTime` is 30 seconds, the
client gives up after 5. The model begins with a Consul client that exists
(section 5 has the reason why that is an assumption). `Retry` follows a sleep of one second. Contexts are never
cancelled by the code, so watchers do not end.

### RateLimiter

`GetLimiter` is `Look` under the read lock, then `Create`, `Recheck` or `Touch` under
the write lock. The janitor is `StartPass`, `Collect`, `DeleteKeys`; its ticker is
left out, a pass may begin at any time. A unit of the clock is longer than a
bucket takes to fill (two seconds: `cmd/main.go:210` and 213) and much
shorter than the time to live (one hour), so every bucket is full at the next
unit. A limiter object is `Unused` when no map entry and no request refers to it.
How an address is taken from `RemoteAddr` and `X-Forwarded-For` is left out.

### GatewayLifecycle

A process is a run of the program; several share a host, at once or one after
the other. `phase` is the place of the main goroutine in `main()`: `Register` (97-121),
`Launch` (the NATS client, everything that is built without a state of interest,
and the start of the server's goroutine), `Notify` (325), `BeginShutdown`,
`ShutdownDone` or `ShutdownTimesOut` (336-340), then the deferred calls, last first:
`CloseNats`, `Deregister`. `listener` is the goroutine of `ListenAndServe`; when it
fails, `Fatalf` ends the process and skips every deferred call (`ListenerFails`). A
signal before `Notify` kills the process. Shutdown that comes before the goroutine
listens makes it return `ErrServerClosed` (`ListenerClosed`). How a process ended is
kept: `exited` in order, `left` in order but with a call of Consul that failed,
`died`.

`Register` has three outcomes: no entry, an entry, or an entry whose reply is lost
(`registered = "lost"`), after which `main()` takes the registration for failed
and does not defer `Deregister`. The ID is the hostname, which the processes share,
and the second of the start (`main.go:78`), so an entry is kept under that
second; of two starts in one second the later registration replaces the earlier entry,
and both gateways deregister the same one. So when the first of them stops, the second is no
longer in Consul although it serves, which is not what "This prevents conflicts if multiple
gateways run on same host" (`main.go:77`) says; section 4 has what holds of the others.
`port` is where the server listens (`config.Port`, line 309). `advertised` is what is registered: the same port, or
8080 (`DefaultPort`) when `main()` cannot parse the setting (83-90), which it only logs. Then
whoever serves at 8080 answers the checks, and Consul does not lead to the gateway
itself. Consul is external: it
asks `/health` at the address of an entry, so any process that serves there
answers for it, and it removes an entry whose checks fail for long enough
(`ReapAfter` checks for 30 seconds). `/health` stands behind the rate limiter, for all that
`cmd/main.go:216` says of it (`router.Use` comes before it, line 210 or 213), but Consul takes
the answer 429 for a warning, which counts here as a passed check.

### Accounts

`Register` is two steps, the check of the name and the insertion (`Register`, `Insert`);
so is `Login`, the check of the password against a copy of the user and the token
made from that copy (`Login`, `IssueToken`). The role is what the client sends, "admin" included
(`handlers/auth.go:171` only fills in an empty one); no property says who may be an
administrator. A refused request changes nothing and is no action. `RoleOf` is the default role. A token is the claims that were signed, plus
`holder`, the password it was got with, which only the properties read; `given`
and the `rival` of a pending registration are history of the same kind. `JWTAuth`
is `Valid`, `RequireRole` is `Admits`, `GetProfile` is `Profiles`: the set of users its loop
over the map may meet first. `Restart` brings back the users of `NewAuthHandler`; tokens
stay, since their secret is in the configuration. It may happen at any time,
which covers the runtime stopping the process at the unsynchronised map.
`uuid.New()` is a number never given out before.

## 3. The runs

| Run | What it asks | Bounds, and why they are enough |
|---|---|---|
| `job_store` | safety of the store with a rewriter | 2 jobs, capacity 1: overflow and a choice of the oldest; 2 goroutines, one rewriter: every pair of an update, a rewrite, a removal and the cleanup; 2 moments: older and newer, expired and not. Only cancellations are requested: the transitions do not depend on the status beyond `Terminal`, and `job_store_locked` has a second status |
| `job_store_locked` | without rewriters: the store implements `AtomicJobTable`, loses no update, removes expired jobs; the sort against its result | the same, with two statuses and no symmetry (liveness); slices of up to 4 jobs and 3 times: every order and tie that a pair of indices can meet |
| `pipeline` | the pipeline refines the store; order and truth of answers; every request is answered, every handler returns | 1 job, 2 requests (submit against cancel) and 1 handler contend for the mutex and the record, a lossy bus, 2 moments. Two handlers against each other are in `status_order`; theorems cover any number (section 4) |
| `load_balancer` | exact counters, even round robin, indices in range, the lock is released | 2 instances of which one stays, 3 requests, 2 updates (an instance can go and return), 4 selections, all three algorithms |
| `service_proxy` | balancers are current once their watchers have caught up; nothing selects from a missing balancer; a connection ends where it is counted; lists converge, and with one watcher never go back | 2 first requests, hence 2 watchers; 3 states of Consul: an older list can be applied over a newer one and repaired; a lone watcher can have three lists under way, one in use, one taken and one offered |
| `rate_limiter` | one bucket per client, and no refusal before it is spent; times and limiters go together; idle limiters go | 3 requests race, burst 2, 4 objects (one more than requests), 4 moments: a pass older than a touch |
| `lifecycle` | a stop ends and cleans up; NATS outlives requests; no dead gateway stays listed | 2 processes, which may share or not share the second of their ID and their port, with settings that can be parsed or not (they are interchangeable, so of two initial states that differ only in which is which, one is left out; a setting that cannot be parsed only beside a gateway at the default port); 1 request in flight at each; an entry is removed after 1 failed check, the fewest that can be told from none |
| `accounts` | tokens stay with their account; names are given twice only to overlapping registrations | 3 requests: two registrations that overlap and a login between them; 2 names besides the built-in ones; 2 new IDs: the second registration of a name, also after a restart; 1 token, valid or expired: properties speak of one at a time |

In the next four TLC finds a counterexample; each states what a comment of the code says.

| Run | The code says | What happens |
|---|---|---|
| `status_subscription` | "This is the key integration between worker nodes and API gateway" (nats.go:216) | `cmd/main.go:157` subscribes before line 176 sets the store. The subscription returns an error, which is only logged; no report ever reaches the store. The runs above use the documented order |
| `status_order` | "Updates the job store with the latest status" (nats.go:215) | the goroutines of two messages may run in either order: "processing" can replace "completed" |
| `re_add` | "Re-add the job with updated timestamps" (nats.go:276) | the copy that is added back may undo a cancellation made in between, or bring back a removed job |
| `not_below_zero` | "Make sure we don't go below zero" (loadbalancer.go:152) | an instance with requests in flight is removed and listed again, its counter starts at zero; two `InstanceEnd` calls both read 1 and both subtract |

**Deadlock** is checked in every store, pipeline and limiter run. It is off for
the balancer, which stops only at the bounds `MaxSelections` and `MaxUpdates`,
for the proxy, whose process `FatalError` may end, and for the life cycle, where
every process may have ended. In `accounts` a restart is always possible, so
deadlock says nothing there.

**Fairness.** `FairStoreSpec`: the cleanup goroutine goes on, because its ticker
fires every hour and it takes no lock. `FairPipelineSpec`: a goroutine that can
take its next step does; a publish returns (NATS calls have a timeout); nothing
is assumed of clients, workers, the network, the clock or the delivery of
messages. Weak fairness is enough although goroutines contend for the mutex,
because the instance has few calls; Go's mutex is starvation-free, which is
stronger. `FairLBSpec`: whoever holds the lock or waits for it to write goes on.
`FairProxySpec`: the loops of a watcher go on, and its queries are answered again
and again while there is news (strong fairness: not every query fails).
`FairLimiterSpec`: the janitor goes on. `FairLifecycleSpec`: the main goroutine goes on
and the deadline of `Shutdown` comes (it is a timer of ten seconds); the server's
goroutine comes to listen or to an error (`Settle`), but need not fail later; Consul
goes on checking entries nobody answers for (`Unanswered`). Nothing is assumed of
requests, which may hang, nor of signals and crashes.

**Symmetry** is used for jobs in `job_store` and for requests in `accounts` and
`not_below_zero`; never in a run that checks liveness.

## 4. What is proved

TLAPS checks every step of these for every set of jobs, requests, clients and so
on, every capacity, retention and burst. Assumed are only the `ASSUME`s of the
modules (the shape of the constants), which TLC evaluates on each run.

*Job store* (`JobStoreProofs`). `StoreTypeOK` is inductive. `MutexProtectsUpdate`,
`SubmissionTimeKept`, `FinishedHasCompletionTime` and `NoLostUpdate` are not, each
alone: what is in the map depends on the copies goroutines hold. Their
conjunction `CallInv` is inductive on top of the types. The cleanup's steps are
first reduced to a lemma (`RemovalSteps`): they remove a job or leave the map
alone. `AtomicCalls` shows that every step of a store without rewriters is a step
of `AtomicJobTable` or a stutter under the mapping of `JobStore`: an update takes
effect at its Store. A removal during an update leaves the record "held", and the
Store then reinstates it; that is the one anomaly of the abstract table, and
the code has it.

*The cleanup* (`JobStoreCleanupProofs`). `CleanupBoundsStore` says something only
between two passes, so the invariant has to say what a pass knows on its way
(`CleanupInv`). Jobs created since the count began aside: while a pass counts, the
jobs present that it has been past are no more than `count`; while it collects, they
are in `allJobs`; while it evicts, every job present is kept or still to be deleted,
at most `maxJobs` are kept, and none to be deleted is younger than one that is
kept. Every other goroutine may remove jobs, create them, or bring a removed one back,
which then is created again. That no such step disturbs the invariant is shown
once for all of them (`StoreBeside`, `BesideKeeps`): what a goroutine adds to the
map it adds to `created`. `EvictsOldestFirst` also needs that a job's time is its
submission time (`CallInv`), or a rewriter could make a kept job older after the sort.

*Pipeline* (`JobPipelineProofs`). `PipelineImplementsStore` shows that every step of
every request, handler and worker does to the store what a step of `JobStore`
does, so the theorems of the store hold in the pipeline (`StorePromisesKept`). It needs `PipelineInv`:
the types, the agreement between a handler's program counter and its call, and
`TimesPast`, that every reported time has passed. `UpdatesFindTheirJobs` and
`AnswersCorrect` follow from `KnownJobs`: whatever the stream, the bus, a worker or
a request knows of has been added to the store. Two theorems say what the order of
startup does, for any number of jobs, requests and handlers: with the documented order
a gateway that serves is subscribed (`IntendedStartupSubscribes`); with the order of
`cmd/main.go` every job in the store is queued or cancelled, for ever
(`MainStartupShowsNoProgress`). So the order is the whole cause of what
`status_subscription` shows. Two more name the causes of the next two runs, with
handlers that come one at a time (`\A g, h \in Handlers : g = h`), which is what the
subscription's callback would do without the `go` of `messaging/nats.go:228`. As long as
nothing is lost and nothing cancelled, the store then shows the status sent last
(`SequentialHandlersShowLatest`): it is in the last message of its job on the way, else
with the handler, else in the store and in the handler's copy (`LatestKept`). And a re-add
changes timestamps only, unless the job is cancelled or removed between the handler's
`GetJob` and its return (`UndisturbedReAddsAreHarmless`). The conditions that are not about
constants are actions which the theorems assume of every step. In `status_order` nothing
is lost or cancelled, so the second handler is the cause of what it finds; in `re_add`
there is one handler, so the disturbance is.

*Rate limiter* (`RateLimiterProofs`). `BurstKept` speaks of what was let through, so
the invariant must say where tokens went: what was let through and what is left
in the bucket of an address make up the burst, exactly (`BurstAccounted`). That they are
no more gives `BurstKept`, that they are no less `RefusedOnlyWhenSpent`. It needs
that a request holds the limiter that is in the map, unless the janitor removed
it since (`HeldLimiters`), that no two addresses share one (`OwnLimiters`), and that a
request left with a removed limiter takes from nobody else's bucket (`RemovedApart`).

*Load balancer* (`LoadBalancerProofs`). `BalancerOK`, the types with `ScanInRange` and
what a request past its selection holds, is inductive: nobody replaces the list while
a reader has the lock. `ConnectionsCounted` is then shown step by step: each
atomic access changes a counter and the set of connected requests by one element
(`CountedStep`, with the cardinality facts of `FiniteSetTheorems`). It needs the
assumption that there are fewer requests than a word has values, or the counter
would wrap. `RoundRobinEven` rests on `RoundInv`: since the list was installed every
instance has had the same number of whole rounds, and one more those whose place
lies between the first selection's and the last one's, around the end of the list.
The step needs arithmetic of remainders (`NextRemainder`): the next value of the
counter falls on the next place. The model's counter never wraps (`MaxSelections` is any
number, but the code's is a `uint64`): at 2^64 selections a list whose length does not
divide 2^64 would lose its place once.
`NotBelowZeroWhenListed` shows that when no instance is ever dropped from the list no
counter goes below zero, although `InstanceEnd` tests and decrements in two steps:
what `not_below_zero` shows takes an instance that leaves the list and returns.

*Proxy* (`ServiceProxyProofs`). `StructureOK` is inductive: a balancer in the map has a
list and a watcher, and a watcher is started once. `CaughtUpIsCurrent` needs more,
for several watchers of one service may hold lists of different age:
`WatchersHoldNews` says that a watcher which has seen Consul's last change has that
list in hand until it is applied, so an older list in use means that some watcher
has not caught up. `NoConnectionLeaks` is inductive on top of the structure
(`LeakStep`): a new balancer has no connection yet, and the map never goes
back to an old one. `LoneWatcherAdvances` is the other side of the race: an older list
takes the place of a newer one only where a service has more than one watcher. Its
invariant puts everything under way in order (`InOrder`: the list in use, what the watcher
took, what it offers) and at or below Consul's index (`ListsWereRead`), from the list
`DiscoverService` found to the answer of the next query. That Consul's index of a
service only grows is what the model assumes of Consul.

*Life cycle* (`GatewayLifecycleProofs`). The invariant is `LifecycleInv`: while a gateway
stops it accepts nothing, and what is still in flight after `Shutdown` outlasted its
deadline (`StoppingOK`); every entry has an owner that runs or that did not stop in
order (`EntriesOwned`) and whose port it bears (`Made`), also where a start in the same second
replaced one entry by another. `RegisteredStayListed` says when a gateway keeps its entry:
of processes that start in different seconds (`StartedApart`), and as long as no check fails
(`ChecksPass`), every one that runs and knows of its registration has its entry,
whatever the others register, stop or fail. So the second in the ID and Consul's checks are
all that can take the entry of a running gateway away. The two conditions are
assumed of every state or step, as in the theorems about the pipeline.

*Accounts* (`AccountsProofs`). Of all accounts that were inserted or are in the hands of
a request, no two have the same ID (`IDsUnique`), over restarts too; the table, the
logins and the tokens hold only accounts that were inserted. `ProfileIsOwn` and
`AccessFollowsAccount` follow. `TakenNamesKept` rests on `RivalsKnown`: a registration
whose name was taken after its check knows that it has a rival.

Not provable with the installed provers, and left to TLC: liveness
(`ExpiredJobsRemoved`, `CallsReturn`, `LockIsReleased`, `ListsConverge`,
`IdleLimitersRemoved`, `StopEnds`, `DeadGatewayUnlisted`), since fairness needs ENABLED;
and anything by induction over data, such as that the loops of `ExchangeSort` sort
every slice. All other properties of the passing runs are theorems.

## 5. What is not modelled

- Signatures of tokens and hashes: cryptography of libraries. A token is taken for
  what was signed.
- The configuration: read once at startup. (`config.go:73` relies on `${VAR:default}`,
  a form `os.ExpandEnv` does not know.) `main()` passes no options to the CORS
  middleware, so that part of the configuration has no effect. CORS headers, metrics,
  the request log and the recovery of panics keep no state the gateway reads.
- Restrictions on what may be cancelled: `README.md:226` of the repository speaks of
  cancelling "a running job", while the code (`handlers/job_submission.go:285`) and the
  models cancel any job the store has.
- Validation and decoding of requests; listings and paging, which only read. The
  listings look up plain `"user_id"` and `"user_role"` keys (`handlers/job_submission.go:333, 371`)
  while the middleware stores them under keys of its own type (`middleware/auth.go:37-46`),
  so they refuse everybody; there is no behaviour of theirs to model until that is
  changed.
- `Subscribe`, which has no caller; `EnsureStream` and reconnection, which are the
  library's; headers. Of the NATS client's `Close` only its place after `Shutdown` is
  modelled, not how many messages `Drain` passes on before `Close` follows it
  (`messaging/nats.go:296`), which is the library's matter.
- `discovery/consul.go:45` sets a field of the `HttpClient` of the library's default
  configuration (consul/api v1.32.0, which is not in the repository). Nothing in the
  repository shows that this client is there; if it is nil, as it most likely is, the process
  ends at startup whenever Consul is configured. The models begin with a client that
  exists; `Crash` has the end of the process, at any moment.
- The numbers in the counters of several balancers of one service: `ServiceProxy` has
  which balancer a connection begins and ends at, `LoadBalancer` has the numbers
  within one.
- A restart of the pipeline: the store is lost by design, and a message about a job
  the store does not have is dropped (`HandlerLoad`).

## 6. Plan

Done: the job store and its abstract table, the pipeline, the balancer, the proxy
with its registry, the limiter, the life cycle, the accounts, the sort; each with its
run and, but for the sort, its proofs.

Left:

1. An abstract specification of the life cycle, in which a gateway is in Consul only
   between its start and the end of its process or of its health checks, and the
   refinement.
2. The counters of several balancers of a service with their numbers, as a module
   that composes `ServiceProxy` and `LoadBalancer`.
