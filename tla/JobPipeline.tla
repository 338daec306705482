---------------------------- MODULE JobPipeline -----------------------------
(***************************************************************************)
(* The asynchronous job pipeline: the HTTP handlers SubmitJob and          *)
(* CancelJob (internal/handlers/job_submission.go), the NATS client with   *)
(* the handler of job status messages (internal/messaging/nats.go), the    *)
(* job store they share (module JobStore), and around them the stream, the *)
(* core NATS subjects and the workers, which are not part of the           *)
(* repository.                                                             *)
(*                                                                         *)
(* The goroutines that call the store are one per HTTP request and one per *)
(* status message: nats.go starts a new goroutine for every message.       *)
(***************************************************************************)
EXTENDS JobStore, Sequences

CONSTANTS
    Requests,       \* the goroutines of the HTTP server, one per request
    Handlers,       \* the goroutines of the status handler, one per message
    Startup,        \* the calls main() makes of the NATS client, in order
    Lossy,          \* whether core NATS loses status messages
    MaxDeliveries   \* bound: how often the stream delivers one job

StartupCalls == {"SubscribeToStatusUpdates", "SetJobStore"}

\* The order of the two calls in main.go.
MainStartup == <<"SubscribeToStatusUpdates", "SetJobStore">>

\* The order that SetJobStore and SubscribeToStatusUpdates document.
IntendedStartup == <<"SetJobStore", "SubscribeToStatusUpdates">>

\* JobStatusUpdate, as the workers send it.
Message == [job : Jobs, status : Requested, startedAt : Time, endedAt : Time]

Answer == {"202 queued", "200 cancelled", "404", "500"}
Request == [pc : {"publish", "ack", "update", "updating", "notify"} \cup Answer, job : Jobs]
Handler == [pc : {"update", "updating", "get", "started", "ended", "return"}, msg : Message]

ASSUME PipelineAssumption ==
    /\ Threads = Requests \cup Handlers
    /\ Requests \cap Handlers = {}
    /\ Rewriters = Handlers
    /\ Requested = Status \ {"queued"}
    /\ Startup \in Seq(StartupCalls)
    /\ Lossy \in BOOLEAN
    /\ MaxDeliveries \in Nat
    /\ Idle \notin Request \cup Handler

VARIABLES
    nats,         \* whether there is a NATS client: natsClient # nil
    startup,      \* the calls of the client main() still has to make
    jobStore,     \* whether the client's jobStore is set
    subscribed,   \* whether the subscription to jobs.status exists
    request,      \* per request goroutine, what it has to do next
    handler,      \* per handler goroutine, likewise
    stream,       \* the jobs with a message in the JetStream stream
    cancels,      \* the jobs with a message published on jobs.cancel
    bus,          \* the status messages on their way, oldest first
    worker,       \* when the worker of a job started it; 0: no one works on it
    deliveries,   \* how often a job has been delivered to a worker
    lastSent      \* history: the last status sent of each job, or Absent

clientVars == <<nats, startup, jobStore, subscribed>>
workerVars == <<worker, deliveries, lastSent>>
natsVars == <<stream, cancels, bus>>
pipelineVars == <<storeVars, clientVars, request, handler, natsVars, workerVars>>

PipelineInit ==
    /\ StoreInit
    /\ nats \in BOOLEAN
    /\ startup = Startup
    /\ jobStore = FALSE
    /\ subscribed = FALSE
    /\ request = [r \in Requests |-> Idle]
    /\ handler = [h \in Handlers |-> Idle]
    /\ stream = {} /\ cancels = {} /\ bus = <<>>
    /\ worker = [j \in Jobs |-> 0]
    /\ deliveries = [j \in Jobs |-> 0]
    /\ lastSent = [j \in Jobs |-> Absent]

\* The clock and the cleanup go on beside everything else.
Background ==
    /\ Tick \/ CleanerNext
    /\ UNCHANGED <<clientVars, request, handler, natsVars, workerVars>>

-----------------------------------------------------------------------------
(* Startup.                                                                *)

\* main() skips the calls when there is no client; SubscribeToStatusUpdates
\* fails when the store is not set, and main() only logs that.
StartupStep ==
    /\ startup # <<>>
    /\ startup' = Tail(startup)
    /\ jobStore' = (jobStore \/ (nats /\ Head(startup) = "SetJobStore"))
    /\ subscribed' = (subscribed \/ (jobStore /\ Head(startup) = "SubscribeToStatusUpdates"))
    /\ UNCHANGED <<storeVars, nats, request, handler, natsVars, workerVars>>

-----------------------------------------------------------------------------
(* HTTP requests.                                                          *)

At(r, pc) == request[r] # Idle /\ request[r].pc = pc
JobOf(r) == request[r].job
Goto(r, pc) == request' = [request EXCEPT ![r].pc = pc]

\* A request arrives once main() serves, and its goroutine starts as given.
Begin(r, j, pc) ==
    /\ startup = <<>>
    /\ request[r] = Idle
    /\ request' = [request EXCEPT ![r] = [pc |-> pc, job |-> j]]

NewJob(time) == [status |-> "queued", submittedAt |-> time, startedAt |-> 0, completedAt |-> 0]

\* Mutant: the job is published first and added to the store with the answer.
SubmitJobUnstored(r, j) ==
    /\ Begin(r, j, "publish")
    /\ submitted[j] = 0
    /\ UNCHANGED <<storeVars, clientVars, handler, natsVars, workerVars>>

\* SubmitJob up to its AddJob.  The submission time was read before the call.
SubmitJob(r, j) ==
    /\ Begin(r, j, "publish")
    /\ \E time \in 1..now : AddNewJob(r, j, NewJob(time))
    /\ UNCHANGED <<clientVars, handler, natsVars, workerVars>>

\* Without a NATS client the job is accepted all the same.
SubmitUnpublished(r) ==
    /\ At(r, "publish")
    /\ ~nats
    /\ Goto(r, "202 queued")
    /\ UNCHANGED <<storeVars, clientVars, handler, natsVars, workerVars>>

\* PublishToStream, first half: the stream has the message.
StreamStores(r) ==
    /\ At(r, "publish")
    /\ nats
    /\ stream' = stream \cup {JobOf(r)}
    /\ Goto(r, "ack")
    /\ UNCHANGED <<storeVars, clientVars, handler, cancels, bus, workerVars>>

\* PublishToStream, second half: the acknowledgement arrives.
StreamAcks(r) ==
    /\ At(r, "ack")
    /\ Goto(r, "202 queued")
    /\ UNCHANGED <<storeVars, clientVars, handler, natsVars, workerVars>>

\* Mutant: an error of PublishToStream is logged and no more.
PublishErrorIgnored(r) ==
    /\ At(r, "publish") \/ At(r, "ack")
    /\ nats
    /\ Goto(r, "202 queued")
    /\ UNCHANGED <<storeVars, clientVars, handler, natsVars, workerVars>>

\* PublishToStream fails: the message or its acknowledgement was lost.
PublishFails(r) ==
    /\ At(r, "publish") \/ At(r, "ack")
    /\ nats
    /\ Goto(r, "500")
    /\ UNCHANGED <<storeVars, clientVars, handler, natsVars, workerVars>>

\* CancelJob's GetJob: the job must be there.
CancelJob(r, j) ==
    /\ Begin(r, j, IF jobs[j] # Absent THEN "update" ELSE "404")
    /\ UNCHANGED <<storeVars, clientVars, handler, natsVars, workerVars>>

\* Mutant: the cancellation updates the record without the mutex.
CancelLoadUnlocked(r) ==
    /\ At(r, "update")
    /\ \/ UpdateLoadUnlocked(r, JobOf(r)) /\ Goto(r, "updating")
       \/ UpdateNotFound(r, JobOf(r)) /\ Goto(r, "500")
    /\ UNCHANGED <<clientVars, handler, natsVars, workerVars>>

\* Its UpdateJobStatus; the cleanup may have removed the job meanwhile.
CancelLoad(r) ==
    /\ At(r, "update")
    /\ \/ UpdateLoad(r, JobOf(r)) /\ Goto(r, "updating")
       \/ UpdateNotFound(r, JobOf(r)) /\ Goto(r, "500")
    /\ UNCHANGED <<clientVars, handler, natsVars, workerVars>>

CancelStore(r) ==
    /\ At(r, "updating")
    /\ UpdateStore(r, "cancelled")
    /\ Goto(r, "notify")
    /\ UNCHANGED <<clientVars, handler, natsVars, workerVars>>

\* The notification: skipped without a client, published, or refused.
CancelNotify(r) ==
    /\ At(r, "notify")
    /\ \/ ~nats /\ Goto(r, "200 cancelled") /\ UNCHANGED cancels
       \/ nats /\ Goto(r, "200 cancelled") /\ cancels' = cancels \cup {JobOf(r)}
       \/ nats /\ Goto(r, "500") /\ UNCHANGED cancels
    /\ UNCHANGED <<storeVars, clientVars, handler, stream, bus, workerVars>>

RequestStep(r) ==
    \/ SubmitUnpublished(r) \/ StreamStores(r) \/ StreamAcks(r) \/ PublishFails(r)
    \/ CancelLoad(r) \/ CancelStore(r) \/ CancelNotify(r)

-----------------------------------------------------------------------------
(* The workers and core NATS.  None of this is in the repository.          *)

\* A status message reaches the gateway only over an existing subscription.  One
\* with a status the handler does not know is dropped there, as if it were lost.
Send(j, status, startedAt, endedAt) ==
    IF subscribed
    THEN /\ bus' = Append(bus, [job |-> j, status |-> status,
                                startedAt |-> startedAt, endedAt |-> endedAt])
         /\ lastSent' = [lastSent EXCEPT ![j] = status]
    ELSE UNCHANGED <<bus, lastSent>>

\* The stream delivers at least once, so a job may be started again.
WorkerStarts(j) ==
    /\ j \in stream
    /\ worker[j] = 0 /\ deliveries[j] < MaxDeliveries
    /\ worker' = [worker EXCEPT ![j] = now]
    /\ deliveries' = [deliveries EXCEPT ![j] = @ + 1]
    /\ Send(j, "processing", now, 0)
    /\ UNCHANGED <<storeVars, clientVars, request, handler, stream, cancels>>

WorkerEnds(j, status) ==
    /\ worker[j] # 0
    /\ status = "cancelled" => j \in cancels
    /\ worker' = [worker EXCEPT ![j] = 0]
    /\ Send(j, status, worker[j], now)
    /\ UNCHANGED <<storeVars, clientVars, request, handler, stream, cancels, deliveries>>

LoseMessage ==
    /\ Lossy
    /\ bus # <<>>
    /\ bus' = Tail(bus)
    /\ UNCHANGED <<storeVars, clientVars, request, handler, stream, cancels, workerVars>>

-----------------------------------------------------------------------------
(* The handler of jobs.status.  The subscription's callback does nothing   *)
(* but start a goroutine, so any number of messages are handled at once    *)
(* (here: as many as there are Handlers).                                  *)

HandlerAt(h, pc) == handler[h] # Idle /\ handler[h].pc = pc
Msg(h) == handler[h].msg
HandlerGoto(h, pc) == handler' = [handler EXCEPT ![h].pc = pc]
Return(h) == handler' = [handler EXCEPT ![h] = Idle]

Deliver(h) ==
    /\ bus # <<>>
    /\ handler[h] = Idle
    /\ handler' = [handler EXCEPT ![h] = [pc |-> "update", msg |-> Head(bus)]]
    /\ bus' = Tail(bus)
    /\ UNCHANGED <<storeVars, clientVars, request, stream, cancels, workerVars>>

\* UpdateJobStatus; an error ends the handler.
HandlerLoad(h) ==
    /\ HandlerAt(h, "update")
    /\ \/ UpdateLoad(h, Msg(h).job) /\ HandlerGoto(h, "updating")
       \/ UpdateNotFound(h, Msg(h).job) /\ Return(h)
    /\ UNCHANGED <<clientVars, request, natsVars, workerVars>>

HandlerStore(h) ==
    /\ HandlerAt(h, "updating")
    /\ UpdateStore(h, Msg(h).status)
    /\ HandlerGoto(h, "get")
    /\ UNCHANGED <<clientVars, request, natsVars, workerVars>>

\* GetJob; an error ends the handler.
HandlerGet(h) ==
    /\ HandlerAt(h, "get")
    /\ \/ GetJob(h, Msg(h).job) /\ HandlerGoto(h, "started")
       \/ jobs[Msg(h).job] = Absent /\ Return(h) /\ UNCHANGED storeVars
    /\ UNCHANGED <<clientVars, request, natsVars, workerVars>>

\* The start time, when the message has one, and the AddJob that writes it.
HandlerStarted(h) ==
    /\ HandlerAt(h, "started")
    /\ HandlerGoto(h, "ended")
    /\ \/ Msg(h).startedAt # 0 /\ ReAddStarted(h, Msg(h).startedAt)
       \/ Msg(h).startedAt = 0 /\ UNCHANGED storeVars
    /\ UNCHANGED <<clientVars, request, natsVars, workerVars>>

\* The end time, likewise.
HandlerEnded(h) ==
    /\ HandlerAt(h, "ended")
    /\ HandlerGoto(h, "return")
    /\ \/ Msg(h).endedAt # 0 /\ ReAddCompleted(h, Msg(h).endedAt)
       \/ Msg(h).endedAt = 0 /\ UNCHANGED storeVars
    /\ UNCHANGED <<clientVars, request, natsVars, workerVars>>

\* Mutant: the goroutine of a handled message stays.
HandlerLingers(h) ==
    /\ HandlerAt(h, "return")
    /\ FinishRewrite(h)
    /\ HandlerGoto(h, "done")
    /\ UNCHANGED <<clientVars, request, natsVars, workerVars>>

HandlerReturns(h) ==
    /\ HandlerAt(h, "return")
    /\ FinishRewrite(h)
    /\ Return(h)
    /\ UNCHANGED <<clientVars, request, natsVars, workerVars>>

HandlerStep(h) ==
    \/ HandlerLoad(h) \/ HandlerStore(h) \/ HandlerGet(h)
    \/ HandlerStarted(h) \/ HandlerEnded(h) \/ HandlerReturns(h)
-----------------------------------------------------------------------------

PipelineNext ==
    \/ Background
    \/ StartupStep
    \/ \E r \in Requests : \/ RequestStep(r)
                           \/ \E j \in Jobs : SubmitJob(r, j) \/ CancelJob(r, j)
    \/ \E j \in Jobs : \/ WorkerStarts(j)
                       \/ \E status \in Terminal : WorkerEnds(j, status)
    \/ LoseMessage
    \/ \E h \in Handlers : Deliver(h) \/ HandlerStep(h)

PipelineSpec == PipelineInit /\ [][PipelineNext]_pipelineVars

\* A goroutine that can go on goes on, and a publish returns.  No fairness is assumed
\* of clients, workers, the network, the clock or the delivery of messages.
FairPipelineSpec ==
    /\ PipelineSpec
    /\ \A r \in Requests : WF_pipelineVars(RequestStep(r))
    /\ \A h \in Handlers : WF_pipelineVars(HandlerStep(h))

-----------------------------------------------------------------------------
(* Properties *)

\* Every variable has its type.
PipelineTypeOK ==
    /\ nats \in BOOLEAN
    /\ startup \in Seq(StartupCalls)
    /\ jobStore \in BOOLEAN
    /\ subscribed \in BOOLEAN
    /\ request \in [Requests -> Request \cup {Idle}]
    /\ handler \in [Handlers -> Handler \cup {Idle}]
    /\ stream \subseteq Jobs
    /\ cancels \subseteq Jobs
    /\ bus \in Seq(Message)
    /\ worker \in [Jobs -> Time]
    /\ deliveries \in [Jobs -> Nat]
    /\ lastSent \in [Jobs -> Requested \cup {Absent}]

\* The handlers and the HTTP requests use the store as its callers may: what is
\* proved and checked of the store holds in the pipeline.
ImplementsStore == StoreSpec

\* A job is in the store before any worker can know of it, so the first status
\* message of a job is never dropped because the job is not there yet: a message
\* on its way or at its handler is about a job that was added.
UpdatesFindTheirJob ==
    /\ \A i \in 1..Len(bus) : submitted[bus[i].job] # 0
    /\ \A h \in Handlers : handler[h] # Idle => submitted[Msg(h).job] # 0

\* A client with a NATS client behind it is told the truth: an accepted job is
\* in the stream, a cancelled one has its notification published.
AnswersAreTrue ==
    nats => \A r \in Requests :
        /\ At(r, "202 queued") => JobOf(r) \in stream
        /\ At(r, "200 cancelled") => JobOf(r) \in cancels

\* Every request is answered and every status handler returns: nobody waits
\* forever for the mutex of the store, whatever errors the others run into.
CallsReturn ==
    /\ \A r \in Requests : request[r] # Idle ~> (request[r] # Idle /\ request[r].pc \in Answer)
    /\ \A h \in Handlers : handler[h] # Idle ~> handler[h] = Idle

\* "This is the key integration between worker nodes and API gateway"
\* (nats.go:216): once main() serves, the status updates are subscribed to.
ServesSubscribed == nats /\ startup = <<>> => subscribed

\* "Updates the job store with the latest status" (nats.go:215): with every
\* message handled, none lost and nothing cancelled, a job that is still there
\* has the status its worker sent last.
LatestStatusShown ==
    (bus = <<>> /\ \A h \in Handlers : handler[h] = Idle) =>
        \A j \in Present : lastSent[j] # Absent => jobs[j].status = lastSent[j]

\* "Re-add the job with updated timestamps" (nats.go:276): adding the job back
\* changes its timestamps, not its status, and brings back no removed job.
ReAddChangesTimestampsOnly ==
    [][\A h \in Handlers :
          HandlerStarted(h) \/ HandlerEnded(h) =>
              \A j \in Jobs : /\ jobs[j] = Absent => jobs'[j] = Absent
                              /\ jobs[j] # Absent => jobs'[j].status = jobs[j].status
      ]_pipelineVars
=============================================================================
