------------------------- MODULE JobPipelineProofs --------------------------
(***************************************************************************)
(* Theorems of the job pipeline.  The first is that the pipeline uses the  *)
(* store as the store's specification says, so that every theorem of the   *)
(* store holds in the pipeline; the others follow the order in which a job *)
(* is stored, published, worked on and reported, and say what causes the   *)
(* counterexamples of the runs that have one.                              *)
(***************************************************************************)
EXTENDS JobPipeline, JobStoreCleanupProofs

USE StoreAssumption, RecordAssumption, PipelineAssumption

\* The times the workers report are in the past, so that a status handler writes
\* no time that has not come yet.
TimesPast ==
    /\ \A j \in Jobs : worker[j] <= now
    /\ \A i \in 1..Len(bus) : bus[i].startedAt <= now /\ bus[i].endedAt <= now
    /\ \A h \in Handlers : handler[h] # Idle =>
          Msg(h).startedAt <= now /\ Msg(h).endedAt <= now

\* A job is added before it is published, published before it is worked on, and
\* worked on before it is reported.
KnownJobs ==
    /\ \A r \in Requests : At(r, "publish") \/ At(r, "ack") => submitted[JobOf(r)] # 0
    /\ \A r \in Requests : At(r, "ack") => JobOf(r) \in stream
    /\ \A j \in stream : submitted[j] # 0
    /\ \A j \in Jobs : worker[j] # 0 => j \in stream
    /\ UpdatesFindTheirJob
    /\ AnswersAreTrue

PipelineInv == StoreTypeOK /\ PipelineTypeOK /\ TimesPast

-----------------------------------------------------------------------------
(* Every step of the pipeline is a step of the store.                      *)

\* Every handler, request and background step does to the store what one of the
\* store's own steps does, or nothing.
LEMMA PipelineStepIsStoreStep ==
    PipelineInv /\ [PipelineNext]_pipelineVars => [StoreNext]_storeVars
<1> SUFFICES ASSUME PipelineInv, [PipelineNext]_pipelineVars PROVE [StoreNext]_storeVars
  OBVIOUS
<1>1. CASE Background
  BY <1>1 DEF Background, StoreNext
<1>2. CASE StartupStep \/ LoseMessage \/ UNCHANGED pipelineVars
  BY <1>2 DEF StartupStep, LoseMessage, pipelineVars
<1>3. ASSUME NEW r \in Requests, NEW j \in Jobs, SubmitJob(r, j) PROVE StoreNext
  <2>1. PICK time \in 1..now : AddNewJob(r, j, NewJob(time))
    BY <1>3 DEF SubmitJob
  <2>2. NewJob(time) \in NewJobInfo
    BY DEF NewJob, NewJobInfo, PipelineInv, StoreTypeOK, Time
  <2> QED
    BY <2>1, <2>2 DEF StoreNext, ThreadNext
<1>4. ASSUME NEW r \in Requests, NEW j \in Jobs, CancelJob(r, j) PROVE UNCHANGED storeVars
  BY <1>4 DEF CancelJob
<1>5. ASSUME NEW r \in Requests, RequestStep(r) PROVE [StoreNext]_storeVars
  <2>1. CASE CancelLoad(r)
    <3>1. JobOf(r) \in Jobs
      BY <2>1 DEF CancelLoad, At, JobOf, PipelineInv, PipelineTypeOK, Request
    <3>2. UpdateLoad(r, JobOf(r)) \/ UNCHANGED storeVars
      BY <2>1 DEF CancelLoad, UpdateNotFound
    <3> QED
      BY <3>1, <3>2 DEF StoreNext, ThreadNext
  <2>2. CASE CancelStore(r)
    <3>1. UpdateStore(r, "cancelled") /\ "cancelled" \in Requested
      BY <2>2 DEF CancelStore, Status
    <3> QED
      BY <3>1 DEF StoreNext, ThreadNext
  <2>3. CASE ~CancelLoad(r) /\ ~CancelStore(r)
    BY <1>5, <2>3 DEF RequestStep, SubmitUnpublished, StreamStores, StreamAcks,
                      PublishFails, CancelNotify
  <2> QED
    BY <2>1, <2>2, <2>3
<1>6. ASSUME NEW j \in Jobs, WorkerStarts(j) \/ \E status \in Terminal : WorkerEnds(j, status)
      PROVE  UNCHANGED storeVars
  BY <1>6 DEF WorkerStarts, WorkerEnds
<1>7. ASSUME NEW h \in Handlers, Deliver(h) PROVE UNCHANGED storeVars
  BY <1>7 DEF Deliver
<1>8. ASSUME NEW h \in Handlers, HandlerStep(h) PROVE [StoreNext]_storeVars
  <2>1. handler[h] # Idle /\ handler[h] \in Handler /\ Msg(h) \in Message
    BY <1>8 DEF HandlerStep, HandlerLoad, HandlerStore, HandlerGet, HandlerStarted,
                HandlerEnded, HandlerReturns, HandlerAt, Msg, PipelineInv, PipelineTypeOK,
                Handler
  <2>2. Msg(h).job \in Jobs /\ Msg(h).status \in Requested
    BY <2>1 DEF Message
  <2>3. CASE HandlerLoad(h)
    <3>1. UpdateLoad(h, Msg(h).job) \/ UNCHANGED storeVars
      BY <2>3 DEF HandlerLoad, UpdateNotFound
    <3> QED
      BY <2>2, <3>1 DEF StoreNext, ThreadNext
  <2>4. CASE HandlerStore(h)
    <3>1. UpdateStore(h, Msg(h).status)
      BY <2>4 DEF HandlerStore
    <3> QED
      BY <2>2, <3>1 DEF StoreNext, ThreadNext
  <2>5. CASE HandlerGet(h)
    <3>1. GetJob(h, Msg(h).job) \/ UNCHANGED storeVars
      BY <2>5 DEF HandlerGet
    <3> QED
      BY <2>2, <3>1 DEF StoreNext, ThreadNext
  <2>6. CASE HandlerStarted(h)
    <3>1. Msg(h).startedAt # 0 => Msg(h).startedAt \in 1..now
      BY <2>1 DEF PipelineInv, TimesPast, Message, StoreTypeOK, Time
    <3>2. (Msg(h).startedAt # 0 /\ ReAddStarted(h, Msg(h).startedAt)) \/ UNCHANGED storeVars
      BY <2>6 DEF HandlerStarted
    <3> QED
      BY <3>1, <3>2 DEF StoreNext, ThreadNext
  <2>7. CASE HandlerEnded(h)
    <3>1. Msg(h).endedAt # 0 => Msg(h).endedAt \in 1..now
      BY <2>1 DEF PipelineInv, TimesPast, Message, StoreTypeOK, Time
    <3>2. (Msg(h).endedAt # 0 /\ ReAddCompleted(h, Msg(h).endedAt)) \/ UNCHANGED storeVars
      BY <2>7 DEF HandlerEnded
    <3> QED
      BY <3>1, <3>2 DEF StoreNext, ThreadNext
  <2>8. CASE HandlerReturns(h)
    <3>1. FinishRewrite(h)
      BY <2>8 DEF HandlerReturns
    <3> QED
      BY <3>1 DEF StoreNext, ThreadNext
  <2> QED
    BY <1>8, <2>3, <2>4, <2>5, <2>6, <2>7, <2>8 DEF HandlerStep
<1> QED
  BY <1>1, <1>2, <1>3, <1>4, <1>5, <1>6, <1>7, <1>8 DEF PipelineNext

-----------------------------------------------------------------------------
(* The types and the times.                                                *)

\* The three parts of the invariant hold at the start.
LEMMA PipelineInvInit == PipelineInit => PipelineInv
<1> SUFFICES ASSUME PipelineInit PROVE PipelineInv
  OBVIOUS
<1>1. StoreTypeOK
  BY StoreTypeInit DEF PipelineInit
<1>2. PipelineTypeOK
  <2>1. <<>> \in Seq(Message) /\ Startup \in Seq(StartupCalls)
    OBVIOUS
  <2>2. 0 \in Time
    BY DEF Time
  <2> QED
    BY <2>1, <2>2 DEF PipelineInit, PipelineTypeOK
<1>3. TimesPast
  BY DEF PipelineInit, TimesPast, StoreInit
<1> QED
  BY <1>1, <1>2, <1>3 DEF PipelineInv

\* A step of a request changes its own program counter and at most adds a job to
\* the stream or to the cancellations.
LEMMA RequestStepShape ==
    ASSUME PipelineInv, NEW r \in Requests, RequestStep(r)
    PROVE  /\ request[r] \in Request
           /\ \E pc \in {"publish", "ack", "update", "updating", "notify"} \cup Answer :
                  request' = [request EXCEPT ![r] = [pc |-> pc, job |-> JobOf(r)]]
           /\ stream' \in {stream, stream \cup {JobOf(r)}}
           /\ cancels' \in {cancels, cancels \cup {JobOf(r)}}
           /\ UNCHANGED <<clientVars, handler, bus, workerVars>>
<1>1. request[r] \in Request
  BY DEF RequestStep, SubmitUnpublished, StreamStores, StreamAcks, PublishFails, CancelLoad,
         CancelStore, CancelNotify, At, PipelineInv, PipelineTypeOK
<1>2. ASSUME NEW pc \in {"ack", "updating", "notify"} \cup Answer, Goto(r, pc)
      PROVE  request' = [request EXCEPT ![r] = [pc |-> pc, job |-> JobOf(r)]]
  <2>1. [request[r] EXCEPT !.pc = pc] = [pc |-> pc, job |-> request[r].job]
    BY <1>1 DEF Request
  <2> QED
    BY <1>2, <2>1 DEF Goto, JobOf
<1>3. \E pc \in {"ack", "updating", "notify"} \cup Answer : Goto(r, pc)
  BY DEF RequestStep, SubmitUnpublished, StreamStores, StreamAcks, PublishFails, CancelLoad,
         CancelStore, CancelNotify, Answer
<1>4. /\ stream' \in {stream, stream \cup {JobOf(r)}}
      /\ cancels' \in {cancels, cancels \cup {JobOf(r)}}
      /\ UNCHANGED <<clientVars, handler, bus, workerVars>>
  BY DEF RequestStep, SubmitUnpublished, StreamStores, StreamAcks, PublishFails, CancelLoad,
         CancelStore, CancelNotify, natsVars
<1> QED
  BY <1>1, <1>2, <1>3, <1>4

\* A step of a status handler changes nothing of the pipeline but its own program
\* counter, and keeps its message as long as it runs.
LEMMA HandlerStepShape ==
    ASSUME PipelineInv, NEW h \in Handlers, HandlerStep(h)
    PROVE  /\ handler[h] \in Handler
           /\ \/ handler' = [handler EXCEPT ![h] = Idle]
              \/ \E pc \in {"updating", "get", "started", "ended", "return"} :
                    handler' = [handler EXCEPT ![h] = [pc |-> pc, msg |-> Msg(h)]]
           /\ UNCHANGED <<clientVars, request, natsVars, workerVars>>
<1>1. handler[h] \in Handler
  BY DEF HandlerStep, HandlerLoad, HandlerStore, HandlerGet, HandlerStarted, HandlerEnded,
         HandlerReturns, HandlerAt, PipelineInv, PipelineTypeOK
<1>2. ASSUME NEW pc \in {"updating", "get", "started", "ended", "return"}, HandlerGoto(h, pc)
      PROVE  handler' = [handler EXCEPT ![h] = [pc |-> pc, msg |-> Msg(h)]]
  <2>1. [handler[h] EXCEPT !.pc = pc] = [pc |-> pc, msg |-> handler[h].msg]
    BY <1>1 DEF Handler
  <2> QED
    BY <1>2, <2>1 DEF HandlerGoto, Msg
<1>3. \/ Return(h)
      \/ \E pc \in {"updating", "get", "started", "ended", "return"} : HandlerGoto(h, pc)
  BY DEF HandlerStep, HandlerLoad, HandlerStore, HandlerGet, HandlerStarted, HandlerEnded,
         HandlerReturns
<1>4. UNCHANGED <<clientVars, request, natsVars, workerVars>>
  BY DEF HandlerStep, HandlerLoad, HandlerStore, HandlerGet, HandlerStarted, HandlerEnded,
         HandlerReturns
<1> QED
  BY <1>1, <1>2, <1>3, <1>4 DEF Return

\* A handler's message stays its message.
LEMMA HandlersKeepMessages ==
    ASSUME PipelineInv, NEW h \in Handlers, HandlerStep(h)
    PROVE  \A g \in Handlers : handler'[g] # Idle =>
               handler[g] # Idle /\ handler'[g].msg = handler[g].msg
<1>1. handler[h] # Idle
  BY HandlerStepShape
<1>2. handler \in [Handlers -> Handler \cup {Idle}]
  BY DEF PipelineInv, PipelineTypeOK
<1>3. CASE handler' = [handler EXCEPT ![h] = Idle]
  BY <1>2, <1>3
<1>4. ASSUME NEW pc \in {"updating", "get", "started", "ended", "return"},
             handler' = [handler EXCEPT ![h] = [pc |-> pc, msg |-> Msg(h)]]
      PROVE  \A g \in Handlers : handler'[g] # Idle =>
                 handler[g] # Idle /\ handler'[g].msg = handler[g].msg
  BY <1>1, <1>2, <1>4 DEF Msg
<1>5. \/ handler' = [handler EXCEPT ![h] = Idle]
      \/ \E pc \in {"updating", "get", "started", "ended", "return"} :
            handler' = [handler EXCEPT ![h] = [pc |-> pc, msg |-> Msg(h)]]
  BY HandlerStepShape
<1> QED
  BY <1>3, <1>4, <1>5

\* Every step keeps the pipeline's types.
LEMMA PipelineTypeStep ==
    PipelineInv /\ [PipelineNext]_pipelineVars => PipelineTypeOK'
<1> SUFFICES ASSUME PipelineInv, [PipelineNext]_pipelineVars PROVE PipelineTypeOK'
  OBVIOUS
<1>0. now \in Time /\ 0 \in Time
  BY DEF PipelineInv, StoreTypeOK, Time
<1>1. CASE Background \/ UNCHANGED pipelineVars
  BY <1>1 DEF Background, pipelineVars, clientVars, natsVars, workerVars, PipelineInv,
              PipelineTypeOK
<1>2. CASE StartupStep
  BY <1>2 DEF StartupStep, clientVars, natsVars, workerVars, PipelineInv, PipelineTypeOK
<1>3. ASSUME NEW r \in Requests, NEW j \in Jobs, SubmitJob(r, j) \/ CancelJob(r, j)
      PROVE  PipelineTypeOK'
  <2>1. PICK pc \in {"publish", "update", "404"} :
            request' = [request EXCEPT ![r] = [pc |-> pc, job |-> j]]
    BY <1>3 DEF SubmitJob, CancelJob, Begin
  <2>2. [pc |-> pc, job |-> j] \in Request
    BY DEF Request, Answer
  <2>3. request' \in [Requests -> Request \cup {Idle}]
    BY <2>1, <2>2 DEF PipelineInv, PipelineTypeOK
  <2> QED
    BY <1>3, <2>3 DEF SubmitJob, CancelJob, clientVars, natsVars, workerVars, PipelineInv,
                      PipelineTypeOK
<1>4. ASSUME NEW r \in Requests, RequestStep(r) PROVE PipelineTypeOK'
  <2>1. JobOf(r) \in Jobs
    BY <1>4, RequestStepShape DEF JobOf, Request
  <2>2. request' \in [Requests -> Request \cup {Idle}]
    <3>1. PICK pc \in {"publish", "ack", "update", "updating", "notify"} \cup Answer :
              request' = [request EXCEPT ![r] = [pc |-> pc, job |-> JobOf(r)]]
      BY <1>4, RequestStepShape
    <3>2. [pc |-> pc, job |-> JobOf(r)] \in Request
      BY <2>1 DEF Request
    <3> QED
      BY <3>1, <3>2 DEF PipelineInv, PipelineTypeOK
  <2> QED
    <3>1. stream' \subseteq Jobs /\ cancels' \subseteq Jobs
      <4>1. /\ stream' \in {stream, stream \cup {JobOf(r)}}
            /\ cancels' \in {cancels, cancels \cup {JobOf(r)}}
        BY <1>4, RequestStepShape
      <4>2. stream \subseteq Jobs /\ cancels \subseteq Jobs
        BY DEF PipelineInv, PipelineTypeOK
      <4> QED
        BY <2>1, <4>1, <4>2
    <3>2. UNCHANGED <<clientVars, handler, bus, workerVars>>
      BY <1>4, RequestStepShape
    <3> QED
      BY <2>2, <3>1, <3>2 DEF clientVars, workerVars, PipelineInv, PipelineTypeOK
<1>5. ASSUME NEW j \in Jobs, NEW status \in Requested, NEW startedAt \in Time,
             NEW endedAt \in Time, Send(j, status, startedAt, endedAt)
      PROVE  bus' \in Seq(Message) /\ lastSent' \in [Jobs -> Requested \cup {Absent}]
  <2>1. [job |-> j, status |-> status, startedAt |-> startedAt, endedAt |-> endedAt] \in Message
    BY DEF Message
  <2>2. CASE subscribed
    <3>1. bus' \in Seq(Message)
      <4>1. bus' = Append(bus, [job |-> j, status |-> status,
                                startedAt |-> startedAt, endedAt |-> endedAt])
        BY <1>5, <2>2 DEF Send
      <4>2. bus \in Seq(Message)
        BY DEF PipelineInv, PipelineTypeOK
      <4> QED
        BY <2>1, <4>1, <4>2
    <3>2. lastSent' = [lastSent EXCEPT ![j] = status]
      BY <1>5, <2>2 DEF Send
    <3> QED
      BY <3>1, <3>2 DEF PipelineInv, PipelineTypeOK
  <2>3. CASE ~subscribed
    BY <1>5, <2>3 DEF Send, PipelineInv, PipelineTypeOK
  <2> QED
    BY <2>2, <2>3
<1>6. ASSUME NEW j \in Jobs, WorkerStarts(j) PROVE PipelineTypeOK'
  <2>1. bus' \in Seq(Message) /\ lastSent' \in [Jobs -> Requested \cup {Absent}]
    BY <1>0, <1>5, <1>6 DEF WorkerStarts, Status
  <2> QED
    <3>1. worker' \in [Jobs -> Time] /\ deliveries' \in [Jobs -> Nat]
      BY <1>0, <1>6 DEF WorkerStarts, PipelineInv, PipelineTypeOK
    <3>2. UNCHANGED <<clientVars, request, handler, stream, cancels>>
      BY <1>6 DEF WorkerStarts
    <3> QED
      BY <2>1, <3>1, <3>2 DEF clientVars, PipelineInv, PipelineTypeOK
<1>7. ASSUME NEW j \in Jobs, NEW status \in Terminal, WorkerEnds(j, status)
      PROVE  PipelineTypeOK'
  <2>1. worker[j] \in Time /\ status \in Requested
    BY DEF PipelineInv, PipelineTypeOK, Status, Terminal
  <2>2. bus' \in Seq(Message) /\ lastSent' \in [Jobs -> Requested \cup {Absent}]
    BY <1>0, <1>5, <1>7, <2>1 DEF WorkerEnds
  <2> QED
    BY <1>0, <1>7, <2>2 DEF WorkerEnds, clientVars, PipelineInv, PipelineTypeOK
<1>8. CASE LoseMessage
  BY <1>8 DEF LoseMessage, clientVars, workerVars, PipelineInv, PipelineTypeOK
<1>9. ASSUME NEW h \in Handlers, Deliver(h) PROVE PipelineTypeOK'
  <2>1. Head(bus) \in Message /\ Tail(bus) \in Seq(Message)
    BY <1>9 DEF Deliver, PipelineInv, PipelineTypeOK
  <2>2. [pc |-> "update", msg |-> Head(bus)] \in Handler
    BY <2>1 DEF Handler
  <2> QED
    BY <1>9, <2>1, <2>2 DEF Deliver, clientVars, workerVars, PipelineInv, PipelineTypeOK
<1>10. ASSUME NEW h \in Handlers, HandlerStep(h) PROVE PipelineTypeOK'
  <2>1. Msg(h) \in Message
    BY <1>10, HandlerStepShape DEF Msg, Handler
  <2>2. \A pc \in {"updating", "get", "started", "ended", "return"} :
            [pc |-> pc, msg |-> Msg(h)] \in Handler
    BY <2>1 DEF Handler
  <2>3. handler' \in [Handlers -> Handler \cup {Idle}]
    <3>1. PICK next \in Handler \cup {Idle} : handler' = [handler EXCEPT ![h] = next]
      BY <1>10, <2>2, HandlerStepShape
    <3> QED
      BY <3>1 DEF PipelineInv, PipelineTypeOK
  <2> QED
    BY <1>10, <2>3, HandlerStepShape DEF clientVars, natsVars, workerVars, PipelineInv,
                                         PipelineTypeOK
<1> QED
  BY <1>1, <1>2, <1>3, <1>4, <1>6, <1>7, <1>8, <1>9, <1>10 DEF PipelineNext

\* Every step keeps the reported times in the past.
LEMMA TimesPastStep ==
    PipelineInv /\ PipelineTypeOK' /\ [PipelineNext]_pipelineVars => TimesPast'
<1> SUFFICES ASSUME PipelineInv, PipelineTypeOK', [PipelineNext]_pipelineVars PROVE TimesPast'
  OBVIOUS
<1>0. now <= now' /\ now \in Nat /\ now' \in Nat /\ StoreTypeOK'
  BY PipelineStepIsStoreStep, StoreMonotone, StoreTypeStep DEF PipelineInv, StoreTypeOK, Time
<1>1. \A m \in Message : m.startedAt \in Nat /\ m.endedAt \in Nat
  BY DEF Message, Time
<1>2. ASSUME UNCHANGED worker PROVE \A j \in Jobs : worker'[j] <= now'
  BY <1>0, <1>2 DEF PipelineInv, TimesPast, PipelineTypeOK, Time
<1>3. ASSUME UNCHANGED bus
      PROVE  \A i \in 1..Len(bus') : bus'[i].startedAt <= now' /\ bus'[i].endedAt <= now'
  BY <1>0, <1>1, <1>3 DEF PipelineInv, TimesPast, PipelineTypeOK
<1>4. ASSUME bus # <<>>, bus' = Tail(bus)
      PROVE  \A i \in 1..Len(bus') : bus'[i].startedAt <= now' /\ bus'[i].endedAt <= now'
  <2>1. \A i \in 1..Len(bus') : i + 1 \in 1..Len(bus) /\ bus'[i] = bus[i + 1]
    BY <1>4 DEF PipelineInv, PipelineTypeOK
  <2>2. \A i \in 1..Len(bus) : bus[i] \in Message
    BY DEF PipelineInv, PipelineTypeOK
  <2> QED
    BY <1>0, <1>1, <2>1, <2>2 DEF PipelineInv, TimesPast
<1>5. ASSUME NEW j \in Jobs, NEW status \in Requested, NEW startedAt \in Time,
             NEW endedAt \in Time, startedAt <= now, endedAt <= now,
             Send(j, status, startedAt, endedAt)
      PROVE  \A i \in 1..Len(bus') : bus'[i].startedAt <= now' /\ bus'[i].endedAt <= now'
  <2> DEFINE m == [job |-> j, status |-> status, startedAt |-> startedAt, endedAt |-> endedAt]
  <2>1. startedAt <= now' /\ endedAt <= now'
    BY <1>0, <1>5 DEF Time
  <2>2. CASE bus' = Append(bus, m)
    <3>1. m \in Message
      BY DEF Message
    <3>2. \A i \in 1..Len(bus') : bus'[i] = m \/ (i \in 1..Len(bus) /\ bus'[i] = bus[i])
      BY <2>2, <3>1 DEF PipelineInv, PipelineTypeOK
    <3>3. \A i \in 1..Len(bus) : bus[i] \in Message
      BY DEF PipelineInv, PipelineTypeOK
    <3> QED
      BY <1>0, <1>1, <2>1, <3>2, <3>3 DEF PipelineInv, TimesPast
  <2>3. CASE UNCHANGED bus
    BY <1>3, <2>3
  <2>4. bus' = Append(bus, m) \/ UNCHANGED bus
    BY <1>5 DEF Send
  <2> QED
    BY <2>2, <2>3, <2>4
<1>6. ASSUME UNCHANGED handler
      PROVE  \A h \in Handlers : handler'[h] # Idle =>
                 handler'[h].msg.startedAt <= now' /\ handler'[h].msg.endedAt <= now'
  <2>1. \A h \in Handlers : handler[h] # Idle => handler[h].msg \in Message
    BY DEF PipelineInv, PipelineTypeOK, Handler
  <2> QED
    BY <1>0, <1>1, <1>6, <2>1 DEF PipelineInv, TimesPast, Msg
<1>7. CASE UNCHANGED <<worker, bus, handler>>
  BY <1>2, <1>3, <1>6, <1>7 DEF TimesPast, Msg
<1>8. ASSUME NEW j \in Jobs, WorkerStarts(j) PROVE TimesPast'
  <2>1. \A i \in 1..Len(bus') : bus'[i].startedAt <= now' /\ bus'[i].endedAt <= now'
    <3>1. Send(j, "processing", now, 0)
      BY <1>8 DEF WorkerStarts
    <3>2. now \in Time /\ 0 \in Time /\ now <= now /\ 0 <= now /\ "processing" \in Requested
      BY DEF PipelineInv, StoreTypeOK, Time, Status
    <3> QED
      BY <1>5, <3>1, <3>2
  <2>2. \A k \in Jobs : worker'[k] <= now'
    BY <1>0, <1>8 DEF WorkerStarts, PipelineInv, PipelineTypeOK, TimesPast, Time
  <2> QED
    BY <1>6, <1>8, <2>1, <2>2 DEF WorkerStarts, TimesPast, Msg
<1>9. ASSUME NEW j \in Jobs, NEW status \in Terminal, WorkerEnds(j, status) PROVE TimesPast'
  <2>0. status \in Requested /\ worker[j] \in Time /\ worker[j] <= now /\ now \in Time
    BY DEF Terminal, Status, PipelineInv, PipelineTypeOK, StoreTypeOK, TimesPast
  <2>1. \A i \in 1..Len(bus') : bus'[i].startedAt <= now' /\ bus'[i].endedAt <= now'
    <3>1. Send(j, status, worker[j], now)
      BY <1>9 DEF WorkerEnds
    <3>2. worker[j] <= now /\ now <= now
      BY <2>0 DEF Time
    <3> QED
      BY <1>5, <2>0, <3>1, <3>2
  <2>2. \A k \in Jobs : worker'[k] <= now'
    BY <1>0, <1>9 DEF WorkerEnds, PipelineInv, PipelineTypeOK, TimesPast, Time
  <2> QED
    BY <1>6, <1>9, <2>1, <2>2 DEF WorkerEnds, TimesPast, Msg
<1>10. CASE LoseMessage
  BY <1>2, <1>4, <1>6, <1>10 DEF LoseMessage, workerVars, TimesPast, Msg
<1>11. ASSUME NEW h \in Handlers, Deliver(h) PROVE TimesPast'
  <2>1. handler' = [handler EXCEPT ![h] = [pc |-> "update", msg |-> Head(bus)]]
    BY <1>11 DEF Deliver
  <2>2. Head(bus) = bus[1] /\ 1 \in 1..Len(bus) /\ bus[1] \in Message
    BY <1>11 DEF Deliver, PipelineInv, PipelineTypeOK
  <2>3. Head(bus).startedAt <= now' /\ Head(bus).endedAt <= now'
    BY <1>0, <1>1, <2>2 DEF PipelineInv, TimesPast
  <2>4. \A g \in Handlers : handler'[g] # Idle =>
            handler'[g].msg.startedAt <= now' /\ handler'[g].msg.endedAt <= now'
    <3>1. \A g \in Handlers : handler[g] # Idle => handler[g].msg \in Message
      BY DEF PipelineInv, PipelineTypeOK, Handler
    <3> QED
      BY <1>0, <1>1, <2>1, <2>3, <3>1 DEF PipelineInv, TimesPast, PipelineTypeOK, Msg
  <2> QED
    BY <1>2, <1>4, <1>11, <2>4 DEF Deliver, workerVars, TimesPast, Msg
<1>12. ASSUME NEW h \in Handlers, HandlerStep(h) PROVE TimesPast'
  <2>1. \A g \in Handlers : handler'[g] # Idle =>
            handler[g] # Idle /\ handler'[g].msg = handler[g].msg
    BY <1>12, HandlersKeepMessages
  <2>2. \A g \in Handlers : handler[g] # Idle => handler[g].msg \in Message
    BY DEF PipelineInv, PipelineTypeOK, Handler
  <2>3. \A g \in Handlers : handler'[g] # Idle =>
            handler'[g].msg.startedAt <= now' /\ handler'[g].msg.endedAt <= now'
    BY <1>0, <1>1, <2>1, <2>2 DEF PipelineInv, TimesPast, Msg
  <2>4. UNCHANGED <<worker, bus>>
    BY <1>12, HandlerStepShape DEF natsVars, workerVars
  <2> QED
    BY <1>2, <1>3, <2>3, <2>4 DEF TimesPast, Msg
<1>13. CASE Background \/ StartupStep \/ UNCHANGED pipelineVars
  BY <1>7, <1>13 DEF Background, StartupStep, pipelineVars, natsVars, workerVars
<1>14. ASSUME NEW r \in Requests, NEW j \in Jobs, SubmitJob(r, j) \/ CancelJob(r, j)
       PROVE  TimesPast'
  BY <1>7, <1>14 DEF SubmitJob, CancelJob, natsVars, workerVars
<1>15. ASSUME NEW r \in Requests, RequestStep(r) PROVE TimesPast'
  BY <1>7, <1>15, RequestStepShape DEF workerVars
<1> QED
  BY <1>8, <1>9, <1>10, <1>11, <1>12, <1>13, <1>14, <1>15 DEF PipelineNext

\* The types and the times hold throughout.
LEMMA PipelineInvariant == PipelineSpec => []PipelineInv
<1>1. PipelineInv /\ [PipelineNext]_pipelineVars => PipelineInv'
  BY PipelineStepIsStoreStep, StoreTypeStep, PipelineTypeStep, TimesPastStep DEF PipelineInv
<1> QED
  BY <1>1, PipelineInvInit, PTL DEF PipelineSpec

\* The pipeline is type-correct.
THEOREM PipelineTypeCorrect == PipelineSpec => []PipelineTypeOK
<1> PipelineInv => PipelineTypeOK
  BY DEF PipelineInv
<1> QED
  BY PipelineInvariant, PTL

\* The pipeline uses the store as the store's specification says: what holds of
\* the store for every caller that keeps to it holds in the pipeline.
THEOREM PipelineImplementsStore == PipelineSpec => ImplementsStore
<1>1. PipelineInit => StoreInit
  BY DEF PipelineInit
<1>2. PipelineInv /\ [PipelineNext]_pipelineVars => [StoreNext]_storeVars
  BY PipelineStepIsStoreStep
<1> QED
  BY <1>1, <1>2, PipelineInvariant, PTL DEF PipelineSpec, ImplementsStore, StoreSpec

\* What the store promises its callers it keeps in the pipeline: times are kept and
\* set, the mutex protects updates, and the cleanup bounds it and evicts the oldest.
THEOREM StorePromisesKept ==
    PipelineSpec => [](/\ SubmissionTimeKept
                       /\ FinishedHasCompletionTime
                       /\ MutexProtectsUpdate
                       /\ CleanupBoundsStore
                       /\ EvictsOldestFirst)
BY PipelineImplementsStore, SubmissionTimeCorrect, CompletionTimeCorrect, MutexCorrect,
   CleanupBoundsCorrect, EvictsOldestCorrect, PTL
DEF ImplementsStore

-----------------------------------------------------------------------------
(* The two orders of startup.                                              *)

\* The first of two calls, and what is left after it.
LEMMA TwoCalls ==
    ASSUME NEW a, NEW b
    PROVE  /\ <<a, b>> # <<>> /\ Head(<<a, b>>) = a /\ Tail(<<a, b>>) = <<b>>
           /\ <<b>> # <<>> /\ Head(<<b>>) = b /\ Tail(<<b>>) = <<>>
           /\ <<a, b>> # <<b>>
OBVIOUS

\* Only main()'s calls change the client.
LEMMA ClientKept ==
    [PipelineNext]_pipelineVars => StartupStep \/ UNCHANGED clientVars
BY DEF PipelineNext, Background, RequestStep, SubmitUnpublished, StreamStores, StreamAcks,
       PublishFails, CancelLoad, CancelStore, CancelNotify, SubmitJob, CancelJob,
       WorkerStarts, WorkerEnds, LoseMessage, Deliver, HandlerStep, HandlerLoad,
       HandlerStore, HandlerGet, HandlerStarted, HandlerEnded, HandlerReturns, pipelineVars

\* How far main() is in the documented order, and what the client has by then.
SubscribingInv ==
    /\ startup \in {IntendedStartup, <<"SubscribeToStatusUpdates">>, <<>>}
    /\ nats /\ startup = <<"SubscribeToStatusUpdates">> => jobStore
    /\ ServesSubscribed

\* In the order that SetJobStore and SubscribeToStatusUpdates document, the status
\* updates are subscribed to before the first request is served: the order main.go
\* has is the whole cause of what the run status_subscription finds.
THEOREM IntendedStartupSubscribes ==
    ASSUME Startup = IntendedStartup
    PROVE  PipelineSpec => []ServesSubscribed
<1>1. PipelineInit => SubscribingInv
  BY DEF PipelineInit, SubscribingInv, ServesSubscribed, IntendedStartup
<1>2. SubscribingInv /\ [PipelineNext]_pipelineVars => SubscribingInv'
  <2> SUFFICES ASSUME SubscribingInv, [PipelineNext]_pipelineVars PROVE SubscribingInv'
    OBVIOUS
  <2>1. CASE StartupStep
    <3>1. CASE startup = IntendedStartup
      <4>1. startup' = <<"SubscribeToStatusUpdates">> /\ nats' = nats /\ (nats => jobStore')
        BY <2>1, <3>1, TwoCalls DEF StartupStep, IntendedStartup
      <4> QED
        BY <4>1, TwoCalls DEF SubscribingInv, ServesSubscribed
    <3>2. CASE startup = <<"SubscribeToStatusUpdates">>
      <4>1. startup' = <<>> /\ nats' = nats /\ (nats => subscribed')
        BY <2>1, <3>2, TwoCalls DEF StartupStep, SubscribingInv
      <4> QED
        BY <4>1, TwoCalls DEF SubscribingInv, ServesSubscribed
    <3> QED
      BY <2>1, <3>1, <3>2 DEF StartupStep, SubscribingInv
  <2>2. CASE UNCHANGED clientVars
    BY <2>2 DEF clientVars, SubscribingInv, ServesSubscribed
  <2> QED
    BY <2>1, <2>2, ClientKept
<1>3. SubscribingInv => ServesSubscribed
  BY DEF SubscribingInv
<1> QED
  BY <1>1, <1>2, <1>3, PTL DEF PipelineSpec

\* In main.go's order there is never a subscription, so no handler ever runs, and
\* only a submission and a cancellation give a job its status.
UnsubscribedInv ==
    /\ startup \in {MainStartup, <<"SetJobStore">>, <<>>}
    /\ startup = MainStartup => ~jobStore
    /\ ~subscribed
    /\ bus = <<>>
    /\ \A h \in Handlers : handler[h] = Idle
    /\ \A j \in Present : jobs[j].status \in {"queued", "cancelled"}

\* The part about the jobs: no step of main.go's gateway shows another status.
LEMMA StatusesStep ==
    ASSUME StoreTypeOK, UnsubscribedInv, [PipelineNext]_pipelineVars
    PROVE  \A j \in Present' : jobs'[j].status \in {"queued", "cancelled"}
<1> USE DEF UnsubscribedInv, Present
<1>1. CASE Background
  <2>1. Removal
    BY <1>1, RemovalSteps DEF Background
  <2> QED
    BY <2>1 DEF Removal, StoreTypeOK
<1>2. ASSUME NEW r \in Requests, NEW j \in Jobs, SubmitJob(r, j)
      PROVE  \A k \in Present' : jobs'[k].status \in {"queued", "cancelled"}
  <2>1. PICK time \in 1..now : AddNewJob(r, j, NewJob(time))
    BY <1>2 DEF SubmitJob
  <2>2. jobs' = [jobs EXCEPT ![j] = Filled(NewJob(time))]
    BY <2>1 DEF AddNewJob, AddJob, Store
  <2>3. Filled(NewJob(time)).status = "queued"
    BY DEF Filled, NewJob
  <2> QED
    BY <2>2, <2>3 DEF StoreTypeOK
<1>3. ASSUME NEW r \in Requests, CancelStore(r)
      PROVE  \A k \in Present' : jobs'[k].status \in {"queued", "cancelled"}
  <2>1. r \in Threads /\ UpdateStore(r, "cancelled")
    BY <1>3 DEF CancelStore
  <2>2. call[r] \in Call
    BY <2>1 DEF UpdateStore, StoreTypeOK
  <2>3. Updated(call[r].copy, "cancelled", now).status = "cancelled"
    BY <2>2, UpdatedType DEF StoreTypeOK, Call, Status
  <2>4. jobs' = [jobs EXCEPT ![call[r].job] = Updated(call[r].copy, "cancelled", now)]
    BY <2>1 DEF UpdateStore, Store
  <2> QED
    BY <2>3, <2>4 DEF StoreTypeOK
<1>4. ASSUME NEW r \in Requests, CancelLoad(r) PROVE jobs' = jobs
  BY <1>4 DEF CancelLoad, UpdateLoad, UpdateNotFound, storeVars
<1>5. ASSUME NEW r \in Requests,
             \/ SubmitUnpublished(r) \/ StreamStores(r) \/ StreamAcks(r)
             \/ PublishFails(r) \/ CancelNotify(r)
             \/ \E j \in Jobs : CancelJob(r, j)
      PROVE  jobs' = jobs
  BY <1>5 DEF SubmitUnpublished, StreamStores, StreamAcks, PublishFails, CancelNotify,
              CancelJob, storeVars
<1>6. ASSUME \/ StartupStep \/ LoseMessage \/ UNCHANGED pipelineVars
             \/ \E j \in Jobs : WorkerStarts(j) \/ \E status \in Terminal : WorkerEnds(j, status)
             \/ \E h \in Handlers : Deliver(h)
      PROVE  jobs' = jobs
  BY <1>6 DEF StartupStep, LoseMessage, WorkerStarts, WorkerEnds, Deliver, storeVars, pipelineVars
<1>7. ASSUME NEW h \in Handlers PROVE ~HandlerStep(h)
  BY DEF HandlerStep, HandlerLoad, HandlerStore, HandlerGet, HandlerStarted, HandlerEnded,
         HandlerReturns, HandlerAt
<1> QED
  BY <1>1, <1>2, <1>3, <1>4, <1>5, <1>6, <1>7 DEF PipelineNext, RequestStep

\* With the startup order of main.go a job is queued or cancelled for as long as it
\* is in the store: whatever the workers do and report, no client ever sees it.
THEOREM MainStartupShowsNoProgress ==
    ASSUME Startup = MainStartup
    PROVE  PipelineSpec => [](\A j \in Present : jobs[j].status \in {"queued", "cancelled"})
<1>1. PipelineInit => UnsubscribedInv
  BY DEF PipelineInit, StoreInit, UnsubscribedInv, Present, MainStartup
<1>2. PipelineInv /\ UnsubscribedInv /\ [PipelineNext]_pipelineVars => UnsubscribedInv'
  <2> SUFFICES ASSUME PipelineInv, UnsubscribedInv, [PipelineNext]_pipelineVars
               PROVE  UnsubscribedInv'
    OBVIOUS
  <2>1. (\A j \in Present : jobs[j].status \in {"queued", "cancelled"})'
    BY StatusesStep DEF PipelineInv
  <2>2. /\ startup' \in {MainStartup, <<"SetJobStore">>, <<>>}
        /\ startup' = MainStartup => ~jobStore'
        /\ ~subscribed'
    <3>1. CASE StartupStep
      <4>1. CASE startup = MainStartup
        <5>1. startup' = <<"SetJobStore">> /\ ~subscribed'
          BY <3>1, <4>1, TwoCalls DEF StartupStep, UnsubscribedInv, MainStartup
        <5> QED
          BY <5>1, TwoCalls DEF MainStartup
      <4>2. CASE startup = <<"SetJobStore">>
        <5>1. startup' = <<>> /\ ~subscribed'
          BY <3>1, <4>2, TwoCalls DEF StartupStep, UnsubscribedInv
        <5> QED
          BY <5>1, TwoCalls DEF MainStartup
      <4> QED
        BY <3>1, <4>1, <4>2 DEF StartupStep, UnsubscribedInv
    <3>2. CASE UNCHANGED clientVars
      BY <3>2 DEF clientVars, UnsubscribedInv
    <3> QED
      BY <3>1, <3>2, ClientKept
  <2>3. bus' = <<>> /\ handler' = handler
    BY DEF UnsubscribedInv, PipelineNext, Background, StartupStep, RequestStep,
           SubmitUnpublished, StreamStores, StreamAcks, PublishFails, CancelLoad, CancelStore,
           CancelNotify, SubmitJob, CancelJob, WorkerStarts, WorkerEnds, Send, LoseMessage,
           Deliver, HandlerStep, HandlerLoad, HandlerStore, HandlerGet, HandlerStarted,
           HandlerEnded, HandlerReturns, HandlerAt, natsVars, pipelineVars
  <2> QED
    BY <2>1, <2>2, <2>3 DEF UnsubscribedInv
<1>3. UnsubscribedInv => \A j \in Present : jobs[j].status \in {"queued", "cancelled"}
  BY DEF UnsubscribedInv
<1> QED
  BY <1>1, <1>2, <1>3, PipelineInvariant, PTL DEF PipelineSpec

-----------------------------------------------------------------------------
(* The order of storing, publishing, working and reporting.                *)

\* Nothing is known at the start.
LEMMA KnownJobsInit == PipelineInit => KnownJobs
BY DEF PipelineInit, KnownJobs, UpdatesFindTheirJob, AnswersAreTrue, At

\* The part about what is on the bus and with the handlers is kept by every step
\* that sends only of jobs that were submitted.
LEMMA KnownJobsStep ==
    PipelineInv /\ PipelineTypeOK' /\ KnownJobs /\ [PipelineNext]_pipelineVars => KnownJobs'
<1> SUFFICES ASSUME PipelineInv, PipelineTypeOK', KnownJobs, [PipelineNext]_pipelineVars
             PROVE  KnownJobs'
  OBVIOUS
<1> DEFINE Known(j) == j \in Jobs /\ submitted[j] # 0
           RequestsKnown == \A r \in Requests :
               /\ At(r, "publish") \/ At(r, "ack") => submitted[JobOf(r)] # 0
               /\ At(r, "ack") => JobOf(r) \in stream
           ToldTrue == \A r \in Requests :
               /\ At(r, "202 queued") => JobOf(r) \in stream
               /\ At(r, "200 cancelled") => JobOf(r) \in cancels
           BusKnown == \A i \in 1..Len(bus) : submitted[bus[i].job] # 0
           HandlersKnown == \A h \in Handlers : handler[h] # Idle => submitted[Msg(h).job] # 0
           WorkersKnown == /\ \A j \in stream : submitted[j] # 0
                           /\ \A j \in Jobs : worker[j] # 0 => j \in stream
<1>0. /\ RequestsKnown /\ BusKnown /\ HandlersKnown /\ WorkersKnown
      /\ nats => ToldTrue
  BY DEF KnownJobs, UpdatesFindTheirJob, AnswersAreTrue
<1>n. nats' = nats
  <2>1. ASSUME NEW r \in Requests, RequestStep(r) PROVE nats' = nats
    BY <2>1, RequestStepShape DEF clientVars
  <2>2. ASSUME NEW h \in Handlers, HandlerStep(h) PROVE nats' = nats
    BY <2>2, HandlerStepShape DEF clientVars
  <2> QED
    BY <2>1, <2>2 DEF PipelineNext, pipelineVars, clientVars, Background, StartupStep, SubmitJob,
       CancelJob, WorkerStarts, WorkerEnds, LoseMessage, Deliver
<1>a. ASSUME RequestsKnown', BusKnown', HandlersKnown', WorkersKnown', nats => ToldTrue'
      PROVE  KnownJobs'
  <2>1. AnswersAreTrue'
    <3> SUFFICES ASSUME nats' PROVE ToldTrue'
      BY DEF AnswersAreTrue
    <3> nats
      BY <1>n
    <3> QED
      BY <1>a
  <2>2. UpdatesFindTheirJob'
    BY <1>a DEF UpdatesFindTheirJob
  <2> QED
    BY <1>a, <2>1, <2>2 DEF KnownJobs
<1>1. \A j \in Jobs : submitted[j] # 0 => submitted'[j] # 0
  BY PipelineStepIsStoreStep, StoreMonotone DEF PipelineInv
<1>2. /\ \A r \in Requests : request[r] # Idle => JobOf(r) \in Jobs
      /\ \A i \in 1..Len(bus) : bus[i].job \in Jobs
      /\ \A h \in Handlers : handler[h] # Idle => Msg(h).job \in Jobs
      /\ stream \subseteq Jobs
  <2>1. \A i \in 1..Len(bus) : bus[i] \in Message
    BY DEF PipelineInv, PipelineTypeOK
  <2> QED
    BY <2>1 DEF PipelineInv, PipelineTypeOK, Request, Handler, Message, JobOf, Msg
<1>3. UNCHANGED bus => BusKnown'
  BY <1>0, <1>1, <1>2
<1>4. bus # <<>> /\ bus' = Tail(bus) => BusKnown'
  <2> SUFFICES ASSUME bus # <<>>, bus' = Tail(bus) PROVE BusKnown'
    OBVIOUS
  <2>1. \A i \in 1..Len(bus') : i + 1 \in 1..Len(bus) /\ bus'[i] = bus[i + 1]
    BY DEF PipelineInv, PipelineTypeOK
  <2>2. \A i \in 1..Len(bus) : submitted[bus[i].job] # 0 /\ bus[i].job \in Jobs
    BY <1>0, <1>2
  <2>3. ASSUME NEW i \in 1..Len(bus') PROVE submitted'[bus'[i].job] # 0
    BY <1>1, <2>1, <2>2
  <2> QED
    BY <2>3
<1>5. ASSUME NEW j \in stream, NEW status, NEW startedAt, NEW endedAt,
             Send(j, status, startedAt, endedAt)
      PROVE  BusKnown'
  <2> DEFINE m == [job |-> j, status |-> status, startedAt |-> startedAt, endedAt |-> endedAt]
  <2>1. submitted'[m.job] # 0
    BY <1>0, <1>1, <1>2
  <2>2. CASE bus' = Append(bus, m)
    <3>1. \A i \in 1..Len(bus') : bus'[i] = m \/ (i \in 1..Len(bus) /\ bus'[i] = bus[i])
      BY <2>2 DEF PipelineInv, PipelineTypeOK
    <3> QED
      BY <1>0, <1>1, <1>2, <2>1, <3>1
  <2>3. CASE UNCHANGED bus
    BY <1>3, <2>3
  <2>4. bus' = Append(bus, m) \/ UNCHANGED bus
    BY <1>5 DEF Send
  <2> QED
    BY <2>2, <2>3, <2>4
<1>6. UNCHANGED handler => HandlersKnown'
  BY <1>0, <1>1, <1>2 DEF Msg
<1>7. UNCHANGED <<stream, worker>> => WorkersKnown'
  BY <1>0, <1>1, <1>2
<1>8. UNCHANGED <<request, stream, cancels>> => RequestsKnown' /\ (nats => ToldTrue')
  BY <1>0, <1>1, <1>2 DEF At, JobOf
<1>r. ASSUME NEW r \in Requests, stream \subseteq stream', cancels \subseteq cancels',
             \A q \in Requests \ {r} : request'[q] = request[q],
             request'[r].pc \in {"publish", "ack"} => submitted'[request'[r].job] # 0,
             nats /\ request'[r].pc \in {"ack", "202 queued"} => request'[r].job \in stream',
             request'[r].pc = "ack" => request'[r].job \in stream',
             nats /\ request'[r].pc = "200 cancelled" => request'[r].job \in cancels'
      PROVE  RequestsKnown' /\ (nats => ToldTrue')
  <2>1. RequestsKnown'
    BY <1>0, <1>1, <1>2, <1>r DEF At, JobOf
  <2>2. ASSUME nats PROVE ToldTrue'
    <3>1. ToldTrue
      BY <1>0, <2>2
    <3> QED
      BY <1>r, <2>2, <3>1 DEF At, JobOf
  <2> QED
    BY <2>1, <2>2
<1>9. CASE Background \/ StartupStep \/ UNCHANGED pipelineVars
  BY <1>a, <1>3, <1>6, <1>7, <1>8, <1>9
  DEF Background, StartupStep, pipelineVars, clientVars, natsVars, workerVars
<1>10. ASSUME NEW r \in Requests, NEW j \in Jobs, SubmitJob(r, j) PROVE KnownJobs'
  <2>1. submitted'[j] # 0
    <3>1. PICK time \in 1..now : AddNewJob(r, j, NewJob(time))
      BY <1>10 DEF SubmitJob
    <3>2. time # 0 /\ NewJob(time).submittedAt = time
      BY DEF NewJob, PipelineInv, StoreTypeOK, Time
    <3> QED
      BY <3>1, <3>2 DEF AddNewJob, AddJob, Filled, Store, PipelineInv, StoreTypeOK
  <2>2. request' = [request EXCEPT ![r] = [pc |-> "publish", job |-> j]]
    BY <1>10 DEF SubmitJob, Begin
  <2>3. UNCHANGED <<stream, cancels, bus, handler, worker>>
    BY <1>10 DEF SubmitJob, clientVars, natsVars, workerVars
  <2>4. RequestsKnown' /\ (nats => ToldTrue')
    BY <1>0, <1>1, <1>2, <2>1, <2>2, <2>3 DEF At, JobOf, PipelineInv, PipelineTypeOK
  <2> QED
    BY <1>a, <1>3, <1>6, <1>7, <2>3, <2>4
<1>11. ASSUME NEW r \in Requests, NEW j \in Jobs, CancelJob(r, j) PROVE KnownJobs'
  <2>1. \E pc \in {"update", "404"} : request' = [request EXCEPT ![r] = [pc |-> pc, job |-> j]]
    BY <1>11 DEF CancelJob, Begin
  <2>2. UNCHANGED <<stream, cancels, bus, handler, worker>>
    BY <1>11 DEF CancelJob, clientVars, natsVars, workerVars
  <2>3. /\ \A q \in Requests \ {r} : request'[q] = request[q]
        /\ request'[r].pc \in {"update", "404"}
    BY <2>1 DEF PipelineInv, PipelineTypeOK
  <2>4. RequestsKnown' /\ (nats => ToldTrue')
    BY <1>r, <2>2, <2>3
  <2> QED
    BY <1>a, <1>3, <1>6, <1>7, <2>2, <2>4
<1>12. ASSUME NEW r \in Requests, RequestStep(r) PROVE KnownJobs'
  <2>1. request[r] # Idle /\ JobOf(r) \in Jobs /\ \A q \in Requests \ {r} : request'[q] = request[q]
    BY <1>12, <1>2, RequestStepShape DEF PipelineInv, PipelineTypeOK
  <2>s. /\ request[r] \in Request
        /\ \E pc \in {"publish", "ack", "update", "updating", "notify"} \cup Answer :
               request' = [request EXCEPT ![r] = [pc |-> pc, job |-> JobOf(r)]]
        /\ stream' \in {stream, stream \cup {JobOf(r)}}
        /\ cancels' \in {cancels, cancels \cup {JobOf(r)}}
        /\ UNCHANGED <<clientVars, handler, bus, workerVars>>
    BY <1>12, RequestStepShape
  <2>2. /\ request'[r].job = JobOf(r)
        /\ UNCHANGED <<bus, handler, worker>>
        /\ stream \subseteq stream' /\ cancels \subseteq cancels'
    <3>1. request'[r].job = JobOf(r)
      BY <2>s DEF PipelineInv, PipelineTypeOK
    <3>2. UNCHANGED <<bus, handler, worker>>
      BY <2>s DEF workerVars
    <3>3. stream \subseteq stream' /\ cancels \subseteq cancels'
      BY <2>s
    <3> QED
      BY <3>1, <3>2, <3>3
  <2>g. ASSUME NEW pc, Goto(r, pc) PROVE request'[r].pc = pc
    BY <2>g DEF Goto, PipelineInv, PipelineTypeOK, Request
  <2>3. CASE StreamStores(r)
    <3>1. request'[r].pc = "ack" /\ submitted'[JobOf(r)] # 0 /\ stream' = stream \cup {JobOf(r)}
      BY <1>0, <1>1, <2>1, <2>3, <2>g DEF StreamStores
    <3>2. RequestsKnown' /\ (nats => ToldTrue')
      BY <1>r, <2>1, <2>2, <3>1
    <3>3. WorkersKnown'
      BY <1>0, <1>1, <1>2, <2>2, <3>1
    <3> QED
      BY <1>a, <1>3, <1>6, <2>2, <3>2, <3>3
  <2>4. CASE CancelNotify(r)
    <3>1. /\ request'[r].pc \in {"200 cancelled", "500"}
          /\ nats /\ request'[r].pc = "200 cancelled" => JobOf(r) \in cancels'
          /\ UNCHANGED stream
      BY <2>4, <2>g DEF CancelNotify
    <3>2. RequestsKnown' /\ (nats => ToldTrue')
      BY <1>r, <2>1, <2>2, <3>1
    <3> QED
      BY <1>a, <1>3, <1>6, <1>7, <2>2, <3>1, <3>2
  <2>5. CASE StreamAcks(r)
    <3>1. request'[r].pc = "202 queued" /\ JobOf(r) \in stream /\ UNCHANGED stream
      BY <1>0, <2>5, <2>g DEF StreamAcks, natsVars
    <3>2. RequestsKnown' /\ (nats => ToldTrue')
      BY <1>r, <2>1, <2>2, <3>1
    <3> QED
      BY <1>a, <1>3, <1>6, <1>7, <2>2, <3>1, <3>2
  <2>6. CASE SubmitUnpublished(r)
    <3>1. request'[r].pc = "202 queued" /\ ~nats /\ UNCHANGED stream
      BY <2>6, <2>g DEF SubmitUnpublished, natsVars
    <3>2. RequestsKnown' /\ (nats => ToldTrue')
      BY <1>r, <2>1, <2>2, <3>1
    <3> QED
      BY <1>a, <1>3, <1>6, <1>7, <2>2, <3>1, <3>2
  <2>7. CASE PublishFails(r) \/ CancelLoad(r) \/ CancelStore(r)
    <3>1. request'[r].pc \in {"500", "updating", "notify"} /\ UNCHANGED stream
      BY <2>7, <2>g DEF PublishFails, CancelLoad, CancelStore, natsVars
    <3>2. RequestsKnown' /\ (nats => ToldTrue')
      BY <1>r, <2>1, <2>2, <3>1
    <3> QED
      BY <1>a, <1>3, <1>6, <1>7, <2>2, <3>1, <3>2
  <2> QED
    BY <1>12, <2>3, <2>4, <2>5, <2>6, <2>7 DEF RequestStep
<1>13. ASSUME NEW j \in Jobs, WorkerStarts(j) PROVE KnownJobs'
  <2>1. BusKnown'
    BY <1>5, <1>13 DEF WorkerStarts
  <2>2. WorkersKnown'
    BY <1>0, <1>1, <1>2, <1>13 DEF WorkerStarts, PipelineInv, PipelineTypeOK
  <2> QED
    BY <1>a, <1>6, <1>8, <1>13, <2>1, <2>2 DEF WorkerStarts, clientVars
<1>14. ASSUME NEW j \in Jobs, NEW status \in Terminal, WorkerEnds(j, status) PROVE KnownJobs'
  <2>1. BusKnown'
    BY <1>0, <1>5, <1>14 DEF WorkerEnds
  <2>2. WorkersKnown'
    BY <1>0, <1>1, <1>2, <1>14 DEF WorkerEnds, PipelineInv, PipelineTypeOK
  <2> QED
    BY <1>a, <1>6, <1>8, <1>14, <2>1, <2>2 DEF WorkerEnds, clientVars
<1>15. CASE LoseMessage
  BY <1>a, <1>4, <1>6, <1>7, <1>8, <1>15 DEF LoseMessage, clientVars, workerVars
<1>16. ASSUME NEW h \in Handlers, Deliver(h) PROVE KnownJobs'
  <2>1. Head(bus) = bus[1] /\ 1 \in 1..Len(bus)
    BY <1>16 DEF Deliver, PipelineInv, PipelineTypeOK
  <2>2. submitted'[Head(bus).job] # 0
    BY <1>0, <1>1, <1>2, <2>1
  <2>3. HandlersKnown'
    BY <1>0, <1>1, <1>2, <1>16, <2>2 DEF Deliver, Msg, PipelineInv, PipelineTypeOK
  <2> QED
    BY <1>a, <1>4, <1>7, <1>8, <1>16, <2>3 DEF Deliver, clientVars, workerVars
<1>17. ASSUME NEW h \in Handlers, HandlerStep(h) PROVE KnownJobs'
  <2>1. \A g \in Handlers : handler'[g] # Idle => handler[g] # Idle /\ handler'[g].msg = Msg(g)
    BY <1>17, HandlersKeepMessages DEF Msg
  <2>2. HandlersKnown'
    BY <1>0, <1>1, <1>2, <2>1 DEF Msg
  <2>3. UNCHANGED <<clientVars, request, natsVars, workerVars>>
    BY <1>17, HandlerStepShape
  <2> QED
    BY <1>a, <1>3, <1>7, <1>8, <2>2, <2>3 DEF natsVars, workerVars
<1> QED
  BY <1>9, <1>10, <1>11, <1>12, <1>13, <1>14, <1>15, <1>16, <1>17 DEF PipelineNext

\* The order is kept throughout.
LEMMA KnownJobsInvariant == PipelineSpec => []KnownJobs
<1>1. PipelineInv /\ PipelineInv' /\ KnownJobs /\ [PipelineNext]_pipelineVars => KnownJobs'
  BY KnownJobsStep DEF PipelineInv
<1> QED
  BY <1>1, KnownJobsInit, PipelineInvariant, PTL DEF PipelineSpec

\* No status message is about a job the store has not been given yet.
THEOREM UpdatesFindTheirJobs == PipelineSpec => []UpdatesFindTheirJob
<1> KnownJobs => UpdatesFindTheirJob
  BY DEF KnownJobs
<1> QED
  BY KnownJobsInvariant, PTL

\* With a NATS client, an accepted job is in the stream and a cancelled one was
\* announced.
THEOREM AnswersCorrect == PipelineSpec => []AnswersAreTrue
<1> KnownJobs => AnswersAreTrue
  BY DEF KnownJobs
<1> QED
  BY KnownJobsInvariant, PTL

-----------------------------------------------------------------------------
(* The latest status.                                                      *)
(*                                                                         *)
(* The status that a worker sent last travels: it is in the last message   *)
(* on its way, then with the handler, then in the store and in the copy    *)
(* the handler adds back.  With one handler it is never overtaken.         *)

\* A status message of job j is on its way.
Coming(j) == \E i \in 1..Len(bus) : bus[i].job = j

\* Handler h has a message of job j and has not written its status yet.
Applying(h, j) == (HandlerAt(h, "update") \/ HandlerAt(h, "updating")) /\ Msg(h).job = j

\* A handler inside UpdateJobStatus updates the job of its message.
HandlerCalls ==
    \A h \in Handlers :
        HandlerAt(h, "updating") =>
            call[h] # Idle /\ call[h].op = "update" /\ call[h].job = Msg(h).job

\* The last message of j on its way has the status sent last.
LatestComes(j) ==
    \A i \in 1..Len(bus) :
        bus[i].job = j /\ (\A k \in (i + 1)..Len(bus) : bus[k].job # j) =>
            bus[i].status = lastSent[j]

\* When none is on its way, the message a handler is about to apply has it.
LatestApplied(j) ==
    ~Coming(j) => \A h \in Handlers : Applying(h, j) => Msg(h).status = lastSent[j]

\* The store has it, and so has every copy that a handler may still add back.
Shown(j) ==
    /\ jobs[j] # Absent => jobs[j].status = lastSent[j]
    /\ \A h \in Handlers : Rewriting(h) /\ call[h].job = j => call[h].copy.status = lastSent[j]

\* When none is to be applied either, it is shown.
LatestStored(j) == ~Coming(j) /\ (\A h \in Handlers : ~Applying(h, j)) => Shown(j)

\* Where the status that was sent last is.
LatestKept ==
    \A j \in Jobs : lastSent[j] # Absent =>
        submitted[j] # 0 /\ LatestComes(j) /\ LatestApplied(j) /\ LatestStored(j)

\* Steps beside the messages and their handlers keep it when they at most remove
\* jobs that were reported on.
LEMMA StepsBesideMessages ==
    ASSUME LatestKept, UNCHANGED <<bus, handler, lastSent>>,
           \A h \in Handlers : call'[h] = call[h],
           \A j \in Jobs : submitted[j] # 0 => submitted'[j] # 0 /\ jobs'[j] \in {jobs[j], Absent}
    PROVE  LatestKept'
<1> SUFFICES ASSUME NEW j \in Jobs, lastSent'[j] # Absent
             PROVE  /\ submitted'[j] # 0
                    /\ LatestComes(j)' /\ LatestApplied(j)' /\ LatestStored(j)'
  BY DEF LatestKept
<1>1. submitted[j] # 0 /\ LatestComes(j) /\ LatestApplied(j) /\ LatestStored(j)
  BY DEF LatestKept
<1>2. LatestComes(j)' /\ LatestApplied(j)'
  BY <1>1 DEF LatestComes, LatestApplied, Coming, Applying, HandlerAt, Msg
<1>3. LatestStored(j)'
  BY <1>1 DEF LatestStored, Shown, Coming, Applying, HandlerAt, Msg, Rewriting
<1> QED
  BY <1>1, <1>2, <1>3

\* A worker's message becomes the last one.
LEMMA SendKeeps ==
    ASSUME PipelineInv, LatestKept, NEW j \in Jobs, NEW status, NEW startedAt, NEW endedAt,
           submitted[j] # 0, Send(j, status, startedAt, endedAt), UNCHANGED <<storeVars, handler>>
    PROVE  LatestKept'
<1> DEFINE m == [job |-> j, status |-> status, startedAt |-> startedAt, endedAt |-> endedAt]
<1>1. CASE UNCHANGED <<bus, lastSent>>
  BY <1>1, StepsBesideMessages DEF storeVars
<1>2. CASE bus' = Append(bus, m) /\ lastSent' = [lastSent EXCEPT ![j] = status]
  <2>0. m.job = j /\ m.status = status
    OBVIOUS
  <2>1. /\ Len(bus') = Len(bus) + 1 /\ Len(bus) \in Nat
        /\ bus'[Len(bus) + 1] = m
        /\ \A i \in 1..Len(bus) : bus'[i] = bus[i]
    BY <1>2 DEF PipelineInv, PipelineTypeOK
  <2> HIDE DEF m
  <2> SUFFICES ASSUME NEW k \in Jobs, lastSent'[k] # Absent
               PROVE  /\ submitted'[k] # 0
                      /\ LatestComes(k)' /\ LatestApplied(k)' /\ LatestStored(k)'
    BY DEF LatestKept
  <2>2. CASE k = j
    <3>1. Coming(k)'
      BY <2>0, <2>1, <2>2 DEF Coming
    <3>2. LatestComes(k)'
      <4> SUFFICES ASSUME NEW i \in 1..Len(bus'), bus'[i].job = j,
                          \A l \in (i + 1)..Len(bus') : bus'[l].job # j
                   PROVE  bus'[i].status = lastSent'[j]
        BY <2>2 DEF LatestComes
      <4>1. i = Len(bus) + 1
        BY <2>0, <2>1
      <4> QED
        BY <1>2, <2>0, <2>1, <4>1 DEF PipelineInv, PipelineTypeOK
    <3> QED
      BY <2>2, <3>1, <3>2 DEF LatestApplied, LatestStored, storeVars
  <2>3. CASE k # j
    <3>1. lastSent'[k] = lastSent[k]
      BY <1>2, <2>3 DEF PipelineInv, PipelineTypeOK
    <3>2. submitted[k] # 0 /\ LatestComes(k) /\ LatestApplied(k) /\ LatestStored(k)
      BY <3>1 DEF LatestKept
    <3>3. Coming(k)' <=> Coming(k)
      BY <2>0, <2>1, <2>3 DEF Coming
    <3>4. LatestComes(k)'
      <4> SUFFICES ASSUME NEW i \in 1..Len(bus'), bus'[i].job = k,
                          \A l \in (i + 1)..Len(bus') : bus'[l].job # k
                   PROVE  bus'[i].status = lastSent'[k]
        BY DEF LatestComes
      <4>1. i \in 1..Len(bus) /\ bus'[i] = bus[i]
        BY <2>0, <2>1, <2>3
      <4>2. \A l \in (i + 1)..Len(bus) : bus[l].job # k
        BY <2>1, <4>1
      <4> QED
        BY <3>1, <3>2, <4>1, <4>2 DEF LatestComes
    <3>5. LatestApplied(k)' /\ LatestStored(k)'
      BY <3>1, <3>2, <3>3
      DEF LatestApplied, LatestStored, Shown, Applying, HandlerAt, Msg, Rewriting, storeVars
    <3> QED
      BY <3>2, <3>4, <3>5 DEF storeVars
  <2> QED
    BY <2>2, <2>3
<1> QED
  BY <1>1, <1>2 DEF Send

\* The oldest message goes to the handler: with no other at work, what it carries
\* is the latest unless a later one is still on its way.
LEMMA DeliverKeeps ==
    ASSUME PipelineInv, LatestKept, NEW h \in Handlers, \A g \in Handlers : g = h, Deliver(h)
    PROVE  LatestKept'
<1>1. /\ Len(bus) \in Nat \ {0} /\ Len(bus') = Len(bus) - 1
      /\ Head(bus) = bus[1] /\ bus[1] \in Message
      /\ \A i \in 1..Len(bus') : bus'[i] = bus[i + 1]
  BY DEF Deliver, PipelineInv, PipelineTypeOK
<1>2. /\ handler[h] = Idle
      /\ handler'[h] = [pc |-> "update", msg |-> bus[1]]
      /\ handler'[h] # Idle
  <2>1. [pc |-> "update", msg |-> bus[1]] \in Handler
    BY <1>1 DEF Handler
  <2> QED
    BY <1>1, <2>1 DEF Deliver, PipelineInv, PipelineTypeOK
<1>3. UNCHANGED <<jobs, call, submitted, lastSent>>
  BY DEF Deliver, storeVars, workerVars
<1> SUFFICES ASSUME NEW j \in Jobs, lastSent[j] # Absent
             PROVE  /\ submitted'[j] # 0
                    /\ LatestComes(j)' /\ LatestApplied(j)' /\ LatestStored(j)'
  BY <1>3 DEF LatestKept
<1>4. submitted[j] # 0 /\ LatestComes(j) /\ LatestApplied(j) /\ LatestStored(j)
  BY DEF LatestKept
<1>5. LatestComes(j)'
  <2> SUFFICES ASSUME NEW i \in 1..Len(bus'), bus'[i].job = j,
                      \A l \in (i + 1)..Len(bus') : bus'[l].job # j
               PROVE  bus'[i].status = lastSent[j]
    BY <1>3 DEF LatestComes
  <2>1. i + 1 \in 1..Len(bus) /\ bus[i + 1].job = j
    BY <1>1
  <2>2. ASSUME NEW l \in ((i + 1) + 1)..Len(bus) PROVE bus[l].job # j
    <3>1. l - 1 \in (i + 1)..Len(bus') /\ l - 1 \in 1..Len(bus') /\ (l - 1) + 1 = l
      BY <1>1
    <3> QED
      BY <1>1, <3>1
  <2> QED
    BY <1>1, <1>4, <2>1, <2>2 DEF LatestComes
<1>6. Applying(h, j)' <=> bus[1].job = j
  BY <1>2 DEF Applying, HandlerAt, Msg
<1>7. \A g \in Handlers : ~Applying(g, j)
  BY <1>2 DEF Applying, HandlerAt
<1>8. ~Coming(j)' => \A i \in 2..Len(bus) : bus[i].job # j
  <2> SUFFICES ASSUME ~Coming(j)', NEW i \in 2..Len(bus) PROVE bus[i].job # j
    OBVIOUS
  <2>1. i - 1 \in 1..Len(bus') /\ (i - 1) + 1 = i
    BY <1>1
  <2> QED
    BY <1>1, <2>1 DEF Coming
<1>9. LatestApplied(j)'
  <2> SUFFICES ASSUME ~Coming(j)', Applying(h, j)' PROVE handler'[h].msg.status = lastSent[j]
    BY <1>3 DEF LatestApplied, Msg
  <2>1. 1 \in 1..Len(bus) /\ bus[1].job = j /\ \A l \in (1 + 1)..Len(bus) : bus[l].job # j
    BY <1>1, <1>6, <1>8
  <2>2. bus[1].status = lastSent[j]
    BY <1>4, <2>1 DEF LatestComes
  <2> QED
    BY <1>2, <2>2
<1>10. LatestStored(j)'
  <2> SUFFICES ASSUME ~Coming(j)', ~Applying(h, j)'
               PROVE  Shown(j)
    BY <1>3 DEF LatestStored, Shown, Rewriting
  <2>1. ~Coming(j)
    BY <1>1, <1>6, <1>8 DEF Coming
  <2> QED
    BY <1>4, <1>7, <2>1 DEF LatestStored
<1> QED
  BY <1>3, <1>4, <1>5, <1>9, <1>10

\* The steps of a handler before and after which it applies nothing have only to
\* keep what is shown.
LEMMA AppliedKeeps ==
    ASSUME LatestKept, UNCHANGED <<bus, lastSent>>, NEW h \in Handlers, \A g \in Handlers : g = h,
           \A j \in Jobs : ~Applying(h, j) /\ ~Applying(h, j)',
           \A j \in Jobs : submitted[j] # 0 => submitted'[j] # 0,
           \A j \in Jobs : Shown(j) => Shown(j)'
    PROVE  LatestKept'
<1> SUFFICES ASSUME NEW j \in Jobs, lastSent[j] # Absent
             PROVE  /\ submitted'[j] # 0
                    /\ LatestComes(j)' /\ LatestApplied(j)' /\ LatestStored(j)'
  BY DEF LatestKept
<1>1. submitted[j] # 0 /\ LatestComes(j) /\ LatestApplied(j) /\ LatestStored(j)
  BY DEF LatestKept
<1>2. LatestComes(j)'
  BY <1>1 DEF LatestComes
<1>3. LatestApplied(j)'
  <2>1. \A g \in Handlers : ~Applying(g, j)'
    OBVIOUS
  <2> QED
    BY <2>1 DEF LatestApplied
<1>4. LatestStored(j)'
  <2>1. Coming(j)' <=> Coming(j)
    BY DEF Coming
  <2> QED
    BY <1>1, <2>1 DEF LatestStored
<1> QED
  BY <1>1, <1>2, <1>3, <1>4

\* Every step of the only handler keeps the latest status where it is, or moves it on.
LEMMA HandlerKeepsLatest ==
    ASSUME PipelineInv, HandlerCalls, LatestKept,
           NEW h \in Handlers, \A g \in Handlers : g = h, HandlerStep(h)
    PROVE  LatestKept'
<1>0. /\ UNCHANGED <<bus, lastSent>>
      /\ handler[h] \in Handler
      /\ h \in Threads
  BY HandlerStepShape DEF natsVars, workerVars
<1>1. Msg(h) \in Message /\ Msg(h).job \in Jobs /\ Msg(h).status \in Status
  BY <1>0 DEF Msg, Handler, Message, Status
<1>m. \A j \in Jobs : submitted[j] # 0 => submitted'[j] # 0
  <2>1. [StoreNext]_storeVars
    BY PipelineStepIsStoreStep DEF PipelineNext
  <2> QED
    BY <2>1, StoreMonotone DEF PipelineInv
<1>g. ASSUME NEW pc \in {"updating", "get", "started", "ended", "return"}, HandlerGoto(h, pc)
      PROVE  handler'[h] = [pc |-> pc, msg |-> Msg(h)] /\ handler'[h] # Idle
  <2>1. [handler[h] EXCEPT !.pc = pc] = [pc |-> pc, msg |-> Msg(h)]
    BY <1>0 DEF Handler, Msg
  <2>2. [pc |-> pc, msg |-> Msg(h)] \in Handler
    BY <1>1 DEF Handler
  <2> QED
    BY <1>g, <2>1, <2>2 DEF HandlerGoto, PipelineInv, PipelineTypeOK
<1>r. ASSUME Return(h) PROVE \A j \in Jobs : ~Applying(h, j)'
  BY <1>r DEF Return, Applying, HandlerAt, PipelineInv, PipelineTypeOK
<1>2. CASE HandlerLoad(h)
  <2>0. HandlerAt(h, "update")
    BY <1>2 DEF HandlerLoad
  <2>1. CASE UpdateLoad(h, Msg(h).job) /\ HandlerGoto(h, "updating")
    <3>1. handler'[h] = [pc |-> "updating", msg |-> Msg(h)] /\ handler'[h] # Idle
      BY <1>g, <2>1
    <3>2. \A j \in Jobs : Applying(h, j)' <=> Applying(h, j)
      BY <2>0, <3>1 DEF Applying, HandlerAt, Msg
    <3>3. handler'[h].msg = Msg(h)
      BY <3>1
    <3>4. jobs' = jobs /\ call'[h] # Idle /\ call'[h].op = "update"
      <4>1. call' = [call EXCEPT ![h] = [op |-> "update", job |-> Msg(h).job,
                                         copy |-> jobs[Msg(h).job]]]
        BY <2>1 DEF UpdateLoad
      <4>2. [op |-> "update", job |-> Msg(h).job, copy |-> jobs[Msg(h).job]] \in Call
        BY <1>1, <2>1 DEF UpdateLoad, Call, PipelineInv, StoreTypeOK
      <4>3. call'[h] = [op |-> "update", job |-> Msg(h).job, copy |-> jobs[Msg(h).job]]
        BY <1>0, <4>1 DEF PipelineInv, StoreTypeOK
      <4> QED
        BY <2>1, <4>2, <4>3 DEF UpdateLoad
    <3> SUFFICES ASSUME NEW j \in Jobs, lastSent[j] # Absent
                 PROVE  /\ submitted'[j] # 0
                        /\ LatestComes(j)' /\ LatestApplied(j)' /\ LatestStored(j)'
      BY <1>0 DEF LatestKept
    <3>5. submitted[j] # 0 /\ LatestComes(j) /\ LatestApplied(j) /\ LatestStored(j)
      BY DEF LatestKept
    <3>6. Coming(j)' <=> Coming(j)
      BY <1>0 DEF Coming
    <3>7. LatestComes(j)'
      BY <1>0, <3>5 DEF LatestComes
    <3>8. LatestApplied(j)'
      BY <1>0, <3>2, <3>3, <3>5, <3>6 DEF LatestApplied, Msg
    <3>9. LatestStored(j)'
      BY <1>0, <3>2, <3>4, <3>5, <3>6 DEF LatestStored, Shown, Rewriting
    <3> QED
      BY <1>m, <3>5, <3>7, <3>8, <3>9
  <2>2. CASE UpdateNotFound(h, Msg(h).job) /\ Return(h)
    <3>1. UNCHANGED <<jobs, call, submitted>> /\ call[h] = Idle /\ jobs[Msg(h).job] = Absent
      BY <2>2 DEF UpdateNotFound, storeVars
    <3> SUFFICES ASSUME NEW j \in Jobs, lastSent[j] # Absent
                 PROVE  /\ submitted'[j] # 0
                        /\ LatestComes(j)' /\ LatestApplied(j)' /\ LatestStored(j)'
      BY <1>0 DEF LatestKept
    <3>2. submitted[j] # 0 /\ LatestComes(j) /\ LatestApplied(j) /\ LatestStored(j)
      BY DEF LatestKept
    <3>3. LatestComes(j)'
      BY <1>0, <3>2 DEF LatestComes
    <3>4. LatestApplied(j)'
      BY <1>r, <2>2 DEF LatestApplied
    <3>5. ~Coming(j) => Shown(j)
      BY <2>0, <3>1, <3>2 DEF LatestStored, Shown, Applying, Rewriting
    <3>6. LatestStored(j)'
      BY <1>0, <3>1, <3>5 DEF LatestStored, Shown, Coming, Rewriting
    <3> QED
      BY <3>1, <3>2, <3>3, <3>4, <3>6
  <2> QED
    BY <1>2, <2>1, <2>2 DEF HandlerLoad
<1>3. CASE HandlerStore(h)
  <2>1. /\ HandlerAt(h, "updating") /\ UpdateStore(h, Msg(h).status)
        /\ handler'[h] = [pc |-> "get", msg |-> Msg(h)] /\ handler'[h] # Idle
    BY <1>3, <1>g DEF HandlerStore
  <2>2. call[h] \in Call /\ call[h].job = Msg(h).job
    BY <1>0, <2>1 DEF HandlerCalls, PipelineInv, StoreTypeOK
  <2>3. Updated(call[h].copy, Msg(h).status, now).status = Msg(h).status
    BY <1>1, <2>2, UpdatedType DEF Call, PipelineInv, StoreTypeOK
  <2>4. /\ jobs' = [jobs EXCEPT ![Msg(h).job] = Updated(call[h].copy, Msg(h).status, now)]
        /\ call'[h] = Idle
    BY <1>0, <2>1, <2>2 DEF UpdateStore, Store, PipelineInv, StoreTypeOK
  <2> SUFFICES ASSUME NEW j \in Jobs, lastSent[j] # Absent
               PROVE  /\ submitted'[j] # 0
                      /\ LatestComes(j)' /\ LatestApplied(j)' /\ LatestStored(j)'
    BY <1>0 DEF LatestKept
  <2>5. submitted[j] # 0 /\ LatestComes(j) /\ LatestApplied(j) /\ LatestStored(j)
    BY DEF LatestKept
  <2>6. LatestComes(j)' /\ (Coming(j)' <=> Coming(j))
    BY <1>0, <2>5 DEF LatestComes, Coming
  <2>7. \A g \in Handlers : ~Applying(g, j)'
    BY <2>1 DEF Applying, HandlerAt
  <2>8. ~Coming(j) => Shown(j)'
    <3>1. CASE j = Msg(h).job
      <4>1. Applying(h, j)
        BY <2>1, <3>1 DEF Applying
      <4>2. ~Coming(j) => Msg(h).status = lastSent[j]
        BY <2>5, <4>1 DEF LatestApplied
      <4>3. jobs'[j].status = Msg(h).status
        BY <2>3, <2>4, <3>1 DEF PipelineInv, StoreTypeOK
      <4> QED
        BY <1>0, <2>4, <4>2, <4>3 DEF Shown, Rewriting
    <3>2. CASE j # Msg(h).job
      <4>1. jobs'[j] = jobs[j]
        BY <2>4, <3>2 DEF PipelineInv, StoreTypeOK
      <4>2. ~Coming(j) => Shown(j)
        BY <2>5, <3>2 DEF LatestStored, Applying
      <4> QED
        BY <1>0, <2>4, <4>1, <4>2 DEF Shown, Rewriting
    <3> QED
      BY <3>1, <3>2
  <2> QED
    BY <1>m, <2>5, <2>6, <2>7, <2>8 DEF LatestApplied, LatestStored
<1>4. CASE HandlerGet(h)
  <2>1. \A j \in Jobs : ~Applying(h, j) /\ ~Applying(h, j)'
    <3>1. \A j \in Jobs : ~Applying(h, j)
      BY <1>4 DEF HandlerGet, HandlerAt, Applying
    <3>2. Return(h) \/ HandlerGoto(h, "started")
      BY <1>4 DEF HandlerGet
    <3>3. HandlerGoto(h, "started") => \A j \in Jobs : ~Applying(h, j)'
      BY <1>g DEF Applying, HandlerAt
    <3> QED
      BY <1>r, <3>1, <3>2, <3>3
  <2>2. CASE GetJob(h, Msg(h).job)
    <3>1. /\ jobs' = jobs /\ jobs[Msg(h).job] # Absent
          /\ call'[h] = [op |-> "rewrite", job |-> Msg(h).job, copy |-> jobs[Msg(h).job]]
      BY <1>0, <2>2 DEF GetJob, PipelineInv, StoreTypeOK
    <3>2. \A j \in Jobs : Shown(j) => Shown(j)'
      BY <1>0, <3>1 DEF Shown, Rewriting
    <3> QED
      BY <1>0, <1>m, <2>1, <3>2, AppliedKeeps
  <2>3. CASE UNCHANGED storeVars
    <3>1. \A j \in Jobs : Shown(j) => Shown(j)'
      BY <1>0, <2>3 DEF Shown, Rewriting, storeVars
    <3> QED
      BY <1>0, <1>m, <2>1, <3>1, AppliedKeeps
  <2> QED
    BY <1>4, <2>2, <2>3 DEF HandlerGet
<1>5. CASE HandlerStarted(h) \/ HandlerEnded(h) \/ HandlerReturns(h)
  <2>1. \A j \in Jobs : ~Applying(h, j) /\ ~Applying(h, j)'
    <3>1. \A j \in Jobs : ~Applying(h, j)
      BY <1>5 DEF HandlerStarted, HandlerEnded, HandlerReturns, HandlerAt, Applying
    <3>2. Return(h) \/ HandlerGoto(h, "ended") \/ HandlerGoto(h, "return")
      BY <1>5 DEF HandlerStarted, HandlerEnded, HandlerReturns
    <3>3. HandlerGoto(h, "ended") => \A j \in Jobs : ~Applying(h, j)'
      BY <1>g DEF Applying, HandlerAt
    <3>4. HandlerGoto(h, "return") => \A j \in Jobs : ~Applying(h, j)'
      BY <1>g DEF Applying, HandlerAt
    <3> QED
      BY <1>r, <3>1, <3>2, <3>3, <3>4
  <2>2. \A j \in Jobs : Shown(j) => Shown(j)'
    <3>1. CASE UNCHANGED storeVars
      BY <1>0, <3>1 DEF Shown, Rewriting, storeVars
    <3>2. CASE FinishRewrite(h)
      <4>1. jobs' = jobs /\ call'[h] = Idle
        BY <1>0, <3>2 DEF FinishRewrite, PipelineInv, StoreTypeOK
      <4> QED
        BY <1>0, <4>1 DEF Shown, Rewriting
    <3>3. ASSUME NEW time \in 1..now, ReAddStarted(h, time) \/ ReAddCompleted(h, time)
          PROVE  \A j \in Jobs : Shown(j) => Shown(j)'
      <4>1. PICK rec \in JobInfo :
                /\ rec = [call[h].copy EXCEPT !.startedAt = time]
                   \/ rec = [call[h].copy EXCEPT !.completedAt = time]
                /\ call[h] \in Call /\ call[h].op = "rewrite"
                /\ Store(call[h].job, rec)
                /\ call' = [call EXCEPT ![h].copy = rec]
        BY <1>0, <3>3, ReAddOfCopy DEF PipelineInv
      <4>2. rec.status = call[h].copy.status
        BY <4>1 DEF Call, JobInfo
      <4>3. Rewriting(h)
        BY <4>1 DEF Rewriting
      <4>4. /\ jobs' = [jobs EXCEPT ![call[h].job] = rec]
            /\ call'[h].job = call[h].job /\ call'[h].copy = rec
        BY <1>0, <4>1 DEF Store, PipelineInv, StoreTypeOK, Call
      <4> QED
        BY <1>0, <4>1, <4>2, <4>3, <4>4 DEF Shown, PipelineInv, StoreTypeOK, Call
    <3>4. \/ UNCHANGED storeVars \/ FinishRewrite(h)
          \/ \E time \in 1..now : ReAddStarted(h, time) \/ ReAddCompleted(h, time)
      <4>1. /\ Msg(h).startedAt # 0 => Msg(h).startedAt \in 1..now
            /\ Msg(h).endedAt # 0 => Msg(h).endedAt \in 1..now
        BY <1>0, <1>1 DEF PipelineInv, TimesPast, Message, StoreTypeOK, Time
      <4> QED
        BY <1>5, <4>1 DEF HandlerStarted, HandlerEnded, HandlerReturns
    <3> QED
      BY <3>1, <3>2, <3>3, <3>4
  <2> QED
    BY <1>0, <1>m, <2>1, <2>2, AppliedKeeps
<1> QED
  BY <1>2, <1>3, <1>4, <1>5 DEF HandlerStep

\* What the others do to the store while nothing is cancelled: they leave the calls
\* of the handlers alone, and of a job that was added they can only remove it.
LEMMA OthersBeside ==
    ASSUME PipelineInv,
           \/ Background \/ StartupStep \/ UNCHANGED pipelineVars
           \/ \E r \in Requests : \/ RequestStep(r) /\ ~CancelStore(r)
                                  \/ \E j \in Jobs : SubmitJob(r, j) \/ CancelJob(r, j)
    PROVE  /\ UNCHANGED <<bus, handler, lastSent>>
           /\ \A h \in Handlers : call'[h] = call[h]
           /\ \A j \in Jobs : submitted[j] # 0 => submitted'[j] # 0 /\ jobs'[j] \in {jobs[j], Absent}
<1>1. CASE Background
  <2>1. Removal
    BY <1>1, RemovalSteps DEF Background, PipelineInv
  <2> QED
    BY <1>1, <2>1 DEF Background, natsVars, workerVars, Removal, PipelineInv, StoreTypeOK
<1>2. CASE StartupStep \/ UNCHANGED pipelineVars
  BY <1>2 DEF StartupStep, pipelineVars, storeVars, natsVars, workerVars
<1>3. ASSUME NEW r \in Requests, NEW j \in Jobs, SubmitJob(r, j)
      PROVE  /\ UNCHANGED <<bus, handler, lastSent, call>>
             /\ \A k \in Jobs : submitted[k] # 0 =>
                    submitted'[k] # 0 /\ jobs'[k] \in {jobs[k], Absent}
  <2>1. PICK time \in 1..now : AddNewJob(r, j, NewJob(time))
    BY <1>3 DEF SubmitJob
  <2>2. /\ submitted[j] = 0 /\ call' = call
        /\ jobs' = [jobs EXCEPT ![j] = Filled(NewJob(time))]
        /\ \A k \in Jobs \ {j} : submitted'[k] = submitted[k]
    BY <2>1 DEF AddNewJob, AddJob, Store, PipelineInv, StoreTypeOK
  <2> QED
    BY <1>3, <2>2 DEF SubmitJob, natsVars, workerVars, PipelineInv, StoreTypeOK
<1>4. ASSUME NEW r \in Requests, NEW j \in Jobs, CancelJob(r, j)
      PROVE  UNCHANGED <<bus, handler, lastSent, call, submitted, jobs>>
  BY <1>4 DEF CancelJob, storeVars, natsVars, workerVars
<1>5. ASSUME NEW r \in Requests, RequestStep(r), ~CancelStore(r)
      PROVE  /\ UNCHANGED <<bus, handler, lastSent, submitted, jobs>>
             /\ \A h \in Handlers : call'[h] = call[h]
  <2>1. UNCHANGED <<bus, handler, lastSent>>
    BY <1>5, RequestStepShape DEF workerVars
  <2>2. CASE CancelLoad(r)
    <3>1. UpdateLoad(r, JobOf(r)) \/ UNCHANGED storeVars
      BY <2>2 DEF CancelLoad, UpdateNotFound
    <3> QED
      BY <2>1, <3>1 DEF UpdateLoad, storeVars, PipelineInv, StoreTypeOK
  <2>3. CASE UNCHANGED storeVars
    BY <2>1, <2>3 DEF storeVars
  <2> QED
    BY <1>5, <2>2, <2>3 DEF RequestStep, SubmitUnpublished, StreamStores, StreamAcks,
                            PublishFails, CancelNotify
<1> QED
  BY <1>1, <1>2, <1>3, <1>4, <1>5

\* A step that carries out no cancellation.
NextUncancelled == PipelineNext /\ \A r \in Requests : ~CancelStore(r)

\* A handler has in UpdateJobStatus the job of its message.
LEMMA HandlerCallsStep ==
    PipelineInv /\ HandlerCalls /\ [NextUncancelled]_pipelineVars => HandlerCalls'
<1> SUFFICES ASSUME PipelineInv, HandlerCalls, [NextUncancelled]_pipelineVars PROVE HandlerCalls'
  OBVIOUS
<1>1. ASSUME UNCHANGED handler, \A h \in Handlers : call'[h] = call[h] PROVE HandlerCalls'
  BY <1>1 DEF HandlerCalls, HandlerAt, Msg
<1>2. ASSUME NEW h \in Handlers, Deliver(h) PROVE HandlerCalls'
  <2>1. [pc |-> "update", msg |-> Head(bus)].pc # "updating"
    OBVIOUS
  <2> QED
    BY <1>2, <2>1 DEF Deliver, HandlerCalls, HandlerAt, Msg, storeVars, PipelineInv, PipelineTypeOK
<1>3. ASSUME NEW h \in Handlers, HandlerStep(h) PROVE HandlerCalls'
  <2>1. h \in Threads /\ handler[h] \in Handler
    BY <1>3, HandlerStepShape
  <2>2. \A g \in Handlers \ {h} : call'[g] = call[g] /\ handler'[g] = handler[g]
    <3>1. \A g \in Handlers \ {h} : handler'[g] = handler[g]
      BY <1>3, HandlerStepShape DEF PipelineInv, PipelineTypeOK
    <3>2. \A g \in Handlers \ {h} : call'[g] = call[g]
      BY <1>3 DEF HandlerStep, HandlerLoad, HandlerStore, HandlerGet, HandlerStarted, HandlerEnded,
                  HandlerReturns, UpdateLoad, UpdateNotFound, UpdateStore, GetJob, ReAddStarted,
                  ReAddCompleted, ReAdd, FinishRewrite, storeVars, PipelineInv, StoreTypeOK
    <3> QED
      BY <3>1, <3>2
  <2>3. HandlerAt(h, "updating")' =>
            call'[h] # Idle /\ call'[h].op = "update" /\ call'[h].job = handler'[h].msg.job
    <3>1. CASE HandlerLoad(h)
      <4>1. CASE UpdateLoad(h, Msg(h).job) /\ HandlerGoto(h, "updating")
        <5>1. Msg(h).job \in Jobs
          BY <2>1 DEF Msg, Handler, Message
        <5>2. call'[h] = [op |-> "update", job |-> Msg(h).job, copy |-> jobs[Msg(h).job]]
          BY <2>1, <4>1 DEF UpdateLoad, PipelineInv, StoreTypeOK
        <5>3. [op |-> "update", job |-> Msg(h).job, copy |-> jobs[Msg(h).job]] \in Call
          BY <4>1, <5>1 DEF UpdateLoad, Call, PipelineInv, StoreTypeOK
        <5>4. handler'[h].msg = Msg(h)
          BY <2>1, <4>1 DEF HandlerGoto, Msg, Handler, PipelineInv, PipelineTypeOK
        <5> QED
          BY <5>2, <5>3, <5>4
      <4>2. CASE Return(h)
        BY <4>2 DEF Return, HandlerAt, PipelineInv, PipelineTypeOK
      <4> QED
        BY <3>1, <4>1, <4>2 DEF HandlerLoad
    <3>2. CASE ~HandlerLoad(h)
      <4>1. Return(h) \/ \E pc \in {"get", "started", "ended", "return"} : HandlerGoto(h, pc)
        BY <1>3, <3>2 DEF HandlerStep, HandlerStore, HandlerGet, HandlerStarted, HandlerEnded,
                          HandlerReturns
      <4> QED
        BY <2>1, <4>1 DEF Return, HandlerGoto, HandlerAt, Handler, PipelineInv, PipelineTypeOK
    <3> QED
      BY <3>1, <3>2
  <2> QED
    BY <2>2, <2>3 DEF HandlerCalls, HandlerAt, Msg
<1>4. CASE LoseMessage \/ \E j \in Jobs : \/ WorkerStarts(j)
                                         \/ \E status \in Terminal : WorkerEnds(j, status)
  BY <1>1, <1>4 DEF LoseMessage, WorkerStarts, WorkerEnds, storeVars
<1>5. CASE \/ Background \/ StartupStep \/ UNCHANGED pipelineVars
           \/ \E r \in Requests : \/ RequestStep(r) /\ ~CancelStore(r)
                                  \/ \E j \in Jobs : SubmitJob(r, j) \/ CancelJob(r, j)
  BY <1>1, <1>5, OthersBeside
<1> QED
  BY <1>2, <1>3, <1>4, <1>5 DEF NextUncancelled, PipelineNext

\* With one handler and no loss, every uncancelled step keeps the latest status.
LEMMA LatestStep ==
    ASSUME \A g, h \in Handlers : g = h, ~Lossy
    PROVE  PipelineInv /\ KnownJobs /\ HandlerCalls /\ LatestKept /\ [NextUncancelled]_pipelineVars
               => LatestKept'
<1> SUFFICES ASSUME PipelineInv, KnownJobs, HandlerCalls, LatestKept,
                    [NextUncancelled]_pipelineVars
             PROVE  LatestKept'
  OBVIOUS
<1>1. ASSUME NEW j \in Jobs, \/ WorkerStarts(j) \/ \E status \in Terminal : WorkerEnds(j, status)
      PROVE  LatestKept'
  <2>1. submitted[j] # 0
    BY <1>1 DEF WorkerStarts, WorkerEnds, KnownJobs
  <2>2. UNCHANGED <<storeVars, handler>>
    BY <1>1 DEF WorkerStarts, WorkerEnds
  <2>3. \E status, startedAt, endedAt : Send(j, status, startedAt, endedAt)
    BY <1>1 DEF WorkerStarts, WorkerEnds
  <2> QED
    BY <2>1, <2>2, <2>3, SendKeeps
<1>2. ASSUME NEW h \in Handlers, Deliver(h) PROVE LatestKept'
  BY <1>2, DeliverKeeps
<1>3. ASSUME NEW h \in Handlers, HandlerStep(h) PROVE LatestKept'
  BY <1>3, HandlerKeepsLatest
<1>4. CASE \/ Background \/ StartupStep \/ UNCHANGED pipelineVars
           \/ \E r \in Requests : \/ RequestStep(r) /\ ~CancelStore(r)
                                  \/ \E j \in Jobs : SubmitJob(r, j) \/ CancelJob(r, j)
  BY <1>4, OthersBeside, StepsBesideMessages
<1>5. ~LoseMessage
  BY DEF LoseMessage
<1> QED
  BY <1>1, <1>2, <1>3, <1>4, <1>5 DEF NextUncancelled, PipelineNext

\* Were the messages handled one at a time, the store would show the status that
\* each job's worker sent last, as long as none is lost and nothing is cancelled,
\* whatever the cleanup, the clock and the other requests do: the goroutine that
\* nats.go:228 starts per message is the cause of what the run status_order finds.
THEOREM SequentialHandlersShowLatest ==
    ASSUME \A g, h \in Handlers : g = h, ~Lossy
    PROVE  PipelineSpec /\ [][\A r \in Requests : ~CancelStore(r)]_pipelineVars
               => []LatestStatusShown
<1>1. PipelineInit => HandlerCalls /\ LatestKept
  BY DEF PipelineInit, HandlerCalls, LatestKept, HandlerAt
<1>2. [PipelineNext]_pipelineVars /\ [\A r \in Requests : ~CancelStore(r)]_pipelineVars
          => [NextUncancelled]_pipelineVars
  BY DEF NextUncancelled
<1>3. HandlerCalls /\ LatestKept => LatestStatusShown
  <2> SUFFICES ASSUME LatestKept, bus = <<>>, \A h \in Handlers : handler[h] = Idle,
                      NEW j \in Present, lastSent[j] # Absent
               PROVE  jobs[j].status = lastSent[j]
    BY DEF LatestStatusShown
  <2>1. j \in Jobs /\ jobs[j] # Absent
    BY DEF Present
  <2>2. ~Coming(j) /\ \A h \in Handlers : ~Applying(h, j)
    BY DEF Coming, Applying, HandlerAt
  <2> QED
    BY <2>1, <2>2 DEF LatestKept, LatestStored, Shown
<1> QED
  BY <1>1, <1>2, <1>3, HandlerCallsStep, LatestStep, PipelineInvariant, KnownJobsInvariant, PTL
  DEF PipelineSpec

-----------------------------------------------------------------------------
(* Re-adding a job.                                                        *)

\* While a handler has a copy of a job, that job is neither cancelled nor removed.
RewritesUndisturbed ==
    \A h \in Handlers : Rewriting(h) =>
        /\ \A r \in Requests : CancelStore(r) => call[r].job # call[h].job
        /\ ~DeleteNext(call[h].job)

\* The copy that a handler adds back has the status that is in the store.
CopiesAgree ==
    \A h \in Handlers : Rewriting(h) =>
        /\ jobs[call[h].job] # Absent
        /\ jobs[call[h].job].status = call[h].copy.status

\* Steps that leave the calls of the handlers and the jobs they rewrite alone.
LEMMA CopiesLeftAlone ==
    ASSUME CopiesAgree, \A h \in Handlers : call'[h] = call[h],
           \A h \in Handlers : Rewriting(h) => jobs'[call[h].job] = jobs[call[h].job]
    PROVE  CopiesAgree'
BY DEF CopiesAgree, Rewriting

\* What a re-add writes has the status of the handler's copy.
LEMMA ReAddsKeepStatus ==
    ASSUME PipelineInv, NEW h \in Handlers, HandlerStarted(h) \/ HandlerEnded(h)
    PROVE  \/ UNCHANGED storeVars
           \/ \E rec \in JobInfo :
                 /\ Rewriting(h) /\ call[h] \in Call
                 /\ rec.status = call[h].copy.status
                 /\ jobs' = [jobs EXCEPT ![call[h].job] = rec]
                 /\ call' = [call EXCEPT ![h].copy = rec]
<1>1. h \in Threads /\ handler[h] \in Handler
  BY HandlerStepShape DEF HandlerStep
<1>2. /\ Msg(h).startedAt # 0 => Msg(h).startedAt \in 1..now
      /\ Msg(h).endedAt # 0 => Msg(h).endedAt \in 1..now
  BY <1>1 DEF PipelineInv, TimesPast, Message, Msg, Handler, StoreTypeOK, Time
<1>3. ASSUME NEW time \in 1..now, ReAddStarted(h, time) \/ ReAddCompleted(h, time)
      PROVE  \E rec \in JobInfo :
                 /\ Rewriting(h) /\ call[h] \in Call
                 /\ rec.status = call[h].copy.status
                 /\ jobs' = [jobs EXCEPT ![call[h].job] = rec]
                 /\ call' = [call EXCEPT ![h].copy = rec]
  <2>1. PICK rec \in JobInfo :
            /\ rec = [call[h].copy EXCEPT !.startedAt = time]
               \/ rec = [call[h].copy EXCEPT !.completedAt = time]
            /\ call[h] \in Call /\ call[h].op = "rewrite"
            /\ Store(call[h].job, rec)
            /\ call' = [call EXCEPT ![h].copy = rec]
    BY <1>1, <1>3, ReAddOfCopy DEF PipelineInv
  <2>2. rec.status = call[h].copy.status
    BY <2>1 DEF Call, JobInfo
  <2> QED
    BY <2>1, <2>2 DEF Store, Rewriting
<1> QED
  BY <1>2, <1>3 DEF HandlerStarted, HandlerEnded

\* With one handler every step keeps the copies in agreement, as long as no job is
\* cancelled or removed while it is rewritten.
LEMMA CopiesAgreeStep ==
    ASSUME \A g, h \in Handlers : g = h
    PROVE  PipelineInv /\ SubmissionTimeKept /\ CopiesAgree /\ [PipelineNext]_pipelineVars
               /\ [RewritesUndisturbed]_pipelineVars => CopiesAgree'
<1> SUFFICES ASSUME PipelineInv, SubmissionTimeKept, CopiesAgree, [PipelineNext]_pipelineVars,
                    [RewritesUndisturbed]_pipelineVars
             PROVE  CopiesAgree'
  OBVIOUS
<1>0. \A h \in Handlers : Rewriting(h) => call[h] \in Call /\ call[h].job \in Jobs
  BY DEF Rewriting, Call, PipelineInv, StoreTypeOK
<1>1. CASE UNCHANGED <<jobs, call>>
  BY <1>1, CopiesLeftAlone
<1>2. CASE Background
  <2>1. CASE \E j \in Jobs : DeleteNext(j)
    <3>1. PICK j \in Jobs : DeleteNext(j)
      BY <2>1
    <3>2. call' = call /\ jobs' = [jobs EXCEPT ![j] = Absent] /\ jobsToDelete' # jobsToDelete
      BY <3>1 DEF DeleteNext, Delete
    <3>3. RewritesUndisturbed
      BY <3>2 DEF pipelineVars, storeVars, cleanerVars
    <3>4. \A h \in Handlers : Rewriting(h) => call[h].job # j
      BY <3>1, <3>3 DEF RewritesUndisturbed
    <3> QED
      BY <1>0, <3>2, <3>4, CopiesLeftAlone DEF PipelineInv, StoreTypeOK
  <2>2. CASE ~\E j \in Jobs : DeleteNext(j)
    <3>1. UNCHANGED <<jobs, call>>
      BY <1>2, <2>2 DEF Background, Tick, CleanerNext, StartPass, StartCount, EndCount, EndPass,
                        SortByTime, EndEvict, CollectExpired, CountNext, CollectAll, Past
    <3> QED
      BY <1>1, <3>1
  <2> QED
    BY <2>1, <2>2
<1>3. CASE StartupStep \/ LoseMessage \/ UNCHANGED pipelineVars
  BY <1>1, <1>3 DEF StartupStep, LoseMessage, pipelineVars, storeVars
<1>4. ASSUME NEW r \in Requests, NEW j \in Jobs, SubmitJob(r, j) PROVE CopiesAgree'
  <2>1. PICK time \in 1..now : AddNewJob(r, j, NewJob(time))
    BY <1>4 DEF SubmitJob
  <2>2. submitted[j] = 0 /\ call' = call /\ jobs' = [jobs EXCEPT ![j] = Filled(NewJob(time))]
    BY <2>1 DEF AddNewJob, AddJob, Store
  <2>3. \A h \in Handlers : Rewriting(h) => call[h].job # j
    <3>1. jobs[j] # Absent => jobs[j] \in JobInfo /\ jobs[j].submittedAt = 0
      BY <2>2 DEF SubmissionTimeKept, Present, PipelineInv, StoreTypeOK
    <3>2. jobs[j] = Absent
      BY <3>1 DEF JobInfo
    <3> QED
      BY <3>2 DEF CopiesAgree
  <2> QED
    BY <1>0, <2>2, <2>3, CopiesLeftAlone DEF PipelineInv, StoreTypeOK
<1>5. ASSUME NEW r \in Requests, RequestStep(r) PROVE CopiesAgree'
  <2>1. CASE CancelStore(r)
    <3>1. /\ call[r] \in Call /\ r \in Threads
          /\ jobs' = [jobs EXCEPT ![call[r].job] = Updated(call[r].copy, "cancelled", now)]
          /\ call' = [call EXCEPT ![r] = Idle]
      BY <2>1 DEF CancelStore, UpdateStore, Store, PipelineInv, StoreTypeOK
    <3>2. RewritesUndisturbed
      <4>1. call'[r] = Idle /\ call[r] # Idle
        BY <3>1 DEF PipelineInv, StoreTypeOK
      <4> QED
        BY <4>1 DEF pipelineVars, storeVars
    <3>3. \A h \in Handlers : Rewriting(h) => call[h].job # call[r].job
      BY <2>1, <3>2 DEF RewritesUndisturbed
    <3>4. \A h \in Handlers : call'[h] = call[h]
      BY <3>1 DEF PipelineInv, StoreTypeOK
    <3> QED
      BY <1>0, <3>1, <3>3, <3>4, CopiesLeftAlone DEF PipelineInv, StoreTypeOK
  <2>2. CASE ~CancelStore(r)
    <3>1. jobs' = jobs /\ \A h \in Handlers : call'[h] = call[h]
      <4>1. CASE CancelLoad(r)
        BY <4>1 DEF CancelLoad, UpdateLoad, UpdateNotFound, storeVars, PipelineInv, StoreTypeOK
      <4>2. CASE ~CancelLoad(r)
        BY <1>5, <2>2, <4>2 DEF RequestStep, SubmitUnpublished, StreamStores, StreamAcks,
                                PublishFails, CancelNotify, storeVars
      <4> QED
        BY <4>1, <4>2
    <3> QED
      BY <3>1, CopiesLeftAlone
  <2> QED
    BY <2>1, <2>2
<1>6. ASSUME NEW r \in Requests, NEW j \in Jobs, CancelJob(r, j) PROVE CopiesAgree'
  BY <1>1, <1>6 DEF CancelJob, storeVars
<1>7. ASSUME NEW j \in Jobs, WorkerStarts(j) \/ \E status \in Terminal : WorkerEnds(j, status)
      PROVE  CopiesAgree'
  BY <1>1, <1>7 DEF WorkerStarts, WorkerEnds, storeVars
<1>8. ASSUME NEW h \in Handlers, Deliver(h) PROVE CopiesAgree'
  BY <1>1, <1>8 DEF Deliver, storeVars
<1>9. ASSUME NEW h \in Handlers, HandlerStep(h) PROVE CopiesAgree'
  <2>0. h \in Threads /\ handler[h] \in Handler /\ Msg(h).job \in Jobs
    BY <1>9, HandlerStepShape DEF Msg, Handler, Message
  <2>1. CASE HandlerLoad(h)
    <3>1. UpdateLoad(h, Msg(h).job) \/ UNCHANGED storeVars
      BY <2>1 DEF HandlerLoad, UpdateNotFound
    <3>2. UpdateLoad(h, Msg(h).job) => call'[h].op = "update"
      BY <2>0 DEF UpdateLoad, PipelineInv, StoreTypeOK
    <3> QED
      BY <1>1, <3>1, <3>2 DEF CopiesAgree, Rewriting, storeVars
  <2>2. CASE HandlerStore(h) \/ HandlerReturns(h)
    <3>1. call'[h] = Idle
      BY <2>0, <2>2 DEF HandlerStore, UpdateStore, HandlerReturns, FinishRewrite, PipelineInv,
                        StoreTypeOK
    <3> QED
      BY <3>1 DEF CopiesAgree, Rewriting
  <2>3. CASE HandlerGet(h)
    <3>1. CASE GetJob(h, Msg(h).job)
      <4>1. /\ jobs' = jobs /\ jobs[Msg(h).job] # Absent
            /\ call'[h] = [op |-> "rewrite", job |-> Msg(h).job, copy |-> jobs[Msg(h).job]]
        BY <2>0, <3>1 DEF GetJob, PipelineInv, StoreTypeOK
      <4> QED
        BY <4>1 DEF CopiesAgree, Rewriting
    <3> QED
      BY <1>1, <2>3, <3>1 DEF HandlerGet, storeVars
  <2>4. CASE HandlerStarted(h) \/ HandlerEnded(h)
    <3>1. CASE UNCHANGED storeVars
      BY <1>1, <3>1 DEF storeVars
    <3>2. ASSUME NEW rec \in JobInfo, call[h] \in Call,
                 jobs' = [jobs EXCEPT ![call[h].job] = rec],
                 call' = [call EXCEPT ![h].copy = rec]
          PROVE  CopiesAgree'
      <4>1. call'[h].job = call[h].job /\ call'[h].copy = rec /\ call[h].job \in Jobs
        BY <2>0, <3>2 DEF Call, PipelineInv, StoreTypeOK
      <4>2. jobs'[call[h].job] = rec /\ rec # Absent
        BY <3>2, <4>1 DEF PipelineInv, StoreTypeOK
      <4> QED
        BY <4>1, <4>2 DEF CopiesAgree
    <3> QED
      BY <2>4, <3>1, <3>2, ReAddsKeepStatus
  <2> QED
    BY <1>9, <2>1, <2>2, <2>3, <2>4 DEF HandlerStep
<1> QED
  BY <1>2, <1>3, <1>4, <1>5, <1>6, <1>7, <1>8, <1>9 DEF PipelineNext

\* Were the messages handled one at a time, a re-add (nats.go:276, 281) would change
\* nothing but timestamps and bring back no job, unless the job is cancelled or removed
\* between the handler's GetJob and its return: with the other handlers, these two
\* are all the causes of what the run re_add finds.
THEOREM UndisturbedReAddsAreHarmless ==
    ASSUME \A g, h \in Handlers : g = h
    PROVE  PipelineSpec /\ [][RewritesUndisturbed]_pipelineVars => ReAddChangesTimestampsOnly
<1>1. PipelineInit => CopiesAgree
  BY DEF PipelineInit, StoreInit, CopiesAgree, Rewriting
<1>2. PipelineInv /\ CopiesAgree /\ [PipelineNext]_pipelineVars
          => [\A h \in Handlers : HandlerStarted(h) \/ HandlerEnded(h) =>
                 \A j \in Jobs : /\ jobs[j] = Absent => jobs'[j] = Absent
                                 /\ jobs[j] # Absent => jobs'[j].status = jobs[j].status
             ]_pipelineVars
  <2> SUFFICES ASSUME PipelineInv, CopiesAgree, NEW h \in Handlers,
                      HandlerStarted(h) \/ HandlerEnded(h), NEW j \in Jobs
               PROVE  /\ jobs[j] = Absent => jobs'[j] = Absent
                      /\ jobs[j] # Absent => jobs'[j].status = jobs[j].status
    OBVIOUS
  <2>1. CASE UNCHANGED storeVars
    BY <2>1 DEF storeVars
  <2>2. ASSUME NEW rec \in JobInfo, Rewriting(h), rec.status = call[h].copy.status,
               jobs' = [jobs EXCEPT ![call[h].job] = rec]
        PROVE  /\ jobs[j] = Absent => jobs'[j] = Absent
               /\ jobs[j] # Absent => jobs'[j].status = jobs[j].status
    BY <2>2 DEF CopiesAgree, PipelineInv, StoreTypeOK
  <2> QED
    BY <2>1, <2>2, ReAddsKeepStatus
<1> QED
  BY <1>1, <1>2, CopiesAgreeStep, PipelineInvariant, StorePromisesKept, PTL
  DEF PipelineSpec, ReAddChangesTimestampsOnly
=============================================================================
