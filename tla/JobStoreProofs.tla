--------------------------- MODULE JobStoreProofs ---------------------------
(***************************************************************************)
(* Theorems of the job store, for every number of jobs and goroutines and  *)
(* every capacity.                                                         *)
(***************************************************************************)
EXTENDS JobStore, TLAPS

USE DEF Terminal

\* An update keeps a record a record, with its submission time, and dates a
\* finished one.
LEMMA UpdatedType ==
    ASSUME NEW job \in JobInfo, NEW status \in Status, NEW time \in Time \ {0}
    PROVE  /\ Updated(job, status, time) \in JobInfo
           /\ Updated(job, status, time).submittedAt = job.submittedAt
           /\ Updated(job, status, time).status = status
           /\ status \in Terminal => Updated(job, status, time).completedAt # 0
BY DEF Updated, JobInfo, Status, Time

\* AddJob leaves a complete record as it is: a rewriter's record goes in unchanged.
LEMMA AddJobOfRecord ==
    ASSUME NEW rec \in JobInfo, NEW j, AddJob(j, rec)
    PROVE  Store(j, rec)
<1>1. rec.status # "" /\ rec.submittedAt # 0
  BY DEF JobInfo, Status, Time
<1>2. Filled(rec) = rec
  BY <1>1 DEF Filled, JobInfo
<1> QED
  BY <1>2 DEF AddJob

\* What a submission stores, whether its caller left fields out or not.
LEMMA NewJobStored ==
    ASSUME StoreTypeOK, NEW j, NEW rec \in NewJobInfo, AddJob(j, rec)
    PROVE  \E time \in Time \ {0}, new \in JobInfo :
              /\ new = [status |-> "queued", submittedAt |-> time,
                        startedAt |-> 0, completedAt |-> 0]
              /\ Store(j, new)
<1> DEFINE time == IF rec.submittedAt = 0 THEN now ELSE rec.submittedAt
           new == [status |-> "queued", submittedAt |-> time, startedAt |-> 0, completedAt |-> 0]
<1>1. time \in Time \ {0}
  <2>1. now \in Nat /\ now # 0 /\ now <= MaxTime /\ MaxTime \in Nat
    BY RecordAssumption DEF StoreTypeOK, Time
  <2>2. rec.submittedAt \in 0..now
    BY DEF NewJobInfo
  <2> QED
    BY <2>1, <2>2 DEF Time
<1>2. Filled(rec) = new
  <2>1. rec.status = "" \/ rec.status = "queued"
    BY DEF NewJobInfo
  <2>2. rec.startedAt = 0 /\ rec.completedAt = 0
    BY DEF NewJobInfo
  <2> QED
    BY <2>1, <2>2 DEF Filled
<1> HIDE DEF time
<1>3. new \in JobInfo
  BY <1>1, RecordAssumption DEF JobInfo, Status, Time
<1>4. Store(j, new)
  BY <1>2 DEF AddJob
<1> QED
  BY <1>1, <1>3, <1>4

\* What a rewriter stores: its copy with one timestamp replaced.
LEMMA ReAddOfCopy ==
    ASSUME StoreTypeOK, NEW t \in Threads, NEW time \in 1..now,
           ReAddStarted(t, time) \/ ReAddCompleted(t, time)
    PROVE  \E rec \in JobInfo :
              /\ rec = [call[t].copy EXCEPT !.startedAt = time]
                 \/ rec = [call[t].copy EXCEPT !.completedAt = time]
              /\ call[t] \in Call /\ call[t].op = "rewrite"
              /\ Store(call[t].job, rec)
              /\ call' = [call EXCEPT ![t].copy = rec]
              /\ UNCHANGED <<mutex, now, cleanerVars>>
<1>1. call[t] \in Call /\ call[t].op = "rewrite"
  BY DEF StoreTypeOK, ReAddStarted, ReAddCompleted, ReAdd, Rewriting
<1>2. time \in Time \ {0}
  BY RecordAssumption DEF StoreTypeOK, Time
<1>3. /\ [call[t].copy EXCEPT !.startedAt = time] \in JobInfo
      /\ [call[t].copy EXCEPT !.completedAt = time] \in JobInfo
  BY <1>1, <1>2 DEF Call, JobInfo
<1>4. PICK rec \in JobInfo :
           /\ rec = [call[t].copy EXCEPT !.startedAt = time]
              \/ rec = [call[t].copy EXCEPT !.completedAt = time]
           /\ ReAdd(t, rec)
  BY <1>3 DEF ReAddStarted, ReAddCompleted
<1> QED
  BY <1>1, <1>4, AddJobOfRecord DEF ReAdd

\* The store starts with every variable in its type.
LEMMA StoreTypeInit == StoreInit => StoreTypeOK
BY StoreAssumption, RecordAssumption DEF StoreInit, StoreTypeOK, Time

\* Every step keeps every variable in its type.
LEMMA StoreTypeStep == StoreTypeOK /\ [StoreNext]_storeVars => StoreTypeOK'
<1> SUFFICES ASSUME StoreTypeOK, [StoreNext]_storeVars PROVE StoreTypeOK'
  OBVIOUS
<1> USE StoreAssumption, RecordAssumption
<1>1. CASE Tick
  BY <1>1 DEF StoreTypeOK, Tick, cleanerVars, Time
<1>2. CASE CleanerNext
  <2>1. CASE StartPass
    BY <2>1 DEF StoreTypeOK, StartPass, Time
  <2>2. CASE StartCount
    BY <2>2 DEF StoreTypeOK, StartCount, Time
  <2>3. CASE EndCount
    BY <2>3 DEF StoreTypeOK, EndCount, EndPass, Time
  <2>4. CASE SortByTime
    <3> PICK oldest \in SUBSET allJobs :
             jobsToDelete' = {a.id : a \in oldest} /\ allJobs' = allJobs \ oldest
      BY <2>4 DEF SortByTime
    <3> QED
      BY <2>4 DEF StoreTypeOK, SortByTime, WithTime
  <2>5. CASE EndEvict
    BY <2>5 DEF StoreTypeOK, EndEvict, EndPass, Time
  <2>6. ASSUME NEW j \in Jobs, CollectExpired(j) PROVE StoreTypeOK'
    BY <2>6 DEF StoreTypeOK, CollectExpired, Past
  <2>7. ASSUME NEW j \in Jobs, DeleteNext(j) PROVE StoreTypeOK'
    BY <2>7 DEF StoreTypeOK, DeleteNext, Delete
  <2>8. ASSUME NEW j \in Jobs, CountNext(j) PROVE StoreTypeOK'
    BY <2>8 DEF StoreTypeOK, CountNext, Past
  <2>9. ASSUME NEW j \in Jobs, CollectAll(j) PROVE StoreTypeOK'
    BY <2>9 DEF StoreTypeOK, CollectAll, Past, WithTime, JobInfo
  <2> QED
    BY <1>2, <2>1, <2>2, <2>3, <2>4, <2>5, <2>6, <2>7, <2>8, <2>9 DEF CleanerNext
<1>3. ASSUME NEW t \in Threads, ThreadNext(t) PROVE StoreTypeOK'
  <2>1. ASSUME NEW j \in Jobs, NEW rec \in NewJobInfo, AddNewJob(t, j, rec)
        PROVE  StoreTypeOK'
    <3> PICK new \in JobInfo : Store(j, new)
      BY <2>1, NewJobStored DEF AddNewJob
    <3> QED
      BY <2>1 DEF StoreTypeOK, AddNewJob, Store, JobInfo, Time, cleanerVars
  <2>2. ASSUME NEW j \in Jobs, UpdateLoad(t, j) PROVE StoreTypeOK'
    BY <2>2 DEF StoreTypeOK, UpdateLoad, Call, cleanerVars
  <2>3. ASSUME NEW j \in Jobs, DeleteJob(t, j) PROVE StoreTypeOK'
    BY <2>3 DEF StoreTypeOK, DeleteJob, Delete, cleanerVars
  <2>4. ASSUME NEW j \in Jobs, GetJob(t, j) PROVE StoreTypeOK'
    BY <2>4 DEF StoreTypeOK, GetJob, Call, cleanerVars
  <2>5. ASSUME NEW status \in Requested, UpdateStore(t, status) PROVE StoreTypeOK'
    <3> call[t] \in Call
      BY <2>5 DEF UpdateStore, StoreTypeOK
    <3> Updated(call[t].copy, status, now) \in JobInfo
      BY UpdatedType DEF StoreTypeOK, Call
    <3> QED
      BY <2>5 DEF StoreTypeOK, UpdateStore, Store, Call, JobInfo, Time, cleanerVars
  <2>6. ASSUME NEW time \in 1..now, ReAddStarted(t, time) \/ ReAddCompleted(t, time)
        PROVE  StoreTypeOK'
    <3> PICK rec \in JobInfo :
             /\ call[t] \in Call
             /\ Store(call[t].job, rec)
             /\ call' = [call EXCEPT ![t].copy = rec]
             /\ UNCHANGED <<mutex, now, cleanerVars>>
      BY <2>6, ReAddOfCopy
    <3> [call[t] EXCEPT !.copy = rec] \in Call
      BY DEF Call
    <3> QED
      BY DEF StoreTypeOK, Store, Call, JobInfo, Time, cleanerVars
  <2>7. CASE FinishRewrite(t)
    BY <2>7 DEF StoreTypeOK, FinishRewrite, Rewriting, cleanerVars
  <2> QED
    BY <1>3, <2>1, <2>2, <2>3, <2>4, <2>5, <2>6, <2>7 DEF ThreadNext
<1>4. CASE UNCHANGED storeVars
  BY <1>4 DEF StoreTypeOK, storeVars, cleanerVars
<1> QED
  BY <1>1, <1>2, <1>3, <1>4 DEF StoreNext

\* The store is type-correct, whatever its callers interleave.
THEOREM StoreTypeCorrect == StoreSpec => []StoreTypeOK
BY StoreTypeInit, StoreTypeStep, PTL DEF StoreSpec

-----------------------------------------------------------------------------
(* The calls: what goroutines hold, what the map holds, and the mutex.     *)

\* The clock, the cleanup and DeleteJob touch no call and at most remove a job.
Removal ==
    /\ UNCHANGED <<mutex, call, submitted>>
    /\ jobs' = jobs \/ \E j \in Jobs : jobs' = [jobs EXCEPT ![j] = Absent]

\* The steps that are removals in this sense.
LEMMA RemovalSteps ==
    ASSUME StoreTypeOK,
           \/ Tick
           \/ CleanerNext
           \/ \E t \in Threads, j \in Jobs : DeleteJob(t, j)
           \/ UNCHANGED storeVars
    PROVE  Removal
<1>1. CASE Tick
  BY <1>1 DEF Tick, Removal
<1>2. CASE StartPass \/ StartCount \/ SortByTime
  BY <1>2 DEF StartPass, StartCount, SortByTime, Removal
<1>3. CASE EndCount \/ EndEvict
  BY <1>3 DEF EndCount, EndEvict, EndPass, Removal
<1>4. ASSUME NEW j \in Jobs, CollectExpired(j) \/ CountNext(j) \/ CollectAll(j)
      PROVE  Removal
  BY <1>4 DEF CollectExpired, CountNext, CollectAll, Past, Removal
<1>5. ASSUME NEW j \in Jobs, DeleteNext(j) PROVE Removal
  BY <1>5 DEF DeleteNext, Delete, Removal
<1>6. ASSUME NEW t \in Threads, NEW j \in Jobs, DeleteJob(t, j) PROVE Removal
  BY <1>6 DEF DeleteJob, Delete, Removal
<1>7. CASE UNCHANGED storeVars
  BY <1>7 DEF storeVars, Removal
<1> QED
  BY <1>1, <1>2, <1>3, <1>4, <1>5, <1>6, <1>7 DEF CleanerNext

\* The inductive invariant of the calls.  Only a rewriter rewrites, so when there
\* is none every call in progress is an update, and its goroutine has the mutex.
CallInv ==
    /\ MutexProtectsUpdate
    /\ \A t \in Threads : call[t] # Idle /\ call[t].op = "rewrite" => t \in Rewriters
    /\ SubmissionTimeKept
    /\ FinishedHasCompletionTime
    /\ NoLostUpdate

\* Time does not go back, and a job that was submitted stays one that was.
LEMMA StoreMonotone ==
    ASSUME StoreTypeOK, [StoreNext]_storeVars
    PROVE  /\ now <= now'
           /\ \A j \in Jobs : submitted[j] # 0 => submitted'[j] # 0
<1> USE StoreAssumption, RecordAssumption
<1>0. now <= now
  BY DEF StoreTypeOK, Time
<1>1. CASE Tick
  BY <1>1 DEF Tick, StoreTypeOK, Time
<1>2. CASE CleanerNext \/ UNCHANGED storeVars
  <2>1. Removal
    BY <1>2, RemovalSteps
  <2>2. now' = now
    BY <1>2 DEF CleanerNext, StartPass, StartCount, EndCount, SortByTime, EndEvict, EndPass,
                CollectExpired, CountNext, CollectAll, Past, DeleteNext, storeVars
  <2> QED
    BY <1>0, <2>1, <2>2 DEF Removal
<1>3. ASSUME NEW t \in Threads, ThreadNext(t)
      PROVE  now' = now /\ \A j \in Jobs : submitted[j] # 0 => submitted'[j] # 0
  <2>1. ASSUME NEW j \in Jobs, NEW rec \in NewJobInfo, AddNewJob(t, j, rec)
        PROVE  now' = now /\ \A k \in Jobs : submitted[k] # 0 => submitted'[k] # 0
    <3>1. PICK new \in JobInfo : Store(j, new)
      BY <2>1, NewJobStored DEF AddNewJob
    <3> QED
      BY <2>1, <3>1 DEF AddNewJob, Store, StoreTypeOK
  <2>2. ASSUME NEW j \in Jobs, UpdateLoad(t, j) \/ DeleteJob(t, j) \/ GetJob(t, j)
        PROVE  now' = now /\ submitted' = submitted
    BY <2>2 DEF UpdateLoad, DeleteJob, Delete, GetJob
  <2>3. ASSUME NEW status \in Requested, UpdateStore(t, status)
        PROVE  now' = now /\ \A k \in Jobs : submitted[k] # 0 => submitted'[k] # 0
    BY <2>3 DEF UpdateStore, Store, StoreTypeOK
  <2>4. ASSUME NEW time \in 1..now, ReAddStarted(t, time) \/ ReAddCompleted(t, time)
        PROVE  now' = now /\ \A k \in Jobs : submitted[k] # 0 => submitted'[k] # 0
    <3>1. PICK rec \in JobInfo :
               Store(call[t].job, rec) /\ UNCHANGED <<mutex, now, cleanerVars>>
      BY <2>4, ReAddOfCopy
    <3> QED
      BY <3>1 DEF Store, StoreTypeOK
  <2>5. CASE FinishRewrite(t)
    BY <2>5 DEF FinishRewrite
  <2> QED
    BY <1>3, <2>1, <2>2, <2>3, <2>4, <2>5 DEF ThreadNext
<1> QED
  BY <1>0, <1>1, <1>2, <1>3 DEF StoreNext

\* Nothing is in progress at the start.
LEMMA CallInvInit == StoreInit => CallInv
BY StoreAssumption
DEF StoreInit, CallInv, MutexProtectsUpdate, SubmissionTimeKept,
    FinishedHasCompletionTime, NoLostUpdate, Present

\* The invariant of the calls is inductive, given the types.
LEMMA CallInvStep == StoreTypeOK /\ CallInv /\ [StoreNext]_storeVars => CallInv'
<1> SUFFICES ASSUME StoreTypeOK, CallInv, [StoreNext]_storeVars PROVE CallInv'
  OBVIOUS
<1> USE StoreAssumption, RecordAssumption
<1>0. \A t \in Threads : call[t] # Idle =>
          /\ call[t] \in Call
          /\ submitted[call[t].job] # 0
          /\ call[t].op = "update" <=> mutex = t
  BY DEF StoreTypeOK, CallInv, SubmissionTimeKept, MutexProtectsUpdate, Call, JobInfo
<1>1. CASE Removal
  BY <1>1 DEF Removal, StoreTypeOK, CallInv, MutexProtectsUpdate, SubmissionTimeKept,
              FinishedHasCompletionTime, NoLostUpdate, Present, Call
<1>2. ASSUME NEW t \in Threads, NEW j \in Jobs, NEW rec \in NewJobInfo,
             AddNewJob(t, j, rec)
      PROVE  CallInv'
  <2> PICK new \in JobInfo :
           /\ jobs' = [jobs EXCEPT ![j] = new]
           /\ submitted' = [submitted EXCEPT ![j] = new.submittedAt]
           /\ new.status = "queued"
    BY <1>2, NewJobStored DEF AddNewJob, Store, StoreTypeOK
  <2>1. \A u \in Threads : call[u] # Idle => call[u].job # j
    BY <1>0, <1>2 DEF AddNewJob
  <2>2. UNCHANGED <<mutex, call>>
    BY <1>2 DEF AddNewJob
  <2> QED
    BY <2>1, <2>2, <1>0 DEF StoreTypeOK, CallInv, MutexProtectsUpdate, SubmissionTimeKept,
                       FinishedHasCompletionTime, NoLostUpdate, Present, Call
<1>3. ASSUME NEW t \in Threads, NEW j \in Jobs, UpdateLoad(t, j) PROVE CallInv'
  BY <1>3 DEF UpdateLoad, StoreTypeOK, CallInv, MutexProtectsUpdate, SubmissionTimeKept,
              FinishedHasCompletionTime, NoLostUpdate, Present, Call
<1>4. ASSUME NEW t \in Threads, NEW j \in Jobs, GetJob(t, j) PROVE CallInv'
  BY <1>4 DEF GetJob, StoreTypeOK, CallInv, MutexProtectsUpdate, SubmissionTimeKept,
              FinishedHasCompletionTime, NoLostUpdate, Present, Call
<1>5. ASSUME NEW t \in Threads, NEW status \in Requested, UpdateStore(t, status)
      PROVE  CallInv'
  <2> DEFINE k == call[t].job
             new == Updated(call[t].copy, status, now)
  <2>1. call[t] \in Call /\ call[t].op = "update" /\ mutex = t /\ k \in Jobs
    BY <1>5, <1>0 DEF UpdateStore, Call
  <2>2. /\ new \in JobInfo
        /\ new.submittedAt = submitted[k]
        /\ new.status \in Terminal => new.completedAt # 0
    BY <2>1, UpdatedType, <1>5 DEF StoreTypeOK, Call, CallInv, SubmissionTimeKept, UpdateStore
  <2>3. /\ jobs' = [jobs EXCEPT ![k] = new]
        /\ submitted' = submitted
        /\ mutex' = Idle
        /\ call' = [call EXCEPT ![t] = Idle]
    BY <1>5, <1>0, <2>1, <2>2 DEF UpdateStore, Store, StoreTypeOK
  <2> HIDE DEF new
  <2>4. MutexProtectsUpdate'
    BY <2>1, <2>3, <1>0 DEF MutexProtectsUpdate, StoreTypeOK
  <2>5. SubmissionTimeKept' /\ FinishedHasCompletionTime'
    BY <2>1, <2>2, <2>3 DEF CallInv, SubmissionTimeKept, FinishedHasCompletionTime,
                            Present, StoreTypeOK
  <2>6. NoLostUpdate'
    BY <2>1, <2>3, <1>0 DEF CallInv, NoLostUpdate, StoreTypeOK, Call
  <2> QED
    BY <2>3, <2>4, <2>5, <2>6 DEF CallInv, StoreTypeOK
<1>6. ASSUME NEW t \in Threads, NEW time \in 1..now,
             ReAddStarted(t, time) \/ ReAddCompleted(t, time)
      PROVE  CallInv'
  <2> PICK rec \in JobInfo :
           /\ rec = [call[t].copy EXCEPT !.startedAt = time]
              \/ rec = [call[t].copy EXCEPT !.completedAt = time]
           /\ call[t] \in Call /\ call[t].op = "rewrite"
           /\ Store(call[t].job, rec)
           /\ call' = [call EXCEPT ![t].copy = rec]
           /\ UNCHANGED <<mutex, now, cleanerVars>>
    BY <1>6, ReAddOfCopy
  <2> DEFINE k == call[t].job
  <2>1. /\ rec.submittedAt = submitted[k] /\ rec.submittedAt # 0
        /\ rec.status \in Terminal => rec.completedAt # 0
    BY DEF Call, JobInfo, StoreTypeOK, CallInv, SubmissionTimeKept, FinishedHasCompletionTime
  <2>2. /\ k \in Jobs
        /\ jobs' = [jobs EXCEPT ![k] = rec]
        /\ submitted' = submitted
        /\ call'[t].op = "rewrite" /\ call'[t].job = k /\ call'[t].copy = rec
        /\ \A u \in Threads \ {t} : call'[u] = call[u]
    BY <2>1 DEF Store, StoreTypeOK, Call
  <2>3. t \in Rewriters
    BY DEF CallInv
  <2>4. MutexProtectsUpdate'
    <3>1. mutex # t /\ mutex' = mutex
      BY <1>0
    <3> QED
      BY <2>2, <3>1 DEF CallInv, MutexProtectsUpdate
  <2>5. SubmissionTimeKept' /\ FinishedHasCompletionTime'
    <3>1. \A u \in Threads : call[u] # Idle => call[u].copy \in JobInfo /\ call[u].job \in Jobs
      BY <1>0 DEF Call
    <3>2. \A i \in Jobs : jobs'[i] = IF i = k THEN rec ELSE jobs[i]
      BY <2>2 DEF StoreTypeOK
    <3>3. \A u \in Threads : call'[u] # Idle => call[u] # Idle
      BY <2>2
    <3> QED
      BY <2>1, <2>2, <3>1, <3>2, <3>3
      DEF CallInv, SubmissionTimeKept, FinishedHasCompletionTime, Present
  <2> QED
    BY <2>2, <2>3, <2>4, <2>5 DEF CallInv, NoLostUpdate, StoreTypeOK
<1>7. ASSUME NEW t \in Threads, FinishRewrite(t) PROVE CallInv'
  BY <1>7, <1>0 DEF FinishRewrite, Rewriting, StoreTypeOK, CallInv, MutexProtectsUpdate,
              SubmissionTimeKept, FinishedHasCompletionTime, NoLostUpdate, Present, Call
<1> QED
  BY <1>1, <1>2, <1>3, <1>4, <1>5, <1>6, <1>7, RemovalSteps DEF StoreNext, ThreadNext

\* The invariant of the calls holds of the store.
THEOREM CallsCorrect == StoreSpec => []CallInv
<1>1. StoreInit => CallInv
  BY CallInvInit
<1>2. StoreTypeOK /\ StoreTypeOK' /\ CallInv /\ [StoreNext]_storeVars => CallInv'
  BY CallInvStep
<1> QED
  BY <1>1, <1>2, StoreTypeCorrect, PTL DEF StoreSpec

\* The mutex is held exactly by the goroutine inside UpdateJobStatus.
THEOREM MutexCorrect == StoreSpec => []MutexProtectsUpdate
<1> CallInv => MutexProtectsUpdate
  BY DEF CallInv
<1> QED
  BY CallsCorrect, PTL

\* A job keeps its submission time, in the map and in every copy of it.
THEOREM SubmissionTimeCorrect == StoreSpec => []SubmissionTimeKept
<1> CallInv => SubmissionTimeKept
  BY DEF CallInv
<1> QED
  BY CallsCorrect, PTL

\* A finished job has the completion time the cleanup looks for.
THEOREM CompletionTimeCorrect == StoreSpec => []FinishedHasCompletionTime
<1> CallInv => FinishedHasCompletionTime
  BY DEF CallInv
<1> QED
  BY CallsCorrect, PTL

\* Without rewriters no update is lost.
THEOREM UpdatesCorrect == StoreSpec => []NoLostUpdate
<1> CallInv => NoLostUpdate
  BY DEF CallInv
<1> QED
  BY CallsCorrect, PTL

-----------------------------------------------------------------------------
(* Refinement: without rewriters the store is the atomic table.            *)

HeldRecords == [j \in Jobs |-> IF Held(j) THEN call[mutex].copy ELSE Absent]
UsedIDs == {j \in Jobs : submitted[j] # 0}

\* An empty store is an empty table.
LEMMA RefinesInit == StoreInit => Atomic!TableInit
<1> SUFFICES ASSUME StoreInit PROVE Atomic!TableInit
  OBVIOUS
<1>1. \A j \in Jobs : ~Held(j)
  BY DEF StoreInit, Held
<1> QED
  BY <1>1 DEF StoreInit, Atomic!TableInit

\* A removal is the abstract one; the record is held if its job is being updated.
LEMMA RefinesRemoval ==
    ASSUME StoreTypeOK, CallInv, Rewriters = {}, Removal
    PROVE  [Atomic!TableNext]_Atomic!tableVars
<1> USE StoreAssumption, RecordAssumption
<1>1. CASE jobs' = jobs
  <2>1. UNCHANGED <<HeldRecords, UsedIDs>>
    BY <1>1 DEF Removal, HeldRecords, UsedIDs, Held
  <2> QED
    BY <1>1, <2>1 DEF Atomic!tableVars, HeldRecords, UsedIDs
<1>2. ASSUME NEW j \in Jobs, jobs' = [jobs EXCEPT ![j] = Absent], jobs[j] # Absent
      PROVE  Atomic!Remove(j)
  <2>1. UsedIDs' = UsedIDs
    BY DEF Removal, UsedIDs
  <2>2. \A i \in Jobs : jobs'[i] = IF i = j THEN Absent ELSE jobs[i]
    BY <1>2 DEF StoreTypeOK
  <2>3. CASE mutex # Idle /\ call[mutex].job = j
    <3>1. call[mutex].copy = jobs[j]
      BY <1>2, <2>3 DEF StoreTypeOK, CallInv, NoLostUpdate, MutexProtectsUpdate
    <3>2. \A i \in Jobs : /\ Held(i)' <=> i = j
                          /\ ~Held(i)
      BY <1>2, <2>2, <2>3 DEF Removal, Held
    <3>3. HeldRecords' = [HeldRecords EXCEPT ![j] = jobs[j]]
      BY <3>1, <3>2 DEF HeldRecords, Removal
    <3> QED
      BY <1>2, <2>1, <3>3 DEF Atomic!Remove, HeldRecords, UsedIDs
  <2>4. CASE ~(mutex # Idle /\ call[mutex].job = j)
    <3>1. \A i \in Jobs : Held(i)' <=> Held(i)
      BY <2>2, <2>4 DEF Removal, Held
    <3>2. HeldRecords' = HeldRecords
      BY <3>1 DEF HeldRecords, Removal
    <3> QED
      BY <1>2, <2>1, <3>2 DEF Atomic!Remove, HeldRecords, UsedIDs
  <2> QED
    BY <2>3, <2>4
<1>3. ASSUME NEW j \in Jobs, jobs' = [jobs EXCEPT ![j] = Absent], jobs[j] = Absent
      PROVE  jobs' = jobs
  BY <1>3 DEF StoreTypeOK
<1> QED
  BY <1>1, <1>2, <1>3 DEF Removal, Atomic!TableNext

\* Adding a new job is the abstract submission.
LEMMA RefinesSubmit ==
    ASSUME StoreTypeOK, CallInv, NEW t \in Threads, NEW j \in Jobs,
           NEW rec \in NewJobInfo, AddNewJob(t, j, rec)
    PROVE  \E time \in Time \ {0} : Atomic!Submit(j, time)
<1> USE StoreAssumption, RecordAssumption
<1> PICK time \in Time \ {0}, new \in JobInfo :
         /\ new = [status |-> "queued", submittedAt |-> time,
                   startedAt |-> 0, completedAt |-> 0]
         /\ Store(j, new)
  BY NewJobStored DEF AddNewJob
<1>1. Store(j, new) /\ submitted[j] = 0 /\ UNCHANGED <<mutex, call>>
  BY DEF AddNewJob
<1>2. time # 0
  OBVIOUS
<1>3. jobs' = [jobs EXCEPT ![j] = new] /\ submitted' = [submitted EXCEPT ![j] = time]
  BY <1>1 DEF Store, StoreTypeOK
<1>4. UsedIDs' = UsedIDs \cup {j} /\ j \notin UsedIDs
  BY <1>1, <1>2, <1>3 DEF UsedIDs, StoreTypeOK
<1>5. mutex # Idle => mutex \in Threads /\ call[mutex] # Idle /\ call[mutex].job # j
  BY <1>1 DEF StoreTypeOK, CallInv, MutexProtectsUpdate, SubmissionTimeKept, Call, JobInfo
<1>6. \A i \in Jobs : Held(i)' <=> Held(i)
  BY <1>1, <1>3, <1>5 DEF Held, StoreTypeOK
<1>7. HeldRecords' = HeldRecords
  BY <1>1, <1>6 DEF HeldRecords
<1> QED
  BY <1>3, <1>4, <1>7 DEF Atomic!Submit, HeldRecords, UsedIDs

\* The two modules mean the same by a moment and by an updated record.
LEMMA SameRecords ==
    /\ Atomic!Time = Time
    /\ \A job, status, time : Atomic!Updated(job, status, time) = Updated(job, status, time)
BY DEF Atomic!Time, Atomic!Updated, Time, Updated, Atomic!Terminal

\* The second half of UpdateJobStatus is where it takes effect: the abstract update
\* of a job that is there, the reinstatement of one that was removed meanwhile.
LEMMA RefinesUpdate ==
    ASSUME StoreTypeOK, CallInv, Rewriters = {}, NEW t \in Threads,
           NEW status \in Requested, UpdateStore(t, status)
    PROVE  \E j \in Jobs : Atomic!Update(j, status, now) \/ Atomic!Reinstate(j, status, now)
<1> USE StoreAssumption, RecordAssumption
<1> DEFINE k == call[t].job
           new == Updated(call[t].copy, status, now)
<1>1. call[t] \in Call /\ mutex = t /\ k \in Jobs /\ t # Idle
  BY DEF UpdateStore, StoreTypeOK, CallInv, MutexProtectsUpdate, Call
<1>2. submitted[k] # 0
  BY <1>1 DEF CallInv, SubmissionTimeKept, Call, JobInfo
<1>3. jobs' = [jobs EXCEPT ![k] = new] /\ submitted' = submitted /\ mutex' = Idle
  BY <1>1, <1>2 DEF UpdateStore, Store, StoreTypeOK
<1>4. UsedIDs' = UsedIDs
  BY <1>3 DEF UsedIDs
<1>5. HeldRecords' = [j \in Jobs |-> Absent]
  BY <1>3 DEF HeldRecords, Held
<1>6. CASE jobs[k] # Absent
  <2>1. call[t].copy = jobs[k]
    BY <1>1, <1>6 DEF CallInv, NoLostUpdate
  <2>2. HeldRecords = [j \in Jobs |-> Absent]
    BY <1>1, <1>6 DEF HeldRecords, Held
  <2> QED
    BY <1>1, <1>3, <1>4, <1>5, <1>6, <2>1, <2>2, SameRecords DEF Atomic!Update, HeldRecords, UsedIDs
<1>7. CASE jobs[k] = Absent
  <2>1. HeldRecords = [j \in Jobs |-> IF j = k THEN call[t].copy ELSE Absent]
    BY <1>1, <1>7 DEF HeldRecords, Held
  <2>2. HeldRecords[k] = call[t].copy /\ HeldRecords[k] # Absent
    BY <1>1, <2>1 DEF Call
  <2>3. HeldRecords' = [HeldRecords EXCEPT ![k] = Absent]
    BY <1>5, <2>1
  <2> QED
    BY <1>1, <1>3, <1>4, <2>2, <2>3, SameRecords DEF Atomic!Reinstate, HeldRecords, UsedIDs
<1> QED
  BY <1>6, <1>7

\* Every step of the store is a step of the table or leaves it as it is.
LEMMA RefinesNext ==
    ASSUME StoreTypeOK, CallInv, Rewriters = {}, [StoreNext]_storeVars
    PROVE  [Atomic!TableNext]_Atomic!tableVars
<1> USE StoreAssumption, RecordAssumption
<1>0. now \in Time \ {0}
  BY DEF StoreTypeOK
<1>1. CASE Removal
  BY <1>1, RefinesRemoval
<1>2. ASSUME NEW t \in Threads, NEW j \in Jobs, NEW rec \in NewJobInfo, AddNewJob(t, j, rec)
      PROVE  Atomic!TableNext
  <2>1. PICK time \in Time \ {0} : Atomic!Submit(j, time)
    BY <1>2, RefinesSubmit
  <2> QED
    BY <2>1, SameRecords DEF Atomic!TableNext
<1>3. ASSUME NEW t \in Threads, NEW status \in Requested, UpdateStore(t, status)
      PROVE  Atomic!TableNext
  <2>1. PICK j \in Jobs : Atomic!Update(j, status, now) \/ Atomic!Reinstate(j, status, now)
    BY <1>3, RefinesUpdate
  <2>2. now \in Atomic!Time \ {0}
    BY <1>0, SameRecords
  <2> QED
    BY <2>1, <2>2 DEF Atomic!TableNext
<1>4. ASSUME NEW t \in Threads, NEW j \in Jobs, UpdateLoad(t, j)
      PROVE  UNCHANGED Atomic!tableVars
  <2>1. \A i \in Jobs : ~Held(i) /\ ~Held(i)'
    BY <1>4 DEF UpdateLoad, Held, StoreTypeOK, Call
  <2>2. UNCHANGED <<jobs, HeldRecords, UsedIDs>>
    BY <1>4, <2>1 DEF UpdateLoad, HeldRecords, UsedIDs
  <2> QED
    BY <2>2 DEF Atomic!tableVars, HeldRecords, UsedIDs
<1>5. ASSUME NEW t \in Threads, NEW j \in Jobs PROVE ~GetJob(t, j)
  BY DEF GetJob
<1>6. ASSUME NEW t \in Threads
      PROVE  /\ ~FinishRewrite(t)
             /\ \A time \in 1..now : ~ReAddStarted(t, time) /\ ~ReAddCompleted(t, time)
  BY DEF FinishRewrite, ReAddStarted, ReAddCompleted, ReAdd, Rewriting, CallInv
<1> QED
  BY <1>1, <1>2, <1>3, <1>4, <1>5, <1>6, RemovalSteps DEF StoreNext, ThreadNext

\* Without rewriters the store implements the atomic table.
THEOREM AtomicCalls ==
    ASSUME Rewriters = {}
    PROVE  StoreSpec => ImplementsAtomicTable
<1>1. StoreInit => Atomic!TableInit
  BY RefinesInit
<1>2. StoreTypeOK /\ CallInv /\ [StoreNext]_storeVars => [Atomic!TableNext]_Atomic!tableVars
  BY RefinesNext
<1> QED
  BY <1>1, <1>2, StoreTypeCorrect, CallsCorrect, PTL
  DEF StoreSpec, ImplementsAtomicTable, Atomic!TableSpec
=============================================================================
