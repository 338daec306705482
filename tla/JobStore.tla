------------------------------ MODULE JobStore ------------------------------
(***************************************************************************)
(* The in-memory job store of internal/storage/job_store.go.               *)
(*                                                                         *)
(* The store is a sync.Map from job IDs to JobInfo records.  Every single  *)
(* Load, Store and Delete of the map is atomic; UpdateJobStatus makes a    *)
(* Load and a Store under a mutex that AddJob and the cleanup do not take; *)
(* a Range visits each key at a moment of its own.  The callers here are   *)
(* the most general ones that keep to the protocol of the repository:      *)
(* a job is added once under a fresh ID, its status is updated any number  *)
(* of times, and a rewriter may read a job and add it back with other      *)
(* timestamps (internal/messaging/nats.go does).                           *)
(***************************************************************************)
EXTENDS JobRecords, FiniteSets

CONSTANTS
    Jobs,        \* the job IDs that uuid.New() can return
    Threads,     \* the goroutines that call the store
    Rewriters,   \* those of them that read a job and add it back
    Requested,   \* the statuses the callers ask UpdateJobStatus for
    MaxJobs,     \* the argument of NewJobStore
    Retention,   \* how long a finished job is kept: 24 hours, in clock units
    Idle         \* a goroutine between two calls; an unlocked mutex

\* What a goroutine holds between two steps of a call: the job it works on
\* and its local copy of the record.
Call == [op : {"update", "rewrite"}, job : Jobs, copy : JobInfo]

ASSUME StoreAssumption ==
    /\ IsFiniteSet(Jobs)
    /\ Rewriters \subseteq Threads
    /\ Requested \subseteq Status
    /\ MaxJobs \in Int
    /\ Retention \in Nat
    /\ Idle \notin Call \cup Threads

\* NewJobStore replaces a capacity that is not positive.
maxJobs == IF MaxJobs <= 0 THEN 1000 ELSE MaxJobs

VARIABLES
    jobs,         \* the sync.Map
    mutex,        \* its owner, or Idle
    call,         \* per goroutine, the call in progress
    now,          \* time.Now()
    cleaner,      \* where the cleanup goroutine is
    passTime,     \* time.Now() when the pass in progress began, for cutoffTime
    seen,         \* the keys the Range in progress has been past
    jobsToDelete, \* the IDs still to delete
    count,        \* the local of Count()
    allJobs,      \* the jobs collected for the overflow, with their times
    submitted,    \* history: the submission time first stored under each ID
    created       \* history: IDs (re)created since the last Count() began

cleanerVars == <<cleaner, passTime, seen, jobsToDelete, count, allJobs>>
storeVars == <<jobs, mutex, call, now, cleanerVars, submitted, created>>

Present == {j \in Jobs : jobs[j] # Absent}
WithTime == [id : Jobs, time : Time]

StoreInit ==
    /\ jobs = [j \in Jobs |-> Absent]
    /\ mutex = Idle
    /\ call = [t \in Threads |-> Idle]
    /\ now = 1
    /\ cleaner = "idle"
    /\ passTime = 0
    /\ seen = {} /\ jobsToDelete = {} /\ count = 0 /\ allJobs = {}
    /\ submitted = [j \in Jobs |-> 0]
    /\ created = {}

Tick ==
    /\ now < MaxTime
    /\ now' = now + 1
    /\ UNCHANGED <<jobs, mutex, call, cleanerVars, submitted, created>>

-----------------------------------------------------------------------------
(* The operations of the map. *)

Store(j, rec) ==
    /\ jobs' = [jobs EXCEPT ![j] = rec]
    /\ submitted' = [submitted EXCEPT ![j] = IF @ = 0 THEN rec.submittedAt ELSE @]
    /\ created' = IF jobs[j] = Absent THEN created \cup {j} ELSE created

Delete(j) ==
    /\ jobs' = [jobs EXCEPT ![j] = Absent]
    /\ UNCHANGED <<submitted, created>>

-----------------------------------------------------------------------------
(* The exported operations.  A goroutine makes one call at a time.         *)

\* Mutant: the record goes in as it came.
AddJobUnfilled(j, rec) == Store(j, rec)

\* Mutant: every AddJob counts as a submission.
AddJobRestamped(j, rec) ==
    Store(j, [rec EXCEPT !.status = IF @ = "" THEN "queued" ELSE @, !.submittedAt = now])

\* AddJob fills in a status and a submission time its caller left out.
Filled(rec) ==
    [status |-> IF rec.status = "" THEN "queued" ELSE rec.status,
     submittedAt |-> IF rec.submittedAt = 0 THEN now ELSE rec.submittedAt,
     startedAt |-> rec.startedAt,
     completedAt |-> rec.completedAt]

AddJob(j, rec) == Store(j, Filled(rec))

\* The records a submission may pass: with or without the two fields, and with
\* a submission time that was read some time before the call.
NewJobInfo == [status : {"", "queued"}, submittedAt : 0..now,
               startedAt : {0}, completedAt : {0}]

\* uuid.New() never returns an ID twice.
AddNewJob(t, j, rec) ==
    /\ call[t] = Idle
    /\ submitted[j] = 0
    /\ AddJob(j, rec)
    /\ UNCHANGED <<mutex, call, now, cleanerVars>>

\* Mutant: UpdateJobStatus without the lock.
UpdateLoadUnlocked(t, j) ==
    /\ call[t] = Idle
    /\ jobs[j] # Absent
    /\ mutex' = t
    /\ call' = [call EXCEPT ![t] = [op |-> "update", job |-> j, copy |-> jobs[j]]]
    /\ UNCHANGED <<jobs, now, cleanerVars, submitted, created>>

\* UpdateJobStatus, its first half: take the mutex, load the record.
UpdateLoad(t, j) ==
    /\ call[t] = Idle
    /\ mutex = Idle
    /\ jobs[j] # Absent
    /\ mutex' = t
    /\ call' = [call EXCEPT ![t] = [op |-> "update", job |-> j, copy |-> jobs[j]]]
    /\ UNCHANGED <<jobs, now, cleanerVars, submitted, created>>

\* Mutant: the early return forgets to unlock.
UpdateNotFoundLocked(t, j) ==
    /\ call[t] = Idle
    /\ mutex = Idle
    /\ jobs[j] = Absent
    /\ mutex' = t
    /\ UNCHANGED <<jobs, call, now, cleanerVars, submitted, created>>

\* UpdateJobStatus on a key that is not there returns ErrJobNotFound.
UpdateNotFound(t, j) ==
    /\ call[t] = Idle
    /\ mutex = Idle
    /\ jobs[j] = Absent
    /\ UNCHANGED storeVars

\* Mutant: only the field status is written.
UpdateStoreStatusOnly(t, status) ==
    /\ call[t] # Idle /\ call[t].op = "update"
    /\ Store(call[t].job, [call[t].copy EXCEPT !.status = status])
    /\ mutex' = Idle
    /\ call' = [call EXCEPT ![t] = Idle]
    /\ UNCHANGED <<now, cleanerVars>>

\* UpdateJobStatus, its second half: store the new record, unlock.
UpdateStore(t, status) ==
    /\ call[t] # Idle /\ call[t].op = "update"
    /\ Store(call[t].job, Updated(call[t].copy, status, now))
    /\ mutex' = Idle
    /\ call' = [call EXCEPT ![t] = Idle]
    /\ UNCHANGED <<now, cleanerVars>>

\* DeleteJob.  No code of the repository calls it; it is exported, so it may be.
DeleteJob(t, j) ==
    /\ call[t] = Idle
    /\ jobs[j] # Absent
    /\ Delete(j)
    /\ UNCHANGED <<mutex, call, now, cleanerVars>>

\* A rewriter's GetJob: a copy of the record, without the mutex.
GetJob(t, j) ==
    /\ t \in Rewriters
    /\ call[t] = Idle
    /\ jobs[j] # Absent
    /\ call' = [call EXCEPT ![t] = [op |-> "rewrite", job |-> j, copy |-> jobs[j]]]
    /\ UNCHANGED <<jobs, mutex, now, cleanerVars, submitted, created>>

Rewriting(t) == call[t] # Idle /\ call[t].op = "rewrite"

\* The rewriter sets a timestamp of its copy and adds the copy back.
ReAdd(t, rec) ==
    /\ Rewriting(t)
    /\ AddJob(call[t].job, rec)
    /\ call' = [call EXCEPT ![t].copy = rec]
    /\ UNCHANGED <<mutex, now, cleanerVars>>

ReAddStarted(t, time) == ReAdd(t, [call[t].copy EXCEPT !.startedAt = time])
ReAddCompleted(t, time) == ReAdd(t, [call[t].copy EXCEPT !.completedAt = time])

FinishRewrite(t) ==
    /\ Rewriting(t)
    /\ call' = [call EXCEPT ![t] = Idle]
    /\ UNCHANGED <<jobs, mutex, now, cleanerVars, submitted, created>>

-----------------------------------------------------------------------------
(* periodicCleanup and cleanupOldJobs: one goroutine, a pass per hour.     *)
(* A Range is one step per key, in any order; a key that is absent when    *)
(* its turn comes is one the Range does not report.  A local is reset when *)
(* the code no longer reads it.                                            *)

\* Mutant: cancelled jobs are not cleaned up.
ExpiredNotCancelled(job) ==
    /\ job.status \in {"completed", "failed"}
    /\ job.completedAt + Retention < passTime

Expired(job) ==
    /\ job.status \in Terminal
    /\ job.completedAt # 0
    /\ job.completedAt + Retention < passTime

\* The common part of a Range's steps: move past key j.
Past(j, phase) ==
    /\ cleaner = phase
    /\ j \notin seen
    /\ seen' = seen \cup {j}
    /\ UNCHANGED <<jobs, mutex, call, now, cleaner, passTime, submitted>>

StartPass ==
    /\ cleaner = "idle"
    /\ cleaner' = "expire"
    /\ passTime' = now
    /\ UNCHANGED <<jobs, mutex, call, now, seen, jobsToDelete, count, allJobs,
                   submitted, created>>

\* cleanupOldJobs returns and its locals are gone.
EndPass ==
    /\ cleaner' = "idle"
    /\ passTime' = 0 /\ seen' = {} /\ jobsToDelete' = {}
    /\ count' = 0 /\ allJobs' = {}
    /\ UNCHANGED <<jobs, mutex, call, now, submitted, created>>

CollectExpired(j) ==
    /\ Past(j, "expire")
    /\ jobsToDelete' = IF jobs[j] # Absent /\ Expired(jobs[j])
                       THEN jobsToDelete \cup {j} ELSE jobsToDelete
    /\ UNCHANGED <<count, allJobs, created>>

\* Both deletion loops, over the expired jobs and over the oldest ones.
DeleteNext(j) ==
    /\ \/ cleaner = "expire" /\ seen = Jobs
       \/ cleaner = "evict"
    /\ j \in jobsToDelete
    /\ jobsToDelete' = jobsToDelete \ {j}
    /\ Delete(j)
    /\ UNCHANGED <<mutex, call, now, cleaner, passTime, seen, count, allJobs>>

StartCount ==
    /\ cleaner = "expire" /\ seen = Jobs /\ jobsToDelete = {}
    /\ cleaner' = "count"
    /\ seen' = {} /\ passTime' = 0
    /\ created' = {}
    /\ UNCHANGED <<jobs, mutex, call, now, jobsToDelete, count, allJobs, submitted>>

CountNext(j) ==
    /\ Past(j, "count")
    /\ count' = IF jobs[j] # Absent THEN count + 1 ELSE count
    /\ UNCHANGED <<jobsToDelete, allJobs, created>>

EndCount ==
    /\ cleaner = "count" /\ seen = Jobs
    /\ \/ /\ count > maxJobs
          /\ cleaner' = "collect"
          /\ seen' = {} /\ count' = 0
          /\ UNCHANGED <<jobs, mutex, call, now, passTime, jobsToDelete, allJobs,
                         submitted, created>>
       \/ count <= maxJobs /\ EndPass

CollectAll(j) ==
    /\ Past(j, "collect")
    /\ allJobs' = IF jobs[j] # Absent
                  THEN allJobs \cup {[id |-> j, time |-> jobs[j].submittedAt]}
                  ELSE allJobs
    /\ UNCHANGED <<jobsToDelete, count, created>>

\* Mutant: one job too many stays.
OldestButOne(all, oldest) ==
    /\ oldest \subseteq all
    /\ Cardinality(all \ oldest) = IF Cardinality(all) > maxJobs
                                   THEN maxJobs + 1 ELSE Cardinality(all)
    /\ \A a \in oldest, b \in all \ oldest : a.time <= b.time

\* Mutant: the slice is sorted the other way round.
NewestOf(all, oldest) ==
    /\ oldest \subseteq all
    /\ Cardinality(all \ oldest) = IF Cardinality(all) > maxJobs
                                   THEN maxJobs ELSE Cardinality(all)
    /\ \A a \in oldest, b \in all \ oldest : a.time >= b.time

\* The first len(allJobs)-maxJobs of the slice sorted by submission time; any
\* of them among equals.
OldestOf(all, oldest) ==
    /\ oldest \subseteq all
    /\ Cardinality(all \ oldest) = IF Cardinality(all) > maxJobs
                                   THEN maxJobs ELSE Cardinality(all)
    /\ \A a \in oldest, b \in all \ oldest : a.time <= b.time

\* The sort, and the split of the slice: allJobs keeps what stays.
SortByTime ==
    /\ cleaner = "collect" /\ seen = Jobs
    /\ cleaner' = "evict"
    /\ seen' = {}
    /\ \E oldest \in SUBSET allJobs :
          /\ OldestOf(allJobs, oldest)
          /\ jobsToDelete' = {a.id : a \in oldest}
          /\ allJobs' = allJobs \ oldest
    /\ UNCHANGED <<jobs, mutex, call, now, passTime, count, submitted, created>>

EndEvict ==
    /\ cleaner = "evict" /\ jobsToDelete = {}
    /\ EndPass

-----------------------------------------------------------------------------

CleanerNext ==
    \/ StartPass \/ StartCount \/ EndCount \/ SortByTime \/ EndEvict
    \/ \E j \in Jobs : \/ CollectExpired(j) \/ DeleteNext(j)
                       \/ CountNext(j) \/ CollectAll(j)

ThreadNext(t) ==
    \/ \E j \in Jobs : \/ \E rec \in NewJobInfo : AddNewJob(t, j, rec)
                       \/ UpdateLoad(t, j)
                       \/ DeleteJob(t, j)
                       \/ GetJob(t, j)
    \/ \E status \in Requested : UpdateStore(t, status)
    \/ \E time \in 1..now : ReAddStarted(t, time) \/ ReAddCompleted(t, time)
    \/ FinishRewrite(t)

StoreNext ==
    \/ Tick
    \/ CleanerNext
    \/ \E t \in Threads : ThreadNext(t)

StoreSpec == StoreInit /\ [][StoreNext]_storeVars

\* The ticker of periodicCleanup fires every hour and the cleanup blocks on
\* nothing, so its goroutine always goes on.
FairStoreSpec == StoreSpec /\ WF_storeVars(CleanerNext)

-----------------------------------------------------------------------------
(* Properties *)

\* Every variable has its type.
StoreTypeOK ==
    /\ jobs \in [Jobs -> JobInfo \cup {Absent}]
    /\ mutex \in Threads \cup {Idle}
    /\ call \in [Threads -> Call \cup {Idle}]
    /\ now \in Time \ {0}
    /\ cleaner \in {"idle", "expire", "count", "collect", "evict"}
    /\ passTime \in Time
    /\ seen \subseteq Jobs
    /\ jobsToDelete \subseteq Jobs
    /\ count \in Nat
    /\ allJobs \subseteq WithTime
    /\ submitted \in [Jobs -> Time]
    /\ created \subseteq Jobs

\* A stored job keeps the submission time it was added with, whatever stale
\* copy of it a goroutine writes back and even if it was deleted meanwhile: the
\* order in which overflow evicts jobs is that of their submission.
SubmissionTimeKept ==
    /\ \A j \in Present : jobs[j].submittedAt = submitted[j]
    /\ \A t \in Threads : call[t] # Idle => call[t].copy.submittedAt = submitted[call[t].job]

\* A finished job has a completion time, in the map and in every copy a
\* goroutine may still write back.  The cleanup skips a finished job without
\* one (job_store.go:223), so such a job would never expire.
FinishedHasCompletionTime ==
    LET Stamped(rec) == rec.status \in Terminal => rec.completedAt # 0 IN
    /\ \A j \in Present : Stamped(jobs[j])
    /\ \A t \in Threads : call[t] # Idle => Stamped(call[t].copy)

\* The mutex is held exactly by the goroutine inside UpdateJobStatus: no two of
\* them are between Load and Store at once, and it is never left locked.
MutexProtectsUpdate ==
    \A t \in Threads : mutex = t <=> (call[t] # Idle /\ call[t].op = "update")

\* Outside the overflow part of a pass the store holds at most maxJobs jobs
\* besides those that were stored since the last pass counted it: a pass that
\* runs beside any number of other goroutines still bounds the store.
CleanupBoundsStore ==
    cleaner \in {"idle", "expire"} => Cardinality(Present \ created) <= maxJobs

\* While the overflow is evicted, no job about to be deleted is younger than one
\* that stays (jobs stored since the pass counted the store aside).
EvictsOldestFirst ==
    cleaner = "evict" =>
        \A j \in jobsToDelete, k \in Present \ (jobsToDelete \cup created) :
            submitted[j] <= submitted[k]

\* While every change of a stored record is UpdateJobStatus's, the record it
\* is about to write was made from the one that is in the map now: no update is
\* lost, though only the update itself takes the mutex.
NoLostUpdate ==
    Rewriters = {} =>
        \A t \in Threads :
            call[t] # Idle /\ jobs[call[t].job] # Absent => call[t].copy = jobs[call[t].job]

\* The table the callers see.  A removed job is held while the goroutine that
\* has the mutex is updating it.
Held(j) == jobs[j] = Absent /\ mutex # Idle /\ call[mutex].job = j

Atomic == INSTANCE AtomicJobTable WITH
    table <- jobs,
    held <- [j \in Jobs |-> IF Held(j) THEN call[mutex].copy ELSE Absent],
    used <- {j \in Jobs : submitted[j] # 0}

\* Without rewriters the store is the atomic table: its calls, made of several
\* steps, and the cleanup beside them are as if each took effect in one step.
ImplementsAtomicTable == Atomic!TableSpec

\* A finished job that is past its retention is eventually removed, or
\* touched again by an update or a rewrite.
ExpiredJobsRemoved ==
    LET Due(j) == /\ jobs[j] # Absent
                  /\ jobs[j].status \in Terminal
                  /\ jobs[j].completedAt + Retention < now
    IN \A j \in Jobs : Due(j) ~> ~Due(j)
=============================================================================
