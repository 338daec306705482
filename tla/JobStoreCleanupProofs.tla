------------------------ MODULE JobStoreCleanupProofs ------------------------
(***************************************************************************)
(* Theorems of the cleanup of the job store, for every capacity: a pass    *)
(* bounds the store, and it evicts the oldest jobs, although each Range is *)
(* a walk during which every other goroutine goes on adding, updating,     *)
(* deleting and reinstating jobs.                                          *)
(***************************************************************************)
EXTENDS JobStoreProofs, FiniteSetTheorems

\* The jobs the pass answers for: they were there when it began to count, and
\* they were never away since.
Old == Present \ created

\* What the pass has collected.
Collected == {a.id : a \in allJobs}

\* Where the cleanup is, it has bounded, counted, collected or chosen what it has
\* walked past.
CleanupInv ==
    /\ cleaner \in {"idle", "expire"} => Cardinality(Old) <= maxJobs
    /\ cleaner \in {"idle", "expire", "count"} => allJobs = {}
    /\ cleaner = "count" => Cardinality(Old \cap seen) <= count
    /\ cleaner = "collect" => Old \cap seen \subseteq Collected
    /\ cleaner = "evict" => /\ Old \subseteq Collected \cup jobsToDelete
                            /\ Cardinality(allJobs) <= maxJobs
    /\ \A a \in allJobs : a.time = submitted[a.id] /\ a.time # 0
    /\ cleaner = "evict" =>
          \A j \in jobsToDelete : /\ submitted[j] # 0
                                  /\ \A a \in allJobs : submitted[j] <= a.time

-----------------------------------------------------------------------------
(* Sets of jobs                                                            *)

\* Any set of jobs is finite, and a smaller one has no more members.
LEMMA JobSets ==
    ASSUME NEW S \in SUBSET Jobs
    PROVE  /\ IsFiniteSet(S) /\ Cardinality(S) \in Nat
           /\ \A T \in SUBSET S : Cardinality(T) <= Cardinality(S)
  BY StoreAssumption, FS_Subset, FS_CardinalityType

\* So is any set of jobs with the times they have.
LEMMA TimedJobs ==
    ASSUME NEW all \in SUBSET WithTime, NEW f, \A a \in all : a.time = f[a.id]
    PROVE  /\ IsFiniteSet(all) /\ Cardinality(all) \in Nat
           /\ Cardinality({a.id : a \in all}) = Cardinality(all)
<1> DEFINE IDs == {a.id : a \in all}
           g == [j \in IDs |-> [id |-> j, time |-> f[j]]]
<1>1. IDs \in SUBSET Jobs
  BY DEF WithTime
<1>2. \A a \in all : a = [id |-> a.id, time |-> f[a.id]]
  BY DEF WithTime
<1>3. g \in Bijection(IDs, all)
  <2>1. g \in [IDs -> all]
    BY <1>2
  <2>2. \A i, j \in IDs : g[i] = g[j] => i = j
    OBVIOUS
  <2>3. \A a \in all : \E j \in IDs : g[j] = a
    BY <1>2
  <2> QED BY <2>1, <2>2, <2>3 DEF Bijection, Injection, Surjection, IsInjective
<1>4. IsFiniteSet(IDs) /\ Cardinality(IDs) \in Nat
  BY <1>1, JobSets
<1> QED BY <1>3, <1>4, FS_Bijection DEF ExistsBijection

\* The capacity is a positive number.
LEMMA Capacity == maxJobs \in Nat \ {0}
  BY StoreAssumption DEF maxJobs

-----------------------------------------------------------------------------
(* What the other goroutines do to a pass                                  *)

\* A step of another goroutine leaves the cleanup alone.  It may remove a job the
\* pass answers for; a job it stores anew is not one of them, and a job keeps the
\* submission time it has.
Beside ==
    /\ UNCHANGED cleanerVars
    /\ Old' \subseteq Old
    /\ \A j \in Jobs : submitted[j] # 0 => submitted'[j] = submitted[j]

\* Storing a record is such a step.
LEMMA StoreBeside ==
    ASSUME StoreTypeOK, NEW j \in Jobs, NEW rec \in JobInfo, Store(j, rec),
           UNCHANGED cleanerVars
    PROVE  Beside
<1>1. Old' \subseteq Old
  <2>1. \A k \in Jobs : k # j => jobs'[k] = jobs[k]
    BY DEF Store, StoreTypeOK
  <2>2. created' = IF jobs[j] = Absent THEN created \cup {j} ELSE created
    BY DEF Store
  <2> QED BY <2>1, <2>2 DEF Old, Present
<1>2. \A k \in Jobs : submitted[k] # 0 => submitted'[k] = submitted[k]
  BY DEF Store, StoreTypeOK
<1> QED BY <1>1, <1>2 DEF Beside

\* Every step that is not the cleanup's is one.
LEMMA StepsBeside ==
    ASSUME StoreTypeOK,
           Tick \/ UNCHANGED storeVars \/ \E t \in Threads : ThreadNext(t)
    PROVE  Beside
<1> USE StoreAssumption, RecordAssumption
<1>1. CASE Tick \/ UNCHANGED storeVars
  BY <1>1 DEF Tick, storeVars, cleanerVars, Beside, Old, Present
<1>2. ASSUME NEW t \in Threads, ThreadNext(t) PROVE Beside
  <2>1. ASSUME NEW j \in Jobs, NEW rec \in NewJobInfo, AddNewJob(t, j, rec) PROVE Beside
    <3>1. PICK new \in JobInfo : Store(j, new)
      BY <2>1, NewJobStored DEF AddNewJob
    <3> QED BY <2>1, <3>1, StoreBeside DEF AddNewJob
  <2>2. ASSUME NEW j \in Jobs, UpdateLoad(t, j) \/ GetJob(t, j) PROVE Beside
    BY <2>2 DEF UpdateLoad, GetJob, Beside, Old, Present
  <2>3. ASSUME NEW j \in Jobs, DeleteJob(t, j) PROVE Beside
    BY <2>3 DEF DeleteJob, Delete, Beside, Old, Present, StoreTypeOK
  <2>4. ASSUME NEW status \in Requested, UpdateStore(t, status) PROVE Beside
    <3>1. call[t] \in Call
      BY <2>4 DEF UpdateStore, StoreTypeOK
    <3>2. Updated(call[t].copy, status, now) \in JobInfo /\ call[t].job \in Jobs
      BY <3>1, UpdatedType DEF StoreTypeOK, Call
    <3> QED BY <2>4, <3>2, StoreBeside DEF UpdateStore
  <2>5. ASSUME NEW time \in 1..now, ReAddStarted(t, time) \/ ReAddCompleted(t, time)
        PROVE  Beside
    <3>1. PICK rec \in JobInfo :
               /\ call[t] \in Call /\ Store(call[t].job, rec)
               /\ UNCHANGED <<mutex, now, cleanerVars>>
      BY <2>5, ReAddOfCopy
    <3>2. call[t].job \in Jobs
      BY <3>1 DEF Call
    <3> QED BY <3>1, <3>2, StoreBeside
  <2>6. CASE FinishRewrite(t)
    BY <2>6 DEF FinishRewrite, Beside, Old, Present
  <2> QED BY <1>2, <2>1, <2>2, <2>3, <2>4, <2>5, <2>6 DEF ThreadNext
<1> QED BY <1>1, <1>2

\* A step beside the cleanup keeps its invariant.
LEMMA BesideKeeps ==
    ASSUME StoreTypeOK, StoreTypeOK', CleanupInv, Beside
    PROVE  CleanupInv'
<1>1. UNCHANGED <<cleaner, seen, count, allJobs, jobsToDelete, Collected>>
  BY DEF Beside, cleanerVars, Collected
<1>2. Old \in SUBSET Jobs /\ Old' \in SUBSET Old
  BY DEF Beside, Old, Present
<1>3. Cardinality(Old') <= Cardinality(Old)
  BY <1>2, JobSets
<1>4. Cardinality(Old' \cap seen) <= Cardinality(Old \cap seen)
  <2>1. Old \cap seen \in SUBSET Jobs /\ Old' \cap seen \in SUBSET (Old \cap seen)
    BY <1>2
  <2> QED BY <2>1, JobSets
<1>5. /\ Cardinality(Old) \in Nat /\ Cardinality(Old') \in Nat
      /\ Cardinality(Old \cap seen) \in Nat /\ Cardinality(Old' \cap seen) \in Nat
  BY <1>2, JobSets
<1>6. \A a \in allJobs : a.id \in Jobs
  BY DEF StoreTypeOK, WithTime
<1>7. \A a \in allJobs : a.time = submitted'[a.id] /\ a.time # 0
  BY <1>6 DEF CleanupInv, Beside
<1>8. cleaner = "evict" =>
          \A j \in jobsToDelete : /\ submitted'[j] # 0
                                  /\ \A a \in allJobs : submitted'[j] <= a.time
  BY DEF CleanupInv, Beside, StoreTypeOK
<1>9. cleaner \in {"idle", "expire"} => Cardinality(Old') <= maxJobs
  BY <1>3, <1>5, Capacity DEF CleanupInv
<1>10. cleaner = "count" => Cardinality(Old' \cap seen) <= count
  BY <1>4, <1>5 DEF CleanupInv, StoreTypeOK
<1> QED BY <1>1, <1>2, <1>7, <1>8, <1>9, <1>10 DEF CleanupInv

-----------------------------------------------------------------------------
(* The cleanup                                                             *)

\* An empty store is within its capacity.
LEMMA CleanupInit == StoreInit => CleanupInv
<1> SUFFICES ASSUME StoreInit PROVE CleanupInv
  OBVIOUS
<1>1. Old = {}
  BY DEF StoreInit, Old, Present
<1> QED BY <1>1, FS_EmptySet, Capacity DEF StoreInit, CleanupInv

\* The pass is over when every job it answers for is known to be one of maxJobs.
LEMMA EndPassKeeps ==
    ASSUME StoreTypeOK, EndPass, Cardinality(Old) <= maxJobs
    PROVE  CleanupInv'
<1>1. Old' = Old
  BY DEF EndPass, Old, Present
<1> QED BY <1>1 DEF EndPass, CleanupInv

\* The steps of a pass that come before the overflow keep the invariant.
LEMMA CountingPassKeeps ==
    ASSUME StoreTypeOK, CleanupInv,
           \/ StartPass \/ StartCount \/ EndCount
           \/ \E j \in Jobs : CollectExpired(j) \/ CountNext(j)
    PROVE  CleanupInv'
<1>1. CASE StartPass
  BY <1>1 DEF StartPass, CleanupInv, Old, Present, Collected
<1>2. ASSUME NEW j \in Jobs, CollectExpired(j) PROVE CleanupInv'
  BY <1>2 DEF CollectExpired, Past, CleanupInv, Old, Present, Collected
<1>3. CASE StartCount
  <2>1. (Old \cap seen)' = {}
    BY <1>3 DEF StartCount
  <2>2. Cardinality({}) <= count
    BY FS_EmptySet DEF StoreTypeOK
  <2> QED BY <1>3, <2>1, <2>2 DEF StartCount, CleanupInv
<1>4. ASSUME NEW j \in Jobs, CountNext(j) PROVE CleanupInv'
  <2>1. Old' = Old /\ seen' = seen \cup {j} /\ j \notin seen
    BY <1>4 DEF CountNext, Past, Old, Present
  <2>2. cleaner = "count" /\ cleaner' = "count" /\ UNCHANGED <<allJobs, submitted>>
    BY <1>4 DEF CountNext, Past
  <2>3. Old \cap seen \in SUBSET Jobs
    BY DEF StoreTypeOK
  <2>4. Cardinality(Old \cap seen) \in Nat /\ IsFiniteSet(Old \cap seen)
    BY <2>3, JobSets
  <2>5. Cardinality((Old \cap seen)') <= count'
    <3>1. CASE j \in Old
      <4>1. (Old \cap seen)' = (Old \cap seen) \cup {j} /\ j \notin Old \cap seen
        BY <2>1, <3>1
      <4>2. Cardinality((Old \cap seen)') = Cardinality(Old \cap seen) + 1
        BY <4>1, <2>4, FS_AddElement
      <4>3. count' = count + 1
        BY <1>4, <3>1 DEF CountNext, Old, Present
      <4> QED BY <2>2, <2>4, <4>2, <4>3 DEF CleanupInv, StoreTypeOK
    <3>2. CASE j \notin Old
      <4>1. (Old \cap seen)' = Old \cap seen
        BY <2>1, <3>2
      <4>2. count' \in {count, count + 1}
        BY <1>4 DEF CountNext
      <4>3. Cardinality(Old \cap seen) <= count /\ count \in Nat
        BY <2>2 DEF CleanupInv, StoreTypeOK
      <4> QED BY <2>4, <4>1, <4>2, <4>3
    <3> QED BY <3>1, <3>2
  <2> QED BY <2>2, <2>5 DEF CleanupInv
<1>5. CASE EndCount
  <2>1. Old \cap seen = Old
    BY <1>5 DEF EndCount, Old, Present
  <2>2. Old \in SUBSET Jobs
    BY DEF Old, Present
  <2>3. CASE count > maxJobs
    <3>1. cleaner' = "collect" /\ seen' = {} /\ UNCHANGED <<allJobs, submitted>>
      BY <1>5, <2>3, Capacity DEF EndCount, StoreTypeOK
    <3> QED BY <3>1 DEF CleanupInv
  <2>4. CASE ~(count > maxJobs)
    <3>1. EndPass /\ cleaner = "count"
      BY <1>5, <2>4 DEF EndCount
    <3>2. Cardinality(Old) <= maxJobs
      BY <2>1, <2>2, <2>4, <3>1, JobSets, Capacity DEF CleanupInv, StoreTypeOK
    <3> QED BY <3>1, <3>2, EndPassKeeps
  <2> QED BY <2>3, <2>4
<1> QED BY <1>1, <1>2, <1>3, <1>4, <1>5

\* The steps that collect, sort and evict the overflow keep it.
LEMMA OverflowKeeps ==
    ASSUME StoreTypeOK, SubmissionTimeKept, CleanupInv,
           \/ SortByTime \/ EndEvict
           \/ \E j \in Jobs : CollectAll(j) \/ DeleteNext(j)
    PROVE  CleanupInv'
<1>1. ASSUME NEW j \in Jobs, CollectAll(j) PROVE CleanupInv'
  <2>1. cleaner = "collect" /\ cleaner' = "collect" /\ seen' = seen \cup {j} /\ submitted' = submitted
    BY <1>1 DEF CollectAll, Past
  <2>2. Old' = Old
    BY <1>1 DEF CollectAll, Past, Old, Present
  <2>3. CASE jobs[j] # Absent
    <3>1. jobs[j] \in JobInfo /\ jobs[j].submittedAt = submitted[j]
      BY <2>3 DEF StoreTypeOK, SubmissionTimeKept, Present
    <3>2. jobs[j].submittedAt # 0
      BY <3>1 DEF JobInfo
    <3>3. allJobs' = allJobs \cup {[id |-> j, time |-> submitted[j]]}
      BY <1>1, <2>3, <3>1 DEF CollectAll
    <3>4. Collected' = Collected \cup {j}
      <4> DEFINE new == [id |-> j, time |-> submitted[j]]
      <4>1. new.id = j /\ allJobs' = allJobs \cup {new}
        BY <3>3
      <4> HIDE DEF new
      <4> QED BY <4>1 DEF Collected
    <3>5. (Old \cap seen)' \subseteq Collected'
      BY <2>1, <2>2, <3>4 DEF CleanupInv
    <3>6. \A a \in allJobs' : a.time = submitted[a.id] /\ a.time # 0
      BY <3>1, <3>2, <3>3 DEF CleanupInv
    <3> QED BY <2>1, <3>5, <3>6 DEF CleanupInv
  <2>4. CASE jobs[j] = Absent
    <3>1. allJobs' = allJobs /\ j \notin Old
      BY <1>1, <2>4 DEF CollectAll, Old, Present
    <3>2. (Old \cap seen)' \subseteq Collected'
      BY <2>1, <2>2, <3>1 DEF CleanupInv, Collected
    <3> QED BY <2>1, <3>1, <3>2 DEF CleanupInv
  <2> QED BY <2>3, <2>4
<1>2. CASE SortByTime
  <2>1. PICK oldest \in SUBSET allJobs :
             /\ OldestOf(allJobs, oldest)
             /\ jobsToDelete' = {a.id : a \in oldest}
             /\ allJobs' = allJobs \ oldest
    BY <1>2 DEF SortByTime
  <2>2. /\ cleaner = "collect" /\ cleaner' = "evict" /\ seen = Jobs
        /\ submitted' = submitted /\ Old' = Old
    BY <1>2 DEF SortByTime, Old, Present
  <2>3. IsFiniteSet(allJobs) /\ Cardinality(allJobs) \in Nat
    BY TimedJobs DEF StoreTypeOK, CleanupInv
  <2>4. Cardinality(allJobs') <= maxJobs
    BY <2>1, <2>3, Capacity DEF OldestOf
  <2>5. Old \subseteq Collected
    BY <2>2 DEF CleanupInv, Old, Present
  <2>6. Collected = Collected' \cup jobsToDelete'
    BY <2>1 DEF Collected
  <2>7. \A a \in allJobs : a.time = submitted[a.id] /\ a.time # 0
    BY DEF CleanupInv
  <2>8. \A j \in jobsToDelete' : \E a \in oldest : a.id = j /\ a \in allJobs
    BY <2>1
  <2>9. \A j \in jobsToDelete' : /\ submitted[j] # 0
                                 /\ \A a \in allJobs' : submitted[j] <= a.time
    BY <2>1, <2>7, <2>8 DEF OldestOf
  <2> QED BY <2>1, <2>2, <2>4, <2>5, <2>6, <2>7, <2>9 DEF CleanupInv
<1>3. ASSUME NEW j \in Jobs, DeleteNext(j) PROVE CleanupInv'
  <2>1. /\ cleaner \in {"expire", "evict"}
        /\ UNCHANGED <<cleaner, seen, count, allJobs, submitted, Collected>>
        /\ jobsToDelete' = jobsToDelete \ {j}
    BY <1>3 DEF DeleteNext, Delete, Collected
  <2>2. Old' = Old \ {j}
    BY <1>3 DEF DeleteNext, Delete, Old, Present, StoreTypeOK
  <2>3. Old \in SUBSET Jobs /\ Old' \in SUBSET Old /\ Old' \in SUBSET Jobs
    BY <2>2 DEF Old, Present
  <2>4. Cardinality(Old') <= Cardinality(Old) /\ Cardinality(Old) \in Nat /\ Cardinality(Old') \in Nat
    BY <2>3, JobSets
  <2>5. CASE cleaner = "expire"
    BY <2>1, <2>4, <2>5, Capacity DEF CleanupInv
  <2>6. CASE cleaner = "evict"
    BY <2>1, <2>2, <2>6 DEF CleanupInv
  <2> QED BY <2>1, <2>5, <2>6
<1>4. CASE EndEvict
  <2>1. EndPass /\ Old \subseteq Collected /\ Cardinality(allJobs) <= maxJobs
    BY <1>4 DEF EndEvict, CleanupInv
  <2>2. Collected \in SUBSET Jobs
    BY DEF Collected, StoreTypeOK, WithTime
  <2>3. Cardinality(Collected) = Cardinality(allJobs)
    BY TimedJobs DEF StoreTypeOK, CleanupInv, Collected
  <2>4. Cardinality(Old) <= Cardinality(Collected) /\ Cardinality(Collected) \in Nat
    BY <2>1, <2>2, JobSets
  <2>5. Cardinality(Old) \in Nat
    BY JobSets DEF Old, Present
  <2> QED BY <2>1, <2>3, <2>4, <2>5, Capacity, EndPassKeeps
<1> QED BY <1>1, <1>2, <1>3, <1>4

\* Every step keeps the invariant of the cleanup.
LEMMA CleanupStep ==
    StoreTypeOK /\ StoreTypeOK' /\ SubmissionTimeKept /\ CleanupInv /\ [StoreNext]_storeVars
        => CleanupInv'
  BY StepsBeside, BesideKeeps, CountingPassKeeps, OverflowKeeps DEF StoreNext, CleanerNext

\* The invariant of the cleanup holds of the store.
THEOREM CleanupCorrect == StoreSpec => []CleanupInv
  BY CleanupInit, CleanupStep, StoreTypeCorrect, SubmissionTimeCorrect, PTL DEF StoreSpec

\* cleanupOldJobs bounds the store: outside its overflow part, the jobs that were
\* not stored since the last pass counted are at most maxJobs.
THEOREM CleanupBoundsCorrect == StoreSpec => []CleanupBoundsStore
<1>1. CleanupInv => CleanupBoundsStore
  BY DEF CleanupInv, CleanupBoundsStore, Old
<1> QED BY <1>1, CleanupCorrect, PTL

\* The overflow evicts the oldest: no job about to be deleted was submitted later
\* than one that stays.
THEOREM EvictsOldestCorrect == StoreSpec => []EvictsOldestFirst
<1>1. CleanupInv => EvictsOldestFirst
  <2> SUFFICES ASSUME CleanupInv, cleaner = "evict", NEW j \in jobsToDelete,
                      NEW k \in Present \ (jobsToDelete \cup created)
               PROVE  submitted[j] <= submitted[k]
    BY DEF EvictsOldestFirst
  <2>1. PICK a \in allJobs : a.id = k
    BY DEF CleanupInv, Old, Collected
  <2> QED BY <2>1 DEF CleanupInv
<1> QED BY <1>1, CleanupCorrect, PTL
=============================================================================
