SPECIFICATION StoreSpec
CONSTANTS
    Jobs = {j1, j2}
    Threads = {t1, t2}
    Rewriters = {t2}
    Requested = {"cancelled"}
    MaxJobs = 1
    Retention = 0
    MaxTime = 2
    Absent = Absent
    Idle = Idle
SYMMETRY Symmetry
INVARIANTS
    StoreTypeOK
    SubmissionTimeKept
    FinishedHasCompletionTime
    MutexProtectsUpdate
    CleanupBoundsStore
    EvictsOldestFirst
