SPECIFICATION FairStoreSpec
CONSTANTS
    Jobs = {j1, j2}
    Threads = {t1, t2}
    Rewriters = {}
    Requested = {"processing", "cancelled"}
    MaxJobs = 1
    Retention = 0
    MaxTime = 2
    Absent = Absent
    Idle = Idle
INVARIANT NoLostUpdate
PROPERTIES
    ImplementsAtomicTable
    ExpiredJobsRemoved
