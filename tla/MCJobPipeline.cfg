SPECIFICATION FairPipelineSpec
CONSTANTS
    Jobs = {j1}
    Requests = {r1, r2}
    Handlers = {h1}
    Threads = {r1, r2, h1}
    Rewriters = {h1}
    Requested = {"processing", "completed", "failed", "cancelled"}
    Startup <- IntendedStartup
    Lossy = TRUE
    MaxDeliveries = 1
    MaxJobs = 1
    Retention = 0
    MaxTime = 2
    Absent = Absent
    Idle = Idle
INVARIANTS
    PipelineTypeOK
    UpdatesFindTheirJob
    AnswersAreTrue
PROPERTIES
    ImplementsStore
    CallsReturn
