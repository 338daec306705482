SPECIFICATION PipelineSpec
CONSTANTS
    Jobs = {j1}
    Requests = {r1, r2}
    Handlers = {h1}
    Threads = {r1, r2, h1}
    Rewriters = {h1}
    Requested = {"processing", "completed", "failed", "cancelled"}
    Startup <- IntendedStartup
    Lossy = FALSE
    MaxDeliveries = 1
    MaxJobs = 1
    Retention = 1
    MaxTime = 1
    Absent = Absent
    Idle = Idle
PROPERTY ReAddChangesTimestampsOnly
