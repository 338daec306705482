SPECIFICATION PipelineSpec
CONSTANTS
    Jobs = {j1}
    Requests = {r1}
    Handlers = {h1, h2}
    Threads = {r1, h1, h2}
    Rewriters = {h1, h2}
    Requested = {"processing", "completed", "failed", "cancelled"}
    Startup <- IntendedStartup
    Lossy = FALSE
    MaxDeliveries = 1
    MaxJobs = 1
    Retention = 1
    MaxTime = 1
    Absent = Absent
    Idle = Idle
INVARIANT LatestStatusShown
