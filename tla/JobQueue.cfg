SPECIFICATION Spec
CONSTANTS
    j1 = j1
    j2 = j2
    r1 = r1
    NoJob = NoJob
    Jobs <- MCJobs
    RouteJobs <- MCRouteJobs
    Handled <- MCHandled
    Priority <- MCPriority
    Place <- MCPlace
    WorkerCount = 2
    Concurrency = 1
    MaxRetries = 1
    PageSize = 1
    MaxQueueSize = 2
    MaxDlqSize = 1
    MaxCrashes <- MCMaxCrashes
    Offered <- MCOffered
    MaxLeaked = 1
INVARIANTS
    TypeOK
    NoOrphans
    IndexJobNeverEnds
PROPERTIES
    ImplementsJobBoard
    JobsSettle
CHECK_DEADLOCK FALSE
