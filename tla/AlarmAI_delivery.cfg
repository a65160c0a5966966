\* Two replicas, one job and its recovery, one channel: leases, retries, a crash or shutdown, an edit.
SPECIFICATION Spec
CONSTANTS
    Worker = {w1, w2}
    Notifier = {n1}
    Group = {g1}
    Channel = {c1}
    StartTimes = {1}
    EndTimes = {2}
    MaxAttempts = 2
    LeaseDuration = 2
    WorkTimeout = 1
    RetryDelay = 1
    Cooldown = 1
    MaxBatch = 1
    MaxNotices = 2
    MaxJobs = 1
    MaxCrashes = 1
    MaxEdits = 1
SYMMETRY Symmetry
INVARIANTS AttemptsCapped OneBusyWorker LeaseInv
PROPERTIES SettledJobsRest SentIsFinal RecoveryStopsAnalysis
