\* One worker, two webhook requests at a time, two incidents of one fingerprint.
SPECIFICATION Spec
CONSTANTS
    Worker = {w1}
    Notifier = {n1, n2}
    Group = {g1}
    Channel = {c1}
    StartTimes = {1, 3}
    EndTimes = {2, 4}
    MaxAttempts = 2
    LeaseDuration = 2
    WorkTimeout = 1
    RetryDelay = 1
    Cooldown = 1
    MaxBatch = 1
    MaxNotices = 2
    MaxJobs = 2
    MaxCrashes = 0
    MaxEdits = 0
INVARIANTS TypeOK CurrentJobMatches RecoveredJobIsQuiet CooldownIsEarned
PROPERTY WatermarkMonotone
