\* Two replicas, one incident, two crashes and two edits of the rule under the fairness of FairSpec.
SPECIFICATION FairSpec
CONSTANTS
    Worker = {w1, w2}
    Notifier = {n1}
    Group = {g1}
    Channel = {c1}
    StartTimes = {1}
    EndTimes = {2}
    MaxAttempts = 2
    LeaseDuration = 2
    WorkTimeout = 1
    RetryDelay = 1
    Cooldown = 1
    MaxBatch = 1
    MaxNotices = 1
    MaxJobs = 1
    MaxCrashes = 2
    MaxEdits = 2
PROPERTIES JobsSettle NoSendAfterEnd
