\* Two replicas, two requests and an execution with two channels and a retry.
SPECIFICATION Spec
CONSTANTS
    Replica = {p1, p2}
    Report = {r1}
    Cron = {c1, c2}
    Request = {q1, q2}
    Run = {e1}
    Channels = 2
    MaxAttempts = 2
    MaxTroubles = 1
    Nothing = Nothing
SYMMETRY Symmetric
INVARIANTS TypeOK EntryFollowsRow NoOldEntry SuspendedIsNotSent RunningIsRun RecordIsTrue CloseGoesOn
CHECK_DEADLOCK FALSE
