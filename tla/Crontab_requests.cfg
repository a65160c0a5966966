\* One replica that crashes and may come back; requests come one by one, between the
\* rounds of the looper; one failing statement.
SPECIFICATION Spec
CONSTANTS
    Replica = {r1}
    Node = {n1, n2}
    Slot = {c1, c2}
    Schedule = {s1, s2, s3}
    BadSchedule = {s3}
    Request = {q1, q2, q3}
    Ops = {"update"}
    MultiCopy = FALSE
    Overlap = FALSE
    StopKinds = {"crash"}
    MaxStops = 1
    MaxStarts = 1
    MaxFaults = 1
INVARIANTS RunsAsWritten SuspendedIsQuiet
CHECK_DEADLOCK FALSE
