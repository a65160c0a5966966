\* Two replicas of which one closes or crashes and comes back, a bad schedule, a failing
\* statement, and two requests that fall anywhere into the rounds.
SPECIFICATION FairSpec
CONSTANTS
    Replica = {r1, r2}
    Node = {n1}
    Slot = {c1}
    Schedule = {s1, s2}
    BadSchedule = {s2}
    Request = {q1, q2}
    Ops = {"create", "update", "delete"}
    MultiCopy = TRUE
    Overlap = TRUE
    StopKinds = {"close", "crash"}
    MaxStops = 1
    MaxStarts = 1
    MaxFaults = 1
INVARIANT DoingRuns
PROPERTY WaitIsPicked
CHECK_DEADLOCK FALSE
