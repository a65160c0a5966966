\* Three replicas, late rounds and Redis errors, two stops and a restart; no symmetry, for the sake of the liveness check.
SPECIFICATION FairSpec
CONSTANTS
    Replica = {r1, r2, r3}
    LockTime = 6
    MaxLate = 2
    MaxFaults = 2
    MaxStops = 2
    MaxStarts = 1
INVARIANTS TypeOK HeldInv OneWorker
PROPERTIES ImplementsSingleWorker SomeoneWorks
