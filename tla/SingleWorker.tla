----------------------------- MODULE SingleWorker -----------------------------
(***************************************************************************)
(* What the replicas of a multi-copy deployment want of their lock: the    *)
(* background worker runs in one of them at a time.                        *)
(***************************************************************************)
CONSTANT Replica

VARIABLE working    \* the replicas whose startFunc runs

Init == working = {}

Take(r) == working = {} /\ working' = {r}

Leave(r) == r \in working /\ working' = {}

Next == \E r \in Replica : Take(r) \/ Leave(r)

Spec == Init /\ [][Next]_working
=============================================================================
