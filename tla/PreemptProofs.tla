---------------------------- MODULE PreemptProofs ----------------------------
(***************************************************************************)
(* The leader lock for any number of replicas, any lock time, and any      *)
(* number of late loops, failed commands, stops and restarts that          *)
(* LockAssumption allows: it is type correct, the worker keeps its key,    *)
(* and the lock implements SingleWorker.                                   *)
(***************************************************************************)
EXTENDS Preempt, Integers, TLAPS

\* What an action writes to one replica keeps the replicas well formed.
LEMMA BecomesTypeOK ==
    ASSUME proc \in [Replica -> ProcState], NEW r \in Replica, NEW state \in ProcState,
           Becomes(r, state)
    PROVE  proc' \in [Replica -> ProcState]
BY DEF Becomes

\* The states a step writes.
LEMMA GotoTypeOK ==
    ASSUME proc \in [Replica -> ProcState], NEW r \in Replica,
           NEW pc \in {"down", "up", "get", "del", "closed"}, Goto(r, pc)
    PROVE  proc' \in [Replica -> ProcState]
<1>1. [proc[r] EXCEPT !.pc = pc] \in ProcState
  BY DEF ProcState
<1> QED BY <1>1, BecomesTypeOK DEF Goto

LEMMA RestTypeOK ==
    ASSUME proc \in [Replica -> ProcState], NEW r \in Replica, Rest(r)
    PROVE  proc' \in [Replica -> ProcState]
<1>1. [proc[r] EXCEPT !.due = FALSE] \in ProcState
  BY DEF ProcState
<1> QED BY <1>1, BecomesTypeOK DEF Rest

LEMMA DownTypeOK == Down \in ProcState /\ Fresh \in ProcState
BY DEF Down, Fresh, ProcState

Budgets == [late : Nat, faults : Nat, stops : Nat, starts : Nat]

\* A budget that is spent stays a number.
LEMMA FaultTypeOK == ASSUME budget \in Budgets, Fault PROVE budget' \in Budgets
BY DEF Budgets, Fault

\* The initial state and every step keep the types.
LEMMA InitTypeOK == Init => TypeOK
<1> SUFFICES ASSUME Init PROVE TypeOK
  OBVIOUS
<1>1. proc \in [Replica -> ProcState]
  BY DownTypeOK DEF Init
<1>2. budget \in Budgets
  BY LockAssumption DEF Init, Budgets
<1> QED BY <1>1, <1>2 DEF Init, TypeOK, Budgets

LEMMA NextTypeOK == TypeOK /\ [Next]_vars => TypeOK'
<1> SUFFICES ASSUME TypeOK, [Next]_vars PROVE TypeOK'
  OBVIOUS
<1> USE ReplicaAssumption, LockAssumption
<1>t. /\ key \in Replica \cup {Nobody} /\ ttl \in Nat /\ proc \in [Replica -> ProcState]
      /\ budget \in Budgets /\ (key = Nobody <=> ttl = 0) /\ LockTime \in Nat /\ LockTime # 0
  BY DEF TypeOK, Budgets
<1>1. ASSUME NEW r \in Replica, Lock(r) PROVE TypeOK'
  <2>1. [proc[r] EXCEPT !.occupy = TRUE, !.works = TRUE, !.due = FALSE] \in ProcState
    BY <1>t DEF ProcState
  <2>2. proc' \in [Replica -> ProcState]
    BY <1>1, <1>t, <2>1, BecomesTypeOK DEF Lock
  <2> QED BY <1>1, <1>t, <2>2 DEF Lock, TypeOK, Budgets
<1>2. ASSUME NEW r \in Replica, LockRefused(r) PROVE TypeOK'
  BY <1>2, <1>t, RestTypeOK DEF LockRefused, TypeOK, Budgets
<1>3. ASSUME NEW r \in Replica, LockFails(r) PROVE TypeOK'
  <2>1. proc' \in [Replica -> ProcState] /\ budget' \in Budgets
    BY <1>3, <1>t, RestTypeOK, FaultTypeOK DEF LockFails
  <2> QED BY <1>3, <1>t, <2>1 DEF LockFails, TypeOK, Budgets
<1>4. ASSUME NEW r \in Replica, Renew(r) PROVE TypeOK'
  BY <1>4, <1>t, RestTypeOK DEF Renew, Extended, TypeOK, Budgets
<1>5. ASSUME NEW r \in Replica, RenewFails(r) PROVE TypeOK'
  <2>1. proc' \in [Replica -> ProcState] /\ budget' \in Budgets
    BY <1>5, <1>t, RestTypeOK, FaultTypeOK DEF RenewFails
  <2> QED BY <1>5, <1>t, <2>1 DEF RenewFails, TypeOK, Budgets
<1>6. ASSUME NEW r \in Replica, Close(r) PROVE TypeOK'
  <2>1. [proc[r] EXCEPT !.pc = "get", !.works = FALSE] \in ProcState
    BY <1>t DEF ProcState
  <2>2. proc' \in [Replica -> ProcState]
    BY <1>6, <1>t, <2>1, BecomesTypeOK, GotoTypeOK DEF Close
  <2>3. budget' \in Budgets
    BY <1>6, <1>t DEF Close, Budgets
  <2> QED BY <1>6, <1>t, <2>2, <2>3 DEF Close, TypeOK, Budgets
<1>7. ASSUME NEW r \in Replica, IsStillOnlyWorker(r) PROVE TypeOK'
  <2>1. proc' \in [Replica -> ProcState]
    BY <1>7, <1>t, GotoTypeOK DEF IsStillOnlyWorker
  <2>2. budget' \in Budgets
    BY <1>7, <1>t, FaultTypeOK DEF IsStillOnlyWorker
  <2> QED BY <1>7, <1>t, <2>1, <2>2 DEF IsStillOnlyWorker, TypeOK, Budgets
<1>8. ASSUME NEW r \in Replica, Unlock(r) PROVE TypeOK'
  <2>1. proc' \in [Replica -> ProcState]
    BY <1>8, <1>t, GotoTypeOK DEF Unlock
  <2>2. budget' \in Budgets
    BY <1>8, <1>t, FaultTypeOK DEF Unlock
  <2> QED BY <1>8, <1>t, <2>1, <2>2 DEF Unlock, TypeOK, Budgets
<1>9. ASSUME NEW r \in Replica, Exit(r) PROVE TypeOK'
  BY <1>9, <1>t, BecomesTypeOK, DownTypeOK DEF Exit, TypeOK, Budgets
<1>10. ASSUME NEW r \in Replica, Crash(r) PROVE TypeOK'
  <2>1. proc' \in [Replica -> ProcState] /\ budget' \in Budgets
    BY <1>10, <1>t, BecomesTypeOK, DownTypeOK DEF Crash, Budgets
  <2> QED BY <1>10, <1>t, <2>1 DEF Crash, TypeOK, Budgets
<1>11. ASSUME NEW r \in Replica, Start(r) PROVE TypeOK'
  <2>1. proc' \in [Replica -> ProcState] /\ budget' \in Budgets
    BY <1>11, <1>t, BecomesTypeOK, DownTypeOK DEF Start, Budgets
  <2> QED BY <1>11, <1>t, <2>1 DEF Start, TypeOK, Budgets
<1>12. CASE Tick
  <2>1. \A r \in Replica : [proc[r] EXCEPT !.due = TRUE] \in ProcState
    BY <1>t DEF ProcState
  <2>2. proc' \in [Replica -> ProcState]
    BY <1>12, <1>t, <2>1 DEF Tick
  <2>3. budget' \in Budgets
    BY <1>12, <1>t DEF Tick, Budgets
  <2>4. ttl' \in Nat /\ ttl' = Left(ttl)
    BY <1>12, <1>t DEF Tick, Left
  <2>5. key' \in Replica \cup {Nobody} /\ (key' = Nobody <=> ttl' = 0)
    BY <1>12, <1>t, <2>4 DEF Tick, Left
  <2> QED BY <2>2, <2>3, <2>4, <2>5 DEF TypeOK, Budgets
<1>13. CASE UNCHANGED vars
  BY <1>13, <1>t DEF vars, TypeOK, Budgets
<1> QED
  BY <1>1, <1>2, <1>3, <1>4, <1>5, <1>6, <1>7, <1>8, <1>9, <1>10, <1>11, <1>12, <1>13
     DEF Next, Flows, Ending

\* The key, its time to live, the replicas and the bounds keep their shape, and the key
\* is set exactly as long as it has time to live.
THEOREM TypeCorrect == Spec => []TypeOK
<1> QED BY InitTypeOK, NextTypeOK, PTL DEF Spec

-----------------------------------------------------------------------------
(***************************************************************************)
(* The worker keeps its key                                                *)
(***************************************************************************)
Owed(r) == IF proc[r].due THEN 1 ELSE 0
Slack(r) == ttl + Spent + Owed(r)
HeldBy(r) == key = r /\ proc[r].occupy /\ proc[r].pc # "down" /\ Slack(r) >= LockTime
Bounded == budget.late <= MaxLate /\ budget.faults <= MaxFaults
Idle(r) == /\ proc[r].pc \in {"get", "del"} => ~proc[r].works
           /\ proc[r].pc = "up" /\ proc[r].occupy => proc[r].works

LEMMA HeldInvParts ==
    HeldInv <=> Bounded /\ \A r \in Replica : (Holding(r) => HeldBy(r)) /\ Idle(r)
BY DEF HeldInv, HeldBy, Slack, Owed, Bounded, Idle

\* What is spent is a number, and little enough that the key outlives it.
LEMMA SpentBound ==
    ASSUME TypeOK, Bounded
    PROVE  Spent \in Nat /\ Spent + 1 < LockTime
<1> budget.late \in Nat /\ budget.faults \in Nat
  BY DEF TypeOK
<1> QED BY LockAssumption DEF Spent, Bounded

\* A step of r that writes neither the key nor its time to live, makes r hold nothing
\* new and lets what is spent only grow, disturbs nobody, if r itself loses no slack.
LEMMA OthersHold ==
    ASSUME TypeOK, TypeOK', HeldInv, NEW r \in Replica,
           UNCHANGED key, ttl' >= ttl, Bounded', Spent' >= Spent,
           \A s \in Replica \ {r} : proc'[s] = proc[s],
           Holding(r)' => HeldBy(r)', Idle(r)'
    PROVE  HeldInv'
<1>1. \A s \in Replica : (Holding(s) => HeldBy(s)) /\ Idle(s)
  BY HeldInvParts
<1>2. Spent \in Int /\ Spent' \in Int /\ ttl \in Nat /\ ttl' \in Nat /\ LockTime \in Nat
  BY LockAssumption DEF TypeOK, Spent
<1>3. ASSUME NEW s \in Replica, s # r PROVE (Holding(s)' => HeldBy(s)') /\ Idle(s)'
  <2>1. proc'[s] = proc[s]
    BY <1>3
  <2>2. Owed(s)' = Owed(s) /\ Owed(s) \in {0, 1}
    BY <2>1 DEF Owed
  <2>3. Slack(s) >= LockTime => Slack(s)' >= LockTime
    BY <1>2, <2>2 DEF Slack
  <2> QED BY <1>1, <2>1, <2>3 DEF Holding, HeldBy, Idle
<1>4. \A s \in Replica : (Holding(s)' => HeldBy(s)') /\ Idle(s)'
  BY <1>3
<1> QED BY <1>4 DEF HeldInv, HeldBy, Slack, Owed, Bounded, Idle

\* When nobody holds the key, a step of r needs to establish the invariant for r alone.
LEMMA OnlyHolder ==
    ASSUME HeldInv, NEW r \in Replica, Bounded',
           \A s \in Replica \ {r} : ~Holding(s),
           \A s \in Replica \ {r} : proc'[s] = proc[s],
           Holding(r)' => HeldBy(r)', Idle(r)'
    PROVE  HeldInv'
<1>1. \A s \in Replica : (Holding(s)' => HeldBy(s)') /\ Idle(s)'
  BY HeldInvParts DEF Holding, Idle
<1> QED BY <1>1 DEF HeldInv, HeldBy, Slack, Owed, Bounded, Idle

\* Only the replica whose address is in the key can hold it.
LEMMA HolderHasKey ==
    ASSUME HeldInv, NEW r \in Replica, key # r
    PROVE  ~Holding(r)
BY DEF HeldInv

LEMMA InitHeld == Init => HeldInv
<1> SUFFICES ASSUME Init PROVE HeldInv
  OBVIOUS
<1>1. Bounded
  BY LockAssumption DEF Init, Bounded
<1>2. \A r \in Replica : proc[r].pc = "up" /\ ~proc[r].occupy /\ ~proc[r].works
  BY DEF Init, Fresh, Down
<1>3. \A r \in Replica : ~Holding(r) /\ Idle(r)
  BY <1>2 DEF Holding, Idle
<1> QED BY <1>1, <1>3, HeldInvParts

LEMMA LockHeld ==
    ASSUME TypeOK, TypeOK', HeldInv, NEW r \in Replica, Lock(r)
    PROVE  HeldInv'
<1>1. \A s \in Replica : ~Holding(s)
  BY HolderHasKey, ReplicaAssumption DEF Lock, Settable
<1>2. Bounded /\ Bounded' /\ Spent' = Spent
  BY HeldInvParts DEF Lock, Bounded, Spent
<1>3. Spent \in Nat /\ LockTime \in Nat
  BY <1>2, SpentBound, LockAssumption
<1>4. /\ proc'[r] = [proc[r] EXCEPT !.occupy = TRUE, !.works = TRUE, !.due = FALSE]
      /\ \A s \in Replica \ {r} : proc'[s] = proc[s]
  BY DEF Lock, Becomes, TypeOK
<1>5. proc[r] \in ProcState /\ proc[r].pc \notin {"down", "get", "del"}
  BY <1>1 DEF Lock, Runs, Holding, TypeOK
<1>6. proc'[r].pc = proc[r].pc /\ proc'[r].occupy /\ proc'[r].works /\ ~proc'[r].due
  BY <1>4, <1>5 DEF ProcState
<1>7. HeldBy(r)'
  <2>1. Owed(r)' = 0
    BY <1>6 DEF Owed
  <2>2. Slack(r)' >= LockTime
    BY <1>2, <1>3, <2>1 DEF Slack, Lock
  <2> QED BY <1>5, <1>6, <2>2 DEF HeldBy, Lock
<1>8. Idle(r)'
  BY <1>5, <1>6 DEF Idle
<1> QED BY <1>1, <1>2, <1>4, <1>7, <1>8, OnlyHolder

\* A replica that is not the worker rests, and holds nothing before or after.
LEMMA RestIdle ==
    ASSUME TypeOK, HeldInv, NEW r \in Replica, ~proc[r].occupy, Rest(r), proc[r].pc # "down"
    PROVE  /\ ~Holding(r) /\ ~Holding(r)' /\ Idle(r)'
           /\ \A s \in Replica \ {r} : proc'[s] = proc[s]
<1>1. ~Holding(r) /\ Idle(r)
  BY HeldInvParts DEF HeldBy
<1>2. /\ proc'[r] = [proc[r] EXCEPT !.due = FALSE] /\ proc[r] \in ProcState
      /\ \A s \in Replica \ {r} : proc'[s] = proc[s]
  BY DEF Rest, Becomes, TypeOK
<1>3. proc'[r].pc = proc[r].pc /\ proc'[r].occupy = proc[r].occupy /\ proc'[r].works = proc[r].works
  BY <1>2 DEF ProcState
<1> QED BY <1>1, <1>2, <1>3 DEF Holding, Idle

LEMMA LockRefusedHeld ==
    ASSUME TypeOK, TypeOK', HeldInv, NEW r \in Replica, LockRefused(r)
    PROVE  HeldInv'
<1>1. /\ ~Holding(r)' /\ Idle(r)'
      /\ \A s \in Replica \ {r} : proc'[s] = proc[s]
  BY RestIdle DEF LockRefused, Runs
<1>2. Bounded' /\ Spent' = Spent /\ key' = key /\ ttl' = ttl
  BY HeldInvParts DEF LockRefused, Bounded, Spent
<1>3. Spent' >= Spent /\ ttl' >= ttl
  BY <1>2, HeldInvParts, SpentBound DEF TypeOK
<1> QED BY <1>1, <1>2, <1>3, OthersHold

\* A fault is counted.
LEMMA FaultSpent ==
    ASSUME TypeOK, Bounded, Fault
    PROVE  Bounded' /\ Spent' = Spent + 1 /\ Spent \in Nat
<1>1. budget'.late = budget.late /\ budget'.faults = budget.faults - 1
  BY DEF Fault, TypeOK
<1>2. /\ budget.late \in Nat /\ budget.faults \in Nat /\ budget.faults > 0
      /\ MaxLate \in Nat /\ MaxFaults \in Nat
  BY LockAssumption DEF TypeOK, Fault
<1> QED BY <1>1, <1>2, SpentBound DEF Bounded, Spent

LEMMA LockFailsHeld ==
    ASSUME TypeOK, TypeOK', HeldInv, NEW r \in Replica, LockFails(r)
    PROVE  HeldInv'
<1>1. /\ ~Holding(r)' /\ Idle(r)'
      /\ \A s \in Replica \ {r} : proc'[s] = proc[s]
  BY RestIdle DEF LockFails, Runs
<1>2. Bounded' /\ Spent' = Spent + 1 /\ Spent \in Nat
  BY FaultSpent, HeldInvParts DEF LockFails
<1>3. CASE Settable
  <2>1. \A s \in Replica : ~Holding(s)
    BY <1>3, HolderHasKey, ReplicaAssumption DEF Settable
  <2> QED BY <1>1, <1>2, <2>1, OnlyHolder
<1>4. CASE UNCHANGED <<key, ttl>>
  <2>1. ttl' >= ttl /\ Spent' >= Spent
    BY <1>2, <1>4 DEF TypeOK
  <2> QED BY <1>1, <1>2, <1>4, <2>1, OthersHold
<1> QED BY <1>3, <1>4 DEF LockFails

\* Whoever renews gives the holder, if there is one, the whole lock time again.
LEMMA RenewHeld ==
    ASSUME TypeOK, TypeOK', HeldInv, NEW r \in Replica, Renew(r)
    PROVE  HeldInv'
<1>1. /\ proc'[r] = [proc[r] EXCEPT !.due = FALSE] /\ proc[r] \in ProcState
      /\ \A s \in Replica \ {r} : proc'[s] = proc[s]
  BY DEF Renew, Rest, Becomes, TypeOK
<1>2. proc'[r].pc = proc[r].pc /\ proc'[r].occupy = proc[r].occupy /\ proc'[r].works = proc[r].works
  BY <1>1 DEF ProcState
<1>3. Bounded /\ Bounded' /\ Spent' = Spent /\ key' = key
  BY HeldInvParts DEF Renew, Bounded, Spent
<1>4. Spent \in Nat /\ LockTime \in Nat
  BY <1>3, SpentBound, LockAssumption
<1>5. ASSUME NEW s \in Replica PROVE (Holding(s)' => HeldBy(s)') /\ Idle(s)'
  <2>1. proc'[s].pc = proc[s].pc /\ proc'[s].occupy = proc[s].occupy /\ proc'[s].works = proc[s].works
    BY <1>1, <1>2
  <2>2. Idle(s)'
    BY <2>1, HeldInvParts DEF Idle
  <2>3. ASSUME Holding(s)' PROVE HeldBy(s)'
    <3>1. HeldBy(s)
      BY <2>1, <2>3, HeldInvParts DEF Holding
    <3>2. ttl' = LockTime
      BY <3>1, ReplicaAssumption DEF HeldBy, Renew, Extended
    <3>3. Owed(s)' \in {0, 1}
      BY DEF Owed
    <3>4. Slack(s)' >= LockTime
      BY <1>3, <1>4, <3>2, <3>3 DEF Slack
    <3> QED BY <1>3, <2>1, <3>1, <3>4 DEF HeldBy
  <2> QED BY <2>2, <2>3
<1> QED BY <1>3, <1>5 DEF HeldInv, HeldBy, Slack, Owed, Bounded, Idle

\* A renewal that fails costs its loop the round it was due, and counts as spent.
LEMMA RenewFailsHeld ==
    ASSUME TypeOK, TypeOK', HeldInv, NEW r \in Replica, RenewFails(r)
    PROVE  HeldInv'
<1>1. /\ proc'[r] = [proc[r] EXCEPT !.due = FALSE] /\ proc[r] \in ProcState
      /\ \A s \in Replica \ {r} : proc'[s] = proc[s]
  BY DEF RenewFails, Rest, Becomes, TypeOK
<1>2. /\ proc'[r].pc = proc[r].pc /\ proc'[r].occupy = proc[r].occupy
      /\ proc'[r].works = proc[r].works /\ ~proc'[r].due
  BY <1>1 DEF ProcState
<1>3. Bounded' /\ Spent' = Spent + 1 /\ Spent \in Nat
  BY FaultSpent, HeldInvParts DEF RenewFails
<1>4. key' = key /\ ttl' = ttl /\ ttl \in Nat /\ LockTime \in Nat /\ proc[r].due
  BY LockAssumption DEF RenewFails, Runs, TypeOK
<1>5. Idle(r)'
  BY <1>2, HeldInvParts DEF Idle
<1>6. Holding(r)' => HeldBy(r)'
  <2>1. Owed(r) = 1 /\ Owed(r)' = 0
    BY <1>2, <1>4 DEF Owed
  <2>2. Slack(r)' = Slack(r)
    BY <1>3, <1>4, <2>1 DEF Slack
  <2> QED BY <1>2, <1>4, <2>2, HeldInvParts DEF Holding, HeldBy
<1>7. ttl' >= ttl /\ Spent' >= Spent
  BY <1>3, <1>4
<1> QED BY <1>1, <1>3, <1>4, <1>5, <1>6, <1>7, OthersHold

\* What a step that spends no late round and no fault leaves.
LEMMA NothingSpent ==
    ASSUME TypeOK, HeldInv, budget'.late = budget.late, budget'.faults = budget.faults
    PROVE  Bounded' /\ Spent' = Spent /\ Spent' >= Spent
<1>1. Bounded /\ Bounded'
  BY HeldInvParts DEF Bounded
<1>2. Spent' = Spent /\ Spent \in Nat
  BY <1>1, SpentBound DEF Spent
<1> QED BY <1>1, <1>2

\* A worker that closes holds its key until it has deleted it.
LEMMA CloseHeld ==
    ASSUME TypeOK, TypeOK', HeldInv, NEW r \in Replica, Close(r)
    PROVE  HeldInv'
<1>1. budget'.late = budget.late /\ budget'.faults = budget.faults /\ proc[r] \in ProcState
  BY DEF Close, TypeOK
<1>2. Bounded' /\ Spent' = Spent /\ Spent' >= Spent
  BY <1>1, NothingSpent
<1>3. key' = key /\ ttl' = ttl /\ ttl' >= ttl /\ proc[r].pc = "up"
  BY DEF Close, TypeOK
<1>4. CASE proc[r].occupy
  <2>1. /\ proc'[r] = [proc[r] EXCEPT !.pc = "get", !.works = FALSE]
        /\ \A s \in Replica \ {r} : proc'[s] = proc[s]
    BY <1>4 DEF Close, Becomes, TypeOK
  <2>2. /\ proc'[r].pc = "get" /\ ~proc'[r].works /\ proc'[r].occupy
        /\ proc'[r].due = proc[r].due
    BY <1>1, <1>4, <2>1 DEF ProcState
  <2>3. HeldBy(r)
    BY <1>3, <1>4, HeldInvParts DEF Idle, Holding
  <2>4. Slack(r)' = Slack(r)
    BY <1>2, <1>3, <2>2 DEF Slack, Owed
  <2>5. HeldBy(r)' /\ Idle(r)'
    BY <1>3, <2>2, <2>3, <2>4 DEF HeldBy, Idle
  <2> QED BY <1>2, <1>3, <2>1, <2>5, OthersHold
<1>5. CASE ~proc[r].occupy
  <2>1. /\ proc'[r] = [proc[r] EXCEPT !.pc = "closed"]
        /\ \A s \in Replica \ {r} : proc'[s] = proc[s]
    BY <1>5 DEF Close, Goto, Becomes, TypeOK
  <2>2. proc'[r].pc = "closed" /\ proc'[r].works = proc[r].works
    BY <1>1, <2>1 DEF ProcState
  <2>3. ~Holding(r)
    BY <1>5, HeldInvParts DEF HeldBy
  <2>4. ~Holding(r)' /\ Idle(r)'
    BY <2>2, <2>3 DEF Holding, Idle
  <2> QED BY <1>2, <1>3, <2>1, <2>4, OthersHold
<1> QED BY <1>4, <1>5

\* The owner check finds the key still there, and a failed one gives it up.
LEMMA IsStillOnlyWorkerHeld ==
    ASSUME TypeOK, TypeOK', HeldInv, NEW r \in Replica, IsStillOnlyWorker(r)
    PROVE  HeldInv'
<1>1. Holding(r) /\ HeldBy(r) /\ ~proc[r].works /\ Bounded
  BY HeldInvParts DEF IsStillOnlyWorker, Holding, Idle
<1>2. key' = key /\ ttl' = ttl /\ ttl' >= ttl /\ proc[r] \in ProcState
  BY DEF IsStillOnlyWorker, TypeOK
<1>3. CASE Goto(r, "closed") /\ Fault
  <2>1. /\ proc'[r] = [proc[r] EXCEPT !.pc = "closed"]
        /\ \A s \in Replica \ {r} : proc'[s] = proc[s]
    BY <1>3 DEF Goto, Becomes, TypeOK
  <2>2. proc'[r].pc = "closed" /\ proc'[r].works = proc[r].works
    BY <1>2, <2>1 DEF ProcState
  <2>3. ~Holding(r)' /\ Idle(r)'
    BY <1>1, <2>2 DEF Holding, Idle
  <2>4. Bounded' /\ Spent' >= Spent
    BY <1>1, <1>3, FaultSpent
  <2> QED BY <1>2, <2>1, <2>3, <2>4, OthersHold
<1>4. CASE Goto(r, "del") /\ UNCHANGED budget
  <2>1. /\ proc'[r] = [proc[r] EXCEPT !.pc = "del"]
        /\ \A s \in Replica \ {r} : proc'[s] = proc[s]
    BY <1>4 DEF Goto, Becomes, TypeOK
  <2>2. /\ proc'[r].pc = "del" /\ proc'[r].works = proc[r].works
        /\ proc'[r].occupy = proc[r].occupy /\ proc'[r].due = proc[r].due
    BY <1>2, <2>1 DEF ProcState
  <2>3. Bounded' /\ Spent' = Spent /\ Spent' >= Spent
    BY <1>4, NothingSpent
  <2>4. Slack(r)' = Slack(r)
    BY <1>2, <2>2, <2>3 DEF Slack, Owed
  <2>5. HeldBy(r)' /\ Idle(r)'
    BY <1>1, <1>2, <2>2, <2>4 DEF HeldBy, Idle
  <2> QED BY <1>2, <2>1, <2>3, <2>5, OthersHold
<1> QED BY <1>1, <1>3, <1>4 DEF IsStillOnlyWorker, HeldBy

\* The key that is deleted is the replica's own.
LEMMA UnlockHeld ==
    ASSUME TypeOK, TypeOK', HeldInv, NEW r \in Replica, Unlock(r)
    PROVE  HeldInv'
<1>1. Holding(r) /\ HeldBy(r) /\ ~proc[r].works /\ Bounded
  BY HeldInvParts DEF Unlock, Holding, Idle
<1>2. \A s \in Replica \ {r} : ~Holding(s)
  BY <1>1, HolderHasKey DEF HeldBy
<1>3. /\ proc'[r] = [proc[r] EXCEPT !.pc = "closed"] /\ proc[r] \in ProcState
      /\ \A s \in Replica \ {r} : proc'[s] = proc[s]
  BY DEF Unlock, Goto, Becomes, TypeOK
<1>4. proc'[r].pc = "closed" /\ proc'[r].works = proc[r].works
  BY <1>3 DEF ProcState
<1>5. ~Holding(r)' /\ Idle(r)'
  BY <1>1, <1>4 DEF Holding, Idle
<1>6. Bounded'
  BY <1>1, FaultSpent, NothingSpent DEF Unlock
<1> QED BY <1>2, <1>3, <1>5, <1>6, OnlyHolder

\* A process that ends or begins holds nothing; its key is left to expire.
LEMMA ProcessHeld ==
    ASSUME TypeOK, TypeOK', HeldInv, NEW r \in Replica, Exit(r) \/ Crash(r) \/ Start(r)
    PROVE  HeldInv'
<1>1. budget'.late = budget.late /\ budget'.faults = budget.faults
  BY DEF Exit, Crash, Start, TypeOK
<1>2. Bounded' /\ Spent' >= Spent
  BY <1>1, NothingSpent
<1>3. key' = key /\ ttl' >= ttl
  BY DEF Exit, Crash, Start, TypeOK
<1>4. /\ proc'[r] = Down \/ proc'[r] = Fresh
      /\ \A s \in Replica \ {r} : proc'[s] = proc[s]
  BY DEF Exit, Crash, Start, Becomes, TypeOK
<1>5. proc'[r].pc \in {"down", "up"} /\ ~proc'[r].works /\ ~proc'[r].occupy
  <2>1. CASE proc'[r] = Down
    BY <2>1 DEF Down
  <2>2. CASE proc'[r] = Fresh
    BY <2>2 DEF Fresh, Down
  <2> QED BY <1>4, <2>1, <2>2
<1>6. ~Holding(r)' /\ Idle(r)'
  BY <1>5 DEF Holding, Idle
<1> QED BY <1>2, <1>3, <1>4, <1>6, OthersHold

\* A tick takes one from the time to live of a holder that has run, which is then due,
\* or spends a late round; either way the key outlives it.
LEMMA TickHeld ==
    ASSUME TypeOK, TypeOK', HeldInv, Tick
    PROVE  HeldInv'
<1>1. /\ Bounded /\ budget.late \in Nat /\ budget.faults \in Nat /\ ttl \in Nat
      /\ LockTime \in Nat /\ MaxLate \in Nat /\ MaxFaults \in Nat
  BY LockAssumption, HeldInvParts DEF TypeOK
<1>2. Bounded' /\ Spent' = (IF Late THEN Spent + 1 ELSE Spent)
  BY <1>1 DEF Tick, Bounded, Spent, TypeOK
<1>3. Spent \in Nat /\ Spent' \in Nat /\ Spent' + 1 < LockTime
  <2>1. budget'.late \in Nat /\ budget'.faults \in Nat
    BY DEF TypeOK
  <2>2. Spent' \in Nat /\ Spent' + 1 < LockTime
    BY <1>1, <1>2, <2>1, LockAssumption DEF Spent, Bounded
  <2> QED BY <1>1, <2>2, SpentBound
<1>4. ASSUME NEW s \in Replica PROVE (Holding(s)' => HeldBy(s)') /\ Idle(s)'
  <2>1. /\ proc'[s].pc = proc[s].pc /\ proc'[s].occupy = proc[s].occupy
        /\ proc'[s].works = proc[s].works
        /\ proc[s].pc # "down" => proc'[s].due
    BY DEF Tick, TypeOK, ProcState
  <2>2. Idle(s)'
    BY <2>1, HeldInvParts DEF Idle
  <2>3. ASSUME Holding(s)' PROVE HeldBy(s)'
    <3>1. HeldBy(s) /\ proc[s].pc # "down"
      BY <2>1, <2>3, HeldInvParts DEF Holding, HeldBy
    <3>2. Owed(s)' = 1 /\ Owed(s) \in {0, 1}
      BY <2>1, <3>1 DEF Owed
    <3>3. Owed(s) = 1 => Late
      BY <3>1 DEF Owed, Late, Runs
    <3>4. ttl + Spent + Owed(s) >= LockTime
      BY <3>1 DEF HeldBy, Slack
    <3>5. ttl + Spent' >= LockTime
      BY <1>1, <1>2, <1>3, <3>2, <3>3, <3>4
    <3>6. ttl > 1 /\ Left(ttl) = ttl - 1 /\ Left(ttl) # 0 /\ ttl' = ttl - 1
      BY <1>1, <1>3, <3>5 DEF Tick, Left
    <3>7. Slack(s)' >= LockTime
      <4>1. Slack(s)' = (ttl - 1) + Spent' + 1
        BY <3>2, <3>6 DEF Slack
      <4>2. Slack(s)' = ttl + Spent'
        BY <1>1, <1>3, <4>1
      <4> QED BY <3>5, <4>2
    <3>8. key' = key
      BY <3>6 DEF Tick
    <3> QED BY <2>1, <3>1, <3>7, <3>8 DEF HeldBy
  <2> QED BY <2>2, <2>3
<1> QED BY <1>2, <1>4 DEF HeldInv, HeldBy, Slack, Owed, Bounded, Idle

LEMMA NextHeld == TypeOK /\ TypeOK' /\ HeldInv /\ [Next]_vars => HeldInv'
<1> SUFFICES ASSUME TypeOK, TypeOK', HeldInv, [Next]_vars PROVE HeldInv'
  OBVIOUS
<1>1. ASSUME NEW r \in Replica, Flows(r) PROVE HeldInv'
  BY <1>1, LockHeld, LockRefusedHeld, LockFailsHeld, RenewHeld, RenewFailsHeld DEF Flows
<1>2. ASSUME NEW r \in Replica, Close(r) \/ Ending(r) \/ Crash(r) \/ Start(r) PROVE HeldInv'
  BY <1>2, CloseHeld, IsStillOnlyWorkerHeld, UnlockHeld, ProcessHeld DEF Ending
<1>3. CASE Tick
  BY <1>3, TickHeld
<1>4. CASE UNCHANGED vars
  BY <1>4 DEF vars, HeldInv, Holding, Spent
<1> QED BY <1>1, <1>2, <1>3, <1>4 DEF Next

\* A replica that works, or is about to delete the key, still owns it, with time to live
\* for all that LockAssumption lets go wrong.
THEOREM KeyIsHeld == Spec => []HeldInv
<1>1. Spec => []TypeOK
  BY TypeCorrect
<1> QED BY <1>1, InitHeld, NextHeld, PTL DEF Spec

\* The background worker never runs in two replicas.
THEOREM AtMostOneWorker == Spec => []OneWorker
<1>1. HeldInv => OneWorker
  BY DEF HeldInv, OneWorker, Holding
<1> QED BY <1>1, KeyIsHeld, PTL

-----------------------------------------------------------------------------
(***************************************************************************)
(* The lock implements SingleWorker                                        *)
(***************************************************************************)
Working == {r \in Replica : proc[r].works}

\* A step that leaves every replica working or not does not change the set.
LEMMA WorkingKept ==
    ASSUME \A s \in Replica : proc'[s].works = proc[s].works
    PROVE  Working' = Working
BY DEF Working

\* A step of r alone that does not change whether it works is a stutter.
LEMMA RestKept ==
    ASSUME TypeOK, NEW r \in Replica, NEW state \in ProcState, Becomes(r, state),
           state.works = proc[r].works
    PROVE  Working' = Working
<1>1. \A s \in Replica : proc'[s].works = proc[s].works
  BY DEF Becomes, TypeOK
<1> QED BY <1>1, WorkingKept

\* A replica that stops working was the only one.
LEMMA LeaveStep ==
    ASSUME TypeOK, HeldInv, NEW r \in Replica, NEW state \in ProcState, Becomes(r, state),
           ~state.works
    PROVE  Working' = Working \/ Elected!Leave(r)
<1>1. CASE proc[r].works
  <2>1. \A s \in Replica : proc[s].works => s = r
    BY <1>1 DEF HeldInv, Holding
  <2>2. \A s \in Replica : ~proc'[s].works
    BY <2>1 DEF Becomes, TypeOK
  <2> QED BY <1>1, <2>2 DEF Working, Elected!Leave
<1>2. CASE ~proc[r].works
  <2>1. \A s \in Replica : proc'[s].works <=> proc[s].works
    BY <1>2 DEF Becomes, TypeOK
  <2> QED BY <2>1 DEF Working
<1> QED BY <1>1, <1>2

\* A replica that sets the key begins to work when nobody does.
LEMMA TakeStep ==
    ASSUME TypeOK, HeldInv, NEW r \in Replica, Lock(r)
    PROVE  Elected!Take(r)
<1>1. \A s \in Replica : ~proc[s].works
  BY HolderHasKey, ReplicaAssumption DEF Lock, Settable, Holding
<1>2. \A s \in Replica : proc'[s].works <=> s = r
  BY <1>1 DEF Lock, Becomes, TypeOK, ProcState
<1> QED BY <1>1, <1>2 DEF Elected!Take

LEMMA NextElects ==
    TypeOK /\ HeldInv /\ [Next]_vars => [Elected!Next]_{r \in Replica : proc[r].works}
<1> SUFFICES ASSUME TypeOK, HeldInv, [Next]_vars
             PROVE  Elected!Next \/ Working' = Working
  BY DEF Working
<1>1. ASSUME NEW r \in Replica, Flows(r) PROVE Elected!Next \/ Working' = Working
  <2>1. CASE Lock(r)
    BY <2>1, TakeStep DEF Elected!Next
  <2>2. CASE Rest(r)
    <3>1. /\ [proc[r] EXCEPT !.due = FALSE] \in ProcState
          /\ [proc[r] EXCEPT !.due = FALSE].works = proc[r].works
      BY DEF TypeOK, ProcState
    <3> QED BY <2>2, <3>1, RestKept DEF Rest
  <2> QED BY <1>1, <2>1, <2>2 DEF Flows, LockRefused, LockFails, Renew, RenewFails
<1>2. ASSUME NEW r \in Replica, Close(r) PROVE Elected!Next \/ Working' = Working
  <2>1. CASE Becomes(r, [proc[r] EXCEPT !.pc = "get", !.works = FALSE])
    <3>1. /\ [proc[r] EXCEPT !.pc = "get", !.works = FALSE] \in ProcState
          /\ ~[proc[r] EXCEPT !.pc = "get", !.works = FALSE].works
      BY DEF TypeOK, ProcState
    <3> QED BY <2>1, <3>1, LeaveStep DEF Elected!Next
  <2>2. CASE Goto(r, "closed")
    <3>1. /\ [proc[r] EXCEPT !.pc = "closed"] \in ProcState
          /\ [proc[r] EXCEPT !.pc = "closed"].works = proc[r].works
      BY DEF TypeOK, ProcState
    <3> QED BY <2>2, <3>1, RestKept DEF Goto
  <2> QED BY <1>2, <2>1, <2>2 DEF Close
<1>3. ASSUME NEW r \in Replica, NEW pc \in {"del", "closed"}, Goto(r, pc)
      PROVE  Elected!Next \/ Working' = Working
  <2>1. /\ [proc[r] EXCEPT !.pc = pc] \in ProcState
        /\ [proc[r] EXCEPT !.pc = pc].works = proc[r].works
    BY DEF TypeOK, ProcState
  <2> QED BY <1>3, <2>1, RestKept DEF Goto
<1>4. ASSUME NEW r \in Replica, Exit(r) \/ Crash(r) PROVE Elected!Next \/ Working' = Working
  <2>1. ~Down.works
    BY DEF Down
  <2> QED BY <1>4, <2>1, DownTypeOK, LeaveStep DEF Exit, Crash, Elected!Next
<1>5. ASSUME NEW r \in Replica, Start(r) PROVE Elected!Next \/ Working' = Working
  <2>1. ~Fresh.works
    BY DEF Fresh, Down
  <2> QED BY <1>5, <2>1, DownTypeOK, LeaveStep DEF Start, Elected!Next
<1>6. CASE Tick
  <2>1. \A s \in Replica : proc'[s].works = proc[s].works
    BY <1>6 DEF Tick, TypeOK, ProcState
  <2> QED BY <2>1, WorkingKept
<1>7. CASE UNCHANGED vars
  BY <1>7 DEF vars, Working
<1> QED BY <1>1, <1>2, <1>3, <1>4, <1>5, <1>6, <1>7
        DEF Next, Ending, IsStillOnlyWorker, Unlock

\* The replicas that work change as SingleWorker allows: one begins when nobody works,
\* and stops before another begins.
THEOREM LockImplementsSingleWorker == Spec => ImplementsSingleWorker
<1>1. Init => Elected!Init
  BY DEF Init, Elected!Init, Fresh, Down
<1> QED BY <1>1, TypeCorrect, KeyIsHeld, NextElects, PTL DEF Spec, ImplementsSingleWorker, Elected!Spec
=============================================================================
