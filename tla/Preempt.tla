-------------------------------- MODULE Preempt --------------------------------
(***************************************************************************)
(* The lock of a multi-copy deployment: every replica tries to set one     *)
(* Redis key with its address and a time to live; whoever sets it starts   *)
(* the background worker and goes on renewing the key.  A tick is one      *)
(* retryInterval, so every loop runs once per tick, unless it is late.     *)
(***************************************************************************)
EXTENDS Naturals

CONSTANTS
    Replica,    \* processes, each with its own address
    LockTime,   \* lockTime, in ticks
    MaxLate,    \* bound: ticks in which a loop does not run
    MaxFaults,  \* bound: Redis commands that answer with an error
    MaxStops,   \* bound: replicas that close or crash
    MaxStarts   \* bound: replicas that come back

Nobody == "nobody"

ASSUME ReplicaAssumption == Nobody \notin Replica
\* Losing the key takes more late loops and failed renewals than there are.
ASSUME LockAssumption ==
    /\ LockTime \in Nat /\ MaxLate \in Nat /\ MaxFaults \in Nat
    /\ MaxStops \in Nat /\ MaxStarts \in Nat
    /\ MaxLate + MaxFaults + 1 < LockTime

VARIABLES
    key,    \* the value of the Redis key
    ttl,    \* its time to live, 0 when it is not set
    proc,   \* the replicas
    budget  \* what is left of the bounds

vars == <<key, ttl, proc, budget>>

Down == [pc |-> "down", occupy |-> FALSE, works |-> FALSE, due |-> FALSE]
Fresh == [Down EXCEPT !.pc = "up", !.due = TRUE]

Init ==
    /\ key = Nobody /\ ttl = 0
    /\ proc = [r \in Replica |-> Fresh]
    /\ budget = [late |-> MaxLate, faults |-> MaxFaults, stops |-> MaxStops, starts |-> MaxStarts]

Becomes(r, state) == proc' = [proc EXCEPT ![r] = state]
Goto(r, pc) == Becomes(r, [proc[r] EXCEPT !.pc = pc])
Rest(r) == Becomes(r, [proc[r] EXCEPT !.due = FALSE])
Fault == budget.faults > 0 /\ budget' = [budget EXCEPT !.faults = budget.faults - 1]

-----------------------------------------------------------------------------
(***************************************************************************)
(* flows: one round of the loop, which no Close ends                       *)
(***************************************************************************)
Runs(r) == proc[r].pc # "down" /\ proc[r].due

\* mutant: SET instead of SETNX
SettableAlways == TRUE
Settable == key = Nobody

\* SETNX succeeds: the worker starts.
Lock(r) ==
    /\ Runs(r) /\ ~proc[r].occupy /\ Settable
    /\ key' = r /\ ttl' = LockTime
    /\ Becomes(r, [proc[r] EXCEPT !.occupy = TRUE, !.works = TRUE, !.due = FALSE])
    /\ UNCHANGED budget

LockRefused(r) ==
    /\ Runs(r) /\ ~proc[r].occupy /\ ~Settable
    /\ Rest(r)
    /\ UNCHANGED <<key, ttl, budget>>

\* SETNX answers with an error and may still have been carried out.
LockFails(r) ==
    /\ Runs(r) /\ ~proc[r].occupy /\ Fault
    /\ \/ Settable /\ key' = r /\ ttl' = LockTime
       \/ UNCHANGED <<key, ttl>>
    /\ Rest(r)

\* mutant: the renewal does not move the end of the key
ExtendedNever == ttl
\* mutant: SET instead of EXPIRE
ExtendedAlways == LockTime
\* EXPIRE looks at nobody's address and does nothing without a key.
Extended == IF key = Nobody THEN 0 ELSE LockTime

\* isOccupy is never taken back: a replica renews until its process ends.
Renew(r) ==
    /\ Runs(r) /\ proc[r].occupy
    /\ ttl' = Extended
    /\ Rest(r)
    /\ UNCHANGED <<key, budget>>

RenewFails(r) ==
    /\ Runs(r) /\ proc[r].occupy /\ Fault
    /\ Rest(r)
    /\ UNCHANGED <<key, ttl>>

-----------------------------------------------------------------------------
(***************************************************************************)
(* Close, and the processes                                                *)
(***************************************************************************)
\* closeFunc ends the worker; a replica that is not the worker has nothing to do.
Close(r) ==
    /\ proc[r].pc = "up" /\ budget.stops > 0
    /\ IF proc[r].occupy THEN Becomes(r, [proc[r] EXCEPT !.pc = "get", !.works = FALSE])
                         ELSE Goto(r, "closed")
    /\ budget' = [budget EXCEPT !.stops = budget.stops - 1]
    /\ UNCHANGED <<key, ttl>>

IsStillOnlyWorker(r) ==
    /\ proc[r].pc = "get"
    /\ \/ Goto(r, IF key = r THEN "del" ELSE "closed") /\ UNCHANGED budget
       \/ Goto(r, "closed") /\ Fault
    /\ UNCHANGED <<key, ttl>>

\* DEL, a command of its own after the GET.
Unlock(r) ==
    /\ proc[r].pc = "del"
    /\ Goto(r, "closed")
    /\ \/ key' = Nobody /\ ttl' = 0 /\ UNCHANGED budget
       \/ Fault /\ UNCHANGED <<key, ttl>>

Exit(r) ==
    /\ proc[r].pc = "closed"
    /\ Becomes(r, Down)
    /\ UNCHANGED <<key, ttl, budget>>

Crash(r) ==
    /\ proc[r].pc \in {"up", "get", "del"} /\ budget.stops > 0
    /\ Becomes(r, Down)
    /\ budget' = [budget EXCEPT !.stops = budget.stops - 1]
    /\ UNCHANGED <<key, ttl>>

Start(r) ==
    /\ proc[r].pc = "down" /\ budget.starts > 0
    /\ Becomes(r, Fresh)
    /\ budget' = [budget EXCEPT !.starts = budget.starts - 1]
    /\ UNCHANGED <<key, ttl>>

\* mutant: the key never expires
LeftForever(t) == t
Left(t) == IF t > 0 THEN t - 1 ELSE 0

Late == \E r \in Replica : Runs(r)

\* A retryInterval passes; loops that have not run by then are late.
Tick ==
    /\ IF Late THEN budget.late > 0 /\ budget' = [budget EXCEPT !.late = budget.late - 1]
               ELSE UNCHANGED budget
    /\ ttl' = Left(ttl)
    /\ key' = IF Left(ttl) = 0 THEN Nobody ELSE key
    /\ proc' = [r \in Replica |-> IF proc[r].pc = "down" THEN proc[r] ELSE [proc[r] EXCEPT !.due = TRUE]]

Flows(r) == Lock(r) \/ LockRefused(r) \/ LockFails(r) \/ Renew(r) \/ RenewFails(r)
Ending(r) == IsStillOnlyWorker(r) \/ Unlock(r) \/ Exit(r)

Next ==
    \/ \E r \in Replica : Flows(r) \/ Close(r) \/ Ending(r) \/ Crash(r) \/ Start(r)
    \/ Tick

Spec == Init /\ [][Next]_vars

\* The loops run, a process that was told to stop exits, and time passes.
Fairness ==
    /\ \A r \in Replica : WF_vars(Flows(r)) /\ WF_vars(Ending(r))
    /\ WF_vars(Tick)

FairSpec == Spec /\ Fairness
-----------------------------------------------------------------------------
ProcState == [pc : {"down", "up", "get", "del", "closed"}, occupy : BOOLEAN,
              works : BOOLEAN, due : BOOLEAN]

\* Every variable keeps its shape, and the key is set as long as it has time to live.
TypeOK ==
    /\ key \in Replica \cup {Nobody}
    /\ ttl \in Nat
    /\ proc \in [Replica -> ProcState]
    /\ budget \in [late : Nat, faults : Nat, stops : Nat, starts : Nat]
    /\ key = Nobody <=> ttl = 0

\* Late loops and failed renewals so far.
Spent == (MaxLate - budget.late) + (MaxFaults - budget.faults)

\* A replica that works, or is about to delete the key, still owns it, and the time
\* to live has room for everything that can still go wrong.
Holding(r) == proc[r].works \/ proc[r].pc \in {"get", "del"}
HeldInv ==
    /\ budget.late <= MaxLate /\ budget.faults <= MaxFaults
    /\ \A r \in Replica :
          /\ Holding(r) => /\ key = r /\ proc[r].occupy /\ proc[r].pc # "down"
                           /\ ttl + Spent + (IF proc[r].due THEN 1 ELSE 0) >= LockTime
          /\ proc[r].pc \in {"get", "del"} => ~proc[r].works
          /\ proc[r].pc = "up" /\ proc[r].occupy => proc[r].works

\* The background worker never runs in two replicas, however loops, shutdowns,
\* crashes and restarts interleave, as long as no loop is late or fails for lockTime.
OneWorker == \A r, s \in Replica : r # s => ~(proc[r].works /\ proc[s].works)

\* The lock is a SingleWorker: the worker moves from replica to replica only through
\* nobody.
Elected == INSTANCE SingleWorker WITH working <- {r \in Replica : proc[r].works}
ImplementsSingleWorker == Elected!Spec

\* As long as a replica is up the worker always runs again in one: the key of a replica
\* that died expires, and one that has closed does not keep it alive.
SomeoneWorks == []<>((\E r \in Replica : proc[r].works) \/ (\A r \in Replica : proc[r].pc = "down"))
=============================================================================
