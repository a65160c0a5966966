----------------------------- MODULE CrontabWorker -----------------------------
(***************************************************************************)
(* The scheduler of the pandas nodes.  The row of a node says what to run  *)
(* and when; the looper of the working replica fetches the waiting rows    *)
(* and starts a cron of its own for each; the handlers of every replica    *)
(* change the rows.  Status, typ and crons are only kept together by the   *)
(* order of the statements.  Nothing keeps a node from having two rows     *)
(* (database.sql makes node_id no key, and the gorm tag names no index):   *)
(* every UPDATE and DELETE means all of them.  Which replica works is      *)
(* decided by the leader lock, of which this module knows SingleWorker.    *)
(***************************************************************************)
EXTENDS Naturals, FiniteSets

CONSTANTS
    Replica, Node,
    Slot,         \* bound: the places of the table for the rows of one node
    Schedule,     \* cron expression and retry settings, what isReload compares
    BadSchedule,  \* the schedules cron does not parse
    Request,      \* bound: the requests, each of which is one call of a handler
    Ops,          \* the handlers they call: "create", "update", "delete"
    MultiCopy,    \* app.isMultiCopy
    Overlap,      \* may requests fall into a round of the looper, or into one another
    StopKinds,    \* how a process stops: "close", "crash"
    MaxStops, MaxStarts, \* bounds
    MaxFaults     \* bound: statements that fail

Nothing == "nothing"
Stopped == "stopped"

ASSUME ScheduleAssumption == Schedule # {} /\ {Nothing, Stopped} \cap Schedule = {}
ASSUME SlotAssumption == Slot # {}
ASSUME NodeAssumption == {"up", "rows", "closed", "down"} \cap Node = {}
ASSUME BoundsAssumption == MaxStops \in Nat /\ MaxStarts \in Nat /\ MaxFaults \in Nat
ASSUME CopyAssumption == MultiCopy \/ Cardinality(Replica) = 1

VARIABLES
    row,      \* table cv_bd_crontab, by node and place: exists, typ ("normal", "suspended"),
              \*   spec (a schedule) and status ("wait", "preempt", "doing")
    cron,     \* of every replica, by node: the entry of crones (held) and the running crons it
              \*   has lost (strays)
    looper,   \* the looper of every replica: its place ("off", "sleep", "mark", "build",
              \*   "store"), the fetched rows it has still to do, and the row it is at
    proc,     \* the processes and their Close: "up", "rows", the node whose cron is stopped next,
              \*   "closed", "down"
    req,      \* requests: "new", "stop", "write", "insert", "done", with the replica and what is written
    working,  \* the replica elected by the leader lock
    budget    \* what is left of the bounds

vars == <<row, cron, looper, proc, req, working, budget>>

Election == INSTANCE SingleWorker

NoRow == [exists |-> FALSE, typ |-> "normal", spec |-> CHOOSE s \in Schedule : TRUE, status |-> "wait"]
NewRow(typ, spec) == [exists |-> TRUE, typ |-> typ, spec |-> spec, status |-> "wait"]
NoRows == [c \in Slot |-> NoRow]
Free(rows) == {c \in Slot : ~rows[c].exists}
Inserted(rows, new) == [rows EXCEPT ![CHOOSE c \in Free(rows) : TRUE] = new]
NoCron == [held |-> Nothing, strays |-> {}]
NoJob == [node |-> Nothing, slot |-> Nothing, spec |-> Nothing]
Off == [pc |-> "off", todo |-> {}, job |-> NoJob]
Asleep == [Off EXCEPT !.pc = "sleep"]
Dead == [pc |-> "down", flag |-> FALSE, left |-> {}]
Alive == [pc |-> "up", flag |-> TRUE, left |-> {}]
Unsent == [pc |-> "new", at |-> Nothing, node |-> Nothing, typ |-> "normal", spec |-> Nothing, waits |-> FALSE]

Init ==
    /\ row \in [Node -> {NoRows} \cup {Inserted(NoRows, NewRow("normal", s)) : s \in Schedule}]
    /\ cron = [r \in Replica |-> [n \in Node |-> NoCron]]
    /\ looper = [r \in Replica |-> IF MultiCopy THEN Off ELSE Asleep]
    /\ proc = [r \in Replica |-> Alive]
    /\ req = [q \in Request |-> Unsent]
    /\ Election!Init
    /\ budget = [stops |-> MaxStops, starts |-> MaxStarts, faults |-> MaxFaults]

Rewrites(q) == req[q].pc \in {"stop", "write"}
Pending(q) == Rewrites(q) \/ req[q].pc = "insert"
Calm == \A q \in Request : ~Pending(q)
InRound(r) == looper[r].pc \in {"mark", "build", "store"}

Spend(what) == budget[what] > 0 /\ budget' = [budget EXCEPT ![what] = budget[what] - 1]

Exists(n) == \E c \in Slot : row[n][c].exists

\* An UPDATE of the rows of a node; there may be none.
Update(n, new) == row' = [row EXCEPT ![n] = [c \in Slot |-> IF row[n][c].exists THEN new[c] ELSE row[n][c]]]

\* CrontabUpdate of the status, whose error nobody looks at.
SetStatus(n, status) ==
    \/ Update(n, [c \in Slot |-> [row[n][c] EXCEPT !.status = status]]) /\ UNCHANGED budget
    \/ Spend("faults") /\ UNCHANGED row

Loop(r, state) == looper' = [looper EXCEPT ![r] = state]
Cron(r, n, state) == cron' = [cron EXCEPT ![r][n] = state]
-----------------------------------------------------------------------------
(***************************************************************************)
(* looper, dispatch and buildCronFn                                        *)
(***************************************************************************)
Job == [node : Node, slot : Slot, spec : Schedule]

Due(n, c) == row[n][c].exists /\ row[n][c].status = "wait" /\ row[n][c].typ = "normal"
DueJobs == {job \in Job : Due(job.node, job.slot) /\ row[job.node][job.slot].spec = job.spec}

Fetch(r) ==
    /\ looper[r].pc = "sleep" /\ proc[r].flag
    /\ Overlap \/ Calm
    /\ DueJobs # {}
    /\ Loop(r, [looper[r] EXCEPT !.pc = "mark", !.todo = DueJobs])
    /\ UNCHANGED <<row, cron, proc, req, working, budget>>

\* Rows come in any order.
MarkPreempt(r) ==
    /\ looper[r].pc = "mark"
    /\ \E job \in looper[r].todo :
          /\ Loop(r, [looper[r] EXCEPT !.pc = "build", !.job = job, !.todo = looper[r].todo \ {job}])
          /\ SetStatus(job.node, "preempt")
    /\ UNCHANGED <<cron, proc, req, working>>

\* mutant: the looper returns after its round
AfterForGood(todo) == IF todo = {} THEN Off ELSE [pc |-> "mark", todo |-> todo, job |-> NoJob]
After(todo) == IF todo = {} THEN Asleep ELSE [pc |-> "mark", todo |-> todo, job |-> NoJob]

\* The cron starts, then its row says so.
StartCron(r) ==
    /\ looper[r].pc = "build" /\ looper[r].job.spec \notin BadSchedule
    /\ Loop(r, [looper[r] EXCEPT !.pc = "store"])
    /\ SetStatus(looper[r].job.node, "doing")
    /\ UNCHANGED <<cron, proc, req, working>>

\* A row that cannot be scheduled does not keep the round from the others.
LeftAfterError(todo) == todo

RefuseCron(r) ==
    /\ looper[r].pc = "build" /\ looper[r].job.spec \in BadSchedule
    /\ Loop(r, After(LeftAfterError(looper[r].todo)))
    /\ SetStatus(looper[r].job.node, "wait")
    /\ UNCHANGED <<cron, proc, req, working>>

\* A cron that still ran under this key is lost to crones, and goes on.
Store(r) ==
    /\ looper[r].pc = "store"
    /\ LET job == looper[r].job
           old == cron[r][job.node]
       IN  Cron(r, job.node, [held |-> job.spec, strays |-> old.strays \cup ({old.held} \cap Schedule)])
    /\ Loop(r, After(looper[r].todo))
    /\ UNCHANGED <<row, proc, req, working, budget>>

Round(r) == Fetch(r) \/ MarkPreempt(r) \/ StartCron(r) \/ RefuseCron(r) \/ Store(r)

-----------------------------------------------------------------------------
(***************************************************************************)
(* Handlers                                                                *)
(***************************************************************************)
Arrives(q, r, op) ==
    /\ req[q].pc = "new" /\ op \in Ops /\ proc[r].pc # "down"
    /\ \/ Overlap
       \/ Calm /\ \A s \in Replica : ~InRound(s)

Answered(q) == req' = [req EXCEPT ![q] = [Unsent EXCEPT !.pc = "done"]]

\* An INSERT, which may fail.
Insert(n, new) ==
    \/ Free(row[n]) # {} /\ row' = [row EXCEPT ![n] = Inserted(row[n], new)] /\ UNCHANGED budget
    \/ Spend("faults") /\ UNCHANGED row

\* NodeCrontabCreate does not ask whether the node has a row.
Create(q, r, n, typ, spec) ==
    /\ Arrives(q, r, "create")
    /\ Insert(n, NewRow(typ, spec))
    /\ Answered(q)
    /\ UNCHANGED <<cron, looper, proc, working>>

\* CrontabDelete leaves the cron alone.
Delete(q, r, n) ==
    /\ Arrives(q, r, "delete") /\ Exists(n)
    /\ row' = [row EXCEPT ![n] = NoRows]
    /\ Answered(q)
    /\ UNCHANGED <<cron, looper, proc, working, budget>>

\* mutants: only a new schedule, or only suspension, stops the cron
StopsOnReload(known, typ, spec) == spec # known.spec
StopsOnSuspend(known, typ, spec) == typ = "suspended"
Stops(known, typ, spec) == typ = "suspended" \/ spec # known.spec

Continues(q, pc, r, n, typ, spec, waits) ==
    req' = [req EXCEPT ![q] = [pc |-> pc, at |-> r, node |-> n, typ |-> typ, spec |-> spec, waits |-> waits]]

\* NodeCrontabUpdate compares with some row of the node.
UpdateRead(q, r, n, typ, spec) ==
    /\ Arrives(q, r, "update")
    /\ \E c \in Slot :
          /\ row[n][c].exists
          /\ LET stops == Stops(row[n][c], typ, spec)
             IN  Continues(q, IF stops THEN "stop" ELSE "write", r, n, typ, spec, stops)
    /\ UNCHANGED <<row, cron, looper, proc, working, budget>>

\* It takes a read that fails for one that finds nothing, and inserts.
UpdateFindsNone(q, r, n, typ, spec) ==
    /\ Arrives(q, r, "update")
    /\ \/ ~Exists(n) /\ UNCHANGED budget
       \/ Exists(n) /\ Spend("faults")
    /\ Continues(q, "insert", r, n, typ, spec, FALSE)
    /\ UNCHANGED <<row, cron, looper, proc, working>>

UpdateInsert(q) ==
    /\ req[q].pc = "insert"
    /\ Insert(req[q].node, NewRow(req[q].typ, req[q].spec))
    /\ Answered(q)
    /\ UNCHANGED <<cron, looper, proc, working>>

\* What is left of an entry of crones once it is stopped.
Halted(held) == IF held \in Schedule THEN Stopped ELSE held
Stop(r, n) == Cron(r, n, [cron[r][n] EXCEPT !.held = Halted(cron[r][n].held)])

\* NodeCrontabStop knows the crones of its own process.
UpdateStop(q) ==
    /\ req[q].pc = "stop"
    /\ Stop(req[q].at, req[q].node)
    /\ req' = [req EXCEPT ![q].pc = "write"]
    /\ UNCHANGED <<row, looper, proc, working, budget>>

\* mutant: the row keeps its status
StatusKept(q, c) == row[req[q].node][c].status
NewStatus(q, c) == IF req[q].waits THEN "wait" ELSE row[req[q].node][c].status

UpdateWrite(q) ==
    /\ req[q].pc = "write"
    /\ \/ /\ Update(req[q].node, [c \in Slot |-> [exists |-> TRUE, typ |-> req[q].typ, spec |-> req[q].spec,
                                                status |-> NewStatus(q, c)]])
          /\ UNCHANGED budget
       \/ Spend("faults") /\ UNCHANGED row
    /\ Answered(q)
    /\ UNCHANGED <<cron, looper, proc, working>>

Handle(q) ==
    \/ \E r \in Replica, n \in Node, typ \in {"normal", "suspended"}, spec \in Schedule :
          Create(q, r, n, typ, spec) \/ UpdateRead(q, r, n, typ, spec) \/ UpdateFindsNone(q, r, n, typ, spec)
    \/ \E r \in Replica, n \in Node : Delete(q, r, n)

Answer(q) == UpdateStop(q) \/ UpdateWrite(q) \/ UpdateInsert(q)
-----------------------------------------------------------------------------
(***************************************************************************)
(* Processes, Close and the election                                       *)
(***************************************************************************)
\* The lock goes to a replica, whose looper starts.
Elect(r) ==
    /\ MultiCopy /\ proc[r].pc # "down" /\ looper[r].pc = "off"
    /\ Election!Take(r)
    /\ Loop(r, Asleep)
    /\ UNCHANGED <<row, cron, proc, req, budget>>

Resigns(r) == IF r \in working THEN Election!Leave(r) ELSE UNCHANGED working

\* ppt.Close ends the rounds of an elected replica before anything else; a round that
\* has begun goes on.
Close(r) ==
    /\ proc[r].pc = "up" /\ "close" \in StopKinds /\ Spend("stops")
    /\ proc' = [proc EXCEPT ![r] = [pc |-> "rows", flag |-> r \notin working, left |-> Node]]
    /\ Resigns(r)
    /\ UNCHANGED <<row, cron, looper, req>>

CloseRow(r) ==
    /\ proc[r].pc = "rows"
    /\ \E n \in proc[r].left :
          /\ cron[r][n].held # Nothing
          /\ SetStatus(n, "wait")
          /\ proc' = [proc EXCEPT ![r].pc = n, ![r].left = proc[r].left \ {n}]
    /\ UNCHANGED <<cron, looper, req, working>>

CloseStop(r) ==
    /\ proc[r].pc \in Node
    /\ Stop(r, proc[r].pc)
    /\ proc' = [proc EXCEPT ![r].pc = "rows"]
    /\ UNCHANGED <<row, looper, req, working, budget>>

CloseEnd(r) ==
    /\ proc[r].pc = "rows"
    /\ \A n \in proc[r].left : cron[r][n].held = Nothing
    /\ proc' = [proc EXCEPT ![r] = [pc |-> "closed", flag |-> FALSE, left |-> {}]]
    /\ UNCHANGED <<row, cron, looper, req, working, budget>>

\* The end of a process takes its crons, its looper and its requests with it.
Ends(r) ==
    /\ proc' = [proc EXCEPT ![r] = Dead]
    /\ cron' = [cron EXCEPT ![r] = [n \in Node |-> NoCron]]
    /\ Loop(r, Off)
    /\ req' = [q \in Request |-> IF Pending(q) /\ req[q].at = r THEN [Unsent EXCEPT !.pc = "done"] ELSE req[q]]
    /\ Resigns(r)
    /\ UNCHANGED row

Exit(r) == proc[r].pc = "closed" /\ Ends(r) /\ UNCHANGED budget

Crash(r) == proc[r].pc # "down" /\ "crash" \in StopKinds /\ Spend("stops") /\ Ends(r)

Start(r) ==
    /\ proc[r].pc = "down" /\ Spend("starts")
    /\ proc' = [proc EXCEPT ![r] = Alive]
    /\ Loop(r, IF MultiCopy THEN Off ELSE Asleep)
    /\ UNCHANGED <<row, cron, req, working>>

Closing(r) == CloseRow(r) \/ CloseStop(r) \/ CloseEnd(r) \/ Exit(r)

Next ==
    \/ \E r \in Replica : Round(r) \/ Elect(r) \/ Close(r) \/ Closing(r) \/ Crash(r) \/ Start(r)
    \/ \E q \in Request : Handle(q) \/ Answer(q)

Spec == Init /\ [][Next]_vars

\* Loopers, handlers and shutdowns go on, and the lock is taken while somebody wants it.
Fairness ==
    /\ \A r \in Replica : WF_vars(Round(r)) /\ WF_vars(Closing(r))
    /\ WF_vars(\E r \in Replica : Elect(r))
    /\ \A q \in Request : WF_vars(Answer(q))

FairSpec == Spec /\ Fairness
-----------------------------------------------------------------------------
RowState == [exists : BOOLEAN, typ : {"normal", "suspended"}, spec : Schedule,
             status : {"wait", "preempt", "doing"}]
CronState == [held : Schedule \cup {Nothing, Stopped}, strays : SUBSET Schedule]
LooperState == [pc : {"off", "sleep", "mark", "build", "store"}, todo : SUBSET Job, job : Job \cup {NoJob}]
ProcState == [pc : {"up", "rows", "closed", "down"} \cup Node, flag : BOOLEAN, left : SUBSET Node]
RequestState == [pc : {"new", "stop", "write", "insert", "done"}, at : Replica \cup {Nothing},
                 node : Node \cup {Nothing}, typ : {"normal", "suspended"},
                 spec : Schedule \cup {Nothing}, waits : BOOLEAN]

\* Every row, cron, looper and request keeps its shape.
TypeOK ==
    /\ row \in [Node -> [Slot -> RowState]]
    /\ cron \in [Replica -> [Node -> CronState]]
    /\ looper \in [Replica -> LooperState]
    /\ proc \in [Replica -> ProcState]
    /\ req \in [Request -> RequestState]
    /\ working \in SUBSET Replica
    /\ budget \in [stops : 0 .. MaxStops, starts : 0 .. MaxStarts, faults : 0 .. MaxFaults]
    /\ \A r \in Replica : looper[r].pc \in {"build", "store"} => looper[r].job \in Job
    /\ \A q \in Request : Pending(q) =>
          req[q].at \in Replica /\ req[q].node \in Node /\ req[q].spec \in Schedule

\* The crons that run for a node, as the replica, the place and the schedule of each.
Crons(n) ==
    {c \in Replica \X {"crones", "stray", "dispatch"} \X Schedule :
        \/ c[2] = "crones" /\ cron[c[1]][n].held = c[3]
        \/ c[2] = "stray" /\ c[3] \in cron[c[1]][n].strays
        \/ /\ c[2] = "dispatch" /\ looper[c[1]].pc = "store"
           /\ looper[c[1]].job.node = n /\ looper[c[1]].job.spec = c[3]}

Busy(n) == \E q \in Request : Rewrites(q) /\ req[q].node = n

\* The row at c is the only one of the node.
Sole(n, c) == \A d \in Slot : row[n][d].exists <=> d = c

\* A suspended node is not scheduled: once the request that suspended it is answered,
\* no cron runs for it (NodeCrontabUpdate stops the cron before it writes the row),
\* unless the node has a second row.
SuspendedIsQuiet ==
    \A n \in Node, c \in Slot : Sole(n, c) /\ row[n][c].typ = "suspended" /\ ~Busy(n) => Crons(n) = {}

\* A row that says doing is run by no second cron, and on no schedule but its own, if it
\* is the only one of its node.
RunsAsWritten ==
    \A n \in Node, c \in Slot : Sole(n, c) /\ row[n][c].status = "doing" /\ ~Busy(n) =>
        \E r \in Replica, place \in {"crones", "dispatch"} : Crons(n) \subseteq {<<r, place, row[n][c].spec>>}

\* Nothing has stopped and no statement has failed so far.
Untroubled == budget.stops = MaxStops /\ budget.faults = MaxFaults

\* As long as nothing stops or fails, a row that says doing has a cron, or a request
\* that is about to write it, wherever requests fall into the rounds of the looper and
\* whatever other row the node has: nobody else would ever look at the row again.
DoingRuns ==
    Untroubled =>
        \A n \in Node, c \in Slot :
            row[n][c].exists /\ row[n][c].status = "doing" /\ ~Busy(n) => Crons(n) # {}

\* A waiting row that can be scheduled is picked up, whoever fails or takes over,
\* unless every process is down for good.
Waiting(n, c) == Due(n, c) /\ row[n][c].spec \notin BadSchedule
WaitIsPicked ==
    \A n \in Node, c \in Slot : Waiting(n, c) ~> (~Waiting(n, c) \/ \A r \in Replica : proc[r].pc = "down")
=============================================================================
