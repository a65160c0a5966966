-------------------------- MODULE ReportScheduler --------------------------
(***************************************************************************)
(* The report service on its database: the handlers that write reports and *)
(* schedules, the Scheduler every replica keeps of them, and the execution *)
(* of a report with its sends.                                             *)
(*                                                                         *)
(* A handler commits its write first and reloads the scheduler of its own  *)
(* replica afterwards; Reload holds the mutex of the scheduler over its    *)
(* reads.  The library cron is modelled as the code uses it: it runs the   *)
(* function of an entry in a goroutine, and Stop hands back a context that *)
(* is done when those goroutines are.                                      *)
(* Left out: next_run_at and last_run_at, which are only displayed, with   *)
(* the failures of writing them, which come when all else is done; the     *)
(* acceleration tables, except that their upkeep may fail; the attach loop *)
(* that starts the scheduler in a replica that already serves.             *)
(***************************************************************************)
EXTENDS Naturals

CONSTANTS Replica, Report, Cron,
          Request,      \* the requests of the users, each made once
          Run,          \* the executions, each started once
          Channels,     \* how many channels every schedule has
          MaxAttempts,  \* 1 + RetryTimes
          MaxTroubles,  \* bound: statements that fail, processes that die, graceful stops
          Nothing

ASSUME ReportAssumption ==
    /\ Channels \in Nat \ {0} /\ MaxAttempts \in Nat \ {0}
    /\ MaxTroubles \in Nat
    /\ Nothing \notin Cron \union Report \union Replica \union Request
    /\ Replica \intersect Request = {}

VARIABLES row,     \* cv_report with its cv_report_schedule
          record,  \* cv_report_execution
          sched,   \* the Scheduler of a replica
          req,     \* the handlers
          exec,    \* the calls of executeReportFromDB; live: which of its two rows was enabled since it began
          missed,  \* the reports written since this replica last read them, by another one or unknown to it
          got,     \* the channels an execution has reached
          trouble  \* the failed statements, crashes and graceful stops so far

vars == <<row, record, sched, req, exec, missed, got, trouble>>

Rows == [life : {"never", "live", "deleted"}, on : BOOLEAN,        \* Report.Status
         has : BOOLEAN, cron : Cron, active : BOOLEAN]             \* the schedule, if there is one

EnabledRows(x) == (IF x.life = "live" /\ x.on THEN {"report"} ELSE {})
                  \union (IF x.has /\ x.active THEN {"schedule"} ELSE {})
IsEnabled(x) == EnabledRows(x) = {"report", "schedule"}

NoReload == [by |-> Nothing, report |-> Nothing, pc |-> "free", on |-> FALSE, cron |-> Nothing]
Off == [pc |-> "off", todo |-> {}, entry |-> [r \in Report |-> Nothing], reload |-> NoReload]
NoRequest == [pc |-> "new", on |-> Nothing, report |-> Nothing]
NoExec == [pc |-> "new", on |-> Nothing, report |-> Nothing, trigger |-> Nothing, seen |-> {}, live |-> {},
           channel |-> 1, tries |-> 0, good |-> 0, bad |-> 0]
Over == [NoExec EXCEPT !.pc = "over"]
NoRecord == [report |-> Nothing, trigger |-> Nothing, status |-> "none"]

Sched(p, changes) == sched' = [sched EXCEPT ![p] = changes]
Req(q, changes) == req' = [req EXCEPT ![q] = changes]
Exec(e, changes) == exec' = [exec EXCEPT ![e] = changes]

Trouble(kind) ==
    /\ trouble.faults + trouble.crashes + trouble.closes < MaxTroubles
    /\ trouble' = [trouble EXCEPT ![kind] = @ + 1]
Fault == Trouble("faults")

------------------------------------------------------------------------------
\* Start and stop of a replica.

\* s.scheduler is set after Start and until Stop has returned
HasScheduler(p) == sched[p].pc \in {"on", "stopping"}
CronRuns(p) == sched[p].pc \in {"loading", "on"}
Serves(p) == HasScheduler(p)

\* mutant: Stop takes the mutex and waits for the jobs with it
FreeUntilStop(p) == sched[p].reload = NoReload /\ sched[p].pc # "stopping"
\* the mutex of the scheduler can be had
Free(p) == sched[p].reload = NoReload

Start(p) ==
    /\ sched[p].pc = "off"
    /\ Sched(p, [Off EXCEPT !.pc = "loading", !.todo = {r \in Report : IsEnabled(row[r])}])
    /\ missed' = [missed EXCEPT ![p] = {}]
    /\ UNCHANGED <<row, record, req, exec, got, trouble>>

Started(p) ==
    /\ sched[p].pc = "loading" /\ sched[p].todo = {} /\ Free(p)
    /\ Sched(p, [sched[p] EXCEPT !.pc = "on"])
    /\ UNCHANGED <<row, record, req, exec, missed, got, trouble>>

Close(p) ==
    /\ sched[p].pc = "on"
    /\ Sched(p, [sched[p] EXCEPT !.pc = "stopping"])
    /\ Trouble("closes")
    /\ UNCHANGED <<row, record, req, exec, missed, got>>

Running(e) == exec[e].pc \notin {"new", "over"}

\* mutant: Stop does not wait for the context
JobsDoneAnyway(p) == TRUE
JobsDone(p) == \A e \in Run : Running(e) /\ exec[e].on = p => exec[e].trigger = "manual"

\* What a process that ends leaves behind: nothing of it goes on.
Ends(p) ==
    /\ Sched(p, Off)
    /\ req' = [q \in Request |-> IF req[q].on = p THEN [NoRequest EXCEPT !.pc = "done"] ELSE req[q]]
    /\ exec' = [e \in Run |-> IF exec[e].on = p THEN Over ELSE exec[e]]
    /\ missed' = [missed EXCEPT ![p] = {}]
    /\ UNCHANGED <<row, record, got>>

\* StopScheduler, or the Start that failed, has waited; the process ends and cuts off what
\* it still serves
Exit(p) == sched[p].pc \in {"stopping", "failed"} /\ JobsDone(p) /\ Ends(p) /\ UNCHANGED trouble

Crash(p) ==
    /\ sched[p].pc # "off"
    /\ Ends(p)
    /\ Trouble("crashes")

------------------------------------------------------------------------------
\* Scheduler.Reload and Remove, under the mutex.

Answered(by) == req' = [q \in Request |-> IF q = by THEN [NoRequest EXCEPT !.pc = "done"] ELSE req[q]]

\* mutant: the old entry stays until a new one replaces it
EntriesKept(p, r) == sched[p].entry
EntriesWithout(p, r) == [sched[p].entry EXCEPT ![r] = Nothing]

\* Reload takes the mutex, removes the entry and reads the report.
Lock(p, by, r) ==
    LET unlocked == [sched[p] EXCEPT !.entry = EntriesWithout(p, r), !.todo = @ \ {r}]
    IN  /\ Free(p)
        /\ \/ Sched(p, [unlocked EXCEPT !.reload = [by |-> by, report |-> r, pc |-> "schedule", cron |-> Nothing,
                                                    on |-> row[r].life = "live" /\ row[r].on]])
              /\ missed' = [missed EXCEPT ![p] = @ \ {r}]
              /\ UNCHANGED <<req, trouble>>
           \/ Sched(p, unlocked) /\ Answered(by) /\ Fault /\ UNCHANGED missed  \* counts as removed
        /\ UNCHANGED <<row, record, exec, got>>

LoadNext(p) == sched[p].pc = "loading" /\ \E r \in sched[p].todo : Lock(p, p, r)

LockFor(q) == req[q].pc = "reload" /\ Lock(req[q].on, q, req[q].report)

\* mutant: the status of the schedule is not looked at
CronOfReport(on, x) == IF on /\ x.has THEN x.cron ELSE Nothing
CronOf(on, x) == IF on /\ x.has /\ x.active THEN x.cron ELSE Nothing

\* The schedule is read next.  An error ends Reload, and with it Start.
ReadSchedule(p) ==
    LET reload == sched[p].reload
    IN  /\ reload.pc = "schedule"
        /\ \/ Sched(p, [sched[p] EXCEPT !.reload.pc = "add",
                                        !.reload.cron = CronOf(reload.on, row[reload.report])])
              /\ UNCHANGED <<req, trouble>>
           \/ Sched(p, [sched[p] EXCEPT !.reload = NoReload,
                                        !.pc = IF reload.by = p THEN "failed" ELSE @])
              /\ Answered(reload.by) /\ Fault
        /\ UNCHANGED <<row, record, exec, missed, got>>

AddEntry(p) ==
    LET reload == sched[p].reload
    IN  /\ reload.pc = "add"
        /\ Sched(p, [sched[p] EXCEPT !.entry[reload.report] = reload.cron, !.reload = NoReload])
        /\ Answered(reload.by)
        /\ UNCHANGED <<row, record, exec, missed, got, trouble>>

Remove(q) ==
    LET p == req[q].on
    IN  /\ req[q].pc = "remove" /\ Free(p)
        /\ Sched(p, [sched[p] EXCEPT !.entry[req[q].report] = Nothing])
        /\ Answered(q)
        /\ UNCHANGED <<row, record, exec, missed, got, trouble>>

------------------------------------------------------------------------------
\* The handlers.

Arrives(q, p) == req[q].pc = "new" /\ Serves(p)

\* A write to r that the handler of replica p knows of, or nobody.
Writes(p, r, x) ==
    /\ row' = [row EXCEPT ![r] = x]
    /\ missed' = [o \in Replica |-> IF o = p THEN missed[o] ELSE missed[o] \union {r}]
    /\ exec' = [e \in Run |-> IF exec[e].report = r THEN [exec[e] EXCEPT !.live = @ \union EnabledRows(x)]
                               ELSE exec[e]]

\* The write is carried out and its answer lost: the handler gives up before it reloads.
AnswerLost(q, r, x) ==
    Writes(Nothing, r, x) /\ Req(q, [NoRequest EXCEPT !.pc = "done"]) /\ Fault

\* upsertReportFromDB of a new report: it has no schedule yet
CreateReport(q, p, r, on) ==
    /\ Arrives(q, p) /\ row[r].life = "never"
    /\ Writes(p, r, [row[r] EXCEPT !.life = "live", !.on = on])
    /\ Req(q, [NoRequest EXCEPT !.pc = "done"])
    /\ UNCHANGED <<record, sched, got, trouble>>

UpdateReport(q, p, r, on) ==
    /\ Arrives(q, p) /\ row[r].life = "live"
    /\ Writes(p, r, [row[r] EXCEPT !.on = on])
    /\ \/ Req(q, [pc |-> "reload", on |-> p, report |-> r]) /\ UNCHANGED trouble
       \/ Req(q, [NoRequest EXCEPT !.pc = "done"]) /\ Fault    \* the answer, the read after it or the upkeep
    /\ UNCHANGED <<record, sched, got>>

\* upsertScheduleFromDB looks for the report, then inserts or updates the schedule
SaveSchedule(q, p, r) ==
    /\ Arrives(q, p) /\ row[r].life = "live"
    /\ Req(q, [pc |-> "write", on |-> p, report |-> r])
    /\ UNCHANGED <<row, record, sched, exec, missed, got, trouble>>

WriteSchedule(q, cron, active) ==
    LET r == req[q].report
        x == [row[r] EXCEPT !.has = TRUE, !.cron = cron, !.active = active]
    IN  /\ req[q].pc = "write"
        /\ \/ Writes(req[q].on, r, x) /\ Req(q, [req[q] EXCEPT !.pc = "reload"]) /\ UNCHANGED trouble
           \/ AnswerLost(q, r, x)
        /\ UNCHANGED <<record, sched, got>>

\* deleteReportFromDB: the transaction, which fails if the report is gone
DeleteReport(q, p, r) ==
    LET x == [row[r] EXCEPT !.life = "deleted", !.on = FALSE, !.has = FALSE, !.active = FALSE]
    IN  /\ Arrives(q, p) /\ row[r].life = "live"
        /\ record' = [e \in Run |-> IF record[e].report = r THEN NoRecord ELSE record[e]]
        /\ \/ Writes(p, r, x) /\ Req(q, [pc |-> "remove", on |-> p, report |-> r]) /\ UNCHANGED trouble
           \/ AnswerLost(q, r, x)
        /\ UNCHANGED <<sched, got>>

------------------------------------------------------------------------------
\* Executions.

Begins(e, p, r, trigger) ==
    /\ exec[e].pc = "new"
    /\ Exec(e, [NoExec EXCEPT !.pc = "report", !.on = p, !.report = r, !.trigger = trigger,
                               !.live = EnabledRows(row[r])])
    /\ UNCHANGED <<row, record, sched, req, missed, got, trouble>>

\* The time of an entry comes.
Fire(e, p, r) == CronRuns(p) /\ sched[p].entry[r] # Nothing /\ Begins(e, p, r, "schedule")

RunPreview(e, p, r) == Serves(p) /\ row[r].life = "live" /\ Begins(e, p, r, "manual")

ReadReport(e) ==
    LET x == row[exec[e].report]
    IN  /\ exec[e].pc = "report"
        /\ Exec(e, IF x.life = "live"
                   THEN [exec[e] EXCEPT !.pc = "schedule", !.seen = EnabledRows(x) \intersect {"report"}]
                   ELSE Over)
        /\ UNCHANGED <<row, record, sched, req, missed, got, trouble>>

ReadItsSchedule(e) ==
    /\ exec[e].pc = "schedule"
    /\ Exec(e, [exec[e] EXCEPT !.pc = "insert",
                               !.seen = @ \union (EnabledRows(row[exec[e].report]) \intersect {"schedule"})])
    /\ UNCHANGED <<row, record, sched, req, missed, got, trouble>>

\* A read or the insert fails.
NotRecorded(e) ==
    /\ exec[e].pc \in {"report", "schedule", "insert"}
    /\ Exec(e, Over) /\ Fault
    /\ UNCHANGED <<row, record, sched, req, missed, got>>

\* mutant: the status of the schedule is not looked at
MayRunReport(seen) == "report" \in seen
\* validateExecutionConfig
MayRun(seen) == seen = {"report", "schedule"}

\* The row, then the stages before the sends: configuration, query, rendering.
Insert(e, rendered) ==
    /\ exec[e].pc = "insert"
    /\ record' = [record EXCEPT ![e] = [report |-> exec[e].report, trigger |-> exec[e].trigger,
                                        status |-> "running"]]
    /\ Exec(e, [exec[e] EXCEPT !.pc = IF MayRun(exec[e].seen) /\ rendered THEN "send" ELSE "finish"])
    /\ UNCHANGED <<row, sched, req, missed, got, trouble>>

\* mutant: the attempts are counted on from channel to channel
TriesGoOn(e) == exec[e].tries + 1
\* attempts made when the next channel is begun
TriesAtFirst(e) == 0

\* The next channel, or the end of the loop.
Left(e, good, bad) ==
    Exec(e, [exec[e] EXCEPT !.pc = IF exec[e].channel = Channels THEN "finish" ELSE @,
                            !.channel = IF @ = Channels THEN @ ELSE @ + 1,
                            !.tries = TriesAtFirst(e), !.good = @ + good, !.bad = @ + bad])

\* mutant: a channel that was given up is not counted
GivenUpQuietly(e) == 0
\* what a channel adds to failedCount whose last attempt failed
GivenUp(e) == 1

\* One attempt: it may reach the channel and time out all the same.
Send(e, ok, reached) ==
    /\ exec[e].pc = "send"
    /\ ok => reached
    /\ got' = IF reached THEN [got EXCEPT ![e] = @ \union {exec[e].channel}] ELSE got
    /\ IF ok THEN Left(e, 1, 0)
       ELSE IF exec[e].tries + 1 = MaxAttempts THEN Left(e, 0, GivenUp(e))
       ELSE Exec(e, [exec[e] EXCEPT !.tries = @ + 1])
    /\ UNCHANGED <<row, record, sched, req, missed, trouble>>

\* The channel of the schedule is no more.
NoChannel(e) ==
    /\ exec[e].pc = "send" /\ exec[e].tries = 0
    /\ Left(e, 0, 1)
    /\ UNCHANGED <<row, record, sched, req, missed, got, trouble>>

ExecutionStatus(good, bad) ==
    CASE good > 0 /\ bad > 0 -> "partial"
      [] good > 0 /\ bad = 0 -> "success"
      [] OTHER -> "failed"

\* The result is written over the row, if the row is still there.
Record(e) ==
    /\ exec[e].pc = "finish"
    /\ \/ /\ record' = [record EXCEPT ![e].status = IF @ = "running"
                                                    THEN ExecutionStatus(exec[e].good, exec[e].bad) ELSE @]
          /\ Exec(e, [NoExec EXCEPT !.pc = "snapshot", !.on = exec[e].on, !.trigger = exec[e].trigger])
          /\ UNCHANGED trouble
       \/ Exec(e, Over) /\ Fault /\ UNCHANGED record
    /\ UNCHANGED <<row, sched, req, missed, got>>

\* Snapshot waits for the mutex.
Snapshot(e) ==
    /\ exec[e].pc = "snapshot" /\ Free(exec[e].on)
    /\ Exec(e, Over)
    /\ UNCHANGED <<row, record, sched, req, missed, got, trouble>>

------------------------------------------------------------------------------
Init ==
    /\ row \in [Report -> {x \in Rows : \/ x.life = "live" /\ IsEnabled(x)
                                        \/ x.life = "never" /\ ~x.on /\ ~x.has /\ ~x.active}]
    /\ record = [e \in Run |-> NoRecord]
    /\ sched = [p \in Replica |-> Off]
    /\ req = [q \in Request |-> NoRequest]
    /\ exec = [e \in Run |-> NoExec]
    /\ missed = [p \in Replica |-> {}]
    /\ got = [e \in Run |-> {}]
    /\ trouble = [faults |-> 0, crashes |-> 0, closes |-> 0]

Scheduling(p) == Start(p) \/ Started(p) \/ LoadNext(p) \/ ReadSchedule(p) \/ AddEntry(p)

Handling(q) ==
    \/ LockFor(q) \/ Remove(q)
    \/ \E cron \in Cron, active \in BOOLEAN : WriteSchedule(q, cron, active)

Executing(e) ==
    \/ ReadReport(e) \/ ReadItsSchedule(e) \/ NotRecorded(e)
    \/ \E rendered \in BOOLEAN : Insert(e, rendered)
    \/ \E ok, reached \in BOOLEAN : Send(e, ok, reached)
    \/ NoChannel(e) \/ Record(e) \/ Snapshot(e)

Arriving(q, p, r) ==
    \/ SaveSchedule(q, p, r) \/ DeleteReport(q, p, r)
    \/ \E on \in BOOLEAN : CreateReport(q, p, r, on) \/ UpdateReport(q, p, r, on)

Beginning(e, p, r) == Fire(e, p, r) \/ RunPreview(e, p, r)

Next ==
    \/ \E p \in Replica : Close(p) \/ Exit(p) \/ Crash(p) \/ Scheduling(p)
    \/ \E q \in Request : Handling(q) \/ (\E p \in Replica, r \in Report : Arriving(q, p, r))
    \/ \E e \in Run : Executing(e) \/ (\E p \in Replica, r \in Report : Beginning(e, p, r))

Spec == Init /\ [][Next]_vars

------------------------------------------------------------------------------
\* Properties.

TypeOK ==
    /\ row \in [Report -> Rows]
    /\ \A p \in Replica : /\ sched[p].pc \in {"off", "loading", "on", "stopping", "failed"}
                          /\ sched[p].todo \subseteq Report
                          /\ sched[p].entry \in [Report -> Cron \union {Nothing}]
    /\ missed \in [Replica -> SUBSET Report]
    /\ \A e \in Run : /\ exec[e].tries \in 0 .. MaxAttempts - 1
                      /\ exec[e].good + exec[e].bad <= Channels
    /\ got \in [Run -> SUBSET (1 .. Channels)]
    /\ trouble \in [faults : 0 .. MaxTroubles, crashes : 0 .. MaxTroubles, closes : 0 .. MaxTroubles]

\* No handler of p has written r without having reloaded it.
AtRest(p, r) ==
    /\ sched[p].pc = "on"
    /\ sched[p].reload.report # r
    /\ \A q \in Request : req[q].on = p /\ req[q].report = r => req[q].pc \notin {"reload", "remove"}

\* However the handlers of a replica overlap, with each other and with a delete, its entry
\* follows the rows when they have returned, unless another replica wrote them or a statement
\* failed.
EntryFollowsRow ==
    \A p \in Replica, r \in Report :
        AtRest(p, r) /\ r \notin missed[p] /\ trouble.faults = 0
            => sched[p].entry[r] = IF IsEnabled(row[r]) THEN row[r].cron ELSE Nothing

\* Reloads that fail half-way included, an entry never fires at a time its schedule had earlier,
\* nor for a report that was deleted, unless the replica does not know of the write.
NoOldEntry ==
    \A p \in Replica, r \in Report :
        AtRest(p, r) /\ r \notin missed[p]
            => sched[p].entry[r] \in {Nothing} \union (IF row[r].life = "live" THEN {row[r].cron} ELSE {})

\* Entries may be out of date and the two rows change between their reads: nothing is sent
\* all the same unless each of them was enabled at some time since the execution began.
SuspendedIsNotSent == \A e \in Run : exec[e].pc = "send" /\ got[e] # {} => exec[e].live = {"report", "schedule"}

\* A graceful stop leaves no scheduled execution behind: its row says running for ever only
\* after a crash or a failed statement.
RunningIsRun ==
    trouble.faults = 0 /\ trouble.crashes = 0
        => \A e \in Run : record[e].status = "running" /\ record[e].trigger = "schedule" => Running(e)

\* What the row says of the sends is true.
RecordIsTrue ==
    \A e \in Run : /\ record[e].status = "success" => got[e] = 1 .. Channels
                   /\ record[e].status = "partial" => got[e] # {}

\* A close that waits for executions, which need the mutex of the scheduler, which a handler
\* may have, never comes to a standstill.
CloseGoesOn ==
    \A p \in Replica :
        sched[p].pc \in {"stopping", "failed"} =>
            \/ JobsDone(p)
            \/ \E e \in Run : exec[e].on = p /\ ENABLED Executing(e)
            \/ ENABLED Scheduling(p)
=============================================================================
