----------------------- MODULE ReportSchedulerProofs -----------------------
(***************************************************************************)
(* The shape of the report service's rows and processes, what its          *)
(* executions promise, and that the entries of the schedulers follow the   *)
(* rows, for every number of replicas, reports, requests, executions,      *)
(* channels and attempts.                                                  *)
(***************************************************************************)
EXTENDS ReportScheduler, TLAPS

ReloadRec == [by : Request \union Replica \union {Nothing}, report : Report \union {Nothing},
              pc : {"free", "schedule", "add"}, on : BOOLEAN, cron : Cron \union {Nothing}]
SchedRec == [pc : {"off", "loading", "on", "stopping", "failed"}, todo : SUBSET Report,
             entry : [Report -> Cron \union {Nothing}], reload : ReloadRec]
ReqRec == [pc : {"new", "write", "reload", "remove", "done"}, on : Replica \union {Nothing},
           report : Report \union {Nothing}]
Stage == {"new", "report", "schedule", "insert", "send", "finish", "snapshot", "over"}
Trigger == {"schedule", "manual"}
ExecRec == [pc : Stage, on : Replica \union {Nothing}, report : Report \union {Nothing},
            trigger : Trigger \union {Nothing}, seen : SUBSET {"report", "schedule"},
            live : SUBSET {"report", "schedule"}, channel : 1 .. Channels,
            tries : 0 .. MaxAttempts - 1, good : Nat, bad : Nat]
RecordRec == [report : Report \union {Nothing}, trigger : Trigger \union {Nothing},
              status : {"none", "running", "success", "partial", "failed"}]

\* Where an execution has a report and a replica.
AtWork == {"report", "schedule", "insert", "send", "finish"}

\* Every channel before the one in hand counts once, as good or as bad.
Counted(x) ==
    /\ x.pc \in AtWork => x.on \in Replica /\ x.report \in Report /\ x.trigger \in Trigger
    /\ x.pc = "snapshot" => x.on \in Replica
    /\ x.pc \notin {"send", "finish"} => x.good = 0 /\ x.bad = 0 /\ x.channel = 1 /\ x.tries = 0
    /\ x.pc = "send" => x.good + x.bad = x.channel - 1
    /\ x.good + x.bad \in {0, Channels} \union {x.channel - 1}

RowsOK == row \in [Report -> Rows]
SchedOK == /\ sched \in [Replica -> SchedRec]
           /\ \A p \in Replica : sched[p].reload.pc # "free" => sched[p].reload.report \in Report
ReqOK == /\ req \in [Request -> ReqRec]
         /\ \A q \in Request : req[q].pc \in {"write", "reload", "remove"} =>
                                   req[q].on \in Replica /\ req[q].report \in Report
ExecOK == exec \in [Run -> ExecRec] /\ \A e \in Run : Counted(exec[e])
RestOK == /\ record \in [Run -> RecordRec]
          /\ missed \in [Replica -> SUBSET Report]
          /\ got \in [Run -> SUBSET (1 .. Channels)]
          /\ trouble \in [faults : 0 .. MaxTroubles, crashes : 0 .. MaxTroubles, closes : 0 .. MaxTroubles]

Shape == RowsOK /\ SchedOK /\ ReqOK /\ ExecOK /\ RestOK

------------------------------------------------------------------------------
\* Lemmas about the helpers.

LEMMA EnabledRowsType ==
    ASSUME NEW x PROVE EnabledRows(x) \subseteq {"report", "schedule"}
BY DEF EnabledRows

LEMMA Constants ==
    /\ NoReload \in ReloadRec /\ Off \in SchedRec /\ Off.reload = NoReload
    /\ NoReload.pc = "free" /\ NoReload.report = Nothing
    /\ NoRequest \in ReqRec /\ NoRequest.pc = "new"
    /\ NoRecord \in RecordRec
<1>1. NoReload \in ReloadRec /\ NoReload.pc = "free" /\ NoReload.report = Nothing
  BY DEF NoReload, ReloadRec
<1>2. Off \in SchedRec /\ Off.reload = NoReload
  BY <1>1 DEF Off, SchedRec
<1>. QED
  BY <1>1, <1>2 DEF NoRequest, ReqRec, NoRecord, RecordRec

LEMMA ExecConstants ==
    /\ NoExec \in ExecRec /\ NoExec.pc = "new" /\ Counted(NoExec)
    /\ Over \in ExecRec /\ Over.pc = "over" /\ Counted(Over)
<1>1. NoExec \in ExecRec /\ NoExec.pc = "new" /\ Counted(NoExec)
  BY ReportAssumption DEF NoExec, ExecRec, Stage, Counted, AtWork
<1>2. Over \in ExecRec /\ Over.pc = "over" /\ Counted(Over)
  BY ReportAssumption DEF NoExec, Over, ExecRec, Stage, Counted, AtWork
<1>. QED
  BY <1>1, <1>2

\* One of the three counts grows, and stays within its bound.
LEMMA TroubleType ==
    ASSUME RestOK, NEW kind \in {"faults", "crashes", "closes"}, Trouble(kind)
    PROVE  trouble' \in [faults : 0 .. MaxTroubles, crashes : 0 .. MaxTroubles, closes : 0 .. MaxTroubles]
BY ReportAssumption DEF RestOK, Trouble

\* One execution changes to a record of the right shape.
LEMMA ExecType ==
    ASSUME ExecOK, NEW e \in Run, NEW x \in ExecRec, Counted(x), Exec(e, x)
    PROVE  ExecOK'
BY DEF ExecOK, Exec

LEMMA ReqType ==
    ASSUME ReqOK, NEW q \in Request, NEW x \in ReqRec, Req(q, x),
           x.pc \in {"write", "reload", "remove"} => x.on \in Replica /\ x.report \in Report
    PROVE  ReqOK'
BY DEF ReqOK, Req

LEMMA AnsweredType ==
    ASSUME ReqOK, NEW by, Answered(by)
    PROVE  ReqOK'
BY Constants DEF ReqOK, Answered, NoRequest, ReqRec

LEMMA SchedType ==
    ASSUME SchedOK, NEW p \in Replica, NEW x \in SchedRec, Sched(p, x),
           x.reload.pc # "free" => x.reload.report \in Report
    PROVE  SchedOK'
BY DEF SchedOK, Sched

\* A write changes one row, and of the executions only what they may have seen.
LEMMA WritesType ==
    ASSUME Shape, NEW p, NEW r \in Report, NEW x \in Rows, Writes(p, r, x)
    PROVE  RowsOK' /\ ExecOK' /\ missed' \in [Replica -> SUBSET Report]
<1>1. RowsOK'
  BY DEF Shape, RowsOK, Writes
<1>2. missed' \in [Replica -> SUBSET Report]
  BY DEF Shape, RestOK, Writes
<1>3. ASSUME NEW e \in Run
      PROVE  exec'[e] \in ExecRec /\ Counted(exec'[e])
  <2>1. exec[e] \in ExecRec /\ Counted(exec[e])
    BY DEF Shape, ExecOK
  <2>2. CASE exec[e].report # r
    BY <2>1, <2>2 DEF Writes
  <2>3. CASE exec[e].report = r
    <3>. DEFINE y == [exec[e] EXCEPT !.live = @ \union EnabledRows(x)]
    <3>1. exec'[e] = y
      BY <2>3 DEF Writes
    <3>2. y \in ExecRec
      BY <2>1, EnabledRowsType DEF ExecRec
    <3>3. Counted(y)
      BY <2>1 DEF ExecRec, Counted
    <3>. QED BY <3>1, <3>2, <3>3
  <2>. QED BY <2>2, <2>3
<1>4. exec' = [e \in Run |-> exec'[e]]
  BY DEF Writes
<1>. QED
  BY <1>1, <1>2, <1>3, <1>4 DEF ExecOK

------------------------------------------------------------------------------
\* Type correctness.

LEMMA TypeInit == Init => Shape
<1>. SUFFICES ASSUME Init PROVE Shape
  OBVIOUS
<1>1. RowsOK
  BY DEF Init, RowsOK
<1>2. SchedOK /\ ReqOK
  BY Constants DEF Init, SchedOK, ReqOK
<1>3. ExecOK
  BY ExecConstants DEF Init, ExecOK
<1>4. RestOK
  BY Constants, ReportAssumption DEF Init, RestOK
<1>. QED
  BY <1>1, <1>2, <1>3, <1>4 DEF Shape

\* What a replica that has ended leaves.
LEMMA EndsType ==
    ASSUME Shape, NEW p \in Replica, Ends(p)
    PROVE  SchedOK' /\ ReqOK' /\ ExecOK' /\ missed' \in [Replica -> SUBSET Report]
           /\ UNCHANGED <<row, record, got>>
<1>1. SchedOK'
  BY SchedType, Constants DEF Ends, Shape
<1>2. ReqOK'
  <2>1. [NoRequest EXCEPT !.pc = "done"] \in ReqRec /\ [NoRequest EXCEPT !.pc = "done"].pc = "done"
    BY DEF NoRequest, ReqRec
  <2>. QED BY <2>1 DEF Ends, Shape, ReqOK
<1>3. ExecOK'
  BY ExecConstants DEF Ends, Shape, ExecOK
<1>4. missed' \in [Replica -> SUBSET Report] /\ UNCHANGED <<row, record, got>>
  BY DEF Ends, Shape, RestOK
<1>. QED
  BY <1>1, <1>2, <1>3, <1>4

LEMMA SchedulerType ==
    ASSUME Shape, NEW p \in Replica, Start(p) \/ Started(p) \/ Close(p) \/ Exit(p) \/ Crash(p)
    PROVE  Shape'
<1>1. CASE Start(p)
  <2>1. SchedOK'
    <3>. DEFINE x == [Off EXCEPT !.pc = "loading", !.todo = {r \in Report : IsEnabled(row[r])}]
    <3>1. x \in SchedRec /\ x.reload.pc = "free"
      BY Constants DEF SchedRec
    <3>2. Sched(p, x)
      BY <1>1 DEF Start
    <3>. QED BY <3>1, <3>2, SchedType DEF Shape
  <2>. QED BY <1>1, <2>1 DEF Start, Shape, RowsOK, ReqOK, ExecOK, RestOK
<1>2. CASE Started(p)
  <2>1. SchedOK'
    <3>1. [sched[p] EXCEPT !.pc = "on"] \in SchedRec
      BY DEF Shape, SchedOK, SchedRec
    <3>. QED BY <1>2, <3>1, SchedType DEF Started, Shape, SchedOK, SchedRec
  <2>. QED BY <1>2, <2>1 DEF Started, Shape, RowsOK, ReqOK, ExecOK, RestOK
<1>3. CASE Close(p)
  <2>1. SchedOK'
    <3>1. [sched[p] EXCEPT !.pc = "stopping"] \in SchedRec
      BY DEF Shape, SchedOK, SchedRec
    <3>. QED BY <1>3, <3>1, SchedType DEF Close, Shape, SchedOK, SchedRec
  <2>2. RestOK'
    BY <1>3, TroubleType DEF Close, Shape, RestOK
  <2>. QED BY <1>3, <2>1, <2>2 DEF Close, Shape, RowsOK, ReqOK, ExecOK
<1>4. CASE Exit(p)
  BY <1>4, EndsType DEF Exit, Shape, RowsOK, RestOK
<1>5. CASE Crash(p)
  <2>1. RestOK'
    BY <1>5, EndsType, TroubleType DEF Crash, Shape, RestOK
  <2>. QED BY <1>5, <2>1, EndsType DEF Crash, Shape, RowsOK
<1>. QED
  BY <1>1, <1>2, <1>3, <1>4, <1>5

LEMMA LockType ==
    ASSUME Shape, NEW p \in Replica, NEW by \in Request \union Replica, NEW r \in Report, Lock(p, by, r)
    PROVE  Shape'
<1>. DEFINE on == row[r].life = "live" /\ row[r].on
            unlocked == [sched[p] EXCEPT !.entry = EntriesWithout(p, r), !.todo = @ \ {r}]
            x == [unlocked EXCEPT !.reload = [by |-> by, report |-> r, pc |-> "schedule", cron |-> Nothing,
                                              on |-> on]]
<1>0. unlocked \in SchedRec /\ unlocked.reload = sched[p].reload
  BY DEF Shape, SchedOK, SchedRec, EntriesWithout
<1>1. x \in SchedRec /\ x.reload.report \in Report
  <2>1. on \in BOOLEAN
    OBVIOUS
  <2>2. [by |-> by, report |-> r, pc |-> "schedule", cron |-> Nothing, on |-> on] \in ReloadRec
    BY <2>1 DEF ReloadRec
  <2>. HIDE DEF unlocked, on
  <2>. QED BY <1>0, <2>2 DEF SchedRec
<1>2. \/ Sched(p, x) /\ missed' = [missed EXCEPT ![p] = @ \ {r}] /\ UNCHANGED <<req, trouble>>
      \/ Sched(p, unlocked) /\ Answered(by) /\ Fault /\ UNCHANGED missed
  BY DEF Lock
<1>3. UNCHANGED <<row, record, exec, got>>
  BY DEF Lock
<1>. HIDE DEF x, unlocked
<1>4. CASE Sched(p, x) /\ missed' = [missed EXCEPT ![p] = @ \ {r}] /\ UNCHANGED <<req, trouble>>
  <2>1. SchedOK'
    BY <1>1, <1>4, SchedType DEF Shape
  <2>. QED BY <1>3, <1>4, <2>1 DEF Shape, RowsOK, ReqOK, ExecOK, RestOK
<1>5. CASE Sched(p, unlocked) /\ Answered(by) /\ Fault /\ UNCHANGED missed
  <2>1. SchedOK'
    BY <1>0, <1>5, SchedType DEF Shape, SchedOK
  <2>2. ReqOK'
    BY <1>5, AnsweredType DEF Shape
  <2>3. RestOK'
    BY <1>3, <1>5, TroubleType DEF Shape, Fault, RestOK
  <2>. QED BY <1>3, <2>1, <2>2, <2>3 DEF Shape, RowsOK, ExecOK
<1>. QED
  BY <1>2, <1>4, <1>5

LEMMA ReloadType ==
    ASSUME Shape, NEW p \in Replica, ReadSchedule(p) \/ AddEntry(p)
    PROVE  Shape'
<1>. DEFINE reload == sched[p].reload
<1>0. sched[p] \in SchedRec /\ reload \in ReloadRec
  BY DEF Shape, SchedOK, SchedRec
<1>1. CASE ReadSchedule(p)
  <2>. DEFINE cron == CronOf(reload.on, row[reload.report])
              x == [sched[p] EXCEPT !.reload.pc = "add", !.reload.cron = cron]
              y == [sched[p] EXCEPT !.reload = NoReload, !.pc = IF reload.by = p THEN "failed" ELSE @]
  <2>1. cron \in Cron \union {Nothing} /\ reload.report \in Report
    <3>1. reload.report \in Report
      BY <1>1 DEF ReadSchedule, Shape, SchedOK
    <3>2. row[reload.report].cron \in Cron
      BY <3>1 DEF Shape, RowsOK, Rows
    <3>. QED BY <3>1, <3>2 DEF CronOf
  <2>. HIDE DEF cron
  <2>2. x \in SchedRec /\ x.reload.report \in Report
    BY <1>0, <2>1 DEF SchedRec, ReloadRec
  <2>3. y \in SchedRec /\ y.reload = NoReload
    BY <1>0, Constants DEF SchedRec
  <2>4. \/ Sched(p, x) /\ UNCHANGED <<req, trouble>>
        \/ Sched(p, y) /\ Answered(reload.by) /\ Fault
    BY <1>1 DEF ReadSchedule, cron
  <2>. HIDE DEF x, y
  <2>5. SchedOK'
    BY <2>2, <2>3, <2>4, SchedType, Constants DEF Shape
  <2>6. ReqOK'
    BY <2>4, AnsweredType DEF Shape, ReqOK
  <2>7. RestOK'
    BY <1>1, <2>4, TroubleType DEF ReadSchedule, Shape, Fault, RestOK
  <2>. QED BY <1>1, <2>5, <2>6, <2>7 DEF ReadSchedule, Shape, RowsOK, ExecOK
<1>2. CASE AddEntry(p)
  <2>. DEFINE x == [sched[p] EXCEPT !.entry[reload.report] = reload.cron, !.reload = NoReload]
  <2>1. x \in SchedRec /\ x.reload = NoReload
    BY <1>0, Constants DEF SchedRec, ReloadRec
  <2>2. SchedOK'
    BY <1>2, <2>1, SchedType, Constants DEF AddEntry, Shape
  <2>3. ReqOK'
    BY <1>2, AnsweredType DEF AddEntry, Shape
  <2>. QED BY <1>2, <2>2, <2>3 DEF AddEntry, Shape, RowsOK, ExecOK, RestOK
<1>. QED
  BY <1>1, <1>2

LEMMA RemoveType ==
    ASSUME Shape, NEW q \in Request, Remove(q)
    PROVE  Shape'
<1>. DEFINE p == req[q].on
            x == [sched[p] EXCEPT !.entry[req[q].report] = Nothing]
<1>1. p \in Replica
  BY DEF Remove, Shape, ReqOK
<1>2. x \in SchedRec /\ x.reload = sched[p].reload
  BY <1>1 DEF Shape, SchedOK, SchedRec
<1>3. SchedOK'
  BY <1>1, <1>2, SchedType DEF Remove, Shape, SchedOK
<1>4. ReqOK'
  BY AnsweredType DEF Remove, Shape
<1>. QED
  BY <1>3, <1>4 DEF Remove, Shape, RowsOK, ExecOK, RestOK

LEMMA HandlerType ==
    ASSUME Shape, NEW q \in Request, NEW p \in Replica, NEW r \in Report, Arriving(q, p, r)
    PROVE  Shape'
<1>0. row[r] \in Rows
  BY DEF Shape, RowsOK
<1>1. [NoRequest EXCEPT !.pc = "done"] \in ReqRec /\ [NoRequest EXCEPT !.pc = "done"].pc = "done"
  BY DEF NoRequest, ReqRec
<1>2. ASSUME NEW pc \in {"write", "reload", "remove"}
      PROVE  [pc |-> pc, on |-> p, report |-> r] \in ReqRec
  BY DEF ReqRec
<1>3. CASE SaveSchedule(q, p, r)
  <2>1. ReqOK'
    BY <1>2, <1>3, ReqType DEF SaveSchedule, Shape
  <2>. QED BY <1>3, <2>1 DEF SaveSchedule, Shape, RowsOK, SchedOK, ExecOK, RestOK
<1>4. CASE DeleteReport(q, p, r)
  <2>. DEFINE x == [row[r] EXCEPT !.life = "deleted", !.on = FALSE, !.has = FALSE, !.active = FALSE]
  <2>1. x \in Rows /\ (Writes(p, r, x) \/ Writes(Nothing, r, x))
    BY <1>0, <1>4 DEF DeleteReport, AnswerLost, Rows
  <2>. HIDE DEF x
  <2>2. RowsOK' /\ ExecOK' /\ missed' \in [Replica -> SUBSET Report]
    BY <2>1, WritesType
  <2>3. ReqOK'
    BY <1>1, <1>2, <1>4, ReqType DEF DeleteReport, AnswerLost, Shape
  <2>4. trouble' = trouble \/ Fault
    BY <1>4 DEF DeleteReport, AnswerLost
  <2>5. record' \in [Run -> RecordRec] /\ UNCHANGED <<sched, got>>
    BY <1>4, Constants DEF DeleteReport, Shape, RestOK
  <2>6. SchedOK' /\ RestOK'
    BY <2>2, <2>4, <2>5, TroubleType DEF Fault, Shape, SchedOK, RestOK
  <2>. QED BY <2>2, <2>3, <2>6 DEF Shape
<1>5. ASSUME NEW on \in BOOLEAN, CreateReport(q, p, r, on)
      PROVE  Shape'
  <2>. DEFINE x == [row[r] EXCEPT !.life = "live", !.on = on]
  <2>1. x \in Rows /\ Writes(p, r, x)
    BY <1>0, <1>5 DEF CreateReport, Rows
  <2>. HIDE DEF x
  <2>2. RowsOK' /\ ExecOK' /\ missed' \in [Replica -> SUBSET Report]
    BY <2>1, WritesType
  <2>3. ReqOK'
    BY <1>1, <1>5, ReqType DEF CreateReport, Shape
  <2>4. SchedOK' /\ RestOK'
    BY <1>5, <2>2 DEF CreateReport, Shape, SchedOK, RestOK
  <2>. QED BY <2>2, <2>3, <2>4 DEF Shape
<1>6. ASSUME NEW on \in BOOLEAN, UpdateReport(q, p, r, on)
      PROVE  Shape'
  <2>. DEFINE x == [row[r] EXCEPT !.on = on]
  <2>1. x \in Rows /\ Writes(p, r, x)
    BY <1>0, <1>6 DEF UpdateReport, Rows
  <2>. HIDE DEF x
  <2>2. RowsOK' /\ ExecOK' /\ missed' \in [Replica -> SUBSET Report]
    BY <2>1, WritesType
  <2>3. \/ Req(q, [pc |-> "reload", on |-> p, report |-> r]) /\ UNCHANGED trouble
        \/ Req(q, [NoRequest EXCEPT !.pc = "done"]) /\ Fault
    BY <1>6 DEF UpdateReport
  <2>4. ReqOK'
    BY <1>1, <1>2, <2>3, ReqType DEF Shape
  <2>5. UNCHANGED <<record, sched, got>>
    BY <1>6 DEF UpdateReport
  <2>6. RestOK'
    BY <2>2, <2>3, <2>5, TroubleType DEF Fault, Shape, RestOK
  <2>. QED BY <2>2, <2>4, <2>5, <2>6 DEF Shape, SchedOK
<1>. QED
  BY <1>3, <1>4, <1>5, <1>6 DEF Arriving

LEMMA HandlingType ==
    ASSUME Shape, NEW q \in Request, Handling(q)
    PROVE  Shape'
<1>1. CASE LockFor(q)
  <2>1. req[q].on \in Replica /\ req[q].report \in Report
    BY <1>1 DEF LockFor, Shape, ReqOK
  <2>. QED BY <1>1, <2>1, LockType DEF LockFor
<1>2. CASE Remove(q)
  BY <1>2, RemoveType
<1>3. ASSUME NEW cron \in Cron, NEW active \in BOOLEAN, WriteSchedule(q, cron, active)
      PROVE  Shape'
  <2>. DEFINE p == req[q].on
              r == req[q].report
              x == [row[r] EXCEPT !.has = TRUE, !.cron = cron, !.active = active]
              y == [req[q] EXCEPT !.pc = "reload"]
  <2>1. p \in Replica /\ r \in Report /\ req[q] \in ReqRec
    BY <1>3 DEF WriteSchedule, Shape, ReqOK
  <2>2. x \in Rows
    BY <2>1 DEF Shape, RowsOK, Rows
  <2>3. y \in ReqRec /\ y.on = p /\ y.report = r
    BY <2>1 DEF ReqRec
  <2>4. /\ \/ Writes(p, r, x) /\ Req(q, y) /\ UNCHANGED trouble
           \/ Writes(Nothing, r, x) /\ Req(q, [NoRequest EXCEPT !.pc = "done"]) /\ Fault
        /\ UNCHANGED <<record, sched, got>>
    BY <1>3 DEF WriteSchedule, AnswerLost
  <2>. HIDE DEF x, y, p, r
  <2>5. RowsOK' /\ ExecOK' /\ missed' \in [Replica -> SUBSET Report]
    BY <2>1, <2>2, <2>4, WritesType
  <2>6. [NoRequest EXCEPT !.pc = "done"] \in ReqRec /\ [NoRequest EXCEPT !.pc = "done"].pc = "done"
    BY DEF NoRequest, ReqRec
  <2>7. ReqOK'
    BY <2>1, <2>3, <2>4, <2>6, ReqType DEF Shape
  <2>8. RestOK'
    BY <2>4, <2>5, TroubleType DEF Fault, Shape, RestOK
  <2>. QED BY <2>4, <2>5, <2>7, <2>8 DEF Shape, SchedOK
<1>. QED
  BY <1>1, <1>2, <1>3 DEF Handling

\* The record an execution becomes when it leaves a channel.
LEMMA LeftType ==
    ASSUME Shape, NEW e \in Run, exec[e].pc = "send",
           NEW good \in 0 .. 1, NEW bad \in 0 .. 1, good + bad = 1, Left(e, good, bad)
    PROVE  ExecOK'
<1>. DEFINE c == exec[e].channel
            x == [exec[e] EXCEPT !.pc = IF c = Channels THEN "finish" ELSE @,
                                 !.channel = IF @ = Channels THEN @ ELSE @ + 1,
                                 !.tries = TriesAtFirst(e), !.good = @ + good, !.bad = @ + bad]
<1>1. exec[e] \in ExecRec /\ Counted(exec[e])
  BY DEF Shape, ExecOK
<1>2. /\ c \in 1 .. Channels /\ exec[e].good \in Nat /\ exec[e].bad \in Nat
      /\ exec[e].good + exec[e].bad = c - 1
  BY <1>1 DEF ExecRec, Counted
<1>3. x \in ExecRec
  <2>. DEFINE next == IF c = Channels THEN c ELSE c + 1
              stage == IF c = Channels THEN "finish" ELSE exec[e].pc
              tries == TriesAtFirst(e)
              all == exec[e].good + good
              none == exec[e].bad + bad
  <2>1. next \in 1 .. Channels /\ tries \in 0 .. MaxAttempts - 1 /\ all \in Nat /\ none \in Nat
    BY <1>2, ReportAssumption DEF TriesAtFirst
  <2>2. stage \in Stage
    BY DEF Stage
  <2>3. x = [exec[e] EXCEPT !.pc = stage, !.channel = next, !.tries = tries, !.good = all, !.bad = none]
    BY <1>1 DEF ExecRec
  <2>. HIDE DEF x, next, stage, tries, all, none
  <2>. QED BY <1>1, <2>1, <2>2, <2>3 DEF ExecRec
<1>4. /\ x.pc \in {"send", "finish"} /\ x.on = exec[e].on /\ x.report = exec[e].report
      /\ x.trigger = exec[e].trigger /\ x.good + x.bad = c
      /\ x.pc = "send" => x.channel = c + 1
      /\ x.pc = "finish" => c = Channels
  <2>1. x.good = exec[e].good + good /\ x.bad = exec[e].bad + bad
    BY <1>1 DEF ExecRec
  <2>2. x.good + x.bad = c
    BY <1>2, <2>1
  <2>3. /\ x.pc \in {"send", "finish"} /\ x.on = exec[e].on /\ x.report = exec[e].report
        /\ x.trigger = exec[e].trigger
        /\ x.pc = "send" => x.channel = c + 1
        /\ x.pc = "finish" => c = Channels
    BY <1>1 DEF ExecRec
  <2>. QED BY <2>2, <2>3
<1>5. Counted(x)
  <2>. HIDE DEF x
  <2>1. exec[e].on \in Replica /\ exec[e].report \in Report /\ exec[e].trigger \in Trigger
    BY <1>1 DEF Counted, AtWork
  <2>2. x.pc = "send" => x.good + x.bad = x.channel - 1
    BY <1>2, <1>4
  <2>3. x.good + x.bad \in {0, Channels} \union {x.channel - 1}
    BY <1>4, <2>2
  <2>. QED BY <1>4, <2>1, <2>2, <2>3 DEF Counted
<1>6. Exec(e, x)
  BY DEF Left
<1>. HIDE DEF x
<1>. QED
  BY <1>3, <1>5, <1>6, ExecType DEF Shape

LEMMA ExecutingType ==
    ASSUME Shape, NEW e \in Run, Executing(e)
    PROVE  Shape'
<1>0. exec[e] \in ExecRec /\ Counted(exec[e])
  BY DEF Shape, ExecOK
<1>1. CASE ReadReport(e)
  <2>. DEFINE seen == EnabledRows(row[exec[e].report]) \intersect {"report"}
              x == [exec[e] EXCEPT !.pc = "schedule", !.seen = seen]
  <2>1. seen \subseteq {"report", "schedule"}
    OBVIOUS
  <2>2. x \in ExecRec /\ Counted(x)
    <3>. HIDE DEF seen
    <3>1. x \in ExecRec
      BY <1>0, <2>1 DEF ExecRec, Stage
    <3>2. Counted(x)
      BY <1>0, <1>1 DEF ReadReport, ExecRec, Counted, AtWork
    <3>. QED BY <3>1, <3>2
  <2>3. Exec(e, x) \/ Exec(e, Over)
    BY <1>1 DEF ReadReport
  <2>. HIDE DEF x
  <2>4. ExecOK'
    BY <2>2, <2>3, ExecType, ExecConstants DEF Shape
  <2>. QED BY <1>1, <2>4 DEF ReadReport, Shape, RowsOK, SchedOK, ReqOK, RestOK
<1>2. CASE ReadItsSchedule(e)
  <2>. DEFINE seen == exec[e].seen \union (EnabledRows(row[exec[e].report]) \intersect {"schedule"})
              x == [exec[e] EXCEPT !.pc = "insert", !.seen = seen]
  <2>1. seen \subseteq {"report", "schedule"}
    BY <1>0 DEF ExecRec
  <2>2. x = [exec[e] EXCEPT !.pc = "insert", !.seen = @ \union (EnabledRows(row[exec[e].report]) \intersect {"schedule"})]
    BY <1>0 DEF ExecRec
  <2>3. x \in ExecRec /\ Counted(x)
    <3>. HIDE DEF seen
    <3>1. x \in ExecRec
      BY <1>0, <2>1 DEF ExecRec, Stage
    <3>2. Counted(x)
      BY <1>0, <1>2 DEF ReadItsSchedule, ExecRec, Counted, AtWork
    <3>. QED BY <3>1, <3>2
  <2>4. ExecOK'
    BY <1>2, <2>2, <2>3, ExecType DEF ReadItsSchedule, Shape
  <2>. QED BY <1>2, <2>4 DEF ReadItsSchedule, Shape, RowsOK, SchedOK, ReqOK, RestOK
<1>3. CASE NotRecorded(e)
  <2>1. ExecOK'
    BY <1>3, ExecType, ExecConstants DEF NotRecorded, Shape
  <2>2. RestOK'
    BY <1>3, TroubleType DEF NotRecorded, Fault, Shape, RestOK
  <2>. QED BY <1>3, <2>1, <2>2 DEF NotRecorded, Shape, RowsOK, SchedOK, ReqOK
<1>4. ASSUME NEW rendered \in BOOLEAN, Insert(e, rendered)
      PROVE  Shape'
  <2>. DEFINE stage == IF MayRun(exec[e].seen) /\ rendered THEN "send" ELSE "finish"
              x == [exec[e] EXCEPT !.pc = stage]
              z == [report |-> exec[e].report, trigger |-> exec[e].trigger, status |-> "running"]
  <2>1. x \in ExecRec /\ Counted(x)
    <3>1. stage \in {"send", "finish"}
      OBVIOUS
    <3>. HIDE DEF stage
    <3>2. x \in ExecRec
      BY <1>0, <3>1 DEF ExecRec, Stage
    <3>3. x.pc = stage /\ x.on = exec[e].on /\ x.report = exec[e].report /\ x.trigger = exec[e].trigger
          /\ x.good = exec[e].good /\ x.bad = exec[e].bad /\ x.channel = exec[e].channel
      BY <1>0 DEF ExecRec
    <3>4. exec[e].good = 0 /\ exec[e].bad = 0 /\ exec[e].channel = 1
          /\ exec[e].on \in Replica /\ exec[e].report \in Report /\ exec[e].trigger \in Trigger
      BY <1>0, <1>4 DEF Insert, Counted, AtWork
    <3>. HIDE DEF x
    <3>. QED BY <3>1, <3>2, <3>3, <3>4 DEF Counted
  <2>2. ExecOK'
    BY <1>4, <2>1, ExecType DEF Insert, Shape
  <2>3. z \in RecordRec
    BY <1>0 DEF ExecRec, RecordRec
  <2>4. RestOK'
    BY <1>4, <2>3 DEF Insert, Shape, RestOK
  <2>. QED BY <1>4, <2>2, <2>4 DEF Insert, Shape, RowsOK, SchedOK, ReqOK
<1>5. ASSUME NEW ok \in BOOLEAN, NEW reached \in BOOLEAN, Send(e, ok, reached)
      PROVE  Shape'
  <2>1. ExecOK'
    <3>1. CASE ok
      BY <1>5, <3>1, LeftType DEF Send
    <3>2. CASE ~ok /\ exec[e].tries + 1 = MaxAttempts
      BY <1>5, <3>2, LeftType DEF Send, GivenUp
    <3>3. CASE ~ok /\ exec[e].tries + 1 # MaxAttempts
      <4>. DEFINE tries == exec[e].tries + 1
                  x == [exec[e] EXCEPT !.tries = tries]
      <4>1. tries \in 0 .. MaxAttempts - 1
        BY <1>0, <3>3, ReportAssumption DEF ExecRec
      <4>2. x \in ExecRec /\ Counted(x)
        <5>. HIDE DEF tries
        <5>1. x \in ExecRec
          BY <1>0, <4>1 DEF ExecRec
        <5>2. Counted(x)
          BY <1>0, <1>5 DEF Send, ExecRec, Counted
        <5>. QED BY <5>1, <5>2
      <4>3. Exec(e, [exec[e] EXCEPT !.tries = @ + 1])
        BY <1>5, <3>3 DEF Send
      <4>4. Exec(e, x)
        BY <1>0, <4>3 DEF ExecRec
      <4>. QED BY <4>2, <4>4, ExecType DEF Shape
    <3>. QED BY <3>1, <3>2, <3>3
  <2>2. exec[e].channel \in 1 .. Channels
    BY <1>0 DEF ExecRec
  <2>3. RestOK'
    BY <1>5, <2>2 DEF Send, Shape, RestOK
  <2>. QED BY <1>5, <2>1, <2>3 DEF Send, Shape, RowsOK, SchedOK, ReqOK
<1>6. CASE NoChannel(e)
  <2>1. ExecOK'
    BY <1>6, LeftType DEF NoChannel
  <2>. QED BY <1>6, <2>1 DEF NoChannel, Shape, RowsOK, SchedOK, ReqOK, RestOK
<1>7. CASE Record(e)
  <2>. DEFINE x == [NoExec EXCEPT !.pc = "snapshot", !.on = exec[e].on, !.trigger = exec[e].trigger]
  <2>1. x \in ExecRec /\ Counted(x)
    <3>1. exec[e].on \in Replica /\ exec[e].trigger \in Trigger
      BY <1>0, <1>7 DEF Record, Counted, AtWork
    <3>2. NoExec.good = 0 /\ NoExec.bad = 0 /\ NoExec.channel = 1 /\ NoExec.tries = 0
      BY DEF NoExec
    <3>3. x \in ExecRec
      BY <3>1, ExecConstants DEF ExecRec, Stage
    <3>4. x.pc = "snapshot" /\ x.on = exec[e].on /\ x.good = 0 /\ x.bad = 0 /\ x.channel = 1 /\ x.tries = 0
      BY <3>2, ExecConstants DEF ExecRec
    <3>. HIDE DEF x
    <3>. QED BY <3>1, <3>3, <3>4 DEF Counted, AtWork
  <2>2. \/ /\ record' = [record EXCEPT ![e].status = IF @ = "running"
                                                    THEN ExecutionStatus(exec[e].good, exec[e].bad) ELSE @]
           /\ Exec(e, x) /\ UNCHANGED trouble
        \/ Exec(e, Over) /\ Fault /\ UNCHANGED record
    BY <1>7 DEF Record
  <2>. HIDE DEF x
  <2>3. ExecOK'
    BY <2>1, <2>2, ExecType, ExecConstants DEF Shape
  <2>4. record' \in [Run -> RecordRec]
    <3>1. ExecutionStatus(exec[e].good, exec[e].bad) \in {"success", "partial", "failed"}
      BY DEF ExecutionStatus
    <3>. QED BY <2>2, <3>1 DEF Shape, RestOK, RecordRec
  <2>5. RestOK'
    BY <1>7, <2>2, <2>4, TroubleType DEF Record, Fault, Shape, RestOK
  <2>. QED BY <1>7, <2>3, <2>5 DEF Record, Shape, RowsOK, SchedOK, ReqOK
<1>8. CASE Snapshot(e)
  <2>1. ExecOK'
    BY <1>8, ExecType, ExecConstants DEF Snapshot, Shape
  <2>. QED BY <1>8, <2>1 DEF Snapshot, Shape, RowsOK, SchedOK, ReqOK, RestOK
<1>. QED
  BY <1>1, <1>2, <1>3, <1>4, <1>5, <1>6, <1>7, <1>8 DEF Executing

LEMMA BeginningType ==
    ASSUME Shape, NEW e \in Run, NEW p \in Replica, NEW r \in Report, Beginning(e, p, r)
    PROVE  Shape'
<1>1. PICK trigger \in Trigger : Begins(e, p, r, trigger)
  BY DEF Beginning, Fire, RunPreview, Trigger
<1>. DEFINE live == EnabledRows(row[r])
            x == [NoExec EXCEPT !.pc = "report", !.on = p, !.report = r, !.trigger = trigger, !.live = live]
<1>2. live \subseteq {"report", "schedule"}
  BY EnabledRowsType
<1>3. x \in ExecRec /\ Counted(x)
  <2>. HIDE DEF live
  <2>1. x \in ExecRec
    BY <1>2, ExecConstants DEF ExecRec, Stage
  <2>2. NoExec.good = 0 /\ NoExec.bad = 0 /\ NoExec.channel = 1 /\ NoExec.tries = 0
    BY DEF NoExec
  <2>3. x.pc = "report" /\ x.on = p /\ x.report = r /\ x.trigger = trigger
        /\ x.good = 0 /\ x.bad = 0 /\ x.channel = 1 /\ x.tries = 0
    BY <2>2, ExecConstants DEF ExecRec
  <2>. HIDE DEF x
  <2>. QED BY <2>1, <2>3 DEF Counted
<1>4. ExecOK'
  BY <1>1, <1>3, ExecType DEF Begins, Shape
<1>. QED
  BY <1>1, <1>4 DEF Begins, Shape, RowsOK, SchedOK, ReqOK, RestOK

LEMMA TypeStep == Shape /\ [Next]_vars => Shape'
<1>. SUFFICES ASSUME Shape, [Next]_vars PROVE Shape'
  OBVIOUS
<1>1. ASSUME NEW p \in Replica, Close(p) \/ Exit(p) \/ Crash(p) \/ Scheduling(p)
      PROVE  Shape'
  <2>1. CASE LoadNext(p)
    BY <2>1, LockType DEF LoadNext, Shape, SchedOK, SchedRec
  <2>. QED BY <1>1, <2>1, SchedulerType, ReloadType DEF Scheduling
<1>2. ASSUME NEW q \in Request, Handling(q) \/ (\E p \in Replica, r \in Report : Arriving(q, p, r))
      PROVE  Shape'
  BY <1>2, HandlingType, HandlerType
<1>3. ASSUME NEW e \in Run, Executing(e) \/ (\E p \in Replica, r \in Report : Beginning(e, p, r))
      PROVE  Shape'
  BY <1>3, ExecutingType, BeginningType
<1>4. CASE UNCHANGED vars
  BY <1>4 DEF vars, Shape, RowsOK, SchedOK, ReqOK, ExecOK, RestOK
<1>. QED
  BY <1>1, <1>2, <1>3, <1>4 DEF Next

\* The shape is more than the type invariant asks for.
LEMMA TypeCounts == Shape => TypeOK
<1>. SUFFICES ASSUME Shape PROVE TypeOK
  OBVIOUS
<1>1. ASSUME NEW e \in Run
      PROVE  exec[e].tries \in 0 .. MaxAttempts - 1 /\ exec[e].good + exec[e].bad <= Channels
  <2>1. exec[e] \in ExecRec /\ Counted(exec[e])
    BY DEF Shape, ExecOK
  <2>2. exec[e].channel \in 1 .. Channels /\ exec[e].tries \in 0 .. MaxAttempts - 1
    BY <2>1 DEF ExecRec
  <2>3. exec[e].good + exec[e].bad \in {0, Channels} \union {exec[e].channel - 1}
    BY <2>1 DEF Counted
  <2>. QED BY <2>2, <2>3, ReportAssumption
<1>2. row \in [Report -> Rows] /\ missed \in [Replica -> SUBSET Report] /\ got \in [Run -> SUBSET (1 .. Channels)]
  BY DEF Shape, RowsOK, RestOK
<1>3. trouble \in [faults : 0 .. MaxTroubles, crashes : 0 .. MaxTroubles, closes : 0 .. MaxTroubles]
  BY DEF Shape, RestOK
<1>4. ASSUME NEW p \in Replica
      PROVE  /\ sched[p].pc \in {"off", "loading", "on", "stopping", "failed"}
             /\ sched[p].todo \subseteq Report
             /\ sched[p].entry \in [Report -> Cron \union {Nothing}]
  BY DEF Shape, SchedOK, SchedRec
<1>. QED
  BY <1>1, <1>2, <1>3, <1>4 DEF TypeOK

\* In every reachable state the rows, schedulers and executions have their types: a channel
\* gets no more than MaxAttempts tries, and no channel is counted twice (the counters of
\* executeReportFromDB).
THEOREM TypeCorrect == Spec => []TypeOK
<1>1. Spec => []Shape
  BY TypeInit, TypeStep, PTL DEF Spec
<1>. QED
  BY <1>1, TypeCounts, PTL

-----------------------------------------------------------------------------
(***************************************************************************)
(* What an execution sends and records.                                    *)
(***************************************************************************)
\* What an execution has seen enabled was enabled since it began, and it sends only if it
\* has seen both rows enabled.
SeenInv ==
    \A e \in Run :
        /\ exec[e].pc \in AtWork => /\ EnabledRows(row[exec[e].report]) \subseteq exec[e].live
                                    /\ exec[e].seen \subseteq exec[e].live
        /\ exec[e].pc = "send" => exec[e].seen = {"report", "schedule"}

\* A channel that was counted as good was reached, and whoever counted one has counted all
\* at the end.
CountInv ==
    \A e \in Run :
        exec[e].pc \in {"send", "finish"} =>
            /\ exec[e].bad = 0 => 1 .. exec[e].good \subseteq got[e]
            /\ exec[e].good > 0 => got[e] # {}
            /\ exec[e].pc = "finish" /\ exec[e].good > 0 => exec[e].good + exec[e].bad = Channels

\* Without faults and crashes a scheduled row that says running has its execution at the
\* sends or behind them.
RunInv ==
    trouble.faults = 0 /\ trouble.crashes = 0
        => \A e \in Run : record[e].status = "running" /\ record[e].trigger = "schedule"
                              => exec[e].pc \in {"send", "finish"} /\ exec[e].trigger = "schedule"

------------------------------------------------------------------------------
\* The report is deleted with its executions.
Forgets(r) == record' = [e \in Run |-> IF record[e].report = r THEN NoRecord ELSE record[e]]

\* What a step may do to the rows and to the executions.
LEMMA Effects ==
    ASSUME Shape, [Next]_vars
    PROVE  \/ UNCHANGED <<row, exec, record, got>>
           \/ \E p \in Replica : Ends(p) /\ (JobsDone(p) \/ Trouble("crashes"))
           \/ \E p \in Replica \union {Nothing}, r \in Report, x \in Rows :
                 Writes(p, r, x) /\ UNCHANGED got /\ (UNCHANGED record \/ Forgets(r))
           \/ \E e \in Run : Executing(e)
           \/ \E e \in Run, p \in Replica, r \in Report, trigger \in Trigger : Begins(e, p, r, trigger)
<1>1. CASE UNCHANGED vars
  BY <1>1 DEF vars
<1>2. ASSUME NEW p \in Replica, Close(p) \/ Exit(p) \/ Crash(p) \/ Scheduling(p)
      PROVE  \/ UNCHANGED <<row, exec, record, got>>
             \/ Ends(p) /\ (JobsDone(p) \/ Trouble("crashes"))
  BY <1>2 DEF Close, Exit, Crash, Scheduling, Start, Started, LoadNext, Lock, ReadSchedule, AddEntry
<1>3. ASSUME NEW q \in Request, Handling(q)
      PROVE  \/ UNCHANGED <<row, exec, record, got>>
             \/ \E p \in Replica \union {Nothing}, r \in Report, x \in Rows :
                   Writes(p, r, x) /\ UNCHANGED <<got, record>>
  <2>1. CASE LockFor(q) \/ Remove(q)
    BY <2>1 DEF LockFor, Lock, Remove
  <2>2. ASSUME NEW cron \in Cron, NEW active \in BOOLEAN, WriteSchedule(q, cron, active)
        PROVE  \E p \in Replica \union {Nothing}, r \in Report, x \in Rows :
                 Writes(p, r, x) /\ UNCHANGED <<got, record>>
    <3>. DEFINE x == [row[req[q].report] EXCEPT !.has = TRUE, !.cron = cron, !.active = active]
    <3>1. req[q].on \in Replica /\ req[q].report \in Report
      BY <2>2 DEF WriteSchedule, Shape, ReqOK
    <3>2. x \in Rows
      BY <3>1 DEF Shape, RowsOK, Rows
    <3>3. /\ Writes(req[q].on, req[q].report, x) \/ Writes(Nothing, req[q].report, x)
          /\ UNCHANGED <<got, record>>
      BY <2>2 DEF WriteSchedule, AnswerLost
    <3>. HIDE DEF x
    <3>. QED BY <3>1, <3>2, <3>3
  <2>. QED BY <1>3, <2>1, <2>2 DEF Handling
<1>4. ASSUME NEW q \in Request, NEW p \in Replica, NEW r \in Report, Arriving(q, p, r)
      PROVE  \/ UNCHANGED <<row, exec, record, got>>
             \/ \E o \in Replica \union {Nothing}, x \in Rows :
                   Writes(o, r, x) /\ UNCHANGED got /\ (UNCHANGED record \/ Forgets(r))
  <2>0. row[r] \in Rows
    BY DEF Shape, RowsOK
  <2>1. CASE SaveSchedule(q, p, r)
    BY <2>1 DEF SaveSchedule
  <2>2. CASE DeleteReport(q, p, r)
    <3>. DEFINE x == [row[r] EXCEPT !.life = "deleted", !.on = FALSE, !.has = FALSE, !.active = FALSE]
    <3>1. x \in Rows
      BY <2>0 DEF Rows
    <3>2. (Writes(p, r, x) \/ Writes(Nothing, r, x)) /\ UNCHANGED got /\ Forgets(r)
      BY <2>2 DEF DeleteReport, AnswerLost, Forgets
    <3>. HIDE DEF x
    <3>. QED BY <3>1, <3>2
  <2>3. ASSUME NEW on \in BOOLEAN, CreateReport(q, p, r, on)
        PROVE  \E x \in Rows : Writes(p, r, x) /\ UNCHANGED <<got, record>>
    <3>. DEFINE x == [row[r] EXCEPT !.life = "live", !.on = on]
    <3>1. x \in Rows /\ Writes(p, r, x) /\ UNCHANGED <<got, record>>
      BY <2>0, <2>3 DEF CreateReport, Rows
    <3>. HIDE DEF x
    <3>. QED BY <3>1
  <2>4. ASSUME NEW on \in BOOLEAN, UpdateReport(q, p, r, on)
        PROVE  \E x \in Rows : Writes(p, r, x) /\ UNCHANGED <<got, record>>
    <3>. DEFINE x == [row[r] EXCEPT !.on = on]
    <3>1. x \in Rows /\ Writes(p, r, x) /\ UNCHANGED <<got, record>>
      BY <2>0, <2>4 DEF UpdateReport, Rows
    <3>. HIDE DEF x
    <3>. QED BY <3>1
  <2>. QED BY <1>4, <2>1, <2>2, <2>3, <2>4 DEF Arriving
<1>5. ASSUME NEW e \in Run, NEW p \in Replica, NEW r \in Report, Beginning(e, p, r)
      PROVE  \E trigger \in Trigger : Begins(e, p, r, trigger)
  BY <1>5 DEF Beginning, Fire, RunPreview, Trigger
<1>6. CASE \E p \in Replica : Close(p) \/ Exit(p) \/ Crash(p) \/ Scheduling(p)
  BY <1>2, <1>6
<1>7. CASE \E q \in Request : Handling(q)
  BY <1>3, <1>7
<1>8. CASE \E q \in Request, p \in Replica, r \in Report : Arriving(q, p, r)
  BY <1>4, <1>8
<1>9. CASE \E e \in Run : Executing(e) \/ (\E p \in Replica, r \in Report : Beginning(e, p, r))
  BY <1>5, <1>9
<1>. QED
  BY <1>1, <1>6, <1>7, <1>8, <1>9 DEF Next

LEMMA NoRowSeen ==
    /\ NoExec.pc = "new" /\ NoExec.seen = {} /\ NoExec.good = 0 /\ NoExec.bad = 0
    /\ Over.pc = "over"
    /\ ~("new" \in AtWork) /\ ~("over" \in AtWork) /\ ~("snapshot" \in AtWork)
BY DEF NoExec, Over, AtWork

\* What becomes of an execution that leaves a channel, or tries it again.
Same(e) ==
    /\ exec'[e].report = exec[e].report /\ exec'[e].trigger = exec[e].trigger
    /\ exec'[e].live = exec[e].live /\ exec'[e].seen = exec[e].seen

LEMMA LeftResult ==
    ASSUME Shape, NEW e \in Run, exec[e].pc = "send",
           NEW good \in 0 .. 1, NEW bad \in 0 .. 1, Left(e, good, bad)
    PROVE  /\ Same(e)
           /\ exec'[e].good = exec[e].good + good /\ exec'[e].bad = exec[e].bad + bad
           /\ exec'[e].pc = IF exec[e].channel = Channels THEN "finish" ELSE "send"
<1>. DEFINE x == [exec[e] EXCEPT !.pc = IF exec[e].channel = Channels THEN "finish" ELSE @,
                                 !.channel = IF @ = Channels THEN @ ELSE @ + 1,
                                 !.tries = TriesAtFirst(e), !.good = @ + good, !.bad = @ + bad]
<1>1. exec \in [Run -> ExecRec]
  BY DEF Shape, ExecOK
<1>2. exec'[e] = x
  BY <1>1 DEF Left, Exec
<1>3. exec[e] \in ExecRec
  BY <1>1
<1>4. x.report = exec[e].report /\ x.trigger = exec[e].trigger /\ x.live = exec[e].live /\ x.seen = exec[e].seen
  BY <1>3 DEF ExecRec
<1>5. /\ x.good = exec[e].good + good /\ x.bad = exec[e].bad + bad
      /\ x.pc = IF exec[e].channel = Channels THEN "finish" ELSE "send"
  BY <1>3 DEF ExecRec
<1>. HIDE DEF x
<1>. QED
  BY <1>2, <1>4, <1>5 DEF Same

LEMMA RetryResult ==
    ASSUME Shape, NEW e \in Run, Exec(e, [exec[e] EXCEPT !.tries = @ + 1])
    PROVE  /\ Same(e)
           /\ exec'[e].good = exec[e].good /\ exec'[e].bad = exec[e].bad /\ exec'[e].pc = exec[e].pc
<1>1. exec \in [Run -> ExecRec] /\ exec[e] \in ExecRec
  BY DEF Shape, ExecOK
<1>2. exec'[e] = [exec[e] EXCEPT !.tries = @ + 1]
  BY <1>1 DEF Exec
<1>. QED
  BY <1>1, <1>2 DEF ExecRec, Same

------------------------------------------------------------------------------
\* What was seen enabled.

LEMMA SeenInit == Init => SeenInv
BY NoRowSeen DEF Init, SeenInv

LEMMA SeenStep == Shape /\ SeenInv /\ [Next]_vars => SeenInv'
<1>. SUFFICES ASSUME Shape, SeenInv, [Next]_vars PROVE SeenInv'
  OBVIOUS
<1>1. CASE UNCHANGED <<row, exec, record, got>>
  BY <1>1 DEF SeenInv
<1>2. ASSUME NEW p \in Replica, Ends(p)
      PROVE  SeenInv'
  BY <1>2, NoRowSeen DEF Ends, SeenInv
<1>3. ASSUME NEW p \in Replica \union {Nothing}, NEW r \in Report, NEW x \in Rows, Writes(p, r, x)
      PROVE  SeenInv'
  <2>. SUFFICES ASSUME NEW e \in Run
                PROVE  /\ exec'[e].pc \in AtWork => /\ EnabledRows(row'[exec'[e].report]) \subseteq exec'[e].live
                                                    /\ exec'[e].seen \subseteq exec'[e].live
                       /\ exec'[e].pc = "send" => exec'[e].seen = {"report", "schedule"}
    BY DEF SeenInv
  <2>1. exec[e] \in ExecRec /\ row \in [Report -> Rows]
    BY DEF Shape, ExecOK, RowsOK
  <2>2. CASE exec[e].report # r
    <3>1. exec'[e] = exec[e]
      BY <1>3, <2>2 DEF Writes
    <3>2. exec[e].pc \in AtWork => exec[e].report \in Report /\ row'[exec[e].report] = row[exec[e].report]
      BY <1>3, <2>1, <2>2 DEF Writes, Shape, ExecOK, Counted
    <3>. QED BY <3>1, <3>2 DEF SeenInv
  <2>3. CASE exec[e].report = r
    <3>1. exec'[e] = [exec[e] EXCEPT !.live = @ \union EnabledRows(x)]
      BY <1>3, <2>3 DEF Writes
    <3>2. /\ exec'[e].pc = exec[e].pc /\ exec'[e].report = r /\ exec'[e].seen = exec[e].seen
          /\ exec'[e].live = exec[e].live \union EnabledRows(x)
      BY <2>1, <2>3, <3>1 DEF ExecRec
    <3>3. row'[r] = x
      BY <1>3, <2>1 DEF Writes
    <3>4. exec[e].pc \in AtWork => exec[e].seen \subseteq exec[e].live
      BY DEF SeenInv
    <3>5. exec[e].pc = "send" => exec[e].seen = {"report", "schedule"}
      BY DEF SeenInv
    <3>. QED BY <3>2, <3>3, <3>4, <3>5
  <2>. QED BY <2>2, <2>3
<1>4. ASSUME NEW e \in Run, Executing(e)
      PROVE  SeenInv'
  <2>. DEFINE here == EnabledRows(row[exec[e].report])
              old == exec[e]
              new == exec'[e]
  <2>1. row' = row /\ \A o \in Run : o # e => exec'[o] = exec[o]
    BY <1>4 DEF Executing, ReadReport, ReadItsSchedule, NotRecorded, Insert, Send, Left, NoChannel, Record,
                Snapshot, Exec, Shape, ExecOK
  <2>2. old \in ExecRec /\ exec \in [Run -> ExecRec]
    BY DEF Shape, ExecOK
  <2>3. old.pc \in AtWork => here \subseteq old.live /\ old.seen \subseteq old.live
    BY DEF SeenInv
  <2>4. /\ new.pc \in AtWork => new.report = old.report /\ new.live = old.live /\ new.seen \subseteq old.live
        /\ new.pc = "send" => new.seen = {"report", "schedule"}
        /\ new.pc \in AtWork => old.pc \in AtWork
    <3>1. CASE ReadReport(e)
      <4>1. CASE row[old.report].life = "live"
        <5>1. new = [old EXCEPT !.pc = "schedule", !.seen = here \intersect {"report"}]
          BY <2>2, <3>1, <4>1 DEF ReadReport, Exec
        <5>. HIDE DEF here
        <5>2. new.pc = "schedule" /\ new.report = old.report /\ new.live = old.live
              /\ new.seen = here \intersect {"report"}
          BY <2>2, <5>1 DEF ExecRec
        <5>. QED BY <2>3, <3>1, <5>2 DEF ReadReport, AtWork
      <4>2. CASE row[old.report].life # "live"
        BY <2>2, <3>1, <4>2, NoRowSeen DEF ReadReport, Exec
      <4>. QED BY <4>1, <4>2
    <3>2. CASE ReadItsSchedule(e)
      <4>1. new = [old EXCEPT !.pc = "insert", !.seen = old.seen \union (here \intersect {"schedule"})]
        BY <2>2, <3>2 DEF ReadItsSchedule, Exec
      <4>. HIDE DEF here
      <4>2. new.pc = "insert" /\ new.report = old.report /\ new.live = old.live
            /\ new.seen = old.seen \union (here \intersect {"schedule"})
        BY <2>2, <4>1 DEF ExecRec
      <4>. QED BY <2>3, <3>2, <4>2 DEF ReadItsSchedule, AtWork
    <3>3. CASE NotRecorded(e) \/ Snapshot(e)
      BY <2>2, <3>3, NoRowSeen DEF NotRecorded, Snapshot, Exec
    <3>4. ASSUME NEW rendered \in BOOLEAN, Insert(e, rendered)
          PROVE  <2>4!:
      <4>. DEFINE stage == IF MayRun(old.seen) /\ rendered THEN "send" ELSE "finish"
      <4>1. new = [old EXCEPT !.pc = stage]
        BY <2>2, <3>4 DEF Insert, Exec
      <4>2. stage = "send" => old.seen = {"report", "schedule"}
        BY DEF MayRun
      <4>. HIDE DEF stage
      <4>3. new.pc = stage /\ new.report = old.report /\ new.live = old.live /\ new.seen = old.seen
        BY <2>2, <4>1 DEF ExecRec
      <4>. QED BY <2>3, <3>4, <4>2, <4>3 DEF Insert, AtWork
    <3>5. CASE old.pc = "send" /\ Same(e)
      <4>1. old.seen = {"report", "schedule"}
        BY <3>5 DEF SeenInv
      <4>. QED BY <2>3, <3>5, <4>1 DEF Same, AtWork
    <3>6. ASSUME NEW ok \in BOOLEAN, NEW reached \in BOOLEAN, Send(e, ok, reached)
          PROVE  <2>4!:
      BY <3>5, <3>6, LeftResult, RetryResult DEF Send, GivenUp
    <3>7. CASE NoChannel(e)
      BY <3>5, <3>7, LeftResult DEF NoChannel
    <3>8. CASE Record(e)
      <4>1. new = [NoExec EXCEPT !.pc = "snapshot", !.on = old.on, !.trigger = old.trigger] \/ new = Over
        BY <2>2, <3>8 DEF Record, Exec
      <4>2. new.pc = "snapshot" \/ new.pc = "over"
        BY <4>1, ExecConstants DEF ExecRec
      <4>. QED BY <4>2, NoRowSeen
    <3>. QED BY <1>4, <3>1, <3>2, <3>3, <3>4, <3>6, <3>7, <3>8 DEF Executing
  <2>. HIDE DEF here, new, old
  <2>5. ASSUME NEW o \in Run
        PROVE  /\ exec'[o].pc \in AtWork => /\ EnabledRows(row'[exec'[o].report]) \subseteq exec'[o].live
                                            /\ exec'[o].seen \subseteq exec'[o].live
               /\ exec'[o].pc = "send" => exec'[o].seen = {"report", "schedule"}
    <3>1. CASE o # e
      BY <2>1, <3>1 DEF SeenInv
    <3>2. CASE o = e
      BY <2>1, <2>3, <2>4, <3>2 DEF new, old, here
    <3>. QED BY <3>1, <3>2
  <2>. QED BY <2>5 DEF SeenInv
<1>5. ASSUME NEW e \in Run, NEW p \in Replica, NEW r \in Report, NEW trigger \in Trigger, Begins(e, p, r, trigger)
      PROVE  SeenInv'
  <2>. DEFINE live == EnabledRows(row[r])
  <2>1. exec'[e] = [NoExec EXCEPT !.pc = "report", !.on = p, !.report = r, !.trigger = trigger, !.live = live]
    BY <1>5 DEF Begins, Exec, Shape, ExecOK
  <2>2. row' = row /\ \A o \in Run : o # e => exec'[o] = exec[o]
    BY <1>5 DEF Begins, Exec, Shape, ExecOK
  <2>. HIDE DEF live
  <2>3. exec'[e].pc = "report" /\ exec'[e].report = r /\ exec'[e].live = live /\ exec'[e].seen = {}
    BY <2>1, NoRowSeen, ExecConstants DEF ExecRec
  <2>. QED BY <2>2, <2>3 DEF SeenInv, live
<1>. QED
  BY Effects, <1>1, <1>2, <1>3, <1>4, <1>5

\* Whatever the executions of all replicas overlap with, nothing is sent for a report or a
\* schedule that was suspended all the time since the execution began (validateExecutionConfig
\* looks at two reads of different times).
THEOREM NothingSuspendedIsSent == Spec => []SuspendedIsNotSent
<1>1. Shape /\ SeenInv => SuspendedIsNotSent
  <2>. SUFFICES ASSUME Shape, SeenInv, NEW e \in Run, exec[e].pc = "send"
                PROVE  exec[e].live = {"report", "schedule"}
    BY DEF SuspendedIsNotSent
  <2>1. exec[e].live \subseteq {"report", "schedule"}
    BY DEF Shape, ExecOK, ExecRec
  <2>2. {"report", "schedule"} \subseteq exec[e].live
    BY DEF SeenInv, AtWork
  <2>. QED BY <2>1, <2>2
<1>2. Spec => [](Shape /\ SeenInv)
  BY TypeInit, TypeStep, SeenInit, SeenStep, PTL DEF Spec
<1>. QED
  BY <1>1, <1>2, PTL

------------------------------------------------------------------------------
\* What was counted and recorded.

LEMMA CountInit == Init => CountInv /\ RecordIsTrue
BY NoRowSeen DEF Init, CountInv, RecordIsTrue, NoRecord

\* What CountInv says of one execution.
CountOf(e) ==
    exec[e].pc \in {"send", "finish"} =>
        /\ exec[e].bad = 0 => 1 .. exec[e].good \subseteq got[e]
        /\ exec[e].good > 0 => got[e] # {}
        /\ exec[e].pc = "finish" /\ exec[e].good > 0 => exec[e].good + exec[e].bad = Channels
RecordOf(e) ==
    /\ record[e].status = "success" => got[e] = 1 .. Channels
    /\ record[e].status = "partial" => got[e] # {}

\* What is known of an execution between two channels.
LEMMA AtChannel ==
    ASSUME Shape, NEW e \in Run, exec[e].pc = "send"
    PROVE  /\ exec[e].channel \in 1 .. Channels /\ exec[e].good \in Nat /\ exec[e].bad \in Nat
           /\ exec[e].good + exec[e].bad = exec[e].channel - 1
           /\ got[e] \subseteq 1 .. Channels /\ Channels \in Nat
BY ReportAssumption DEF Shape, ExecOK, ExecRec, Counted, RestOK

\* A channel is left as good only if it was reached.
LEMMA LeftCounts ==
    ASSUME Shape, CountInv, NEW e \in Run, exec[e].pc = "send",
           NEW good \in 0 .. 1, NEW bad \in 0 .. 1, good + bad = 1, Left(e, good, bad),
           got[e] \subseteq got'[e], good = 1 => exec[e].channel \in got'[e]
    PROVE  CountOf(e)'
<1>1. /\ exec[e].channel \in 1 .. Channels /\ exec[e].good \in Nat /\ exec[e].bad \in Nat
      /\ exec[e].good + exec[e].bad = exec[e].channel - 1 /\ Channels \in Nat
  BY AtChannel
<1>2. /\ exec'[e].good = exec[e].good + good /\ exec'[e].bad = exec[e].bad + bad
      /\ exec'[e].pc = IF exec[e].channel = Channels THEN "finish" ELSE "send"
  BY LeftResult
<1>3. exec[e].bad = 0 => 1 .. exec[e].good \subseteq got[e]
  BY DEF CountInv
<1>4. exec[e].good > 0 => got[e] # {}
  BY DEF CountInv
<1>5. exec'[e].bad = 0 => 1 .. exec'[e].good \subseteq got'[e]
  BY <1>1, <1>2, <1>3
<1>6. exec'[e].good > 0 => got'[e] # {}
  BY <1>1, <1>2, <1>4
<1>7. exec'[e].pc = "finish" => exec'[e].good + exec'[e].bad = Channels
  BY <1>1, <1>2
<1>. QED
  BY <1>5, <1>6, <1>7 DEF CountOf

LEMMA SendCounts ==
    ASSUME Shape, CountInv, RecordIsTrue, NEW e \in Run,
           NEW ok \in BOOLEAN, NEW reached \in BOOLEAN, Send(e, ok, reached)
    PROVE  CountOf(e)' /\ RecordOf(e)'
<1>. DEFINE c == exec[e].channel
<1>1. exec[e].pc = "send" /\ record' = record /\ (ok => reached)
  BY DEF Send
<1>2. c \in 1 .. Channels /\ got[e] \subseteq 1 .. Channels
  BY <1>1, AtChannel
<1>3. got'[e] = IF reached THEN got[e] \union {c} ELSE got[e]
  BY DEF Send, Shape, RestOK
<1>4. RecordOf(e)'
  BY <1>1, <1>2, <1>3 DEF RecordIsTrue, RecordOf
<1>5. CASE ok
  <2>1. Left(e, 1, 0) /\ c \in got'[e]
    BY <1>1, <1>3, <1>5 DEF Send
  <2>. QED BY <1>1, <1>3, <1>4, <2>1, LeftCounts
<1>6. CASE ~ok /\ exec[e].tries + 1 = MaxAttempts
  <2>1. Left(e, 0, 1)
    BY <1>6 DEF Send, GivenUp
  <2>. QED BY <1>1, <1>3, <1>4, <2>1, LeftCounts
<1>7. CASE ~ok /\ exec[e].tries + 1 # MaxAttempts
  <2>1. Exec(e, [exec[e] EXCEPT !.tries = @ + 1])
    BY <1>7 DEF Send
  <2>2. exec'[e].good = exec[e].good /\ exec'[e].bad = exec[e].bad /\ exec'[e].pc = "send"
    BY <1>1, <2>1, RetryResult
  <2>3. exec[e].bad = 0 => 1 .. exec[e].good \subseteq got[e]
    BY <1>1 DEF CountInv
  <2>4. exec[e].good > 0 => got[e] # {}
    BY <1>1 DEF CountInv
  <2>. QED BY <1>3, <1>4, <2>2, <2>3, <2>4 DEF CountOf
<1>. QED
  BY <1>5, <1>6, <1>7

\* The row gets the status the counters stand for.
LEMMA RecordCounts ==
    ASSUME Shape, CountInv, RecordIsTrue, NEW e \in Run, Record(e)
    PROVE  CountOf(e)' /\ RecordOf(e)'
<1>. DEFINE x == [NoExec EXCEPT !.pc = "snapshot", !.on = exec[e].on, !.trigger = exec[e].trigger]
            status == ExecutionStatus(exec[e].good, exec[e].bad)
<1>1. exec'[e] = x \/ exec'[e] = Over
  BY DEF Record, Exec, Shape, ExecOK
<1>2. x.pc = "snapshot" /\ Over.pc = "over"
  BY ExecConstants DEF ExecRec
<1>3. CountOf(e)'
  <2>. HIDE DEF x
  <2>. QED BY <1>1, <1>2 DEF CountOf
<1>4. got' = got /\ (record'[e] = record[e] \/ record'[e].status = IF record[e].status = "running" THEN status
                                                                                   ELSE record[e].status)
  <2>1. got' = got /\ (record' = record \/ record' = [record EXCEPT ![e].status = IF @ = "running" THEN status ELSE @])
    BY DEF Record
  <2>2. record \in [Run -> RecordRec]
    BY DEF Shape, RestOK
  <2>. HIDE DEF status
  <2>. QED BY <2>1, <2>2 DEF RecordRec
<1>5. exec[e].good \in Nat /\ exec[e].bad \in Nat /\ got[e] \subseteq 1 .. Channels /\ Channels \in Nat
  BY ReportAssumption DEF Shape, ExecOK, ExecRec, RestOK
<1>6. status = "success" => got[e] = 1 .. Channels
  <2>. SUFFICES ASSUME status = "success" PROVE got[e] = 1 .. Channels
    OBVIOUS
  <2>1. exec[e].good > 0 /\ exec[e].bad = 0
    BY <1>5 DEF ExecutionStatus
  <2>2. 1 .. exec[e].good \subseteq got[e] /\ exec[e].good + exec[e].bad = Channels
    BY <2>1 DEF Record, CountInv
  <2>3. exec[e].good = Channels
    BY <1>5, <2>1, <2>2
  <2>. QED BY <1>5, <2>2, <2>3
<1>7. status = "partial" => got[e] # {}
  <2>. SUFFICES ASSUME status = "partial" PROVE got[e] # {}
    OBVIOUS
  <2>1. exec[e].good > 0
    BY DEF ExecutionStatus
  <2>. QED BY <2>1 DEF Record, CountInv
<1>. HIDE DEF status
<1>. QED
  BY <1>3, <1>4, <1>6, <1>7 DEF RecordOf, RecordIsTrue

LEMMA CountStep == Shape /\ CountInv /\ RecordIsTrue /\ [Next]_vars => CountInv' /\ RecordIsTrue'
<1>. SUFFICES ASSUME Shape, CountInv, RecordIsTrue, [Next]_vars PROVE CountInv' /\ RecordIsTrue'
  OBVIOUS
<1>0. /\ (\A e \in Run : CountOf(e)') => CountInv'
      /\ (\A e \in Run : RecordOf(e)') => RecordIsTrue'
      /\ \A e \in Run : CountOf(e) /\ RecordOf(e)
  BY DEF CountOf, RecordOf, CountInv, RecordIsTrue
<1>1. CASE UNCHANGED <<row, exec, record, got>>
  BY <1>0, <1>1 DEF CountOf, RecordOf
<1>2. ASSUME NEW p \in Replica, Ends(p)
      PROVE  CountInv' /\ RecordIsTrue'
  BY <1>0, <1>2, NoRowSeen DEF Ends, CountOf, RecordOf
<1>3. ASSUME NEW p \in Replica \union {Nothing}, NEW r \in Report, NEW x \in Rows,
             Writes(p, r, x), UNCHANGED got, UNCHANGED record \/ Forgets(r)
      PROVE  CountInv' /\ RecordIsTrue'
  <2>1. ASSUME NEW e \in Run
        PROVE  exec'[e].pc = exec[e].pc /\ exec'[e].good = exec[e].good /\ exec'[e].bad = exec[e].bad
    <3>1. exec[e] \in ExecRec
      BY DEF Shape, ExecOK
    <3>. QED BY <1>3, <3>1 DEF Writes, ExecRec
  <2>2. ASSUME NEW e \in Run
        PROVE  record'[e] = record[e] \/ record'[e].status = "none"
    BY <1>3 DEF Forgets, NoRecord
  <2>. QED BY <1>0, <1>3, <2>1, <2>2 DEF CountOf, RecordOf
<1>4. ASSUME NEW e \in Run, Executing(e)
      PROVE  CountInv' /\ RecordIsTrue'
  <2>1. \A o \in Run : o # e => exec'[o] = exec[o] /\ record'[o] = record[o] /\ got'[o] = got[o]
    BY <1>4 DEF Executing, ReadReport, ReadItsSchedule, NotRecorded, Insert, Send, Left, NoChannel, Record,
                Snapshot, Exec, Shape, ExecOK, RestOK
  <2>2. \A o \in Run : o # e => CountOf(o)' /\ RecordOf(o)'
    BY <1>0, <2>1 DEF CountOf, RecordOf
  <2>3. exec \in [Run -> ExecRec] /\ exec[e] \in ExecRec /\ Counted(exec[e])
    BY DEF Shape, ExecOK
  <2>4. CountOf(e)' /\ RecordOf(e)'
    <3>1. CASE UNCHANGED <<record, got>> /\ ~(exec'[e].pc \in {"send", "finish"})
      BY <1>0, <3>1 DEF CountOf, RecordOf
    <3>2. CASE ReadReport(e)
      <4>1. exec'[e].pc = "schedule" \/ exec'[e].pc = "over"
        BY <2>3, <3>2, NoRowSeen DEF ReadReport, Exec, ExecRec
      <4>. QED BY <3>1, <3>2, <4>1 DEF ReadReport
    <3>3. CASE ReadItsSchedule(e)
      <4>1. exec'[e].pc = "insert"
        BY <2>3, <3>3 DEF ReadItsSchedule, Exec, ExecRec
      <4>. QED BY <3>1, <3>3, <4>1 DEF ReadItsSchedule
    <3>4. CASE NotRecorded(e) \/ Snapshot(e)
      <4>1. exec'[e].pc = "over"
        BY <2>3, <3>4, NoRowSeen DEF NotRecorded, Snapshot, Exec
      <4>. QED BY <3>1, <3>4, <4>1 DEF NotRecorded, Snapshot
    <3>5. ASSUME NEW rendered \in BOOLEAN, Insert(e, rendered)
          PROVE  CountOf(e)' /\ RecordOf(e)'
      <4>. DEFINE stage == IF MayRun(exec[e].seen) /\ rendered THEN "send" ELSE "finish"
      <4>1. exec'[e] = [exec[e] EXCEPT !.pc = stage]
        BY <2>3, <3>5 DEF Insert, Exec
      <4>. HIDE DEF stage
      <4>2. exec'[e].good = 0 /\ exec'[e].bad = 0
        BY <2>3, <3>5, <4>1 DEF Insert, ExecRec, Counted
      <4>3. record'[e].status = "running" /\ got' = got
        BY <3>5 DEF Insert, Shape, RestOK
      <4>. QED BY <4>2, <4>3 DEF CountOf, RecordOf
    <3>6. ASSUME NEW ok \in BOOLEAN, NEW reached \in BOOLEAN, Send(e, ok, reached)
          PROVE  CountOf(e)' /\ RecordOf(e)'
      BY <3>6, SendCounts
    <3>7. CASE NoChannel(e)
      BY <1>0, <3>7, LeftCounts DEF NoChannel, RecordOf
    <3>8. CASE Record(e)
      BY <3>8, RecordCounts
    <3>. QED BY <1>4, <3>2, <3>3, <3>4, <3>5, <3>6, <3>7, <3>8 DEF Executing
  <2>. QED BY <1>0, <2>2, <2>4
<1>5. ASSUME NEW e \in Run, NEW p \in Replica, NEW r \in Report, NEW trigger \in Trigger, Begins(e, p, r, trigger)
      PROVE  CountInv' /\ RecordIsTrue'
  <2>1. exec'[e] = [NoExec EXCEPT !.pc = "report", !.on = p, !.report = r, !.trigger = trigger,
                                  !.live = EnabledRows(row[r])]
    BY <1>5 DEF Begins, Exec, Shape, ExecOK
  <2>2. UNCHANGED <<record, got>> /\ \A o \in Run : o # e => exec'[o] = exec[o]
    BY <1>5 DEF Begins, Exec, Shape, ExecOK
  <2>3. exec'[e].pc = "report"
    BY <2>1, ExecConstants DEF ExecRec
  <2>. QED BY <1>0, <2>2, <2>3 DEF CountOf, RecordOf
<1>. QED
  BY Effects, <1>1, <1>2, <1>3, <1>4, <1>5

\* What cv_report_execution says of the sends is true, however attempts fail, time out after
\* they got through, or are made while the report is deleted: success means every channel,
\* partial means one at least (sendToChannels and executionStatus).
THEOREM RecordsAreTrue == Spec => []RecordIsTrue
<1>1. Spec => [](Shape /\ CountInv /\ RecordIsTrue)
  BY TypeInit, TypeStep, CountInit, CountStep, PTL DEF Spec
<1>. QED
  BY <1>1, PTL

------------------------------------------------------------------------------
\* Rows that say running.

LEMMA TroubleStays ==
    ASSUME Shape, [Next]_vars
    PROVE  /\ trouble'.faults = 0 => trouble.faults = 0
           /\ trouble'.crashes = 0 => trouble.crashes = 0
<1>. DEFINE Grows == \E kind \in {"faults", "crashes", "closes"} : Trouble(kind)
<1>1. trouble' = trouble \/ Grows
  <2>1. ASSUME NEW p \in Replica, Close(p) \/ Exit(p) \/ Crash(p) \/ Scheduling(p)
        PROVE  trouble' = trouble \/ Grows
    BY <2>1 DEF Close, Exit, Crash, Scheduling, Start, Started, LoadNext, Lock, ReadSchedule, AddEntry, Fault
  <2>2. ASSUME NEW q \in Request, Handling(q)
        PROVE  trouble' = trouble \/ Grows
    BY <2>2 DEF Handling, LockFor, Lock, Remove, WriteSchedule, AnswerLost, Fault
  <2>3. ASSUME NEW q \in Request, NEW p \in Replica, NEW r \in Report, Arriving(q, p, r)
        PROVE  trouble' = trouble \/ Grows
    BY <2>3 DEF Arriving, SaveSchedule, DeleteReport, AnswerLost, CreateReport, UpdateReport, Fault
  <2>4. ASSUME NEW e \in Run, Executing(e)
        PROVE  trouble' = trouble \/ Grows
    BY <2>4 DEF Executing, ReadReport, ReadItsSchedule, NotRecorded, Insert, Send, NoChannel, Record, Snapshot, Fault
  <2>5. ASSUME NEW e \in Run, NEW p \in Replica, NEW r \in Report, Beginning(e, p, r)
        PROVE  trouble' = trouble \/ Grows
    BY <2>5 DEF Beginning, Begins, Fire, RunPreview
  <2>6. CASE UNCHANGED vars
    BY <2>6 DEF vars
  <2>. HIDE DEF Grows
  <2>. QED BY <2>1, <2>2, <2>3, <2>4, <2>5, <2>6 DEF Next
<1>2. trouble.faults \in Nat /\ trouble.crashes \in Nat
  BY ReportAssumption DEF Shape, RestOK
<1>3. ASSUME NEW kind \in {"faults", "crashes", "closes"}, Trouble(kind)
      PROVE  /\ trouble'.faults = 0 => trouble.faults = 0
             /\ trouble'.crashes = 0 => trouble.crashes = 0
  <2>1. trouble' = [trouble EXCEPT ![kind] = @ + 1]
    BY <1>3 DEF Trouble
  <2>2. trouble \in [faults : 0 .. MaxTroubles, crashes : 0 .. MaxTroubles, closes : 0 .. MaxTroubles]
    BY DEF Shape, RestOK
  <2>3. CASE kind = "faults"
    BY <1>2, <2>1, <2>2, <2>3
  <2>4. CASE kind = "crashes"
    BY <1>2, <2>1, <2>2, <2>4
  <2>5. CASE kind = "closes"
    BY <2>1, <2>2, <2>5
  <2>. QED BY <2>3, <2>4, <2>5
<1>. QED
  BY <1>1, <1>3

LEMMA RunInit == Init => RunInv
BY DEF Init, RunInv, NoRecord

LEMMA RunStep == Shape /\ RunInv /\ [Next]_vars => RunInv'
<1>. SUFFICES ASSUME Shape, RunInv, [Next]_vars, trouble'.faults = 0, trouble'.crashes = 0,
                     NEW e \in Run, record'[e].status = "running", record'[e].trigger = "schedule"
              PROVE  exec'[e].pc \in {"send", "finish"} /\ exec'[e].trigger = "schedule"
  BY DEF RunInv
<1>. DEFINE Sending == exec[e].pc \in {"send", "finish"} /\ exec[e].trigger = "schedule"
<1>0. /\ record[e].status = "running" /\ record[e].trigger = "schedule" => Sending
      /\ exec[e] \in ExecRec /\ Counted(exec[e]) /\ exec \in [Run -> ExecRec] /\ record \in [Run -> RecordRec]
  BY TroubleStays DEF RunInv, Shape, ExecOK, RestOK
<1>1. CASE UNCHANGED <<row, exec, record, got>>
  BY <1>0, <1>1
<1>2. ASSUME NEW p \in Replica, Ends(p), JobsDone(p) \/ Trouble("crashes")
      PROVE  exec'[e].pc \in {"send", "finish"} /\ exec'[e].trigger = "schedule"
  <2>1. Sending /\ record' = record
    BY <1>0, <1>2 DEF Ends
  <2>2. ~Trouble("crashes")
    <3>1. ASSUME Trouble("crashes") PROVE FALSE
      BY <3>1, ReportAssumption DEF Trouble, Shape, RestOK
    <3>. QED BY <3>1
  <2>3. exec[e].on # p
    BY <1>2, <2>1, <2>2 DEF JobsDone, Running
  <2>. QED BY <1>2, <2>1, <2>3 DEF Ends
<1>3. ASSUME NEW p \in Replica \union {Nothing}, NEW r \in Report, NEW x \in Rows,
             Writes(p, r, x), UNCHANGED record \/ Forgets(r)
      PROVE  exec'[e].pc \in {"send", "finish"} /\ exec'[e].trigger = "schedule"
  <2>1. record'[e] = record[e]
    BY <1>3 DEF Forgets, NoRecord
  <2>2. exec'[e].pc = exec[e].pc /\ exec'[e].trigger = exec[e].trigger
    BY <1>0, <1>3 DEF Writes, ExecRec
  <2>. QED BY <1>0, <2>1, <2>2
<1>4. ASSUME NEW o \in Run, Executing(o)
      PROVE  exec'[e].pc \in {"send", "finish"} /\ exec'[e].trigger = "schedule"
  <2>1. CASE e # o
    <3>1. exec'[e] = exec[e] /\ record'[e] = record[e]
      BY <1>4, <2>1 DEF Executing, ReadReport, ReadItsSchedule, NotRecorded, Insert, Send, Left, NoChannel, Record,
                        Snapshot, Exec, Shape, ExecOK, RestOK
    <3>. QED BY <1>0, <3>1
  <2>2. CASE e = o
    <3>1. CASE ReadReport(e) \/ ReadItsSchedule(e) \/ NotRecorded(e) \/ Snapshot(e)
      BY <1>0, <3>1 DEF ReadReport, ReadItsSchedule, NotRecorded, Snapshot
    <3>2. ASSUME NEW rendered \in BOOLEAN, Insert(e, rendered)
          PROVE  exec'[e].pc \in {"send", "finish"} /\ exec'[e].trigger = "schedule"
      <4>. DEFINE stage == IF MayRun(exec[e].seen) /\ rendered THEN "send" ELSE "finish"
      <4>1. exec'[e] = [exec[e] EXCEPT !.pc = stage]
        BY <1>0, <3>2 DEF Insert, Exec
      <4>2. stage \in {"send", "finish"}
        OBVIOUS
      <4>. HIDE DEF stage
      <4>3. record'[e].trigger = exec[e].trigger
        BY <1>0, <3>2 DEF Insert
      <4>. QED BY <1>0, <4>1, <4>2, <4>3 DEF ExecRec
    <3>3. CASE exec[e].pc = "send" /\ record' = record /\ Same(e) /\ exec'[e].pc \in {"send", "finish"}
      BY <1>0, <3>3 DEF Same
    <3>4. ASSUME NEW ok \in BOOLEAN, NEW reached \in BOOLEAN, Send(e, ok, reached)
          PROVE  exec'[e].pc \in {"send", "finish"} /\ exec'[e].trigger = "schedule"
      BY <3>3, <3>4, LeftResult, RetryResult DEF Send, GivenUp
    <3>5. CASE NoChannel(e)
      BY <3>3, <3>5, LeftResult DEF NoChannel
    <3>6. CASE Record(e)
      <4>1. trouble' = trouble
        <5>1. ASSUME Fault PROVE FALSE
          BY <5>1, ReportAssumption DEF Fault, Trouble, Shape, RestOK
        <5>. QED BY <3>6, <5>1 DEF Record
      <4>2. ~Fault
        BY <4>1, ReportAssumption DEF Fault, Trouble, Shape, RestOK
      <4>. DEFINE status == ExecutionStatus(exec[e].good, exec[e].bad)
      <4>3. record' = [record EXCEPT ![e].status = IF @ = "running" THEN status ELSE @]
        BY <3>6, <4>2 DEF Record
      <4>4. status # "running"
        BY DEF ExecutionStatus
      <4>. HIDE DEF status
      <4>5. record'[e].status # "running"
        BY <1>0, <4>3, <4>4 DEF RecordRec
      <4>. QED BY <4>5
    <3>. QED BY <1>4, <2>2, <3>1, <3>2, <3>4, <3>5, <3>6 DEF Executing
  <2>. QED BY <2>1, <2>2
<1>5. ASSUME NEW o \in Run, NEW p \in Replica, NEW r \in Report, NEW trigger \in Trigger, Begins(o, p, r, trigger)
      PROVE  exec'[e].pc \in {"send", "finish"} /\ exec'[e].trigger = "schedule"
  <2>1. record' = record /\ exec[o].pc = "new"
    BY <1>5 DEF Begins
  <2>2. e # o
    BY <1>0, <2>1
  <2>. QED BY <1>0, <1>5, <2>1, <2>2 DEF Begins, Exec
<1>. QED
  BY Effects, <1>1, <1>2, <1>3, <1>4, <1>5

\* However stops, handlers and executions overlap: as long as no process dies and no statement
\* fails, the row of a scheduled execution says running only while it runs, since a graceful
\* stop waits for the jobs of the scheduler (StopScheduler).
THEOREM RunningRowsRun == Spec => []RunningIsRun
<1>1. RunInv => RunningIsRun
  BY DEF RunInv, RunningIsRun, Running
<1>2. Spec => [](Shape /\ RunInv)
  BY TypeInit, TypeStep, RunInit, RunStep, PTL DEF Spec
<1>. QED
  BY <1>1, <1>2, PTL

-----------------------------------------------------------------------------
(***************************************************************************)
(* The entries of the schedulers follow the rows.                          *)
(***************************************************************************)

\* What the entry of a report should be, and what it may be when statements have failed.
Want(x) == IF IsEnabled(x) THEN x.cron ELSE Nothing
May(x) == {Nothing} \union (IF x.life = "live" THEN {x.cron} ELSE {})

\* A handler of p other than by still owes a reload or a removal of r.
Owed(p, r, by) ==
    \E q \in Request : q # by /\ req[q].on = p /\ req[q].report = r /\ req[q].pc \in {"reload", "remove"}

\* The entry is right, or it will be looked at again by a reload that has begun or is owed; and
\* a reload that nobody follows has read what is there.
EntryOf(p, r) ==
    sched[p].pc # "off" /\ r \notin missed[p] =>
        /\ sched[p].reload.report # r /\ ~Owed(p, r, Nothing) =>
              /\ sched[p].entry[r] \in May(row[r])
              /\ trouble.faults = 0 /\ r \notin sched[p].todo => sched[p].entry[r] = Want(row[r])
        /\ sched[p].reload.report = r /\ ~Owed(p, r, sched[p].reload.by) =>
              /\ sched[p].reload.pc = "schedule" =>
                    /\ sched[p].reload.on => row[r].life = "live"
                    /\ trouble.faults = 0 => (sched[p].reload.on <=> row[r].life = "live" /\ row[r].on)
              /\ sched[p].reload.pc = "add" =>
                    /\ sched[p].reload.cron \in May(row[r])
                    /\ trouble.faults = 0 => sched[p].reload.cron = Want(row[r])

\* A reload is made for the handler that waits for it, after the entry was removed.
ReloadOf(p) ==
    /\ sched[p].reload.pc = "free" => sched[p].reload.report = Nothing
    /\ sched[p].reload.pc # "free" =>
          /\ sched[p].pc # "off"
          /\ sched[p].entry[sched[p].reload.report] = Nothing
          /\ row[sched[p].reload.report].life # "never"
          /\ sched[p].reload.by \in Request =>
                /\ req[sched[p].reload.by].pc = "reload" /\ req[sched[p].reload.by].on = p
                /\ req[sched[p].reload.by].report = sched[p].reload.report
    /\ sched[p].pc = "on" => sched[p].todo = {}
    /\ \A r \in sched[p].todo : row[r].life # "never"

RequestOf(q) ==
    /\ req[q].pc \in {"write", "reload", "remove"} => sched[req[q].on].pc # "off"
    /\ req[q].pc \in {"write", "reload"} => row[req[q].report].life # "never"
    /\ req[q].pc = "remove" => row[req[q].report].life = "deleted"

LifeOf(r) == row[r].life = "never" => ~row[r].has

EntryInv ==
    /\ \A p \in Replica : ReloadOf(p) /\ \A r \in Report : EntryOf(p, r)
    /\ \A q \in Request : RequestOf(q)
    /\ \A r \in Report : LifeOf(r)

------------------------------------------------------------------------------
LEMMA EntryInit == Init => EntryInv
<1>. SUFFICES ASSUME Init PROVE EntryInv
  OBVIOUS
<1>1. ASSUME NEW p \in Replica PROVE ReloadOf(p) /\ \A r \in Report : EntryOf(p, r)
  <2>1. sched[p] = Off
    BY DEF Init
  <2>. QED BY <2>1 DEF Off, NoReload, ReloadOf, EntryOf
<1>2. ASSUME NEW q \in Request PROVE RequestOf(q)
  BY DEF Init, NoRequest, RequestOf
<1>3. ASSUME NEW r \in Report PROVE LifeOf(r)
  <2>1. row[r] \in {x \in Rows : \/ x.life = "live" /\ IsEnabled(x)
                                 \/ x.life = "never" /\ ~x.on /\ ~x.has /\ ~x.active}
    BY DEF Init
  <2>. QED BY <2>1 DEF LifeOf
<1>. QED
  BY <1>1, <1>2, <1>3 DEF EntryInv

\* What the types say of a scheduler.
LEMMA OfShape ==
    ASSUME Shape
    PROVE  /\ row \in [Report -> Rows] /\ sched \in [Replica -> SchedRec] /\ req \in [Request -> ReqRec]
           /\ \A p \in Replica : /\ sched[p] \in SchedRec /\ sched[p].reload \in ReloadRec
                                 /\ sched[p].reload.pc # "free" => sched[p].reload.report \in Report
           /\ \A q \in Request : req[q].pc \in {"write", "reload", "remove"} =>
                                     req[q].on \in Replica /\ req[q].report \in Report
           /\ missed \in [Replica -> SUBSET Report]
BY DEF Shape, RowsOK, SchedOK, ReqOK, RestOK, SchedRec

\* Steps that touch neither rows, schedulers nor requests.
LEMMA EntryElsewhere ==
    ASSUME Shape, EntryInv, [Next]_vars, UNCHANGED <<row, sched, req, missed>>
    PROVE  EntryInv'
BY TroubleStays DEF EntryInv, EntryOf, ReloadOf, RequestOf, LifeOf, Owed

LEMMA EntryStart ==
    ASSUME Shape, EntryInv, [Next]_vars, NEW p \in Replica, Start(p)
    PROVE  EntryInv'
<1>. DEFINE todo == {r \in Report : IsEnabled(row[r])}
            x == [Off EXCEPT !.pc = "loading", !.todo = todo]
<1>1. sched' = [sched EXCEPT ![p] = x] /\ missed' = [missed EXCEPT ![p] = {}] /\ UNCHANGED <<row, req, trouble>>
  BY DEF Start, Sched
<1>2. /\ x.pc = "loading" /\ x.todo = todo /\ x.reload = NoReload
      /\ \A r \in Report : x.entry[r] = Nothing
  BY DEF Off
<1>3. sched'[p] = x /\ \A o \in Replica : o # p => sched'[o] = sched[o] /\ missed'[o] = missed[o]
  BY <1>1, OfShape
<1>4. ReloadOf(p)'
  <2>1. \A r \in todo : row[r].life # "never"
    BY DEF IsEnabled, EnabledRows
  <2>. HIDE DEF x, todo
  <2>. QED BY <1>1, <1>2, <1>3, <2>1, Constants DEF ReloadOf
<1>5. ASSUME NEW r \in Report PROVE EntryOf(p, r)'
  <2>1. sched'[p].entry[r] = Nothing /\ sched'[p].reload.report # r
    BY <1>2, <1>3, Constants, ReportAssumption
  <2>2. r \notin sched'[p].todo => Want(row'[r]) = Nothing
    <3>1. sched'[p].todo = todo /\ row' = row
      BY <1>1, <1>2, <1>3
    <3>. QED BY <3>1 DEF Want
  <2>3. Nothing \in May(row'[r])
    BY DEF May
  <2>. QED BY <2>1, <2>2, <2>3 DEF EntryOf
<1>6. ASSUME NEW o \in Replica, o # p PROVE ReloadOf(o)' /\ \A r \in Report : EntryOf(o, r)'
  BY <1>1, <1>3, <1>6 DEF EntryInv, ReloadOf, EntryOf, Owed
<1>7. ASSUME NEW q \in Request PROVE RequestOf(q)'
  <2>1. req[q].pc \in {"write", "reload", "remove"} => req[q].on \in Replica /\ req[q].on # p
    BY OfShape DEF EntryInv, RequestOf, Start
  <2>. QED BY <1>1, <1>3, <2>1 DEF EntryInv, RequestOf
<1>8. \A r \in Report : LifeOf(r)'
  BY <1>1 DEF EntryInv, LifeOf
<1>. QED
  BY <1>4, <1>5, <1>6, <1>7, <1>8 DEF EntryInv

LEMMA EntryStarted ==
    ASSUME Shape, EntryInv, [Next]_vars, NEW p \in Replica, Started(p) \/ Close(p)
    PROVE  EntryInv'
<1>1. /\ UNCHANGED <<row, req, missed>>
      /\ \E pc \in {"on", "stopping"} : Sched(p, [sched[p] EXCEPT !.pc = pc])
      /\ sched[p].pc # "off" /\ sched[p].todo = {}
  BY DEF Started, Close, EntryInv, ReloadOf
<1>2. /\ \A o \in Replica : o # p => sched'[o] = sched[o]
      /\ sched'[p].reload = sched[p].reload /\ sched'[p].todo = sched[p].todo /\ sched'[p].entry = sched[p].entry
      /\ sched'[p].pc # "off"
  BY <1>1, OfShape DEF Sched, SchedRec
<1>3. ASSUME NEW o \in Replica PROVE ReloadOf(o)' /\ \A r \in Report : EntryOf(o, r)'
  <2>1. CASE o # p
    BY <1>1, <1>2, <2>1, TroubleStays DEF EntryInv, ReloadOf, EntryOf, Owed
  <2>2. CASE o = p
    BY <1>1, <1>2, <2>2, TroubleStays DEF EntryInv, ReloadOf, EntryOf, Owed
  <2>. QED BY <2>1, <2>2
<1>4. ASSUME NEW q \in Request PROVE RequestOf(q)'
  <2>1. req[q].pc \in {"write", "reload", "remove"} => req[q].on \in Replica
    BY OfShape
  <2>. QED BY <1>1, <1>2, <2>1 DEF EntryInv, RequestOf
<1>5. \A r \in Report : LifeOf(r)'
  BY <1>1 DEF EntryInv, LifeOf
<1>. QED
  BY <1>3, <1>4, <1>5 DEF EntryInv

LEMMA EntryEnds ==
    ASSUME Shape, EntryInv, [Next]_vars, NEW p \in Replica, Ends(p)
    PROVE  EntryInv'
<1>1. /\ row' = row /\ sched'[p] = Off
      /\ \A o \in Replica : o # p => sched'[o] = sched[o] /\ missed'[o] = missed[o]
      /\ \A q \in Request : req'[q] = IF req[q].on = p THEN [NoRequest EXCEPT !.pc = "done"] ELSE req[q]
  BY OfShape DEF Ends, Sched
<1>2. \A q \in Request : req[q].on = p => req'[q].pc = "done" /\ req'[q].on = Nothing
  BY <1>1 DEF NoRequest
<1>3. p # Nothing
  BY ReportAssumption
<1>4. ReloadOf(p)' /\ \A r \in Report : EntryOf(p, r)'
  BY <1>1 DEF Off, NoReload, ReloadOf, EntryOf
<1>5. ASSUME NEW o \in Replica, o # p PROVE ReloadOf(o)' /\ \A r \in Report : EntryOf(o, r)'
  <2>1. o # Nothing
    BY ReportAssumption
  <2>2. \A r, by : Owed(o, r, by)' <=> Owed(o, r, by)
    BY <1>1, <1>2, <1>5, <2>1 DEF Owed
  <2>. QED BY <1>1, <1>5, <2>2, TroubleStays DEF EntryInv, ReloadOf, EntryOf
<1>6. ASSUME NEW q \in Request PROVE RequestOf(q)'
  <2>1. req[q].pc \in {"write", "reload", "remove"} => req[q].on \in Replica
    BY OfShape
  <2>. QED BY <1>1, <1>2, <2>1 DEF EntryInv, RequestOf
<1>7. \A r \in Report : LifeOf(r)'
  BY <1>1 DEF EntryInv, LifeOf
<1>. QED
  BY <1>4, <1>5, <1>6, <1>7 DEF EntryInv

------------------------------------------------------------------------------
\* Reload and Remove.

\* A step of the scheduler of p that is about r and may answer the handler of r.
LEMMA EntryFrame ==
    ASSUME Shape, EntryInv, [Next]_vars, NEW p \in Replica, NEW r \in Report,
           row' = row, sched[p].pc # "off", sched'[p].pc # "off",
           \A o \in Replica : o # p => sched'[o] = sched[o] /\ missed'[o] = missed[o],
           \A s \in Report : s # r => /\ sched'[p].entry[s] = sched[p].entry[s]
                                      /\ s \in sched'[p].todo <=> s \in sched[p].todo
                                      /\ s \in missed'[p] <=> s \in missed[p],
           sched[p].reload.report \in {r, Nothing}, sched'[p].reload.report \in {r, Nothing},
           \A q \in Request : \/ req'[q] = req[q]
                              \/ req[q].on = p /\ req[q].report = r /\ req'[q] = [NoRequest EXCEPT !.pc = "done"],
           ReloadOf(p)', EntryOf(p, r)'
    PROVE  EntryInv'
<1>1. p # Nothing /\ r # Nothing /\ \A s \in Report : s # Nothing
  BY ReportAssumption
<1>2. [NoRequest EXCEPT !.pc = "done"].pc = "done" /\ [NoRequest EXCEPT !.pc = "done"].on = Nothing
  BY DEF NoRequest
<1>3. ASSUME NEW o \in Replica, o # p PROVE ReloadOf(o)' /\ \A s \in Report : EntryOf(o, s)'
  <2>1. o # Nothing
    BY ReportAssumption
  <2>2. \A s, by : Owed(o, s, by)' <=> Owed(o, s, by)
    BY <1>2, <1>3, <2>1 DEF Owed
  <2>3. \A q \in Request : req[q].on = o => req'[q] = req[q]
    BY <1>3
  <2>. QED BY <1>3, <2>2, <2>3, TroubleStays DEF EntryInv, ReloadOf, EntryOf
<1>4. ASSUME NEW s \in Report, s # r PROVE EntryOf(p, s)'
  <2>1. Owed(p, s, Nothing)' <=> Owed(p, s, Nothing)
    BY <1>1, <1>2, <1>4 DEF Owed
  <2>2. sched[p].reload.report # s /\ sched'[p].reload.report # s
    BY <1>1, <1>4
  <2>3. /\ sched'[p].entry[s] = sched[p].entry[s]
        /\ s \in sched'[p].todo <=> s \in sched[p].todo
        /\ s \in missed'[p] <=> s \in missed[p]
    BY <1>4
  <2>4. EntryOf(p, s)
    BY DEF EntryInv
  <2>5. trouble'.faults = 0 => trouble.faults = 0
    BY TroubleStays
  <2>. QED BY <2>1, <2>2, <2>3, <2>4, <2>5 DEF EntryOf
<1>5. ASSUME NEW q \in Request PROVE RequestOf(q)'
  <2>1. req[q].pc \in {"write", "reload", "remove"} => req[q].on \in Replica
    BY OfShape
  <2>2. RequestOf(q)
    BY DEF EntryInv
  <2>3. CASE req'[q] = req[q]
    <3>1. \A o \in Replica : sched[o].pc # "off" => sched'[o].pc # "off"
      OBVIOUS
    <3>. QED BY <2>1, <2>2, <2>3, <3>1 DEF RequestOf
  <2>4. CASE req'[q].pc = "done"
    BY <2>4 DEF RequestOf
  <2>. QED BY <1>2, <2>3, <2>4
<1>6. \A s \in Report : LifeOf(s)'
  BY DEF EntryInv, LifeOf
<1>. QED
  BY <1>3, <1>4, <1>5, <1>6 DEF EntryInv

\* Nobody but the handler answered stops owing.
LEMMA StillOwed ==
    ASSUME NEW p, NEW r, NEW by, Answered(by), Owed(p, r, by)
    PROVE  Owed(p, r, Nothing)'
<1>1. PICK q \in Request : q # by /\ req[q].on = p /\ req[q].report = r /\ req[q].pc \in {"reload", "remove"}
  BY DEF Owed
<1>2. req'[q] = req[q]
  BY <1>1 DEF Answered
<1>3. q # Nothing
  BY ReportAssumption
<1>. QED
  BY <1>1, <1>2, <1>3 DEF Owed

LEMMA EntryLock ==
    ASSUME Shape, EntryInv, [Next]_vars, NEW p \in Replica, NEW r \in Report, NEW by, Lock(p, by, r),
           \/ by = p /\ sched[p].pc = "loading" /\ r \in sched[p].todo
           \/ by \in Request /\ req[by].pc = "reload" /\ req[by].on = p /\ req[by].report = r
              /\ sched[p].pc # "off"
    PROVE  EntryInv'
<1>. DEFINE on == row[r].life = "live" /\ row[r].on
            unlocked == [sched[p] EXCEPT !.entry = EntriesWithout(p, r), !.todo = @ \ {r}]
            reload == [by |-> by, report |-> r, pc |-> "schedule", cron |-> Nothing, on |-> on]
            x == [unlocked EXCEPT !.reload = reload]
<1>1. /\ UNCHANGED row /\ sched[p].reload = NoReload
      /\ \/ Sched(p, x) /\ missed' = [missed EXCEPT ![p] = @ \ {r}] /\ UNCHANGED <<req, trouble>>
         \/ Sched(p, unlocked) /\ Answered(by) /\ Fault /\ UNCHANGED missed
  BY DEF Lock, Free
<1>2. /\ unlocked.reload = sched[p].reload /\ unlocked.pc = sched[p].pc
      /\ unlocked.todo = sched[p].todo \ {r} /\ unlocked.entry = EntriesWithout(p, r)
      /\ unlocked \in SchedRec
  BY OfShape DEF SchedRec, EntriesWithout
<1>3. EntriesWithout(p, r)[r] = Nothing /\ \A s \in Report : s # r => EntriesWithout(p, r)[s] = sched[p].entry[s]
  BY OfShape DEF SchedRec, EntriesWithout
<1>4. NoReload.pc = "free" /\ NoReload.report = Nothing /\ p \notin Request /\ r # Nothing
  BY Constants, ReportAssumption
<1>5. row[r].life # "never"
  BY DEF EntryInv, ReloadOf, RequestOf
<1>6. sched[p].pc # "off" /\ (sched[p].pc = "on" => sched[p].todo = {})
  BY DEF EntryInv, ReloadOf
<1>7. \A s \in sched[p].todo : row[s].life # "never"
  BY DEF EntryInv, ReloadOf
<1>8. CASE Sched(p, x) /\ missed' = [missed EXCEPT ![p] = @ \ {r}] /\ UNCHANGED <<req, trouble>>
  <2>1. /\ x.reload = reload /\ x.pc = sched[p].pc /\ x.todo = sched[p].todo \ {r}
        /\ x.entry = EntriesWithout(p, r)
    <3>. HIDE DEF unlocked, reload
    <3>. QED BY <1>2 DEF SchedRec
  <2>2. sched'[p] = x /\ \A o \in Replica : o # p => sched'[o] = sched[o] /\ missed'[o] = missed[o]
    BY <1>8, OfShape DEF Sched
  <2>3. reload.pc = "schedule" /\ reload.report = r /\ reload.by = by /\ (reload.on <=> on)
    OBVIOUS
  <2>. HIDE DEF x, unlocked, reload, on
  <2>4. \A s \in Report : s # r => (s \in missed'[p] <=> s \in missed[p])
    BY <1>8, OfShape
  <2>5. ReloadOf(p)'
    BY <1>1, <1>3, <1>4, <1>5, <1>6, <1>7, <1>8, <2>1, <2>2, <2>3, ReportAssumption DEF ReloadOf
  <2>6. EntryOf(p, r)'
    BY <1>1, <1>8, <2>1, <2>2, <2>3 DEF EntryOf, on
  <2>. QED BY <1>1, <1>3, <1>4, <1>6, <1>8, <2>1, <2>2, <2>3, <2>4, <2>5, <2>6, EntryFrame
<1>9. CASE Sched(p, unlocked) /\ Answered(by) /\ Fault /\ UNCHANGED missed
  <2>1. sched'[p] = unlocked /\ \A o \in Replica : o # p => sched'[o] = sched[o] /\ missed'[o] = missed[o]
    BY <1>9, OfShape DEF Sched
  <2>2. ASSUME NEW q \in Request
        PROVE  \/ req'[q] = req[q]
               \/ req[q].on = p /\ req[q].report = r /\ req'[q] = [NoRequest EXCEPT !.pc = "done"]
    BY <1>4, <1>9 DEF Answered
  <2>3. trouble'.faults # 0
    BY <1>9 DEF Fault, Trouble, Shape, RestOK
  <2>. HIDE DEF unlocked
  <2>4. ReloadOf(p)'
    BY <1>1, <1>2, <1>4, <1>6, <1>7, <2>1 DEF ReloadOf
  <2>5. EntryOf(p, r)'
    BY <1>1, <1>2, <1>3, <1>4, <2>1, <2>3 DEF EntryOf, May
  <2>. QED BY <1>1, <1>2, <1>3, <1>4, <1>6, <1>9, <2>1, <2>2, <2>4, <2>5, EntryFrame
<1>. QED
  BY <1>1, <1>8, <1>9

LEMMA EntryRead ==
    ASSUME Shape, EntryInv, [Next]_vars, NEW p \in Replica, ReadSchedule(p)
    PROVE  EntryInv'
<1>. PICK reload \in ReloadRec : reload = sched[p].reload /\ reload.pc = "schedule" /\ reload.report \in Report
  BY OfShape DEF ReadSchedule
<1>. DEFINE r == reload.report
            cron == CronOf(reload.on, row[r])
            x == [sched[p] EXCEPT !.reload.pc = "add", !.reload.cron = cron]
            pc == IF reload.by = p THEN "failed" ELSE sched[p].pc
            y == [sched[p] EXCEPT !.reload = NoReload, !.pc = pc]
<1>0. sched[p] \in SchedRec /\ row[r] \in Rows
  BY OfShape
<1>1. /\ UNCHANGED <<row, missed>>
      /\ \/ Sched(p, x) /\ UNCHANGED <<req, trouble>>
         \/ Sched(p, y) /\ Answered(reload.by) /\ Fault
  BY DEF ReadSchedule
<1>2. /\ sched[p].pc # "off" /\ sched[p].entry[r] = Nothing /\ row[r].life # "never"
      /\ reload.by \in Request => req[reload.by].pc = "reload" /\ req[reload.by].on = p /\ req[reload.by].report = r
      /\ sched[p].pc = "on" => sched[p].todo = {}
      /\ \A s \in sched[p].todo : row[s].life # "never"
  BY <1>0 DEF EntryInv, ReloadOf
<1>3. CASE Sched(p, x) /\ UNCHANGED <<req, trouble>>
  <2>1. /\ x.pc = sched[p].pc /\ x.todo = sched[p].todo /\ x.entry = sched[p].entry
        /\ x.reload.pc = "add" /\ x.reload.cron = cron /\ x.reload.by = reload.by /\ x.reload.report = r
    <3>. HIDE DEF cron
    <3>. QED BY <1>0 DEF SchedRec, ReloadRec
  <2>2. sched'[p] = x /\ \A o \in Replica : o # p => sched'[o] = sched[o]
    BY <1>3, OfShape DEF Sched
  <2>. HIDE DEF x
  <2>3. ReloadOf(p)'
    BY <1>1, <1>2, <1>3, <2>1, <2>2 DEF ReloadOf
  <2>4. EntryOf(p, r)'
    <3>. SUFFICES ASSUME r \notin missed[p], ~Owed(p, r, reload.by)
                  PROVE  cron \in May(row[r]) /\ (trouble.faults = 0 => cron = Want(row[r]))
      BY <1>1, <1>3, <2>1, <2>2 DEF EntryOf, Owed
    <3>1. /\ reload.on => row[r].life = "live"
          /\ trouble.faults = 0 => (reload.on <=> row[r].life = "live" /\ row[r].on)
      BY <1>0, <1>2 DEF EntryInv, EntryOf
    <3>2. IsEnabled(row[r]) <=> row[r].life = "live" /\ row[r].on /\ row[r].has /\ row[r].active
      BY DEF IsEnabled, EnabledRows
    <3>. QED BY <3>1, <3>2 DEF CronOf, May, Want
  <2>. QED BY <1>0, <1>1, <1>2, <1>3, <2>1, <2>2, <2>3, <2>4, EntryFrame
<1>4. CASE Sched(p, y) /\ Answered(reload.by) /\ Fault
  <2>1. y.pc = pc /\ y.todo = sched[p].todo /\ y.entry = sched[p].entry /\ y.reload = NoReload
    <3>. HIDE DEF pc
    <3>. QED BY <1>0 DEF SchedRec
  <2>2. sched'[p] = y /\ \A o \in Replica : o # p => sched'[o] = sched[o]
    BY <1>4, OfShape DEF Sched
  <2>3. ASSUME NEW q \in Request
        PROVE  \/ req'[q] = req[q]
               \/ req[q].on = p /\ req[q].report = r /\ req'[q] = [NoRequest EXCEPT !.pc = "done"]
    BY <1>2, <1>4 DEF Answered
  <2>4. trouble'.faults # 0
    BY <1>4 DEF Fault, Trouble, Shape, RestOK
  <2>. HIDE DEF y
  <2>5. ReloadOf(p)'
    BY <1>1, <1>2, <2>1, <2>2, Constants DEF ReloadOf
  <2>6. EntryOf(p, r)'
    BY <1>0, <1>2, <2>1, <2>2, <2>4, Constants, ReportAssumption DEF EntryOf, May
  <2>. QED BY <1>0, <1>1, <1>2, <1>4, <2>1, <2>2, <2>3, <2>5, <2>6, EntryFrame, Constants
<1>. QED
  BY <1>1, <1>3, <1>4

LEMMA EntryAdd ==
    ASSUME Shape, EntryInv, [Next]_vars, NEW p \in Replica, AddEntry(p)
    PROVE  EntryInv'
<1>. PICK reload \in ReloadRec : reload = sched[p].reload /\ reload.pc = "add" /\ reload.report \in Report
  BY OfShape DEF AddEntry
<1>. DEFINE r == reload.report
            x == [sched[p] EXCEPT !.entry[r] = reload.cron, !.reload = NoReload]
<1>0. sched[p] \in SchedRec
  BY OfShape
<1>1. UNCHANGED <<row, missed, trouble>> /\ Sched(p, x) /\ Answered(reload.by)
  BY DEF AddEntry
<1>2. /\ sched[p].pc # "off" /\ row[r].life # "never"
      /\ reload.by \in Request => req[reload.by].pc = "reload" /\ req[reload.by].on = p /\ req[reload.by].report = r
      /\ sched[p].pc = "on" => sched[p].todo = {}
      /\ \A s \in sched[p].todo : row[s].life # "never"
  BY <1>0 DEF EntryInv, ReloadOf
<1>3. /\ x.pc = sched[p].pc /\ x.todo = sched[p].todo /\ x.reload = NoReload
      /\ x.entry[r] = reload.cron /\ \A s \in Report : s # r => x.entry[s] = sched[p].entry[s]
  BY <1>0 DEF SchedRec
<1>4. sched'[p] = x /\ \A o \in Replica : o # p => sched'[o] = sched[o]
  BY <1>1, OfShape DEF Sched
<1>5. ASSUME NEW q \in Request
      PROVE  \/ req'[q] = req[q]
             \/ req[q].on = p /\ req[q].report = r /\ req'[q] = [NoRequest EXCEPT !.pc = "done"]
  BY <1>1, <1>2 DEF Answered
<1>. HIDE DEF x
<1>6. ReloadOf(p)'
  BY <1>1, <1>2, <1>3, <1>4, Constants DEF ReloadOf
<1>7. EntryOf(p, r)'
  <2>. SUFFICES ASSUME r \notin missed[p], ~Owed(p, r, Nothing)'
                PROVE  reload.cron \in May(row[r]) /\ (trouble.faults = 0 => reload.cron = Want(row[r]))
    BY <1>0, <1>1, <1>3, <1>4, Constants, ReportAssumption DEF EntryOf
  <2>1. ~Owed(p, r, reload.by)
    BY <1>1, StillOwed
  <2>. QED BY <1>0, <1>2, <2>1 DEF EntryInv, EntryOf
<1>. QED
  BY <1>0, <1>1, <1>2, <1>3, <1>4, <1>5, <1>6, <1>7, EntryFrame, Constants

LEMMA EntryRemove ==
    ASSUME Shape, EntryInv, [Next]_vars, NEW q \in Request, Remove(q)
    PROVE  EntryInv'
<1>. PICK p \in Replica, r \in Report : p = req[q].on /\ r = req[q].report
  BY OfShape DEF Remove
<1>. DEFINE x == [sched[p] EXCEPT !.entry[r] = Nothing]
<1>0. sched[p] \in SchedRec /\ sched[p].reload = NoReload
  BY OfShape DEF Remove, Free
<1>1. UNCHANGED <<row, missed, trouble>> /\ Sched(p, x) /\ Answered(q)
  BY DEF Remove
<1>2. /\ sched[p].pc # "off" /\ row[r].life = "deleted"
      /\ sched[p].pc = "on" => sched[p].todo = {}
      /\ \A s \in sched[p].todo : row[s].life # "never"
  BY <1>0 DEF EntryInv, ReloadOf, RequestOf, Remove
<1>3. /\ x.pc = sched[p].pc /\ x.todo = sched[p].todo /\ x.reload = NoReload
      /\ x.entry[r] = Nothing /\ \A s \in Report : s # r => x.entry[s] = sched[p].entry[s]
  BY <1>0 DEF SchedRec
<1>4. sched'[p] = x /\ \A o \in Replica : o # p => sched'[o] = sched[o]
  BY <1>0, <1>1, OfShape DEF Sched
<1>5. ASSUME NEW o \in Request
      PROVE  \/ req'[o] = req[o]
             \/ req[o].on = p /\ req[o].report = r /\ req'[o] = [NoRequest EXCEPT !.pc = "done"]
  BY <1>1 DEF Answered
<1>. HIDE DEF x
<1>6. ReloadOf(p)'
  BY <1>1, <1>2, <1>3, <1>4, Constants DEF ReloadOf
<1>7. EntryOf(p, r)'
  <2>1. Want(row[r]) = Nothing
    BY <1>2 DEF Want, IsEnabled, EnabledRows
  <2>. QED BY <1>0, <1>1, <1>3, <1>4, <2>1, Constants, ReportAssumption DEF EntryOf, May
<1>. QED
  BY <1>0, <1>1, <1>2, <1>3, <1>4, <1>5, <1>6, <1>7, EntryFrame, Constants

------------------------------------------------------------------------------
\* The handlers that write.

\* What a write x to r that p knows of, or nobody, leaves as it was, and when it does.
OthersKept(p, r) ==
    /\ \A o \in Replica : ReloadOf(o)
    /\ \A o \in Replica : \A s \in Report : o # p \/ s # r => EntryOf(o, s)
    /\ \A o \in Request : RequestOf(o)
    /\ \A s \in Report : LifeOf(s)

Onward(p, r, x, y) ==
    /\ y.pc \in {"reload", "remove", "done"}
    /\ y.pc # "done" => y.on = p /\ y.report = r /\ row[r].life # "never" /\ sched[p].pc # "off"
    /\ y.pc = "remove" => x.life = "deleted"
    /\ row[r].life = "deleted" => x.life = "deleted"
    /\ x.life # "never"

LEMMA EntryOthers ==
    ASSUME Shape, EntryInv, [Next]_vars, NEW p, NEW r \in Report, NEW x, NEW q \in Request,
           NEW y \in ReqRec, Writes(p, r, x), sched' = sched, Req(q, y),
           req[q].pc \in {"new", "write"}, Onward(p, r, x, y)
    PROVE  OthersKept(p, r)'
<1>0. /\ y.pc \in {"reload", "remove", "done"}
      /\ y.pc # "done" => y.on = p /\ y.report = r /\ row[r].life # "never" /\ sched[p].pc # "off"
      /\ y.pc = "remove" => x.life = "deleted"
      /\ row[r].life = "deleted" => x.life = "deleted"
      /\ x.life # "never"
  BY DEF Onward
<1>1. /\ row'[r] = x /\ \A s \in Report : s # r => row'[s] = row[s]
      /\ \A s \in Report : row[s].life # "never" => row'[s].life # "never"
      /\ \A s \in Report : row[s].life = "deleted" => row'[s].life = "deleted"
  BY <1>0, OfShape DEF Writes
<1>2. \A o \in Replica : missed'[o] = IF o = p THEN missed[o] ELSE missed[o] \union {r}
  BY DEF Writes
<1>3. req'[q] = y /\ \A o \in Request : o # q => req'[o] = req[o]
  BY OfShape DEF Req
<1>4. ASSUME NEW o \in Replica PROVE ReloadOf(o)'
  <2>1. ReloadOf(o)
    BY DEF EntryInv
  <2>2. sched[o].reload.pc # "free" => sched[o].reload.report \in Report
    BY OfShape
  <2>3. sched[o].reload.pc # "free" /\ sched[o].reload.by \in Request => sched[o].reload.by # q
    BY <2>1 DEF ReloadOf
  <2>4. \A s \in sched[o].todo : s \in Report
    BY OfShape DEF SchedRec
  <2>. QED BY <1>0, <1>1, <1>3, <2>1, <2>2, <2>3, <2>4 DEF ReloadOf
<1>5. ASSUME NEW o \in Replica, NEW s \in Report, o # p \/ s # r PROVE EntryOf(o, s)'
  <2>1. CASE s = r
    BY <1>2, <1>5, <2>1 DEF EntryOf
  <2>2. CASE s # r
    <3>1. \A by : Owed(o, s, by)' <=> Owed(o, s, by)
      BY <1>0, <1>3, <2>2 DEF Owed
    <3>2. row'[s] = row[s] /\ (s \in missed'[o] <=> s \in missed[o])
      <4>1. missed'[o] = missed[o] \/ missed'[o] = missed[o] \union {r}
        BY <1>2
      <4>2. s \notin {r}
        BY <2>2
      <4>. QED BY <1>1, <2>2, <4>1, <4>2
    <3>3. EntryOf(o, s)
      BY DEF EntryInv
    <3>4. trouble'.faults = 0 => trouble.faults = 0
      BY TroubleStays
    <3>. QED BY <3>1, <3>2, <3>3, <3>4 DEF EntryOf
  <2>. QED BY <2>1, <2>2
<1>6. ASSUME NEW o \in Request PROVE RequestOf(o)'
  <2>1. CASE o = q
    BY <1>0, <1>1, <1>3, <2>1 DEF RequestOf
  <2>2. CASE o # q
    <3>1. RequestOf(o) /\ (req[o].pc \in {"write", "reload", "remove"} => req[o].report \in Report)
      BY OfShape DEF EntryInv
    <3>. QED BY <1>1, <1>3, <2>2, <3>1 DEF RequestOf
  <2>. QED BY <2>1, <2>2
<1>7. \A s \in Report : LifeOf(s)'
  BY <1>0, <1>1 DEF EntryInv, LifeOf
<1>. QED
  BY <1>4, <1>5, <1>6, <1>7 DEF OthersKept

\* A write whose handler goes on to reload or to remove the entry.
LEMMA EntryOwing ==
    ASSUME Shape, EntryInv, [Next]_vars, NEW p \in Replica, NEW r \in Report, NEW x, NEW q \in Request,
           NEW y \in ReqRec, Writes(p, r, x), sched' = sched, Req(q, y), sched[p].pc # "off",
           req[q].pc \in {"new", "write"}, y.pc \in {"reload", "remove"},
           y.on = p, y.report = r, row[r].life # "never",
           y.pc = "remove" => x.life = "deleted",
           row[r].life = "deleted" => x.life = "deleted", x.life # "never"
    PROVE  EntryInv'
<1>1. req'[q] = y
  BY OfShape DEF Req
<1>2. OthersKept(p, r)'
  <2>1. Onward(p, r, x, y)
    BY DEF Onward
  <2>. QED BY <2>1, EntryOthers
<1>3. \A by : q # by => Owed(p, r, by)'
  BY <1>1 DEF Owed
<1>4. q # Nothing /\ r # Nothing
  BY ReportAssumption
<1>5. sched[p].reload.report = r => q # sched[p].reload.by
  BY <1>4 DEF EntryInv, ReloadOf
<1>6. EntryOf(p, r)'
  BY <1>3, <1>4, <1>5 DEF EntryOf
<1>. QED
  BY <1>2, <1>6 DEF EntryInv, OthersKept

\* A write nobody knows of: no entry need be right of the report.
LEMMA EntryUnheard ==
    ASSUME Shape, EntryInv, [Next]_vars, NEW r \in Report, NEW x, NEW q \in Request, AnswerLost(q, r, x),
           sched' = sched, req[q].pc \in {"new", "write"}, x.life # "never",
           row[r].life = "deleted" => x.life = "deleted"
    PROVE  EntryInv'
<1>. DEFINE done == [NoRequest EXCEPT !.pc = "done"]
<1>1. done \in ReqRec /\ done.pc = "done"
  BY DEF NoRequest, ReqRec
<1>2. Writes(Nothing, r, x) /\ Req(q, done)
  BY DEF AnswerLost
<1>. HIDE DEF done
<1>3. Onward(Nothing, r, x, done)
  BY <1>1 DEF Onward
<1>4. OthersKept(Nothing, r)'
  BY <1>1, <1>2, <1>3, EntryOthers
<1>5. Nothing \notin Replica
  BY ReportAssumption
<1>. QED
  BY <1>4, <1>5 DEF EntryInv, OthersKept

\* A write after which the handler returns.
LEMMA EntryReturning ==
    ASSUME Shape, EntryInv, [Next]_vars, NEW p \in Replica, NEW r \in Report, NEW x, NEW q \in Request,
           NEW y \in ReqRec, Writes(p, r, x), sched' = sched, Req(q, y), sched[p].pc # "off",
           req[q].pc = "new", y.pc = "done", y.on = Nothing, x.life = "live", x.cron = row[r].cron,
           \/ row[r].life = "live" /\ trouble'.faults # 0
           \/ row[r].life = "never" /\ ~x.has
    PROVE  EntryInv'
<1>1. req'[q] = y /\ \A o \in Request : o # q => req'[o] = req[o]
  BY OfShape DEF Req
<1>2. row'[r] = x /\ missed'[p] = missed[p]
  BY OfShape DEF Writes
<1>0. Onward(p, r, x, y)
  BY DEF Onward
<1>3. OthersKept(p, r)'
  BY <1>0, EntryOthers
<1>4. p # Nothing /\ r # Nothing
  BY ReportAssumption
<1>5. \A by : Owed(p, r, by)' <=> Owed(p, r, by)
  BY <1>1, <1>4 DEF Owed
<1>6. EntryOf(p, r) /\ ReloadOf(p) /\ LifeOf(r)
  BY DEF EntryInv
<1>7. trouble'.faults = 0 => trouble.faults = 0
  BY TroubleStays
<1>8. CASE row[r].life = "live" /\ trouble'.faults # 0
  <2>1. May(x) = May(row[r])
    BY <1>8 DEF May
  <2>. QED
    <3>1. EntryOf(p, r)'
      BY <1>2, <1>5, <1>6, <1>8, <2>1 DEF EntryOf
    <3>. QED BY <1>3, <3>1 DEF EntryInv, OthersKept
<1>9. CASE row[r].life = "never" /\ ~x.has
  <2>1. Want(x) = Nothing /\ Want(row[r]) = Nothing
    BY <1>6, <1>9 DEF LifeOf, Want, IsEnabled, EnabledRows
  <2>2. Nothing \in May(x) /\ May(row[r]) = {Nothing}
    BY <1>9 DEF May
  <2>3. sched[p].reload.report # r /\ r \notin sched[p].todo
    BY <1>4, <1>6, <1>9 DEF ReloadOf
  <2>4. EntryOf(p, r)'
    BY <1>2, <1>5, <1>6, <1>7, <2>1, <2>2, <2>3 DEF EntryOf
  <2>. QED BY <1>3, <2>4 DEF EntryInv, OthersKept
<1>. QED
  BY <1>8, <1>9

LEMMA EntryArriving ==
    ASSUME Shape, EntryInv, [Next]_vars, NEW q \in Request, NEW p \in Replica, NEW r \in Report,
           Arriving(q, p, r)
    PROVE  EntryInv'
<1>1. sched[p].pc # "off" /\ req[q].pc = "new"
  BY DEF Arriving, SaveSchedule, DeleteReport, CreateReport, UpdateReport, Arrives, Serves, HasScheduler
<1>. DEFINE done == [NoRequest EXCEPT !.pc = "done"]
<1>2. done \in ReqRec /\ done.pc = "done" /\ done.on = Nothing
  BY DEF NoRequest, ReqRec
<1>3. row[r] \in Rows
  BY OfShape
<1>. HIDE DEF done
<1>4. CASE SaveSchedule(q, p, r)
  <2>. DEFINE y == [pc |-> "write", on |-> p, report |-> r]
  <2>1. UNCHANGED <<row, sched, missed, trouble>> /\ Req(q, y) /\ row[r].life = "live"
    BY <1>4 DEF SaveSchedule
  <2>2. y.pc = "write" /\ y.on = p /\ y.report = r
    OBVIOUS
  <2>. HIDE DEF y
  <2>3. req'[q] = y /\ \A o \in Request : o # q => req'[o] = req[o]
    BY <2>1, OfShape DEF Req
  <2>4. \A o, s, by : Owed(o, s, by)' <=> Owed(o, s, by)
    BY <1>1, <2>2, <2>3 DEF Owed
  <2>5. ASSUME NEW o \in Replica PROVE ReloadOf(o)' /\ \A s \in Report : EntryOf(o, s)'
    <3>1. ReloadOf(o) /\ \A s \in Report : EntryOf(o, s)
      BY DEF EntryInv
    <3>2. sched[o].reload.pc # "free" /\ sched[o].reload.by \in Request => sched[o].reload.by # q
      BY <1>1, <3>1 DEF ReloadOf
    <3>. QED BY <2>1, <2>3, <2>4, <3>1, <3>2 DEF ReloadOf, EntryOf
  <2>6. \A o \in Request : RequestOf(o)'
    BY <1>1, <2>1, <2>2, <2>3 DEF EntryInv, RequestOf
  <2>7. \A s \in Report : LifeOf(s)'
    BY <2>1 DEF EntryInv, LifeOf
  <2>. QED BY <2>5, <2>6, <2>7 DEF EntryInv
<1>5. CASE DeleteReport(q, p, r)
  <2>. DEFINE y == [pc |-> "remove", on |-> p, report |-> r]
              x == [row[r] EXCEPT !.life = "deleted", !.on = FALSE, !.has = FALSE, !.active = FALSE]
  <2>1. /\ sched' = sched /\ row[r].life = "live"
        /\ (Writes(p, r, x) /\ Req(q, y)) \/ AnswerLost(q, r, x)
    BY <1>5 DEF DeleteReport
  <2>2. y \in ReqRec /\ y.pc = "remove" /\ y.on = p /\ y.report = r /\ x.life = "deleted"
    BY <1>3 DEF ReqRec, Rows
  <2>. HIDE DEF x, y
  <2>3. CASE Writes(p, r, x) /\ Req(q, y)
    BY <1>1, <2>1, <2>2, <2>3, EntryOwing
  <2>4. CASE AnswerLost(q, r, x)
    BY <1>1, <2>1, <2>2, <2>4, EntryUnheard
  <2>. QED BY <2>1, <2>3, <2>4
<1>6. ASSUME NEW on \in BOOLEAN, CreateReport(q, p, r, on) PROVE EntryInv'
  <2>. DEFINE x == [row[r] EXCEPT !.life = "live", !.on = on]
  <2>1. Writes(p, r, x) /\ sched' = sched /\ Req(q, done) /\ row[r].life = "never"
    BY <1>6 DEF CreateReport, done
  <2>2. x.life = "live" /\ x.cron = row[r].cron /\ x.has = row[r].has /\ ~row[r].has
    BY <1>3, <2>1 DEF Rows, EntryInv, LifeOf
  <2>. HIDE DEF x
  <2>. QED BY <1>1, <1>2, <2>1, <2>2, EntryReturning
<1>7. ASSUME NEW on \in BOOLEAN, UpdateReport(q, p, r, on) PROVE EntryInv'
  <2>. DEFINE y == [pc |-> "reload", on |-> p, report |-> r]
              x == [row[r] EXCEPT !.on = on]
  <2>1. /\ Writes(p, r, x) /\ sched' = sched /\ row[r].life = "live"
        /\ Req(q, y) \/ (Req(q, done) /\ Fault)
    BY <1>7 DEF UpdateReport, done
  <2>2. y \in ReqRec /\ y.pc = "reload" /\ y.on = p /\ y.report = r /\ x.life = "live" /\ x.cron = row[r].cron
    BY <1>3, <2>1 DEF ReqRec, Rows
  <2>. HIDE DEF x, y
  <2>3. CASE Req(q, y)
    BY <1>1, <2>1, <2>2, <2>3, EntryOwing
  <2>4. CASE Req(q, done) /\ Fault
    <3>1. trouble'.faults # 0
      BY <2>4 DEF Fault, Trouble, Shape, RestOK
    <3>. QED BY <1>1, <1>2, <2>1, <2>2, <2>4, <3>1, EntryReturning
  <2>. QED BY <2>1, <2>3, <2>4
<1>. QED
  BY <1>4, <1>5, <1>6, <1>7 DEF Arriving

LEMMA EntryHandling ==
    ASSUME Shape, EntryInv, [Next]_vars, NEW q \in Request, Handling(q)
    PROVE  EntryInv'
<1>1. CASE LockFor(q)
  <2>1. req[q].pc = "reload" /\ Lock(req[q].on, q, req[q].report)
    BY <1>1 DEF LockFor
  <2>2. PICK p \in Replica, r \in Report : p = req[q].on /\ r = req[q].report
    BY <2>1, OfShape
  <2>3. sched[p].pc # "off"
    BY <2>1, <2>2 DEF EntryInv, RequestOf
  <2>. QED BY <2>1, <2>2, <2>3, EntryLock
<1>2. CASE Remove(q)
  BY <1>2, EntryRemove
<1>3. ASSUME NEW cron \in Cron, NEW active \in BOOLEAN, WriteSchedule(q, cron, active) PROVE EntryInv'
  <2>1. PICK p \in Replica, r \in Report : p = req[q].on /\ r = req[q].report
    BY <1>3, OfShape DEF WriteSchedule
  <2>2. row[r] \in Rows /\ req[q] \in ReqRec
    BY OfShape
  <2>. DEFINE y == [req[q] EXCEPT !.pc = "reload"]
              x == [row[r] EXCEPT !.has = TRUE, !.cron = cron, !.active = active]
  <2>3. /\ sched' = sched /\ req[q].pc = "write"
        /\ (Writes(p, r, x) /\ Req(q, y)) \/ AnswerLost(q, r, x)
    BY <1>3, <2>1 DEF WriteSchedule
  <2>4. y \in ReqRec /\ y.pc = "reload" /\ y.on = p /\ y.report = r /\ x.life = row[r].life
    BY <2>1, <2>2 DEF ReqRec, Rows
  <2>5. sched[p].pc # "off" /\ row[r].life # "never"
    BY <2>1, <2>3 DEF EntryInv, RequestOf
  <2>. HIDE DEF x, y
  <2>6. CASE Writes(p, r, x) /\ Req(q, y)
    BY <2>3, <2>4, <2>5, <2>6, EntryOwing
  <2>7. CASE AnswerLost(q, r, x)
    BY <2>3, <2>4, <2>5, <2>7, EntryUnheard
  <2>. QED BY <2>3, <2>6, <2>7
<1>. QED
  BY <1>1, <1>2, <1>3 DEF Handling

------------------------------------------------------------------------------
LEMMA EntryStep == Shape /\ EntryInv /\ [Next]_vars => EntryInv'
<1>. SUFFICES ASSUME Shape, EntryInv, [Next]_vars PROVE EntryInv'
  OBVIOUS
<1>1. ASSUME NEW p \in Replica, Close(p) \/ Exit(p) \/ Crash(p) \/ Scheduling(p)
      PROVE  EntryInv'
  <2>1. CASE LoadNext(p)
    <3>1. PICK r \in sched[p].todo : Lock(p, p, r) /\ sched[p].pc = "loading"
      BY <2>1 DEF LoadNext
    <3>2. r \in Report
      BY OfShape DEF SchedRec
    <3>. QED BY <3>1, <3>2, EntryLock
  <2>2. CASE Exit(p) \/ Crash(p)
    BY <2>2, EntryEnds DEF Exit, Crash
  <2>. QED BY <1>1, <2>1, <2>2, EntryStart, EntryStarted, EntryRead, EntryAdd DEF Scheduling
<1>2. ASSUME NEW q \in Request, Handling(q) \/ (\E p \in Replica, r \in Report : Arriving(q, p, r))
      PROVE  EntryInv'
  BY <1>2, EntryHandling, EntryArriving
<1>3. ASSUME NEW e \in Run, Executing(e) \/ (\E p \in Replica, r \in Report : Beginning(e, p, r))
      PROVE  EntryInv'
  <2>1. Executing(e) => UNCHANGED <<row, sched, req, missed>>
    BY DEF Executing, ReadReport, ReadItsSchedule, NotRecorded, Insert, Send, NoChannel, Record, Snapshot
  <2>2. (\E p \in Replica, r \in Report : Beginning(e, p, r)) => UNCHANGED <<row, sched, req, missed>>
    BY DEF Beginning, Fire, RunPreview, Begins
  <2>. QED BY <1>3, <2>1, <2>2, EntryElsewhere
<1>4. CASE UNCHANGED vars
  BY <1>4, EntryElsewhere DEF vars
<1>. QED
  BY <1>1, <1>2, <1>3, <1>4 DEF Next

\* When nobody is about to reload an entry, it is right.
LEMMA EntryAtRest ==
    ASSUME EntryInv, NEW p \in Replica, NEW r \in Report, AtRest(p, r), r \notin missed[p]
    PROVE  /\ sched[p].entry[r] \in May(row[r])
           /\ trouble.faults = 0 => sched[p].entry[r] = Want(row[r])
<1>1. ~Owed(p, r, Nothing) /\ sched[p].pc = "on" /\ sched[p].reload.report # r
  BY DEF AtRest, Owed
<1>2. sched[p].todo = {}
  BY <1>1 DEF EntryInv, ReloadOf
<1>. QED
  BY <1>1, <1>2 DEF EntryInv, EntryOf

LEMMA EntryAlways == Spec => [](Shape /\ EntryInv)
BY TypeInit, TypeStep, EntryInit, EntryStep, PTL DEF Spec

\* However the reloads, removals and writes of a replica overlap, once its handlers of a report
\* have returned the entry of the report has the time of its schedule, or there is none when
\* one of the two rows is not enabled, as long as no statement fails (Scheduler.Reload, Remove).
THEOREM EntriesFollowRows == Spec => []EntryFollowsRow
<1>1. EntryInv => EntryFollowsRow
  BY EntryAtRest DEF EntryFollowsRow, Want
<1>. QED
  BY <1>1, EntryAlways, PTL

\* Even when statements fail, the entry of a replica that knows of the last write never has the time
\* of an earlier schedule, and has none of a deleted report: Reload removes the entry before it reads.
THEOREM NoOldEntryFires == Spec => []NoOldEntry
<1>1. EntryInv => NoOldEntry
  BY EntryAtRest DEF NoOldEntry, May
<1>. QED
  BY <1>1, EntryAlways, PTL
=============================================================================
