----------------------------- MODULE ReportPage -----------------------------
(***************************************************************************)
(* The page of the scheduled reports, ReportSchedulePage: which report it  *)
(* shows, the route in the address bar, its dialogs, and the operations    *)
(* that write a report and load the workspace again.                       *)
(*                                                                         *)
(* page is the state of the component with the load of its effect.  As in  *)
(* QueryPage, Commit runs the effects whose dependencies changed, in the   *)
(* order of their declaration; React does so before it renders anything    *)
(* else, so events and answers find a page whose commits are done.  A      *)
(* request is carried out by the server at some time and answered later.   *)
(* Dialogs cover the page: while one is open only what is in it can be     *)
(* clicked.                                                                *)
(* Left out: the texts of the statuses, the lists of sources in the create *)
(* and edit forms, the panel that asks to confirm, the self check of the   *)
(* acceleration (its section is hidden) and what a preview answers.        *)
(***************************************************************************)
EXTENDS Naturals, FiniteSetsExt

CONSTANTS Report,      \* the numbers of the reports
          AtFirst,     \* the reports that exist when the page opens
          Cron,
          Operation,   \* the writes of the user, each made once
          MaxClicks,   \* bound: other events of the user
          MaxFaults    \* bound: requests that fail

ASSUME ReportAssumption == Report \subseteq Nat \ {0} /\ AtFirst \subseteq Report
ASSUME BoundAssumption == MaxClicks \in Nat /\ MaxFaults \in Nat

VARIABLES page,
          seen,     \* the dependencies of the effects at the last commit
          server,   \* the reports that exist and their schedules
          ops,      \* the writes in flight, and the loads that follow them
          goal,     \* the report the page should come to show (0: no saying, since a write was interrupted)
          asked,    \* the action last asked for on a report that was not shown
          tally     \* events of the user, failed requests, failed loads and overlaps so far

vars == <<page, seen, server, ops, goal, asked, tally>>

Actions == {"config", "schedule", "preview"}
NoAction == [report |-> 0, action |-> "config"]

\* A workspace: the active report, the list, and the schedule with its reportId.
NoSpace == [active |-> 0, list |-> {}, of |-> 0, cron |-> {}, there |-> FALSE]
Failed == [NoSpace EXCEPT !.list = {0}]
Unserved == [NoSpace EXCEPT !.of = 1]

NoLoad == [report |-> 0, result |-> NoSpace]
NoOp == [kind |-> "save", stage |-> "new", report |-> 0, next |-> 0, cron |-> {}, result |-> NoSpace]
Done == [NoOp EXCEPT !.stage = "over"]

Opened(r) ==
    [ws |-> NoSpace, selected |-> r, route |-> r, gone |-> FALSE,
     pending |-> NoAction, open |-> {},
     opening |-> {}, busy |-> {},
     loading |-> TRUE, load |-> [report |-> r, result |-> Unserved]]

Active(u) == IF u.ws.there THEN u.ws.active ELSE u.selected

Deps(u) == [route |-> u.route, selected |-> u.selected, active |-> Active(u),
            pending |-> u.pending, there |-> u.ws.there]

Quiet == seen = Deps(page) /\ ~page.gone

InFlight(o) == ops[o].stage \in {"sent", "served", "load", "loaded"}

AtRest == Quiet /\ page.load = NoLoad /\ page.opening = {} /\ \A o \in Operation : ~InFlight(o)

\* A request fails; unsaid counts the writes that may have been carried out all the same.
FaultOf(writes) ==
    /\ tally.faults < MaxFaults
    /\ tally' = [tally EXCEPT !.faults = @ + 1, !.unsaid = @ + writes]
Fault == FaultOf(0)

------------------------------------------------------------------------------
\* The effects.

\* mutant: no load is started while one is in flight
LoadEffectOnce(u, w) ==
    IF w.load # NoLoad THEN w
    ELSE [w EXCEPT !.load = [report |-> u.selected, result |-> Unserved], !.loading = TRUE,
                   !.busy = {}, !.pending = NoAction, !.open = @ \ Actions]
\* [selectedReportId]: the earlier load is cancelled
LoadEffect(u, w) ==
    [w EXCEPT !.load = [report |-> u.selected, result |-> Unserved], !.loading = TRUE,
              !.busy = {}, !.pending = NoAction,
              !.open = @ \ Actions]

\* mutant: the route is only written when the address has none
NavWhenEmpty(u) == Active(u) # 0 /\ u.route = 0
\* [activeReportId, reportIdParam]
NavNeeded(u) == Active(u) # 0 /\ u.route # Active(u)

NavEffect(u, w) ==
    CASE NavNeeded(u) -> [w EXCEPT !.route = Active(u)]
      [] ~NavNeeded(u) /\ Active(u) = 0 /\ u.route # 0 -> [w EXCEPT !.gone = TRUE]
      [] OTHER -> w

PendingEffect(u, w) ==
    IF u.pending.report # 0 /\ u.pending.report = Active(u) /\ u.ws.there
    THEN [w EXCEPT !.open = @ \union {u.pending.action}, !.pending = NoAction]
    ELSE w

If(changed, new, w) == IF changed THEN new ELSE w

Effects(u, c) ==
    LET w1 == If("route" \in c, [u EXCEPT !.selected = u.route], u)
        w2 == If("selected" \in c, LoadEffect(u, w1), w1)
        w3 == If(c \intersect {"active", "route"} # {}, NavEffect(u, w2), w2)
    IN  If(c \intersect {"active", "there", "pending"} # {}, PendingEffect(u, w3), w3)

Commit ==
    LET now     == Deps(page)
        changed == {k \in DOMAIN now : seen[k] # now[k]}
    IN  /\ changed # {} /\ ~page.gone
        /\ page' = Effects(page, changed)
        /\ seen' = now
        /\ UNCHANGED <<server, ops, goal, asked, tally>>

------------------------------------------------------------------------------
\* The server.

SpaceOf(r) == [active |-> r, list |-> server.reports, of |-> r, cron |-> {server.cron[r]}, there |-> TRUE]

\* getWorkspaceFromDB: without a report, the first one or an empty workspace
Workspace(r) ==
    CASE r \in server.reports -> SpaceOf(r)
      [] r = 0 /\ server.reports # {} -> SpaceOf(Min(server.reports))
      [] r = 0 /\ server.reports = {} -> [NoSpace EXCEPT !.there = TRUE]
      [] OTHER -> Failed

ServeLoad ==
    /\ page.load.result = Unserved
    /\ page' = [page EXCEPT !.load.result = Workspace(page.load.report)]
    /\ UNCHANGED <<seen, server, ops, goal, asked, tally>>

\* What the server makes of a write; one of a report that is gone fails.
Written(op) ==
    CASE op.kind = "save" /\ op.report \in server.reports ->
            [server EXCEPT !.cron[op.report] = CHOOSE c \in Cron : op.cron = {c}]
      [] op.kind = "delete" -> [server EXCEPT !.reports = @ \ {op.report}]
      [] op.kind = "create" -> [server EXCEPT !.reports = @ \union {op.report}]
      [] OTHER -> server

ServeWrite(o) ==
    /\ ops[o].stage = "sent"
    /\ server' = Written(ops[o])
    /\ ops' = [ops EXCEPT ![o].stage = "served",
                          ![o].result = IF ops[o].kind = "create" \/ ops[o].report \in server.reports
                                        THEN NoSpace ELSE Failed]
    /\ UNCHANGED <<page, seen, goal, asked, tally>>

ServeReload(o) ==
    /\ ops[o].stage = "load"
    /\ ops' = [ops EXCEPT ![o].stage = "loaded", ![o].result = Workspace(ops[o].next)]
    /\ UNCHANGED <<page, seen, server, goal, asked, tally>>

\* A request is lost before the server has it, or its answer is.
Lose(o) ==
    /\ InFlight(o) /\ ops[o].result # Failed
    /\ ops' = [ops EXCEPT ![o].result = Failed,
                          ![o].stage = IF @ \in {"sent", "served"} THEN "served" ELSE "loaded"]
    /\ FaultOf(IF ops[o].stage = "served" THEN 1 ELSE 0)
    /\ UNCHANGED <<page, seen, server, goal, asked>>

LoseLoad ==
    /\ page.load # NoLoad /\ page.load.result # Failed
    /\ page' = [page EXCEPT !.load.result = Failed]
    /\ Fault
    /\ UNCHANGED <<seen, server, ops, goal, asked>>

------------------------------------------------------------------------------
\* Answers.

Counted(result) == tally' = [tally EXCEPT !.errors = IF result = Failed THEN 1 ELSE @]

\* a load that failed leaves the workspace that was there
Showing(w, result) == IF result = Failed THEN w ELSE [w EXCEPT !.ws = result]

LoadAnswer ==
    /\ Quiet /\ page.load # NoLoad /\ page.load.result # Unserved
    /\ page' = [Showing(page, page.load.result) EXCEPT !.load = NoLoad, !.loading = FALSE]
    /\ Counted(page.load.result)
    /\ UNCHANGED <<seen, server, ops, goal, asked>>

\* mutant: the answer of the server is not merged, the workspace is only loaded again
NotMerged(w, op) == w
\* handleSaveSchedule merges the saved schedule into the workspace that is there
Merged(w, op) ==
    IF w.ws.there THEN [w EXCEPT !.ws.of = op.report, !.ws.cron = op.cron] ELSE w

\* What the handlers do when their write has succeeded, before they load again.
After(w, op) ==
    CASE op.kind = "save" -> Merged(w, op)
      [] op.kind = "preview" -> [w EXCEPT !.busy = @ \ {"preview"}]
      [] op.kind = "create" -> [w EXCEPT !.open = @ \ {"create"}, !.selected = op.report]
      [] op.kind = "edit" -> [w EXCEPT !.open = @ \ {"edit"}, !.selected = op.report]
      [] op.kind = "delete" -> [w EXCEPT !.open = @ \ {"config", "create", "edit"}, !.selected = op.next]

WriteAnswer(o) ==
    LET op == ops[o]
    IN  /\ Quiet /\ op.stage = "served"
        /\ page' = IF op.result = Failed THEN [page EXCEPT !.busy = @ \ {op.kind}] ELSE After(page, op)
        /\ ops' = [ops EXCEPT ![o] = IF op.result = Failed \/ op.kind = "preview" THEN Done
                                     ELSE [@ EXCEPT !.stage = "load"]]
        /\ goal' = IF op.result = Failed \/ op.kind = "preview" THEN goal
                   ELSE IF tally.overlaps = 0 THEN op.next ELSE 0
        /\ UNCHANGED <<seen, server, asked, tally>>

\* mutant: a workspace that could not be loaded leaves the button as it is
StillBusy(w, op) == IF op.kind = "save" THEN w ELSE [w EXCEPT !.ws = NoSpace]
\* the workspace is kept after a save and given up after the other writes
NotReloaded(w, op) ==
    [IF op.kind = "save" THEN w ELSE [w EXCEPT !.ws = NoSpace] EXCEPT !.busy = @ \ {op.kind}]

ReloadAnswer(o) ==
    LET op == ops[o]
    IN  /\ Quiet /\ op.stage = "loaded"
        /\ page' = IF op.result = Failed THEN NotReloaded(page, op)
                   ELSE [page EXCEPT !.ws = op.result, !.busy = @ \ {op.kind},
                                      !.open = IF op.kind = "save" THEN @ \ {"schedule"} ELSE @]
        /\ ops' = [ops EXCEPT ![o] = Done]
        /\ Counted(op.result)
        /\ UNCHANGED <<seen, server, goal, asked>>

------------------------------------------------------------------------------
\* The user.

Busy == \E o \in Operation : InFlight(o)

Click == Quiet /\ tally.clicks < MaxClicks /\ page.open = {}

\* The list and its buttons are there only when the page does not say that it loads.
Listed(r) == ~page.loading /\ r \in page.ws.list

Clicked(w, g, a) ==
    /\ page' = w
    /\ goal' = g
    /\ asked' = a
    /\ tally' = [tally EXCEPT !.clicks = @ + 1,
                              !.overlaps = IF Busy /\ w.selected # page.selected THEN 1 ELSE @]
    /\ UNCHANGED <<seen, server, ops>>

Shown(r) == IF Busy THEN 0 ELSE r

\* the button with the name of the report
Pick(r) ==
    /\ Click /\ Listed(r)
    /\ Clicked([page EXCEPT !.selected = r], Shown(r), NoAction)

\* handleOpenReportAction
OpenAction(r, action) ==
    LET here == Active(page) = r /\ page.ws.there
    IN  /\ Click /\ Listed(r)
        /\ page.pending.report # r
        /\ action = "schedule" => "save" \notin page.busy
        /\ action = "preview" => "preview" \notin page.busy
        /\ IF here
           THEN Clicked([page EXCEPT !.open = @ \union {action}], goal, NoAction)
           ELSE Clicked([page EXCEPT !.open = @ \ Actions, !.selected = r,
                                     !.pending = [report |-> r, action |-> action]],
                        Shown(r), [report |-> r, action |-> action])

CloseDialog(d) ==
    /\ Quiet /\ d \in page.open
    /\ (IF d = "schedule" THEN "save" ELSE d) \notin page.busy
    /\ page' = [page EXCEPT !.open = @ \ {d}]
    /\ asked' = NoAction
    /\ UNCHANGED <<seen, server, ops, goal, tally>>

\* The create and edit forms open when their lists of sources have come.
OpenForm(form) ==
    /\ Click
    /\ form = "edit" => ~page.loading /\ page.ws.there /\ page.ws.active # 0
    /\ page.busy \intersect (IF form = "create" THEN {"create", "edit", "delete"} ELSE {"edit"}) = {}
    /\ Clicked([page EXCEPT !.opening = @ \union {form}], goal, NoAction)

FormOpens(form, ok) ==
    /\ Quiet /\ form \in page.opening
    /\ page' = [page EXCEPT !.opening = @ \ {form},
                            !.open = IF ok THEN (IF form = "create" THEN @ \ {"edit"} ELSE @) \union {form} ELSE @]
    /\ IF ok THEN UNCHANGED tally ELSE Fault
    /\ UNCHANGED <<seen, server, ops, goal, asked>>

Begin(o, op) ==
    /\ ops[o].stage = "new"
    /\ Quiet
    /\ ops' = [ops EXCEPT ![o] = [op EXCEPT !.stage = "sent"]]
    /\ page' = [page EXCEPT !.busy = @ \union {op.kind}]
    /\ goal' = Shown(goal)
    /\ asked' = NoAction
    /\ tally' = [tally EXCEPT !.overlaps = IF Busy THEN 1 ELSE @]
    /\ UNCHANGED <<seen, server>>

\* ReportScheduleForm.handleSubmit, with what the user typed, and handleSaveSchedule
SaveSchedule(o, c) ==
    /\ "schedule" \in page.open /\ page.ws.there /\ "save" \notin page.busy
    /\ Begin(o, [NoOp EXCEPT !.kind = "save", !.report = page.ws.of, !.next = page.ws.of, !.cron = {c}])

RunPreview(o) ==
    /\ "preview" \in page.open /\ page.ws.there /\ "preview" \notin page.busy
    /\ Begin(o, [NoOp EXCEPT !.kind = "preview", !.report = page.ws.active])

SubmitEdit(o) ==
    /\ "edit" \in page.open /\ page.ws.there /\ "edit" \notin page.busy
    /\ Begin(o, [NoOp EXCEPT !.kind = "edit", !.report = page.ws.active, !.next = page.ws.active])

SubmitCreate(o, r) ==
    /\ "create" \in page.open /\ "create" \notin page.busy
    /\ r \notin AtFirst /\ r \notin server.reports /\ \A p \in Operation : ops[p].report # r
    /\ Begin(o, [NoOp EXCEPT !.kind = "create", !.report = r, !.next = r])

\* mutant: the report that is deleted stays the active one
NextActiveSame(r) == Active(page)
\* nextActiveReportId
NextActive(r) ==
    LET rest == page.ws.list \ {r}
    IN  CASE Active(page) \notin {0, r} -> Active(page)
          [] Active(page) \in {0, r} /\ rest # {} -> Min(rest)
          [] OTHER -> 0

DeleteReport(o, r) ==
    /\ page.open = {} /\ Listed(r) /\ "delete" \notin page.busy
    /\ Begin(o, [NoOp EXCEPT !.kind = "delete", !.report = r, !.next = NextActive(r)])

------------------------------------------------------------------------------
Init ==
    /\ \E r \in AtFirst \union {0} : page = Opened(r)
    /\ seen = Deps(page)
    /\ server \in {[reports |-> AtFirst, cron |-> [r \in Report |-> c]] : c \in Cron}
    /\ ops = [o \in Operation |-> NoOp]
    /\ goal = page.selected
    /\ asked = NoAction
    /\ tally = [clicks |-> 0, faults |-> 0, unsaid |-> 0, errors |-> 0, overlaps |-> 0]

Answers ==
    \/ ServeLoad \/ LoadAnswer \/ LoseLoad
    \/ \E o \in Operation : ServeWrite(o) \/ ServeReload(o) \/ WriteAnswer(o) \/ ReloadAnswer(o) \/ Lose(o)
    \/ \E form \in {"create", "edit"}, ok \in BOOLEAN : FormOpens(form, ok)

Writes(o) ==
    \/ RunPreview(o) \/ SubmitEdit(o)
    \/ \E c \in Cron : SaveSchedule(o, c)
    \/ \E r \in Report : SubmitCreate(o, r) \/ DeleteReport(o, r)

Next ==
    \/ Commit
    \/ ~page.gone /\ Answers
    \/ \E r \in Report : Pick(r) \/ (\E action \in Actions : OpenAction(r, action))
    \/ \E d \in Actions \union {"create", "edit"} : CloseDialog(d)
    \/ \E form \in {"create", "edit"} : OpenForm(form)
    \/ \E o \in Operation : Writes(o)

Spec == Init /\ [][Next]_vars

------------------------------------------------------------------------------
\* Properties.

Forms == {"create", "edit"}
Kinds == {"save", "preview", "create", "edit", "delete"}
Stages == {"new", "sent", "served", "load", "loaded", "over"}
Space == [active : Nat, list : SUBSET Nat, of : Nat, cron : SUBSET Cron, there : BOOLEAN]
Asked == [report : Nat, action : Actions]
PageState ==
    [ws : Space, selected : Nat, route : Nat, gone : BOOLEAN, pending : Asked,
     open : SUBSET (Actions \union Forms), opening : SUBSET Forms, busy : SUBSET Kinds,
     loading : BOOLEAN, load : [report : Nat, result : Space]]
OpState == [kind : Kinds, stage : Stages, report : Nat, next : Nat, cron : SUBSET Cron, result : Space]

\* The page, the server and the requests keep their shape; a save under way has a schedule, and
\* what is being created is a report.
TypeOK ==
    /\ page \in PageState
    /\ seen \in [route : Nat, selected : Nat, active : Nat, pending : Asked, there : BOOLEAN]
    /\ server \in [reports : SUBSET Report, cron : [Report -> Cron]]
    /\ ops \in [Operation -> OpState]
    /\ goal \in Nat /\ asked \in Asked
    /\ tally \in [clicks : Nat, faults : Nat, unsaid : Nat, errors : Nat, overlaps : Nat]
    /\ \A o \in Operation : InFlight(o) =>
          /\ ops[o].kind = "save" => \E c \in Cron : ops[o].cron = {c}
          /\ ops[o].kind = "create" => ops[o].report \in Report

\* When everything is answered, the address, the selection and the workspace name one report,
\* whatever overlapped: none of the effects undoes another one's work for ever.  A selection of 0
\* leaves the choice to the server; it stays when the last report listed was deleted while another
\* one was being created.
RouteFollows ==
    AtRest /\ tally.errors = 0 /\ page.ws.there =>
        page.route = page.ws.active /\ page.selected \in {0, page.ws.active}

\* The report asked for last is shown in the end, be it picked, created or edited.  A create or an
\* edit may be submitted while a load is out, whose answer comes before, between or after those of
\* the write; only when writes overlap, or a click comes into a write, nobody can say.
GoalIsShown ==
    AtRest /\ tally.errors = 0 /\ goal # 0 => page.ws.active = goal

\* What says that it goes on does go on, failures and overlaps included, and an action that
\* waits for its report waits no longer when everything was answered without a failure.
BusyIsTrue ==
    /\ page.loading <=> page.load # NoLoad
    /\ \A kind \in page.busy : \E o \in Operation : InFlight(o) /\ ops[o].kind = kind
    /\ AtRest /\ tally.errors = 0 => page.pending = NoAction

\* After a delete the page does not stay on the report that is gone.
ActiveExists ==
    AtRest /\ tally.faults = 0 /\ tally.overlaps = 0
        => page.ws.there /\ page.ws.active \in server.reports \union {0}

\* A schedule whose save succeeded is shown, whether or not the workspace could be loaded again.
SavedIsShown ==
    AtRest /\ tally.overlaps = 0 /\ tally.unsaid = 0 /\ page.ws.there /\ page.ws.active \in server.reports
        => page.ws.of = page.ws.active /\ page.ws.cron = {server.cron[page.ws.active]}

\* The dialog that was asked for on a report that was not shown is open when that report is.
AskedOpens ==
    AtRest /\ tally.errors = 0 /\ asked # NoAction
        => page.ws.active = asked.report /\ asked.action \in page.open
=============================================================================
