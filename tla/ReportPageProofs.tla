---------------------------- MODULE ReportPageProofs ----------------------------
(***************************************************************************)
(* Theorems about ReportPage, for every set of reports and operations and  *)
(* every number of clicks and failures.  Address, selection and workspace  *)
(* come to agree (RouteFollows), and nothing says that it goes on when it  *)
(* does not (BusyIsTrue).  Both need an invariant of the commits in        *)
(* between: each disagreement has an effect or an answer still to come     *)
(* that ends it (Settling).  The last properties are about a page that     *)
(* rests: it shows the report asked for last (GoalIsShown), never one that *)
(* is gone (ActiveExists), and of it what the server has (SavedIsShown).   *)
(* They suppose that no write met another write or a click; a create or an *)
(* edit may meet a load, no other write can (DialogInv).  For these a step *)
(* is reduced to what it does to the fields concerned (Steps), and each    *)
(* property has an invariant of its own: GoalInv, FreshInv and KnownInv.   *)
(***************************************************************************)
EXTENDS ReportPage, WellFoundedInduction, TLAPS

\* The least of some numbers is one of them.
LEMMA MinIsLeast == ASSUME NEW S \in SUBSET Nat, S # {} PROVE Min(S) \in S /\ \A y \in S : Min(S) <= y
<1>. DEFINE R == OpToRel(<, Nat)
<1>1. IsWellFoundedOn(R, Nat)
  BY NatLessThanWellFounded
<1>2. PICK x \in S : \A y \in S : ~ (<<y, x>> \in R)
  <2>. HIDE DEF R
  <2>. QED BY <1>1, WFMin
<1>3. \A y \in S : x <= y
  <2>. SUFFICES ASSUME NEW y \in S, y < x PROVE FALSE
    OBVIOUS
  <2>1. <<y, x>> \in R
    BY DEF OpToRel
  <2>. QED BY <1>2, <2>1
<1>. QED
  BY <1>2, <1>3 DEF Min

-----------------------------------------------------------------------------
(***************************************************************************)
(* Shapes.                                                                 *)
(***************************************************************************)
SeenState == [route : Nat, selected : Nat, active : Nat, pending : Asked, there : BOOLEAN]

LEMMA Constants_ ==
    /\ NoSpace \in Space /\ Failed \in Space /\ Unserved \in Space
    /\ ~NoSpace.there /\ ~Failed.there /\ ~Unserved.there
    /\ Unserved # NoSpace /\ Failed # NoSpace /\ Failed # Unserved
    /\ NoAction \in Asked /\ NoAction.report = 0
    /\ NoLoad \in [report : Nat, result : Space] /\ NoLoad.report = 0 /\ NoLoad.result = NoSpace
    /\ NoOp \in OpState /\ NoOp.stage = "new" /\ NoOp.result = NoSpace
    /\ Done \in OpState /\ Done.stage = "over"
<1>1. NoSpace \in Space /\ ~NoSpace.there /\ NoSpace.list = {} /\ NoSpace.of = 0
  BY DEF NoSpace, Space
<1>2. Failed \in Space /\ ~Failed.there /\ Failed.list = {0} /\ Failed.of = 0
  <2>. DEFINE list == {0}
  <2>1. Failed = [NoSpace EXCEPT !.list = list] /\ list \in SUBSET Nat
    BY DEF Failed
  <2>. HIDE DEF list
  <2>2. Failed \in Space /\ ~Failed.there /\ Failed.list = list /\ Failed.of = 0
    BY <1>1, <2>1 DEF Space
  <2>. QED BY <2>2 DEF list
<1>3. Unserved \in Space /\ ~Unserved.there /\ Unserved.list = {} /\ Unserved.of = 1
  BY DEF NoSpace, Unserved, Space
<1>4. NoAction \in Asked /\ NoAction.report = 0
  BY DEF NoAction, Asked, Actions
<1>5. NoLoad \in [report : Nat, result : Space] /\ NoLoad.report = 0 /\ NoLoad.result = NoSpace
  BY <1>1 DEF NoLoad
<1>6. NoOp \in OpState /\ NoOp.stage = "new" /\ NoOp.result = NoSpace
  BY <1>1 DEF NoOp, OpState, Kinds, Stages
<1>7. Done \in OpState /\ Done.stage = "over"
  BY <1>6 DEF Done, OpState, Stages
<1>. QED
  BY <1>1, <1>2, <1>3, <1>4, <1>5, <1>6, <1>7

\* The reply to a load is a workspace that is there, or an error; of a report that was named it
\* is that report's.
LEMMA WorkspaceType ==
    ASSUME server \in [reports : SUBSET Report, cron : [Report -> Cron]], NEW r \in Nat
    PROVE  /\ Workspace(r) \in Space
           /\ \/ Workspace(r) = Failed
              \/ Workspace(r).there /\ (r # 0 => Workspace(r).active = r)
<1>. DEFINE S == server.reports
<1>0. S \subseteq Report /\ S \subseteq Nat \ {0}
  BY ReportAssumption
<1>1. ASSUME NEW x \in S
      PROVE  SpaceOf(x) \in Space /\ SpaceOf(x).there /\ SpaceOf(x).active = x
  <2>1. x \in Nat /\ server.cron[x] \in Cron /\ S \in SUBSET Nat
    BY <1>0, <1>1
  <2>. QED BY <2>1 DEF SpaceOf, Space
<1>2. S # {} => Min(S) \in S
  BY <1>0, MinIsLeast
<1>3. [NoSpace EXCEPT !.there = TRUE] \in Space /\ [NoSpace EXCEPT !.there = TRUE].there
  BY DEF NoSpace, Space
<1>4. CASE r \in S
  <2>1. Workspace(r) = SpaceOf(r)
    BY <1>0, <1>4 DEF Workspace
  <2>. QED BY <1>1, <1>4, <2>1
<1>5. CASE r = 0 /\ S # {}
  <2>1. Workspace(r) = SpaceOf(Min(S))
    BY <1>0, <1>5 DEF Workspace
  <2>. QED BY <1>1, <1>2, <1>5, <2>1
<1>6. CASE r = 0 /\ S = {}
  <2>1. Workspace(r) = [NoSpace EXCEPT !.there = TRUE]
    BY <1>6 DEF Workspace
  <2>. QED BY <1>3, <1>6, <2>1
<1>7. CASE r # 0 /\ r \notin S
  BY <1>7, Constants_ DEF Workspace
<1>. QED
  BY <1>4, <1>5, <1>6, <1>7

\* What the effects make of a page, field by field.
FieldsOf(w, u, c) ==
    LET moved == c \intersect {"active", "route"} # {}
        told == c \intersect {"active", "there", "pending"} # {}
        load == IF "selected" \in c THEN [report |-> u.selected, result |-> Unserved] ELSE u.load
        waits == u.pending.report # 0 /\ u.pending.report = Active(u) /\ u.ws.there
    IN  /\ w \in PageState
        /\ w.ws = u.ws
        /\ w.selected = IF "route" \in c THEN u.route ELSE u.selected
        /\ w.load = load
        /\ w.loading = (IF "selected" \in c THEN TRUE ELSE u.loading)
        /\ w.busy = IF "selected" \in c THEN {} ELSE u.busy
        /\ w.route = IF moved /\ NavNeeded(u) THEN Active(u) ELSE u.route
        /\ w.gone = (IF moved /\ ~NavNeeded(u) /\ Active(u) = 0 /\ u.route # 0 THEN TRUE ELSE u.gone)
        /\ w.pending = IF told /\ waits THEN NoAction
                       ELSE IF "selected" \in c THEN NoAction ELSE u.pending

\* The dialog of a schedule survives the effects, or they open it for the action that waits.
DialogOf(w, u, c) ==
    "schedule" \in w.open =>
        \/ "selected" \notin c /\ "schedule" \in u.open
        \/ /\ c \intersect {"active", "there", "pending"} # {}
           /\ u.pending.report # 0 /\ u.pending.report = Active(u) /\ u.ws.there

LEMMA EffectsOf ==
    ASSUME NEW u \in PageState, NEW c
    PROVE  FieldsOf(Effects(u, c), u, c) /\ DialogOf(Effects(u, c), u, c)
<1>. DEFINE moved == c \intersect {"active", "route"} # {}
            told == c \intersect {"active", "there", "pending"} # {}
            load == IF "selected" \in c THEN [report |-> u.selected, result |-> Unserved] ELSE u.load
            w1 == If("route" \in c, [u EXCEPT !.selected = u.route], u)
            w2 == If("selected" \in c, LoadEffect(u, w1), w1)
            w3 == If(moved, NavEffect(u, w2), w2)
            w4 == If(told, PendingEffect(u, w3), w3)
<1>0. /\ u.ws \in Space /\ u.selected \in Nat /\ u.route \in Nat /\ u.pending \in Asked
      /\ u.pending.action \in Actions /\ Active(u) \in Nat
      /\ [report |-> u.selected, result |-> Unserved] \in [report : Nat, result : Space]
  BY Constants_ DEF PageState, Active, Space, Asked
<1>1. /\ w1 \in PageState /\ w1.ws = u.ws /\ w1.selected = (IF "route" \in c THEN u.route ELSE u.selected)
      /\ w1.load = u.load /\ w1.loading = u.loading /\ w1.busy = u.busy /\ w1.route = u.route
      /\ w1.gone = u.gone /\ w1.pending = u.pending /\ w1.open = u.open
  BY <1>0 DEF PageState, If
<1>. HIDE DEF w1
<1>2. /\ w2 \in PageState /\ w2.ws = u.ws /\ w2.selected = w1.selected
      /\ w2.load = load
      /\ w2.loading = (IF "selected" \in c THEN TRUE ELSE u.loading)
      /\ w2.busy = (IF "selected" \in c THEN {} ELSE u.busy) /\ w2.route = u.route
      /\ w2.gone = u.gone /\ w2.pending = (IF "selected" \in c THEN NoAction ELSE u.pending)
      /\ w2.open = (IF "selected" \in c THEN u.open \ Actions ELSE u.open)
  <2>1. CASE "selected" \in c
    <3>. DEFINE open == w1.open \ Actions
    <3>1. w2 = [w1 EXCEPT !.load = load, !.loading = TRUE, !.busy = {}, !.pending = NoAction, !.open = open]
      BY <2>1 DEF If, LoadEffect
    <3>2. open \in SUBSET (Actions \union Forms)
      BY <1>1 DEF PageState
    <3>3. load \in [report : Nat, result : Space]
      BY <1>0, <2>1
    <3>4. open = u.open \ Actions
      BY <1>1
    <3>. HIDE DEF w2, load, open
    <3>. QED BY <1>1, <2>1, <3>1, <3>2, <3>3, <3>4, Constants_ DEF PageState
  <2>2. CASE "selected" \notin c
    BY <1>1, <2>2 DEF If
  <2>. QED BY <2>1, <2>2
<1>. HIDE DEF w2
<1>3. /\ w3 \in PageState /\ w3.ws = u.ws /\ w3.selected = w2.selected /\ w3.load = w2.load
      /\ w3.loading = w2.loading /\ w3.busy = w2.busy /\ w3.pending = w2.pending /\ w3.open = w2.open
      /\ w3.route = (IF moved /\ NavNeeded(u) THEN Active(u) ELSE u.route)
      /\ w3.gone = (IF moved /\ ~NavNeeded(u) /\ Active(u) = 0 /\ u.route # 0 THEN TRUE ELSE u.gone)
  <2>. HIDE DEF moved
  <2>1. CASE moved /\ NavNeeded(u)
    <3>1. w3 = [w2 EXCEPT !.route = Active(u)]
      BY <2>1 DEF If, NavEffect
    <3>. QED BY <1>0, <1>2, <2>1, <3>1 DEF PageState
  <2>2. CASE moved /\ ~NavNeeded(u) /\ Active(u) = 0 /\ u.route # 0
    <3>1. w3 = [w2 EXCEPT !.gone = TRUE]
      BY <2>2 DEF If, NavEffect
    <3>. QED BY <1>0, <1>2, <2>2, <3>1 DEF PageState
  <2>3. CASE ~(moved /\ NavNeeded(u)) /\ ~(moved /\ ~NavNeeded(u) /\ Active(u) = 0 /\ u.route # 0)
    <3>1. w3 = w2
      BY <2>3 DEF If, NavEffect
    <3>. QED BY <1>2, <2>3, <3>1
  <2>. QED BY <2>1, <2>2, <2>3
<1>. HIDE DEF w3
<1>4. /\ w4 \in PageState /\ w4.ws = w3.ws /\ w4.selected = w3.selected /\ w4.load = w3.load
      /\ w4.loading = w3.loading /\ w4.busy = w3.busy /\ w4.route = w3.route /\ w4.gone = w3.gone
      /\ w4.pending = IF told /\ u.pending.report # 0 /\ u.pending.report = Active(u) /\ u.ws.there
                      THEN NoAction ELSE w3.pending
      /\ ~(told /\ u.pending.report # 0 /\ u.pending.report = Active(u) /\ u.ws.there) => w4.open = w3.open
  <2>. HIDE DEF told
  <2>1. CASE told /\ u.pending.report # 0 /\ u.pending.report = Active(u) /\ u.ws.there
    <3>1. w4 = [w3 EXCEPT !.open = w3.open \union {u.pending.action}, !.pending = NoAction]
      BY <2>1 DEF If, PendingEffect
    <3>2. w3.open \union {u.pending.action} \in SUBSET (Actions \union Forms)
      BY <1>0, <1>3 DEF PageState
    <3>3. w4 \in PageState
      BY <1>3, <3>1, <3>2, Constants_ DEF PageState
    <3>4. /\ w4.ws = w3.ws /\ w4.selected = w3.selected /\ w4.load = w3.load /\ w4.pending = NoAction
          /\ w4.loading = w3.loading /\ w4.busy = w3.busy /\ w4.route = w3.route /\ w4.gone = w3.gone
      BY <1>3, <3>1 DEF PageState
    <3>. QED BY <2>1, <3>3, <3>4
  <2>2. CASE ~(told /\ u.pending.report # 0 /\ u.pending.report = Active(u) /\ u.ws.there)
    BY <1>3, <2>2 DEF If, PendingEffect
  <2>. QED BY <2>1, <2>2
<1>5. Effects(u, c) = w4
  BY DEF Effects, w1, w2, w3
<1>. HIDE DEF w4
<1>6. DialogOf(w4, u, c)
  BY <1>2, <1>3, <1>4 DEF Actions, DialogOf
<1>7. FieldsOf(w4, u, c)
  BY <1>1, <1>2, <1>3, <1>4 DEF FieldsOf
<1>. QED
  BY <1>5, <1>6, <1>7

ServerState == [reports : SUBSET Report, cron : [Report -> Cron]]
TallyState == [clicks : Nat, faults : Nat, unsaid : Nat, errors : Nat, overlaps : Nat]

\* A save under way has a schedule, and what is being created is a report.
Stated(op) ==
    /\ op.kind = "save" => \E c \in Cron : op.cron = {c}
    /\ op.kind = "create" => op.report \in Report
Sound(op) == op \in OpState /\ (op.stage \in {"sent", "served", "load", "loaded"} => Stated(op))

\* One operation changes at most.
LEMMA OpsType ==
    ASSUME TypeOK, NEW o \in Operation, NEW op, Sound(op), ops' = [ops EXCEPT ![o] = op],
           page' \in PageState, seen' = seen, server' \in ServerState, goal' \in Nat, asked' \in Asked,
           tally' \in TallyState
    PROVE  TypeOK'
<1>1. ops' \in [Operation -> OpState] /\ ops'[o] = op /\ \A p \in Operation : p # o => ops'[p] = ops[p]
  BY DEF TypeOK, Sound
<1>2. \A p \in Operation : InFlight(p)' => Stated(ops'[p])
  BY <1>1 DEF TypeOK, Sound, Stated, InFlight
<1>. QED
  BY <1>1, <1>2 DEF TypeOK, Stated, ServerState, TallyState

LEMMA PageType ==
    ASSUME TypeOK, page' \in PageState, seen' \in SeenState, ops' = ops, server' \in ServerState,
           goal' \in Nat, asked' \in Asked, tally' \in TallyState
    PROVE  TypeOK'
  BY DEF TypeOK, SeenState, ServerState, TallyState, InFlight

LEMMA FaultType ==
    ASSUME TypeOK, NEW n \in Nat, FaultOf(n)
    PROVE  tally' \in TallyState /\ tally'.errors = tally.errors
<1>. DEFINE a == tally.faults + 1
            b == tally.unsaid + n
<1>1. a \in Nat /\ b \in Nat /\ tally \in TallyState
  BY DEF TypeOK, TallyState
<1>2. tally' = [tally EXCEPT !.faults = a, !.unsaid = b]
  BY DEF FaultOf
<1>. HIDE DEF a, b
<1>. QED
  BY <1>1, <1>2 DEF TallyState

LEMMA CountedType ==
    ASSUME TypeOK, NEW result, Counted(result)
    PROVE  /\ tally' \in TallyState
           /\ tally'.errors = IF result = Failed THEN 1 ELSE tally.errors
  BY DEF TypeOK, Counted, TallyState

\* An event at a page at rest that loads nothing: the effects still see what they saw, and
\* an action that is asked for waits for the report that is selected.
Turn ==
    /\ Quiet /\ seen' = seen
    /\ page'.route = page.route /\ page'.gone = page.gone
    /\ page'.load = page.load /\ page'.loading = page.loading
    /\ page'.ws.there = page.ws.there /\ page'.ws.active = page.ws.active
    /\ tally'.errors = tally.errors
    /\ \/ page'.pending = page.pending
       \/ page'.pending.report # 0 /\ page'.pending.report = page'.selected

\* The busy flags are those of operations in flight, and a workspace that was loaded is there.
OpsInv ==
    /\ \A kind \in page.busy : \E o \in Operation : InFlight(o) /\ ops[o].kind = kind
    /\ \A o \in Operation : ops[o].stage = "loaded" => ops[o].result = Failed \/ ops[o].result.there

LEMMA ClickTurn ==
    ASSUME TypeOK, OpsInv, NEW w \in PageState, NEW g \in Nat, NEW a \in Asked, Quiet, Clicked(w, g, a),
           w.busy = page.busy, w.route = page.route, w.gone = page.gone, w.load = page.load,
           w.loading = page.loading, w.ws = page.ws,
           w.pending = page.pending \/ (w.pending.report # 0 /\ w.pending.report = w.selected)
    PROVE  TypeOK' /\ Turn /\ OpsInv'
<1>1. /\ page' = w /\ goal' = g /\ asked' = a /\ seen' = seen /\ server' = server /\ ops' = ops
      /\ tally' = [tally EXCEPT !.clicks = tally.clicks + 1,
                                !.overlaps = IF Busy /\ w.selected # page.selected THEN 1 ELSE tally.overlaps]
  BY DEF Clicked
<1>2. tally' \in TallyState /\ tally'.errors = tally.errors
  <2>. DEFINE n == IF Busy /\ w.selected # page.selected THEN 1 ELSE tally.overlaps
  <2>. DEFINE m == tally.clicks + 1
  <2>1. n \in Nat /\ m \in Nat /\ tally \in TallyState
    BY DEF TypeOK, TallyState
  <2>2. tally' = [tally EXCEPT !.clicks = m, !.overlaps = n]
    BY <1>1
  <2>. HIDE DEF n, m
  <2>. QED BY <2>1, <2>2 DEF TallyState
<1>3. TypeOK'
  BY <1>1, <1>2, PageType DEF TypeOK, SeenState, ServerState
<1>4. Turn
  BY <1>1, <1>2 DEF Turn
<1>5. OpsInv'
  BY <1>1 DEF OpsInv, InFlight
<1>. QED
  BY <1>3, <1>4, <1>5

LEMMA UserTurn ==
    ASSUME TypeOK, OpsInv,
           \/ \E r \in Report : Pick(r) \/ (\E action \in Actions : OpenAction(r, action))
           \/ \E form \in {"create", "edit"} : OpenForm(form)
    PROVE  TypeOK' /\ Turn /\ OpsInv'
<1>0. /\ page \in PageState /\ page.selected \in Nat /\ goal \in Nat /\ NoAction \in Asked
      /\ page.open \in SUBSET (Actions \union Forms) /\ page.opening \in SUBSET Forms
  BY Constants_ DEF TypeOK, PageState
<1>1. ASSUME NEW r \in Report PROVE r \in Nat /\ r # 0 /\ Shown(r) \in Nat
  BY <1>1, ReportAssumption DEF Shown
<1>2. ASSUME NEW r \in Report, Pick(r) PROVE TypeOK' /\ Turn /\ OpsInv'
  <2>. DEFINE w == [page EXCEPT !.selected = r]
  <2>1. Quiet /\ Clicked(w, Shown(r), NoAction)
    BY <1>2 DEF Pick, Click, Listed
  <2>2. /\ w \in PageState /\ w.busy = page.busy /\ w.route = page.route /\ w.gone = page.gone
        /\ w.load = page.load /\ w.loading = page.loading /\ w.ws = page.ws /\ w.pending = page.pending
    BY <1>0, <1>1 DEF PageState
  <2>. HIDE DEF w
  <2>. QED BY <1>0, <1>1, <2>1, <2>2, ClickTurn
<1>3. ASSUME NEW r \in Report, NEW action \in Actions, OpenAction(r, action) PROVE TypeOK' /\ Turn /\ OpsInv'
  <2>. DEFINE v == [page EXCEPT !.open = page.open \union {action}]
              a == [report |-> r, action |-> action]
              w == [page EXCEPT !.open = page.open \ Actions, !.selected = r, !.pending = a]
  <2>1. Quiet /\ (Clicked(v, goal, NoAction) \/ Clicked(w, Shown(r), a))
    BY <1>3 DEF OpenAction, Click, Listed
  <2>2. /\ v \in PageState /\ v.busy = page.busy /\ v.route = page.route /\ v.gone = page.gone
        /\ v.load = page.load /\ v.loading = page.loading /\ v.ws = page.ws /\ v.pending = page.pending
    <3>1. page.open \union {action} \in SUBSET (Actions \union Forms)
      BY <1>0
    <3>. QED BY <1>0, <3>1 DEF PageState
  <2>3. a \in Asked /\ a.report = r
    BY <1>1 DEF Asked
  <2>. HIDE DEF a
  <2>4. /\ w \in PageState /\ w.busy = page.busy /\ w.route = page.route /\ w.gone = page.gone
        /\ w.load = page.load /\ w.loading = page.loading /\ w.ws = page.ws
        /\ w.pending = a /\ w.selected = r
    <3>1. page.open \ Actions \in SUBSET (Actions \union Forms)
      BY <1>0
    <3>. QED BY <1>0, <1>1, <2>3, <3>1 DEF PageState
  <2>. HIDE DEF v, w
  <2>. QED BY <1>0, <1>1, <2>1, <2>2, <2>3, <2>4, ClickTurn
<1>4. ASSUME NEW form \in {"create", "edit"}, OpenForm(form) PROVE TypeOK' /\ Turn /\ OpsInv'
  <2>. DEFINE w == [page EXCEPT !.opening = page.opening \union {form}]
  <2>1. Quiet /\ Clicked(w, goal, NoAction)
    BY <1>4 DEF OpenForm, Click
  <2>2. /\ w \in PageState /\ w.busy = page.busy /\ w.route = page.route /\ w.gone = page.gone
        /\ w.load = page.load /\ w.loading = page.loading /\ w.ws = page.ws /\ w.pending = page.pending
    <3>1. page.opening \union {form} \in SUBSET Forms
      BY <1>0 DEF Forms
    <3>. QED BY <1>0, <3>1 DEF PageState
  <2>. HIDE DEF w
  <2>. QED BY <1>0, <2>1, <2>2, ClickTurn
<1>. QED
  BY <1>2, <1>3, <1>4

\* Dialogs that close and forms that open.
LEMMA DialogTurn ==
    ASSUME TypeOK, OpsInv,
           \/ \E d \in Actions \union {"create", "edit"} : CloseDialog(d)
           \/ \E form \in {"create", "edit"}, ok \in BOOLEAN : FormOpens(form, ok)
    PROVE  TypeOK' /\ Turn /\ OpsInv'
<1>0. /\ page \in PageState /\ seen \in SeenState /\ server \in ServerState /\ goal \in Nat /\ asked \in Asked
      /\ tally \in TallyState /\ NoAction \in Asked
      /\ page.open \in SUBSET (Actions \union Forms) /\ page.opening \in SUBSET Forms
  BY Constants_ DEF TypeOK, PageState, SeenState, ServerState, TallyState
<1>1. ASSUME NEW open \in SUBSET (Actions \union Forms), NEW opening \in SUBSET Forms,
             page' = [page EXCEPT !.open = open, !.opening = opening],
             Quiet, seen' = seen, server' = server, ops' = ops, goal' = goal, asked' \in Asked,
             tally' \in TallyState, tally'.errors = tally.errors
      PROVE  TypeOK' /\ Turn /\ OpsInv'
  <2>1. /\ page' \in PageState /\ page'.busy = page.busy /\ page'.route = page.route /\ page'.gone = page.gone
        /\ page'.load = page.load /\ page'.loading = page.loading /\ page'.ws = page.ws
        /\ page'.pending = page.pending
    BY <1>0, <1>1 DEF PageState
  <2>2. TypeOK'
    BY <1>0, <1>1, <2>1, PageType
  <2>. QED BY <1>1, <2>1, <2>2 DEF Turn, OpsInv, InFlight
<1>2. ASSUME NEW d, CloseDialog(d) PROVE TypeOK' /\ Turn /\ OpsInv'
  <2>1. page' = [page EXCEPT !.open = page.open \ {d}, !.opening = page.opening]
    BY <1>0, <1>2 DEF CloseDialog, PageState
  <2>2. page.open \ {d} \in SUBSET (Actions \union Forms)
    BY <1>0
  <2>. QED BY <1>0, <1>1, <1>2, <2>1, <2>2 DEF CloseDialog
<1>3. ASSUME NEW form \in {"create", "edit"}, NEW ok \in BOOLEAN, FormOpens(form, ok) PROVE TypeOK' /\ Turn /\ OpsInv'
  <2>. DEFINE open == IF ok THEN (IF form = "create" THEN page.open \ {"edit"} ELSE page.open) \union {form}
                      ELSE page.open
              opening == page.opening \ {form}
  <2>1. page' = [page EXCEPT !.open = open, !.opening = opening]
    BY <1>0, <1>3 DEF FormOpens, PageState
  <2>2. open \in SUBSET (Actions \union Forms) /\ opening \in SUBSET Forms
    BY <1>0 DEF Forms
  <2>3. tally' \in TallyState /\ tally'.errors = tally.errors
    BY <1>0, <1>3, FaultType DEF FormOpens, Fault
  <2>. HIDE DEF open, opening
  <2>. QED BY <1>0, <1>1, <1>3, <2>1, <2>2, <2>3 DEF FormOpens
<1>. QED
  BY <1>2, <1>3

\* A write begins.
LEMMA BeginTurn ==
    ASSUME TypeOK, OpsInv, NEW o \in Operation, NEW op \in OpState, Begin(o, op), Stated(op)
    PROVE  TypeOK' /\ Turn /\ OpsInv'
<1>. DEFINE sent == [op EXCEPT !.stage = "sent"]
            n == IF Busy THEN 1 ELSE tally.overlaps
            busy == page.busy \union {op.kind}
<1>1. /\ Quiet /\ ops[o].stage = "new" /\ ops' = [ops EXCEPT ![o] = sent]
      /\ page' = [page EXCEPT !.busy = busy] /\ goal' = Shown(goal) /\ asked' = NoAction
      /\ tally' = [tally EXCEPT !.overlaps = n] /\ seen' = seen /\ server' = server
  BY DEF Begin
<1>2. Sound(sent) /\ sent.kind = op.kind /\ sent.stage = "sent"
  BY DEF Sound, Stated, OpState, Stages
<1>3. n \in Nat /\ busy \in SUBSET Kinds /\ Shown(goal) \in Nat
  BY DEF TypeOK, PageState, OpState, Shown
<1>. HIDE DEF sent, n, busy
<1>4. /\ page' \in PageState /\ page'.busy = busy /\ page'.route = page.route /\ page'.gone = page.gone
      /\ page'.load = page.load /\ page'.loading = page.loading /\ page'.ws = page.ws
      /\ page'.pending = page.pending
  BY <1>1, <1>3 DEF TypeOK, PageState
<1>5. tally' \in TallyState /\ tally'.errors = tally.errors
  <2>1. tally \in TallyState
    BY DEF TypeOK, TallyState
  <2>. QED BY <1>1, <1>3, <2>1 DEF TallyState
<1>6. TypeOK'
  <2>1. seen' \in SeenState /\ server' \in ServerState
    BY <1>1 DEF TypeOK, SeenState, ServerState
  <2>2. goal' \in Nat /\ asked' \in Asked
    BY <1>1, <1>3, Constants_ DEF Asked
  <2>. QED BY <1>1, <1>2, <1>4, <1>5, <2>1, <2>2, OpsType
<1>7. Turn
  BY <1>1, <1>4, <1>5 DEF Turn
<1>8. OpsInv'
  <2>1. ops'[o] = sent /\ \A p \in Operation : p # o => ops'[p] = ops[p]
    BY <1>1 DEF TypeOK
  <2>2. ~InFlight(o) /\ InFlight(o)' /\ ops'[o].kind = op.kind /\ ops'[o].stage # "loaded"
    BY <1>1, <1>2, <2>1 DEF InFlight
  <2>. QED BY <1>4, <2>1, <2>2 DEF OpsInv, InFlight, busy
<1>. QED
  BY <1>6, <1>7, <1>8

LEMMA WritesTurn ==
    ASSUME TypeOK, OpsInv, NEW o \in Operation, Writes(o)
    PROVE  TypeOK' /\ Turn /\ OpsInv'
<1>0. /\ page.ws \in Space /\ page.ws.of \in Nat /\ page.ws.active \in Nat /\ page.ws.list \in SUBSET Nat
      /\ Active(page) \in Nat
  BY DEF TypeOK, PageState, Space, Active
<1>1. ASSUME NEW k \in Kinds, NEW r \in Nat, NEW n \in Nat, NEW c \in SUBSET Cron
      PROVE  [NoOp EXCEPT !.kind = k, !.report = r, !.next = n, !.cron = c] \in OpState
  BY <1>1, Constants_ DEF OpState
<1>2. /\ NoOp.next = 0 /\ NoOp.cron = {} /\ NoOp \in OpState
  BY Constants_ DEF NoOp
<1>8. ASSUME NEW op \in OpState, Begin(o, op), Stated(op) PROVE TypeOK' /\ Turn /\ OpsInv'
  BY <1>8, BeginTurn
<1>3. ASSUME NEW c \in Cron, SaveSchedule(o, c) PROVE TypeOK' /\ Turn /\ OpsInv'
  <2>. DEFINE op == [NoOp EXCEPT !.kind = "save", !.report = page.ws.of, !.next = page.ws.of, !.cron = {c}]
  <2>1. Begin(o, op)
    BY <1>3 DEF SaveSchedule
  <2>2. op \in OpState
    BY <1>0, <1>1 DEF Kinds
  <2>3. op.kind = "save" /\ op.cron = {c}
    BY <1>2 DEF OpState
  <2>. HIDE DEF op
  <2>4. Stated(op)
    BY <1>3, <2>3 DEF Stated
  <2>. QED BY <1>8, <2>1, <2>2, <2>4
<1>4. CASE RunPreview(o)
  <2>. DEFINE op == [NoOp EXCEPT !.kind = "preview", !.report = page.ws.active]
  <2>1. Begin(o, op)
    BY <1>4 DEF RunPreview
  <2>2. op \in OpState /\ Stated(op)
    BY <1>0, <1>2 DEF Kinds, OpState, Stated
  <2>. HIDE DEF op
  <2>. QED BY <2>1, <2>2, <1>8
<1>5. CASE SubmitEdit(o)
  <2>. DEFINE op == [NoOp EXCEPT !.kind = "edit", !.report = page.ws.active, !.next = page.ws.active]
  <2>1. Begin(o, op)
    BY <1>5 DEF SubmitEdit
  <2>2. op \in OpState /\ Stated(op)
    BY <1>0, <1>2 DEF Kinds, OpState, Stated
  <2>. HIDE DEF op
  <2>. QED BY <2>1, <2>2, <1>8
<1>6. ASSUME NEW r \in Report, SubmitCreate(o, r) PROVE TypeOK' /\ Turn /\ OpsInv'
  <2>. DEFINE op == [NoOp EXCEPT !.kind = "create", !.report = r, !.next = r]
  <2>1. Begin(o, op)
    BY <1>6 DEF SubmitCreate
  <2>2. op \in OpState /\ Stated(op)
    BY <1>2, ReportAssumption DEF Kinds, OpState, Stated
  <2>. HIDE DEF op
  <2>. QED BY <2>1, <2>2, <1>8
<1>7. ASSUME NEW r \in Report, DeleteReport(o, r) PROVE TypeOK' /\ Turn /\ OpsInv'
  <2>. DEFINE n == NextActive(r)
              op == [NoOp EXCEPT !.kind = "delete", !.report = r, !.next = n]
  <2>1. Begin(o, op)
    BY <1>7 DEF DeleteReport, Listed
  <2>2. n \in Nat
    <3>1. page.ws.list \ {r} \in SUBSET Nat
      BY <1>0
    <3>2. page.ws.list \ {r} # {} => Min(page.ws.list \ {r}) \in Nat
      BY <3>1, MinIsLeast
    <3>. QED BY <1>0, <3>2 DEF NextActive
  <2>. HIDE DEF n
  <2>3. op \in OpState /\ Stated(op)
    BY <1>2, <2>2, ReportAssumption DEF Kinds, OpState, Stated
  <2>. HIDE DEF op
  <2>. QED BY <1>8, <2>1, <2>3
<1>. QED
  BY <1>3, <1>4, <1>5, <1>6, <1>7 DEF Writes

\* What a handler makes of the page when its write has succeeded.
LEMMA AfterType ==
    ASSUME TypeOK, NEW op \in OpState
    PROVE  LET w == After(page, op)
           IN  /\ w \in PageState /\ w.route = page.route /\ w.gone = page.gone
               /\ w.load = page.load /\ w.loading = page.loading
               /\ w.ws.there = page.ws.there /\ w.ws.active = page.ws.active
               /\ w.pending = page.pending
               /\ w.busy = IF op.kind = "preview" THEN page.busy \ {"preview"} ELSE page.busy
               /\ "schedule" \in w.open => "schedule" \in page.open
<1>0. /\ page \in PageState /\ page.ws \in Space /\ op.report \in Nat /\ op.next \in Nat /\ op.cron \in SUBSET Cron
      /\ page.open \in SUBSET (Actions \union Forms) /\ page.busy \in SUBSET Kinds /\ op.kind \in Kinds
  BY DEF TypeOK, PageState, OpState
<1>1. CASE op.kind = "save"
  <2>. DEFINE ws == [page.ws EXCEPT !.of = op.report, !.cron = op.cron]
              w == [page EXCEPT !.ws = ws]
  <2>1. After(page, op) = IF page.ws.there THEN w ELSE page
    BY <1>0, <1>1 DEF After, Merged, PageState
  <2>2. ws \in Space /\ ws.there = page.ws.there /\ ws.active = page.ws.active
    BY <1>0 DEF Space
  <2>. HIDE DEF ws
  <2>3. /\ w \in PageState /\ w.ws = ws /\ w.route = page.route /\ w.gone = page.gone /\ w.load = page.load
        /\ w.loading = page.loading /\ w.pending = page.pending /\ w.busy = page.busy /\ w.open = page.open
    BY <1>0, <2>2 DEF PageState
  <2>. HIDE DEF w
  <2>. QED BY <1>0, <1>1, <2>1, <2>2, <2>3
<1>2. CASE op.kind = "preview"
  <2>1. After(page, op) = [page EXCEPT !.busy = page.busy \ {"preview"}]
    BY <1>2 DEF After
  <2>2. page.busy \ {"preview"} \in SUBSET Kinds
    BY <1>0
  <2>. QED BY <1>0, <1>2, <2>1, <2>2 DEF PageState
<1>3. ASSUME NEW open \in SUBSET (Actions \union Forms), NEW r \in Nat,
             After(page, op) = [page EXCEPT !.open = open, !.selected = r]
      PROVE  LET w == After(page, op)
             IN  /\ w \in PageState /\ w.route = page.route /\ w.gone = page.gone
                 /\ w.load = page.load /\ w.loading = page.loading /\ w.ws = page.ws
                 /\ w.pending = page.pending /\ w.busy = page.busy /\ w.open = open
  BY <1>0, <1>3 DEF PageState
<1>4. CASE op.kind \in {"create", "edit"}
  <2>1. After(page, op) = [page EXCEPT !.open = page.open \ {op.kind}, !.selected = op.report]
    BY <1>4 DEF After
  <2>2. page.open \ {op.kind} \in SUBSET (Actions \union Forms)
    BY <1>0
  <2>. QED BY <1>0, <1>3, <1>4, <2>1, <2>2
<1>5. CASE op.kind = "delete"
  <2>1. After(page, op) = [page EXCEPT !.open = page.open \ {"config", "create", "edit"}, !.selected = op.next]
    BY <1>5 DEF After
  <2>2. page.open \ {"config", "create", "edit"} \in SUBSET (Actions \union Forms)
    BY <1>0
  <2>. QED BY <1>0, <1>3, <1>5, <2>1, <2>2
<1>. QED
  BY <1>0, <1>1, <1>2, <1>4, <1>5 DEF Kinds

LEMMA WriteAnswerTurn ==
    ASSUME TypeOK, OpsInv, NEW o \in Operation, WriteAnswer(o)
    PROVE  TypeOK' /\ Turn /\ OpsInv'
<1>. DEFINE op == ops[o]
            over == op.result = Failed \/ op.kind = "preview"
            new == IF over THEN Done ELSE [op EXCEPT !.stage = "load"]
            w == IF op.result = Failed THEN [page EXCEPT !.busy = page.busy \ {op.kind}] ELSE After(page, op)
<1>0. op \in OpState /\ page \in PageState /\ op.next \in Nat /\ op.kind \in Kinds
  BY DEF TypeOK, OpState
<1>1. /\ Quiet /\ op.stage = "served" /\ page' = w /\ ops' = [ops EXCEPT ![o] = new]
      /\ goal' \in {goal, op.next, 0} /\ seen' = seen /\ server' = server /\ asked' = asked /\ tally' = tally
  BY DEF WriteAnswer
<1>2. /\ w \in PageState /\ w.route = page.route /\ w.gone = page.gone
      /\ w.load = page.load /\ w.loading = page.loading
      /\ w.ws.there = page.ws.there /\ w.ws.active = page.ws.active /\ w.pending = page.pending
      /\ w.busy = IF over THEN page.busy \ {op.kind} ELSE page.busy
  <2>1. CASE op.result = Failed
    <3>1. page.busy \ {op.kind} \in SUBSET Kinds
      BY <1>0 DEF PageState
    <3>. QED BY <1>0, <2>1, <3>1 DEF PageState
  <2>2. CASE op.result # Failed
    BY <1>0, <2>2, AfterType
  <2>. QED BY <2>1, <2>2
<1>3. Sound(new) /\ (~over => new.stage = "load" /\ new.kind = op.kind) /\ new.stage # "loaded"
  <2>1. InFlight(o)
    BY <1>1 DEF InFlight
  <2>2. Stated(op)
    BY <2>1 DEF TypeOK, Stated
  <2>3. CASE over
    BY <2>3, Constants_ DEF Sound
  <2>4. CASE ~over
    BY <1>0, <2>2, <2>4 DEF Sound, Stated, OpState, Stages
  <2>. QED BY <2>3, <2>4
<1>4. OpsInv'
  <2>1. ops'[o] = new /\ \A p \in Operation : p # o => ops'[p] = ops[p]
    BY <1>1 DEF TypeOK
  <2>2. \A p \in Operation : p # o => (InFlight(p)' <=> InFlight(p))
    BY <2>1 DEF InFlight
  <2>3. ~over => InFlight(o)' /\ ops'[o].kind = op.kind
    BY <1>3, <2>1 DEF InFlight
  <2>. HIDE DEF new, w
  <2>. QED BY <1>1, <1>2, <1>3, <2>1, <2>2, <2>3 DEF OpsInv
<1>5. TypeOK'
  <2>1. /\ goal' \in Nat /\ asked' \in Asked /\ tally' \in TallyState /\ server' \in ServerState
        /\ seen' = seen /\ page' \in PageState
    BY <1>0, <1>1, <1>2 DEF TypeOK, ServerState, TallyState
  <2>2. ops' = [ops EXCEPT ![o] = new] /\ Sound(new)
    BY <1>1, <1>3
  <2>. HIDE DEF new
  <2>. QED BY <2>1, <2>2, OpsType
<1>6. Turn
  BY <1>1, <1>2 DEF Turn
<1>. QED
  BY <1>4, <1>5, <1>6

\* The server carries out a request, or it is lost.
LEMMA ServedOp ==
    ASSUME TypeOK, OpsInv, NEW o \in Operation, ServeWrite(o) \/ ServeReload(o) \/ Lose(o)
    PROVE  /\ TypeOK' /\ OpsInv'
           /\ page' = page /\ seen' = seen /\ tally'.errors = tally.errors
<1>0. /\ ops[o] \in OpState /\ server \in ServerState /\ tally \in TallyState /\ ops[o].next \in Nat
  BY DEF TypeOK, ServerState, TallyState, OpState
<1>1. ASSUME NEW stage \in {"served", "loaded"}, NEW result \in Space, InFlight(o),
             ops' = [ops EXCEPT ![o] = [ops[o] EXCEPT !.stage = stage, !.result = result]],
             stage = "loaded" => result = Failed \/ result.there,
             page' = page, seen' = seen, goal' = goal, asked' = asked, server' \in ServerState,
             tally' \in TallyState, tally'.errors = tally.errors
      PROVE  /\ TypeOK' /\ OpsInv'
             /\ page' = page /\ seen' = seen /\ tally'.errors = tally.errors
  <2>. DEFINE new == [ops[o] EXCEPT !.stage = stage, !.result = result]
  <2>1. ops' = [ops EXCEPT ![o] = new]
    BY <1>1
  <2>2. /\ new \in OpState /\ new.stage = stage /\ new.kind = ops[o].kind /\ new.cron = ops[o].cron
        /\ new.result = result /\ new.report = ops[o].report
    BY <1>0, <1>1 DEF OpState, Stages
  <2>. HIDE DEF new
  <2>3. Sound(new)
    BY <1>1, <2>2 DEF Sound, Stated, TypeOK
  <2>4. TypeOK'
    BY <1>1, <2>1, <2>3, OpsType DEF TypeOK
  <2>5. ops'[o] = new /\ \A p \in Operation : p # o => ops'[p] = ops[p]
    BY <2>1 DEF TypeOK
  <2>6. \A p \in Operation : (InFlight(p)' <=> InFlight(p)) /\ ops'[p].kind = ops[p].kind
    BY <1>1, <2>2, <2>5 DEF InFlight
  <2>7. OpsInv'
    BY <1>1, <2>2, <2>5, <2>6 DEF OpsInv
  <2>. QED BY <1>1, <2>4, <2>7
<1>2. CASE ServeWrite(o)
  <2>. DEFINE result == IF ops[o].kind = "create" \/ ops[o].report \in server.reports THEN NoSpace ELSE Failed
  <2>1. /\ ops[o].stage = "sent" /\ server' = Written(ops[o])
        /\ ops' = [ops EXCEPT ![o] = [ops[o] EXCEPT !.stage = "served", !.result = result]]
        /\ UNCHANGED <<page, seen, goal, asked, tally>>
    BY <1>0, <1>2 DEF ServeWrite, TypeOK, OpState
  <2>2. result \in Space /\ InFlight(o)
    BY <2>1, Constants_ DEF InFlight
  <2>3. server' \in ServerState
    <3>1. CASE ops[o].kind = "save" /\ ops[o].report \in server.reports
      <4>1. PICK c \in Cron : ops[o].cron = {c}
        BY <2>2, <3>1 DEF TypeOK
      <4>2. (CHOOSE d \in Cron : ops[o].cron = {d}) = c
        BY <4>1
      <4>3. server' = [server EXCEPT !.cron[ops[o].report] = c]
        BY <2>1, <3>1, <4>2 DEF Written
      <4>. QED BY <1>0, <3>1, <4>3 DEF ServerState
    <3>2. CASE ops[o].kind = "delete"
      <4>1. server' = [server EXCEPT !.reports = server.reports \ {ops[o].report}]
        BY <2>1, <3>2 DEF Written
      <4>. QED BY <1>0, <4>1 DEF ServerState
    <3>3. CASE ops[o].kind = "create"
      <4>1. server' = [server EXCEPT !.reports = server.reports \union {ops[o].report}]
        BY <2>1, <3>3 DEF Written
      <4>2. ops[o].report \in Report
        BY <2>2, <3>3 DEF TypeOK
      <4>. QED BY <1>0, <4>1, <4>2 DEF ServerState
    <3>4. CASE /\ ~(ops[o].kind = "save" /\ ops[o].report \in server.reports)
               /\ ops[o].kind \notin {"delete", "create"}
      BY <1>0, <2>1, <3>4 DEF Written
    <3>. QED BY <3>1, <3>2, <3>3, <3>4
  <2>. HIDE DEF result
  <2>. QED BY <1>0, <1>1, <2>1, <2>2, <2>3
<1>3. CASE ServeReload(o)
  <2>1. /\ InFlight(o) /\ UNCHANGED <<page, seen, server, goal, asked, tally>>
        /\ ops' = [ops EXCEPT ![o] = [ops[o] EXCEPT !.stage = "loaded", !.result = Workspace(ops[o].next)]]
    BY <1>0, <1>3 DEF ServeReload, InFlight, TypeOK, OpState
  <2>2. Workspace(ops[o].next) \in Space /\ (Workspace(ops[o].next) = Failed \/ Workspace(ops[o].next).there)
    BY <1>0, WorkspaceType DEF ServerState
  <2>. QED BY <1>0, <1>1, <2>1, <2>2
<1>4. CASE Lose(o)
  <2>. DEFINE stage == IF ops[o].stage \in {"sent", "served"} THEN "served" ELSE "loaded"
  <2>1. /\ InFlight(o) /\ UNCHANGED <<page, seen, server, goal, asked>>
        /\ ops' = [ops EXCEPT ![o] = [ops[o] EXCEPT !.result = Failed, !.stage = stage]]
    BY <1>4 DEF Lose, TypeOK
  <2>0. [ops[o] EXCEPT !.result = Failed, !.stage = stage] = [ops[o] EXCEPT !.stage = stage, !.result = Failed]
    BY <1>0 DEF OpState
  <2>2. stage \in {"served", "loaded"}
    OBVIOUS
  <2>3. tally' \in TallyState /\ tally'.errors = tally.errors
    BY <1>4, FaultType DEF Lose
  <2>. HIDE DEF stage
  <2>. QED BY <1>0, <1>1, <2>0, <2>1, <2>2, <2>3, Constants_
<1>. QED
  BY <1>2, <1>3, <1>4

-----------------------------------------------------------------------------
(***************************************************************************)
(* The invariant of the commits.                                           *)
(***************************************************************************)
\* A load that goes on brings the workspace of its report or an error, and without an error there
\* is a workspace or a load that brings one.
LoadInv ==
    /\ page.loading <=> page.load # NoLoad
    /\ page.load # NoLoad =>
          \/ page.load.result = Unserved \/ page.load.result = Failed
          \/ page.load.result.there /\ (page.load.report # 0 => page.load.result.active = page.load.report)
    /\ tally.errors = 0 => page.ws.there \/ page.load # NoLoad

\* The effect of the route has done its work of the last commit.
NavInv ==
    /\ seen.active # 0 /\ seen.route # seen.active => page.route = seen.active
    /\ seen.active = 0 /\ seen.route # 0 => page.gone

\* A selected report is shown, or something is still to come that ends it: the page goes, the
\* selection is loaded or will be, the route follows a workspace that has just come, or the
\* selection follows the route.
Settling ==
    tally.errors = 0 =>
       \/ page.selected = 0 \/ page.gone
       \/ page.selected # seen.selected
       \/ page.load # NoLoad /\ page.load.report = page.selected
       \/ page.ws.there /\ page.ws.active = page.selected
       \/ page.ws.there /\ page.ws.active # seen.active /\ page.route = seen.route /\ seen.route = seen.active
       \/ page.ws.there /\ page.route # seen.route /\ page.route = page.ws.active

\* An action waits for the report that is selected, and not for one that the effects have seen.
PendInv ==
    /\ page.pending.report = 0 => page.pending = NoAction
    /\ page.pending.report # 0 => page.pending.report = page.selected \/ page.selected # seen.selected
    /\ seen.pending.report # 0 /\ seen.pending.report = seen.active /\ seen.there => page.pending # seen.pending

PageInv == LoadInv /\ NavInv /\ Settling /\ PendInv
Inv == TypeOK /\ OpsInv /\ PageInv

LEMMA QuietSees ==
    ASSUME Quiet
    PROVE  /\ seen.route = page.route /\ seen.selected = page.selected /\ seen.active = Active(page)
           /\ seen.pending = page.pending /\ seen.there = page.ws.there
           /\ page.gone = FALSE \/ ~page.gone
           /\ page.ws.there => seen.active = page.ws.active
  BY DEF Quiet, Deps, Active

LEMMA TurnKeeps ==
    ASSUME TypeOK, PageInv, Turn
    PROVE  PageInv'
<1>0. /\ seen.route = page.route /\ seen.selected = page.selected /\ seen.active = Active(page)
      /\ seen.pending = page.pending /\ seen.there = page.ws.there /\ ~page.gone
      /\ page.ws.there => seen.active = page.ws.active
  BY QuietSees DEF Turn, Quiet
<1>1. LoadInv'
  BY DEF PageInv, LoadInv, Turn
<1>2. NavInv'
  BY <1>0 DEF PageInv, NavInv, Turn
<1>3. Settling'
  BY <1>0 DEF PageInv, Settling, Turn
<1>4. PendInv'
  BY <1>0 DEF PageInv, PendInv, Turn
<1>. QED
  BY <1>1, <1>2, <1>3, <1>4 DEF PageInv

\* The server answers the load of the page, or it is lost.
LEMMA LoadServed ==
    ASSUME Inv, ServeLoad \/ LoseLoad
    PROVE  Inv'
<1>0. /\ page \in PageState /\ page.load \in [report : Nat, result : Space] /\ page.load.report \in Nat
      /\ server \in ServerState /\ tally \in TallyState /\ TypeOK
  BY DEF Inv, TypeOK, PageState, ServerState, TallyState
<1>1. ASSUME NEW result \in Space, page' = [page EXCEPT !.load.result = result],
             page.load # NoLoad,
             \/ result = Failed
             \/ result.there /\ (page.load.report # 0 => result.active = page.load.report),
             UNCHANGED <<seen, server, ops, goal, asked>>, tally' \in TallyState, tally'.errors = tally.errors
      PROVE  Inv'
  <2>. DEFINE load == [page.load EXCEPT !.result = result]
  <2>1. page' = [page EXCEPT !.load = load]
    BY <1>0, <1>1 DEF PageState
  <2>2. load \in [report : Nat, result : Space] /\ load.result = result /\ load.report = page.load.report
    BY <1>0
  <2>. HIDE DEF load
  <2>3. /\ page' \in PageState /\ page'.load = load /\ page'.ws = page.ws /\ page'.selected = page.selected
        /\ page'.route = page.route /\ page'.gone = page.gone /\ page'.pending = page.pending
        /\ page'.busy = page.busy /\ page'.loading = page.loading
    BY <1>0, <2>1, <2>2 DEF PageState
  <2>4. load # NoLoad
    BY <1>1, <2>2, Constants_
  <2>5. TypeOK'
    BY <1>0, <1>1, <2>3, PageType DEF TypeOK, SeenState
  <2>6. OpsInv'
    BY <1>1, <2>3 DEF Inv, OpsInv, InFlight
  <2>7. LoadInv'
    BY <1>1, <2>2, <2>3, <2>4 DEF Inv, PageInv, LoadInv
  <2>8. NavInv' /\ PendInv'
    BY <1>1, <2>3 DEF Inv, PageInv, NavInv, PendInv
  <2>9. Settling'
    BY <1>1, <2>2, <2>3, <2>4 DEF Inv, PageInv, Settling
  <2>. QED BY <2>5, <2>6, <2>7, <2>8, <2>9 DEF Inv, PageInv
<1>2. CASE ServeLoad
  <2>1. page.load # NoLoad
    BY <1>2, Constants_ DEF ServeLoad
  <2>2. /\ Workspace(page.load.report) \in Space
        /\ \/ Workspace(page.load.report) = Failed
           \/ /\ Workspace(page.load.report).there
              /\ page.load.report # 0 => Workspace(page.load.report).active = page.load.report
    BY <1>0, WorkspaceType DEF ServerState
  <2>. QED BY <1>0, <1>1, <1>2, <2>1, <2>2 DEF ServeLoad
<1>3. CASE LoseLoad
  <2>1. tally' \in TallyState /\ tally'.errors = tally.errors
    BY <1>0, <1>3, FaultType DEF LoseLoad, Fault
  <2>. QED BY <1>1, <1>3, <2>1, Constants_ DEF LoseLoad
<1>. QED
  BY <1>2, <1>3

\* A workspace that comes at a page at rest, or an error instead.
LEMMA ShowingKeeps ==
    ASSUME Inv, Quiet, NEW ws \in Space,
           page' \in PageState, page'.ws = ws, page'.selected = page.selected, page'.route = page.route,
           page'.gone = page.gone, page'.pending = page.pending,
           page'.loading <=> page'.load # NoLoad,
           page'.load \in {page.load, NoLoad}, seen' = seen,
           \/ tally'.errors = 1
           \/ /\ tally'.errors = tally.errors /\ ws.there
              /\ \/ page'.load = page.load
                 \/ page.load.report # 0 => ws.active = page.load.report
    PROVE  PageInv'
<1>0. /\ seen.route = page.route /\ seen.selected = page.selected /\ seen.active = Active(page)
      /\ seen.pending = page.pending /\ seen.there = page.ws.there /\ ~page.gone
      /\ page.ws.there => seen.active = page.ws.active
  BY QuietSees DEF Quiet
<1>1. LoadInv'
  BY DEF Inv, PageInv, LoadInv
<1>2. NavInv'
  BY DEF Inv, PageInv, NavInv
<1>3. Settling'
  <2>. SUFFICES ASSUME tally'.errors = 0, page.selected # 0, page'.ws.active # page.selected
               PROVE  Settling'
    BY DEF Settling
  <2>1. tally.errors = 0 /\ ws.there
    OBVIOUS
  <2>2. CASE page.load # NoLoad /\ page.load.report = page.selected
    BY <2>1, <2>2 DEF Settling
  <2>3. CASE page.ws.there /\ page.ws.active = page.selected
    <3>1. seen.active = page.selected /\ seen.route = seen.active
      BY <1>0, <2>3 DEF Inv, PageInv, NavInv
    <3>. QED BY <1>0, <2>1, <3>1 DEF Settling
  <2>. QED BY <1>0, <2>1, <2>2, <2>3 DEF Inv, PageInv, Settling
<1>4. PendInv'
  BY DEF Inv, PageInv, PendInv
<1>. QED
  BY <1>1, <1>2, <1>3, <1>4 DEF PageInv

LEMMA LoadAnswered ==
    ASSUME Inv, LoadAnswer
    PROVE  Inv'
<1>. DEFINE result == page.load.result
            ws == IF result = Failed THEN page.ws ELSE result
<1>0. /\ page \in PageState /\ page.ws \in Space /\ result \in Space /\ TypeOK
      /\ NoLoad \in [report : Nat, result : Space]
  BY Constants_ DEF Inv, TypeOK, PageState
<1>1. /\ Quiet /\ page.load # NoLoad /\ result # Unserved /\ UNCHANGED <<seen, server, ops, goal, asked>>
      /\ Counted(result)
      /\ page' = [page EXCEPT !.ws = ws, !.load = NoLoad, !.loading = FALSE]
  BY <1>0 DEF LoadAnswer, Showing, PageState
<1>2. tally' \in TallyState /\ tally'.errors = IF result = Failed THEN 1 ELSE tally.errors
  BY <1>0, <1>1, CountedType
<1>3. result # Failed => result.there /\ (page.load.report # 0 => result.active = page.load.report)
  BY <1>1 DEF Inv, PageInv, LoadInv
<1>4. ws \in Space
  BY <1>0
<1>5. result # Failed => ws = result
  OBVIOUS
<1>. HIDE DEF ws, result
<1>6. /\ page' \in PageState /\ page'.ws = ws /\ page'.selected = page.selected /\ page'.route = page.route
      /\ page'.gone = page.gone /\ page'.pending = page.pending /\ page'.load = NoLoad /\ ~page'.loading
      /\ page'.busy = page.busy
  BY <1>0, <1>1, <1>4 DEF PageState
<1>7. TypeOK'
  BY <1>0, <1>1, <1>2, <1>6, PageType DEF TypeOK, SeenState, ServerState
<1>8. OpsInv'
  BY <1>1, <1>6 DEF Inv, OpsInv, InFlight
<1>9. PageInv'
  BY <1>1, <1>2, <1>3, <1>4, <1>5, <1>6, ShowingKeeps
<1>. QED
  BY <1>7, <1>8, <1>9 DEF Inv

LEMMA ReloadAnswered ==
    ASSUME Inv, NEW o \in Operation, ReloadAnswer(o)
    PROVE  Inv'
<1>. DEFINE op == ops[o]
            ws == IF op.result = Failed THEN (IF op.kind = "save" THEN page.ws ELSE NoSpace) ELSE op.result
            busy == page.busy \ {op.kind}
            open == IF op.result # Failed /\ op.kind = "save" THEN page.open \ {"schedule"} ELSE page.open
<1>0. /\ page \in PageState /\ page.ws \in Space /\ op \in OpState /\ op.result \in Space /\ TypeOK
      /\ page.busy \in SUBSET Kinds /\ page.open \in SUBSET (Actions \union Forms) /\ OpsInv
  BY DEF Inv, TypeOK, PageState, OpState
<1>1. /\ Quiet /\ op.stage = "loaded" /\ UNCHANGED <<seen, server, goal, asked>> /\ Counted(op.result)
      /\ ops' = [ops EXCEPT ![o] = Done]
      /\ page' = [page EXCEPT !.ws = ws, !.busy = busy, !.open = open]
  <2>1. CASE op.result = Failed
    <3>1. page' = NotReloaded(page, op)
      BY <2>1 DEF ReloadAnswer
    <3>2. NotReloaded(page, op) = [page EXCEPT !.ws = ws, !.busy = busy, !.open = open]
      BY <1>0, <2>1 DEF NotReloaded, PageState
    <3>. QED BY <3>1, <3>2 DEF ReloadAnswer
  <2>2. CASE op.result # Failed
    BY <2>2 DEF ReloadAnswer
  <2>. QED BY <2>1, <2>2
<1>2. tally' \in TallyState /\ tally'.errors = IF op.result = Failed THEN 1 ELSE tally.errors
  BY <1>0, <1>1, CountedType
<1>3. op.result # Failed => op.result.there
  BY <1>0, <1>1 DEF OpsInv
<1>4. ws \in Space /\ busy \in SUBSET Kinds /\ open \in SUBSET (Actions \union Forms)
  BY <1>0, Constants_
<1>5. op.result # Failed => ws.there
  BY <1>3
<1>. HIDE DEF ws, open
<1>6. /\ page' \in PageState /\ page'.ws = ws /\ page'.selected = page.selected /\ page'.route = page.route
      /\ page'.gone = page.gone /\ page'.pending = page.pending /\ page'.load = page.load
      /\ page'.loading = page.loading /\ page'.busy = busy
  BY <1>0, <1>1, <1>4 DEF PageState
<1>7. TypeOK'
  <2>1. Sound(Done)
    BY Constants_ DEF Sound
  <2>. QED BY <1>0, <1>1, <1>2, <1>6, <2>1, OpsType DEF TypeOK, ServerState
<1>8. OpsInv'
  <2>1. ops'[o] = Done /\ \A p \in Operation : p # o => ops'[p] = ops[p]
    BY <1>1 DEF Inv, TypeOK
  <2>2. \A p \in Operation : p # o => (InFlight(p)' <=> InFlight(p))
    BY <2>1 DEF InFlight
  <2>. QED BY <1>0, <1>6, <2>1, <2>2, Constants_ DEF OpsInv
<1>9. page'.loading <=> page'.load # NoLoad
  BY <1>6 DEF Inv, PageInv, LoadInv
<1>10. PageInv'
  BY <1>1, <1>2, <1>4, <1>5, <1>6, <1>9, ShowingKeeps
<1>. QED
  BY <1>7, <1>8, <1>10 DEF Inv

-----------------------------------------------------------------------------
LEMMA CommitKeeps ==
    ASSUME Inv, Commit
    PROVE  Inv'
<1>. DEFINE c == {k \in DOMAIN Deps(page) : seen[k] # Deps(page)[k]}
            moved == c \intersect {"active", "route"} # {}
            told == c \intersect {"active", "there", "pending"} # {}
            load == IF "selected" \in c THEN [report |-> page.selected, result |-> Unserved] ELSE page.load
            waits == page.pending.report # 0 /\ page.pending.report = Active(page) /\ page.ws.there
<1>0. page \in PageState /\ TypeOK /\ page.selected \in Nat /\ page.route \in Nat /\ Active(page) \in Nat
      /\ page.pending \in Asked /\ page.ws.there \in BOOLEAN
  BY DEF Inv, TypeOK, PageState, Space, Active
<1>1. ~page.gone /\ page' = Effects(page, c) /\ seen' = Deps(page) /\ UNCHANGED <<server, ops, goal, asked, tally>>
  BY DEF Commit
<1>2. /\ "route" \in c <=> seen.route # page.route
      /\ "selected" \in c <=> seen.selected # page.selected
      /\ "active" \in c <=> seen.active # Active(page)
      /\ "pending" \in c <=> seen.pending # page.pending
      /\ "there" \in c <=> seen.there # page.ws.there
  BY DEF Deps
<1>3. /\ seen'.route = page.route /\ seen'.selected = page.selected /\ seen'.active = Active(page)
      /\ seen'.pending = page.pending /\ seen'.there = page.ws.there /\ seen' \in SeenState
  BY <1>0, <1>1 DEF Deps, SeenState
<1>4. /\ moved <=> seen.active # Active(page) \/ seen.route # page.route
      /\ told <=> seen.active # Active(page) \/ seen.there # page.ws.there \/ seen.pending # page.pending
  BY <1>2
<1>. HIDE DEF c
<1>5. /\ page' \in PageState
      /\ page'.ws = page.ws
      /\ page'.selected = IF "route" \in c THEN page.route ELSE page.selected
      /\ page'.load = load
      /\ page'.loading = (IF "selected" \in c THEN TRUE ELSE page.loading)
      /\ page'.busy = IF "selected" \in c THEN {} ELSE page.busy
      /\ page'.route = IF moved /\ NavNeeded(page) THEN Active(page) ELSE page.route
      /\ page'.gone = (IF moved /\ ~NavNeeded(page) /\ Active(page) = 0 /\ page.route # 0 THEN TRUE ELSE page.gone)
      /\ page'.pending = IF told /\ waits THEN NoAction
                         ELSE IF "selected" \in c THEN NoAction ELSE page.pending
  <2>1. FieldsOf(page', page, c)
    BY <1>0, <1>1, EffectsOf
  <2>. QED BY <2>1 DEF FieldsOf
<1>. HIDE DEF moved, told
<1>6. TypeOK'
  BY <1>0, <1>1, <1>3, <1>5, PageType DEF TypeOK, ServerState, TallyState
<1>7. OpsInv'
  BY <1>1, <1>5 DEF Inv, OpsInv, InFlight
<1>8. LoadInv'
  <2>1. CASE "selected" \in c
    <3>1. /\ page'.load = [report |-> page.selected, result |-> Unserved] /\ page'.loading = TRUE
      BY <1>5, <2>1
    <3>2. page'.load # NoLoad /\ page'.load.result = Unserved
      BY <3>1, Constants_
    <3>. QED BY <3>1, <3>2 DEF LoadInv
  <2>2. CASE "selected" \notin c
    BY <1>1, <1>5, <2>2 DEF Inv, PageInv, LoadInv
  <2>. QED BY <2>1, <2>2
<1>9. NavInv'
  BY <1>1, <1>3, <1>4, <1>5 DEF Inv, PageInv, NavInv, NavNeeded
<1>10. Settling'
  <2>. SUFFICES ASSUME tally.errors = 0, page'.selected # 0, ~page'.gone, page'.selected = page.selected
               PROVE  Settling'
    BY <1>1, <1>3 DEF Settling
  <2>1. CASE "selected" \in c
    <3>1. page'.load = [report |-> page.selected, result |-> Unserved]
      BY <1>5, <2>1
    <3>2. page'.load # NoLoad /\ page'.load.report = page.selected
      BY <3>1, Constants_
    <3>. QED BY <3>2 DEF Settling
  <2>. SUFFICES ASSUME "selected" \notin c, page'.load = page.load, page.selected = seen.selected PROVE Settling'
    BY <1>2, <1>5, <2>1
  <2>2. CASE page.load # NoLoad /\ page.load.report = page.selected
    BY <2>2 DEF Settling
  <2>3. CASE page.ws.there /\ page.ws.active = page.selected
    BY <1>5, <2>3 DEF Settling
  <2>4. CASE page.ws.there /\ page.ws.active # seen.active /\ page.route = seen.route /\ seen.route = seen.active
    <3>1. Active(page) = page.ws.active /\ moved
      BY <1>4, <2>4 DEF Active
    <3>2. CASE page.ws.active = 0
      BY <1>5, <2>4, <3>1, <3>2 DEF NavNeeded
    <3>3. CASE page.ws.active # 0
      <4>1. page'.route = page.ws.active /\ page'.route # seen'.route
        BY <1>3, <1>5, <2>4, <3>1, <3>3 DEF NavNeeded
      <4>. QED BY <1>5, <2>4, <4>1 DEF Settling
    <3>. QED BY <3>2, <3>3
  <2>5. CASE page.ws.there /\ page.route # seen.route /\ page.route = page.ws.active
    BY <1>2, <1>5, <2>5 DEF Settling
  <2>. QED BY <1>1, <2>2, <2>3, <2>4, <2>5 DEF Inv, PageInv, Settling
<1>11. PendInv'
  <2>1. page'.pending.report = 0 => page'.pending = NoAction
    BY <1>5 DEF Inv, PageInv, PendInv
  <2>2. page'.pending.report # 0 => page'.pending.report = page'.selected \/ page'.selected # seen'.selected
    <3>. SUFFICES ASSUME page'.pending.report # 0, page'.selected = page.selected
                 PROVE  page'.pending.report = page'.selected
      BY <1>3
    <3>1. page'.pending = page.pending /\ "selected" \notin c
      BY <1>5, Constants_
    <3>. QED BY <1>2, <3>1 DEF Inv, PageInv, PendInv
  <2>3. seen'.pending.report # 0 /\ seen'.pending.report = seen'.active /\ seen'.there => page'.pending # seen'.pending
    <3>. SUFFICES ASSUME waits PROVE page'.pending # page.pending
      BY <1>3
    <3>1. CASE told
      BY <1>5, <3>1, Constants_
    <3>2. CASE ~told
      BY <1>4, <3>2 DEF Inv, PageInv, PendInv
    <3>. QED BY <3>1, <3>2
  <2>. QED BY <2>1, <2>2, <2>3 DEF PendInv
<1>. QED
  BY <1>6, <1>7, <1>8, <1>9, <1>10, <1>11 DEF Inv, PageInv

-----------------------------------------------------------------------------
LEMMA InitInv == Init => Inv
<1>. SUFFICES ASSUME Init PROVE Inv
  OBVIOUS
<1>1. PICK r \in AtFirst \union {0} : page = Opened(r)
  BY DEF Init
<1>2. r \in Nat
  BY ReportAssumption
<1>3. [report |-> r, result |-> Unserved] \in [report : Nat, result : Space]
  BY <1>2, Constants_
<1>4. page \in PageState /\ page.ws = NoSpace /\ page.selected = r /\ page.route = r /\ page.gone = FALSE
      /\ page.pending = NoAction /\ page.busy = {} /\ page.loading = TRUE
      /\ page.load = [report |-> r, result |-> Unserved]
  BY <1>1, <1>2, <1>3, Constants_ DEF Opened, PageState
<1>5. /\ seen = Deps(page) /\ ops = [o \in Operation |-> NoOp] /\ goal = r /\ asked = NoAction
      /\ tally = [clicks |-> 0, faults |-> 0, unsaid |-> 0, errors |-> 0, overlaps |-> 0]
      /\ server \in {[reports |-> AtFirst, cron |-> [s \in Report |-> d]] : d \in Cron}
  BY <1>4 DEF Init
<1>6. /\ seen.route = r /\ seen.selected = r /\ seen.active = r /\ seen.pending = NoAction
      /\ seen.there = FALSE /\ seen \in SeenState
  BY <1>2, <1>4, <1>5, Constants_ DEF Deps, Active, SeenState, NoSpace
<1>7. server \in ServerState
  <2>1. PICK d \in Cron : server = [reports |-> AtFirst, cron |-> [s \in Report |-> d]]
    BY <1>5
  <2>. QED BY <2>1, ReportAssumption DEF ServerState
<1>8. tally \in TallyState /\ tally.errors = 0
  BY <1>5 DEF TallyState
<1>9. \A o \in Operation : ops[o] = NoOp /\ ~InFlight(o)
  BY <1>5, Constants_ DEF InFlight
<1>10. TypeOK
  BY <1>2, <1>4, <1>5, <1>6, <1>7, <1>8, <1>9, Constants_ DEF TypeOK, SeenState, ServerState, TallyState
<1>11. OpsInv
  BY <1>4, <1>9, Constants_ DEF OpsInv
<1>12. page.load # NoLoad /\ page.load.report = r /\ page.load.result = Unserved
  BY <1>4, Constants_
<1>13. LoadInv /\ NavInv /\ Settling /\ PendInv
  BY <1>4, <1>6, <1>12, Constants_ DEF LoadInv, NavInv, Settling, PendInv
<1>. QED
  BY <1>10, <1>11, <1>13 DEF Inv, PageInv

LEMMA StepInv == Inv /\ [Next]_vars => Inv'
<1>. SUFFICES ASSUME Inv, [Next]_vars PROVE Inv'
  OBVIOUS
<1>0. TypeOK /\ OpsInv /\ PageInv
  BY DEF Inv
<1>1. ASSUME TypeOK' /\ Turn /\ OpsInv' PROVE Inv'
  BY <1>0, <1>1, TurnKeeps DEF Inv
<1>2. CASE Commit
  BY <1>2, CommitKeeps
<1>3. CASE Answers
  <2>1. CASE ServeLoad \/ LoseLoad
    BY <2>1, LoadServed
  <2>2. CASE LoadAnswer
    BY <2>2, LoadAnswered
  <2>3. ASSUME NEW o \in Operation, ServeWrite(o) \/ ServeReload(o) \/ Lose(o) PROVE Inv'
    <3>1. /\ TypeOK' /\ OpsInv' /\ page' = page /\ seen' = seen /\ tally'.errors = tally.errors
      BY <1>0, <2>3, ServedOp
    <3>. QED BY <1>0, <3>1 DEF Inv, PageInv, LoadInv, NavInv, Settling, PendInv
  <2>4. ASSUME NEW o \in Operation, WriteAnswer(o) PROVE Inv'
    BY <1>0, <1>1, <2>4, WriteAnswerTurn
  <2>5. ASSUME NEW o \in Operation, ReloadAnswer(o) PROVE Inv'
    BY <2>5, ReloadAnswered
  <2>6. CASE \E form \in {"create", "edit"}, ok \in BOOLEAN : FormOpens(form, ok)
    BY <1>0, <1>1, <2>6, DialogTurn
  <2>. QED BY <1>3, <2>1, <2>2, <2>3, <2>4, <2>5, <2>6 DEF Answers
<1>4. CASE \/ \E r \in Report : Pick(r) \/ (\E action \in Actions : OpenAction(r, action))
           \/ \E form \in {"create", "edit"} : OpenForm(form)
  BY <1>0, <1>1, <1>4, UserTurn
<1>5. CASE \E d \in Actions \union {"create", "edit"} : CloseDialog(d)
  BY <1>0, <1>1, <1>5, DialogTurn
<1>6. ASSUME NEW o \in Operation, Writes(o) PROVE Inv'
  BY <1>0, <1>1, <1>6, WritesTurn
<1>7. CASE UNCHANGED vars
  BY <1>7 DEF vars, Inv, TypeOK, OpsInv, InFlight, PageInv, LoadInv, NavInv, Settling, PendInv
<1>. QED
  BY <1>2, <1>3, <1>4, <1>5, <1>6, <1>7 DEF Next

THEOREM Invariant == Spec => []Inv
  BY InitInv, StepInv, PTL DEF Spec

\* The page, the server and the requests always have the shape that TypeOK states.
THEOREM TypeCorrect == Spec => []TypeOK
<1>1. Inv => TypeOK
  BY DEF Inv
<1>. QED
  BY <1>1, Invariant, PTL

\* When everything is answered, the address, the selection and the workspace of the page name one
\* report.
THEOREM RouteFollowed == Spec => []RouteFollows
<1>1. Inv => RouteFollows
  <2>. SUFFICES ASSUME Inv, AtRest, tally.errors = 0, page.ws.there
               PROVE  page.route = page.ws.active /\ page.selected \in {0, page.ws.active}
    BY DEF RouteFollows
  <2>1. /\ seen.route = page.route /\ seen.selected = page.selected /\ seen.active = page.ws.active
        /\ ~page.gone /\ page.load = NoLoad
    BY QuietSees DEF AtRest, Quiet
  <2>2. page.route = page.ws.active
    BY <2>1 DEF Inv, PageInv, NavInv
  <2>3. page.selected \in {0, page.ws.active}
    BY <2>1 DEF Inv, PageInv, Settling
  <2>. QED BY <2>2, <2>3
<1>. QED
  BY <1>1, Invariant, PTL

\* Nothing says that it goes on when it does not: the loading sign, the busy buttons, and an action
\* that waits for its report.
THEOREM BusyTrue == Spec => []BusyIsTrue
<1>1. Inv => BusyIsTrue
  <2>. SUFFICES ASSUME Inv PROVE BusyIsTrue
    OBVIOUS
  <2>1. page.loading <=> page.load # NoLoad
    BY DEF Inv, PageInv, LoadInv
  <2>2. \A kind \in page.busy : \E o \in Operation : InFlight(o) /\ ops[o].kind = kind
    BY DEF Inv, OpsInv
  <2>3. ASSUME AtRest, tally.errors = 0 PROVE page.pending = NoAction
    <3>1. /\ seen.selected = page.selected /\ seen.pending = page.pending /\ seen.there = page.ws.there
          /\ page.ws.there => seen.active = page.ws.active
          /\ seen.route = page.route /\ ~page.gone /\ page.load = NoLoad
      BY <2>3, QuietSees DEF AtRest, Quiet
    <3>2. page.ws.there
      BY <2>3, <3>1 DEF Inv, PageInv, LoadInv
    <3>3. page.selected \in {0, page.ws.active}
      BY <2>3, <3>1 DEF Inv, PageInv, Settling
    <3>4. page.pending.report = 0
      BY <3>1, <3>2, <3>3 DEF Inv, PageInv, PendInv
    <3>. QED BY <3>4 DEF Inv, PageInv, PendInv
  <2>. QED BY <2>1, <2>2, <2>3 DEF BusyIsTrue
<1>. QED
  BY <1>1, Invariant, PTL
-----------------------------------------------------------------------------
(***************************************************************************)
(* The dialog of the schedule and the load of the selection.               *)
(***************************************************************************)
\* The effects have not opened a dialog for a selection that they have not seen yet, and while its
\* load goes on the schedule's dialog is closed and no action waits to open it: no save begins
\* then, although a create or an edit may.
DialogInv ==
    /\ page.selected # seen.selected /\ page.pending.report # 0 /\ page.ws.there
          => page.pending.report # page.ws.active
    /\ page.load # NoLoad /\ page.selected = seen.selected
          => "schedule" \notin page.open /\ page.pending.report = 0

LEMMA DialogInit == Init => DialogInv
<1>. SUFFICES ASSUME Init PROVE DialogInv
  OBVIOUS
<1>1. PICK r \in AtFirst \union {0} : page = Opened(r)
  BY DEF Init
<1>2. page.pending = NoAction /\ page.open = {}
  BY <1>1 DEF Opened
<1>. QED
  BY <1>2, Constants_ DEF DialogInv

LEMMA DialogStep == Inv /\ DialogInv /\ [Next]_vars => DialogInv'
<1>. SUFFICES ASSUME Inv, DialogInv, [Next]_vars PROVE DialogInv'
  OBVIOUS
<1>0. /\ page \in PageState /\ TypeOK /\ page.open \in SUBSET (Actions \union Forms)
      /\ page.load \in [report : Nat, result : Space]
      /\ page.busy \in SUBSET Kinds /\ page.opening \in SUBSET Forms /\ page.pending \in Asked
  BY DEF Inv, TypeOK, PageState
\* An event at a page whose effects are done.
<1>1. ASSUME Quiet, seen' = seen, page'.pending = page.pending,
             page'.ws.there = page.ws.there, page'.ws.active = page.ws.active,
             page'.load = page.load,
             "schedule" \in page'.open => "schedule" \in page.open \/ page.load = NoLoad
      PROVE  DialogInv'
  <2>1. /\ seen.selected = page.selected /\ seen.pending = page.pending /\ seen.there = page.ws.there
        /\ page.ws.there => seen.active = page.ws.active
    BY <1>1, QuietSees
  <2>2. page.pending.report # 0 /\ page.ws.there => page.pending.report # page.ws.active
    BY <2>1 DEF Inv, PageInv, PendInv
  <2>. QED BY <1>1, <2>1, <2>2 DEF DialogInv
<1>2. CASE Commit
  <2>. DEFINE c == {k \in DOMAIN Deps(page) : seen[k] # Deps(page)[k]}
              told == c \intersect {"active", "there", "pending"} # {}
              waits == page.pending.report # 0 /\ page.pending.report = Active(page) /\ page.ws.there
  <2>1. page' = Effects(page, c) /\ seen' = Deps(page)
    BY <1>2 DEF Commit
  <2>2. /\ "route" \in c <=> seen.route # page.route
        /\ "selected" \in c <=> seen.selected # page.selected
        /\ told <=> seen.active # Active(page) \/ seen.there # page.ws.there \/ seen.pending # page.pending
    BY DEF Deps
  <2>3. seen'.selected = page.selected
    BY <2>1 DEF Deps
  <2>. HIDE DEF c
  <2>4. /\ page'.ws = page.ws
        /\ page'.selected = IF "route" \in c THEN page.route ELSE page.selected
        /\ "selected" \notin c => page'.load = page.load
        /\ page'.pending = IF told /\ waits THEN NoAction
                           ELSE IF "selected" \in c THEN NoAction ELSE page.pending
        /\ "schedule" \in page'.open => ("selected" \notin c /\ "schedule" \in page.open) \/ (told /\ waits)
    <3>1. FieldsOf(page', page, c) /\ DialogOf(page', page, c)
      BY <1>0, <2>1, EffectsOf
    <3>. QED BY <3>1 DEF FieldsOf, DialogOf
  <2>5. page.ws.there => Active(page) = page.ws.active
    BY DEF Active
  <2>. HIDE DEF told
  <2>6. CASE "selected" \in c
    <3>1. ~waits
      BY <2>2, <2>5, <2>6 DEF DialogInv
    <3>2. page'.pending = NoAction /\ "schedule" \notin page'.open
      BY <2>4, <2>6, <3>1
    <3>. QED BY <3>2, Constants_ DEF DialogInv
  <2>7. CASE "selected" \notin c
    <3>1. page'.pending.report # 0 => page'.pending = page.pending /\ ~(told /\ waits)
      BY <2>4, <2>7, Constants_
    <3>2. ASSUME page'.pending.report # 0, page.ws.there PROVE page'.pending.report # page.ws.active
      <4>. SUFFICES ASSUME waits PROVE FALSE
        BY <2>5, <3>1, <3>2
      <4>1. ~told
        BY <3>1, <3>2
      <4>. QED BY <2>2, <4>1 DEF Inv, PageInv, PendInv
    <3>3. ASSUME page'.load # NoLoad, page'.selected = page.selected
          PROVE  "schedule" \notin page'.open /\ page'.pending.report = 0
      <4>1. page.load # NoLoad /\ page.selected = seen.selected
        BY <2>2, <2>4, <2>7, <3>3
      <4>2. "schedule" \notin page.open /\ page.pending.report = 0
        BY <4>1 DEF DialogInv
      <4>. QED BY <2>4, <3>1, <4>2
    <3>. QED BY <2>3, <2>4, <3>2, <3>3 DEF DialogInv
  <2>. QED BY <2>6, <2>7
<1>3. CASE ServeLoad \/ LoseLoad
  <2>1. PICK result : page' = [page EXCEPT !.load.result = result] /\ seen' = seen /\ page.load # NoLoad
    BY <1>3, Constants_ DEF ServeLoad, LoseLoad
  <2>2. /\ page'.ws = page.ws /\ page'.selected = page.selected /\ page'.pending = page.pending
        /\ page'.open = page.open
    BY <1>0, <2>1 DEF PageState
  <2>. QED BY <2>1, <2>2 DEF DialogInv
<1>4. CASE LoadAnswer
  <2>. DEFINE ws == IF page.load.result = Failed THEN page.ws ELSE page.load.result
  <2>1. Quiet /\ seen' = seen /\ page' = [page EXCEPT !.ws = ws, !.load = NoLoad, !.loading = FALSE]
    BY <1>0, <1>4 DEF LoadAnswer, Showing, PageState
  <2>. HIDE DEF ws
  <2>2. page'.selected = page.selected /\ page'.load = NoLoad
    BY <1>0, <2>1 DEF PageState
  <2>. QED BY <2>1, <2>2, QuietSees DEF DialogInv
<1>5. ASSUME NEW o \in Operation, ReloadAnswer(o) PROVE DialogInv'
  <2>. DEFINE op == ops[o]
              ws == IF op.result = Failed THEN (IF op.kind = "save" THEN page.ws ELSE NoSpace) ELSE op.result
              busy == page.busy \ {op.kind}
              open == IF op.result # Failed /\ op.kind = "save" THEN page.open \ {"schedule"} ELSE page.open
  <2>1. Quiet /\ seen' = seen /\ page' = [page EXCEPT !.ws = ws, !.busy = busy, !.open = open]
    <3>1. CASE op.result = Failed
      <4>1. NotReloaded(page, op) = [page EXCEPT !.ws = ws, !.busy = busy, !.open = open]
        BY <1>0, <3>1 DEF NotReloaded, PageState
      <4>. QED BY <1>5, <3>1, <4>1 DEF ReloadAnswer
    <3>2. CASE op.result # Failed
      BY <1>5, <3>2 DEF ReloadAnswer
    <3>. QED BY <3>1, <3>2
  <2>3. open \subseteq page.open
    OBVIOUS
  <2>. HIDE DEF ws, busy, open
  <2>2. /\ page'.selected = page.selected /\ page'.load = page.load /\ page'.pending = page.pending
        /\ page'.open = open
    BY <1>0, <2>1 DEF PageState
  <2>. QED BY <2>1, <2>2, <2>3, QuietSees DEF DialogInv
<1>6. ASSUME NEW o \in Operation, WriteAnswer(o) PROVE DialogInv'
  <2>. DEFINE op == ops[o]
  <2>1. Quiet /\ seen' = seen
        /\ page' = IF op.result = Failed THEN [page EXCEPT !.busy = page.busy \ {op.kind}] ELSE After(page, op)
    BY <1>6 DEF WriteAnswer
  <2>2. op \in OpState
    BY <1>0 DEF TypeOK
  <2>. HIDE DEF op
  <2>3. /\ page'.ws.there = page.ws.there /\ page'.ws.active = page.ws.active
        /\ page'.pending = page.pending /\ page'.load = page.load
        /\ "schedule" \in page'.open => "schedule" \in page.open
    <3>1. CASE op.result = Failed
      BY <1>0, <2>1, <3>1 DEF PageState
    <3>2. CASE op.result # Failed
      BY <1>0, <2>1, <2>2, <3>2, AfterType
    <3>. QED BY <3>1, <3>2
  <2>. QED BY <1>1, <2>1, <2>3
<1>7. ASSUME NEW o \in Operation, ServeWrite(o) \/ ServeReload(o) \/ Lose(o) PROVE DialogInv'
  BY <1>7 DEF ServeWrite, ServeReload, Lose, DialogInv
\* The list is there only when nothing is loaded.
<1>8. ASSUME NEW r \in Report, Pick(r) \/ \E action \in Actions : OpenAction(r, action) PROVE DialogInv'
  <2>1. page.load = NoLoad /\ seen' = seen /\ Quiet
    BY <1>8 DEF Pick, OpenAction, Listed, Click, Clicked, Inv, PageInv, LoadInv
  <2>2. CASE Pick(r)
    <3>1. page' = [page EXCEPT !.selected = r]
      BY <2>2 DEF Pick, Clicked
    <3>2. page'.ws = page.ws /\ page'.pending = page.pending /\ page'.load = page.load
      BY <1>0, <3>1 DEF PageState
    <3>. QED BY <1>1, <2>1, <3>2
  <2>3. ASSUME NEW action \in Actions, OpenAction(r, action) PROVE DialogInv'
    <3>1. CASE Active(page) = r /\ page.ws.there
      <4>1. page' = [page EXCEPT !.open = page.open \union {action}]
        BY <2>3, <3>1 DEF OpenAction, Clicked
      <4>2. page'.ws = page.ws /\ page'.pending = page.pending /\ page'.load = page.load
        BY <1>0, <4>1 DEF PageState
      <4>. QED BY <1>1, <2>1, <4>2
    <3>2. CASE ~(Active(page) = r /\ page.ws.there)
      <4>. DEFINE a == [report |-> r, action |-> action]
                  open == page.open \ Actions
      <4>1. page' = [page EXCEPT !.open = open, !.selected = r, !.pending = a]
        BY <2>3, <3>2 DEF OpenAction, Clicked
      <4>2. a.report = r
        OBVIOUS
      <4>. HIDE DEF a, open
      <4>3. page'.ws = page.ws /\ page'.pending = a /\ page'.load = page.load
        BY <1>0, <4>1 DEF PageState
      <4>. QED BY <2>1, <3>2, <4>2, <4>3 DEF DialogInv, Active
    <3>. QED BY <3>1, <3>2
  <2>. QED BY <1>8, <2>2, <2>3
<1>9. ASSUME NEW d, CloseDialog(d) PROVE DialogInv'
  <2>. DEFINE open == page.open \ {d}
  <2>1. Quiet /\ seen' = seen /\ page' = [page EXCEPT !.open = open] /\ open \subseteq page.open
    BY <1>9 DEF CloseDialog
  <2>. HIDE DEF open
  <2>2. page'.ws = page.ws /\ page'.pending = page.pending /\ page'.load = page.load /\ page'.open = open
    BY <1>0, <2>1 DEF PageState
  <2>. QED BY <1>1, <2>1, <2>2
<1>10. ASSUME NEW form \in {"create", "edit"}, OpenForm(form) PROVE DialogInv'
  <2>. DEFINE opening == page.opening \union {form}
  <2>1. Quiet /\ seen' = seen /\ page' = [page EXCEPT !.opening = opening]
    BY <1>10 DEF OpenForm, Click, Clicked
  <2>. HIDE DEF opening
  <2>2. page'.ws = page.ws /\ page'.pending = page.pending /\ page'.load = page.load /\ page'.open = page.open
    BY <1>0, <2>1 DEF PageState
  <2>. QED BY <1>1, <2>1, <2>2
<1>11. ASSUME NEW form \in {"create", "edit"}, NEW ok \in BOOLEAN, FormOpens(form, ok) PROVE DialogInv'
  <2>. DEFINE opening == page.opening \ {form}
              open == IF ok THEN (IF form = "create" THEN page.open \ {"edit"} ELSE page.open) \union {form} ELSE page.open
  <2>1. Quiet /\ seen' = seen /\ page' = [page EXCEPT !.opening = opening, !.open = open]
    BY <1>11 DEF FormOpens
  <2>2. "schedule" \in open => "schedule" \in page.open
    OBVIOUS
  <2>. HIDE DEF open, opening
  <2>3. page'.ws = page.ws /\ page'.pending = page.pending /\ page'.load = page.load /\ page'.open = open
    BY <1>0, <2>1 DEF PageState
  <2>. QED BY <1>1, <2>1, <2>2, <2>3
<1>12. ASSUME NEW o \in Operation, Writes(o) PROVE DialogInv'
  <2>1. PICK busy : Quiet /\ seen' = seen /\ page' = [page EXCEPT !.busy = busy]
    BY <1>12 DEF Writes, RunPreview, SubmitEdit, SaveSchedule, SubmitCreate, DeleteReport, Begin
  <2>2. page'.ws = page.ws /\ page'.pending = page.pending /\ page'.load = page.load /\ page'.open = page.open
    BY <1>0, <2>1 DEF PageState
  <2>. QED BY <1>1, <2>1, <2>2
<1>13. CASE UNCHANGED vars
  BY <1>13 DEF vars, DialogInv
<1>. QED
  BY <1>2, <1>3, <1>4, <1>5, <1>6, <1>7, <1>8, <1>9, <1>10, <1>11, <1>12, <1>13 DEF Next, Answers

-----------------------------------------------------------------------------
(***************************************************************************)
(* What each step does to the fields that the properties at rest depend    *)
(* on.                                                                     *)
(***************************************************************************)
Under(o) == ops[o].stage \in {"sent", "served"}
Later(o) == ops[o].stage \in {"load", "loaded"}
Known == server.reports \union {0}

SameView ==
    page'.ws = page.ws /\ page'.selected = page.selected /\ page'.route = page.route /\ page'.load = page.load
SameTally ==
    /\ tally'.overlaps = tally.overlaps /\ tally'.errors = tally.errors
    /\ tally'.unsaid = tally.unsaid /\ tally'.faults = tally.faults
Others(o) == \A p \in Operation : p # o => ops'[p] = ops[p]
\* Only the stage and the result of an operation change.
Moves(o, stage, result) ==
    /\ Others(o) /\ ops'[o].stage = stage /\ ops'[o].result = result
    /\ ops'[o].kind = ops[o].kind /\ ops'[o].report = ops[o].report
    /\ ops'[o].next = ops[o].next /\ ops'[o].cron = ops[o].cron

Idles ==
    /\ SameView /\ UNCHANGED <<seen, server, ops, goal>>
    /\ tally'.overlaps = tally.overlaps /\ tally'.errors = tally.errors /\ tally'.unsaid = tally.unsaid
    /\ tally'.faults = 0 => tally.faults = 0
Commits ==
    /\ seen'.route = page.route /\ seen'.selected = page.selected /\ seen'.active = Active(page)
    /\ page'.ws = page.ws
    /\ page'.selected = IF seen.route # page.route THEN page.route ELSE page.selected
    /\ page'.load = IF seen.selected # page.selected THEN [report |-> page.selected, result |-> Unserved] ELSE page.load
    /\ page'.route = IF (seen.active # Active(page) \/ seen.route # page.route) /\ NavNeeded(page)
                     THEN Active(page) ELSE page.route
    /\ UNCHANGED <<server, ops, goal, tally>>
Selects(r) ==
    /\ Quiet /\ r \in page.ws.list /\ r # 0
    /\ page'.ws = page.ws /\ page'.selected = r /\ page'.route = page.route /\ page'.load = page.load
    /\ UNCHANGED <<seen, server, ops>>
    /\ goal' = IF Busy THEN 0 ELSE r
    /\ tally'.overlaps = IF Busy /\ r # page.selected THEN 1 ELSE tally.overlaps
    /\ tally'.errors = tally.errors /\ tally'.unsaid = tally.unsaid /\ tally'.faults = tally.faults
Begins(o) ==
    LET op == ops'[o]
    IN  /\ Quiet /\ ops[o].stage = "new" /\ SameView /\ UNCHANGED <<seen, server>> /\ Others(o)
        /\ goal' = IF Busy THEN 0 ELSE goal
        /\ op.kind \in {"save", "delete"} => page.load = NoLoad
        /\ op.stage = "sent" /\ op.result = NoSpace
        /\ op.kind = "save" => page.ws.there /\ op.report = page.ws.of /\ op.next = page.ws.of
        /\ op.kind = "edit" => page.ws.there /\ op.report = page.ws.active /\ op.next = page.ws.active
        /\ op.kind = "create" => op.report \notin server.reports /\ op.next = op.report
        /\ op.kind = "delete" => /\ op.report \in page.ws.list /\ op.report # 0 /\ op.next # op.report
                                 /\ op.next \in page.ws.list \union {0, Active(page)}
        /\ tally'.overlaps = IF Busy THEN 1 ELSE tally.overlaps
        /\ tally'.errors = tally.errors /\ tally'.unsaid = tally.unsaid /\ tally'.faults = tally.faults
Served(o) ==
    /\ ops[o].stage = "sent" /\ UNCHANGED <<page, seen, goal, tally>>
    /\ server' = Written(ops[o])
    /\ Moves(o, "served", IF ops[o].kind = "create" \/ ops[o].report \in server.reports THEN NoSpace ELSE Failed)
Reloaded(o) ==
    /\ ops[o].stage = "load" /\ UNCHANGED <<page, seen, server, goal, tally>>
    /\ Moves(o, "loaded", Workspace(ops[o].next))
Lost(o) ==
    /\ InFlight(o) /\ UNCHANGED <<page, seen, server, goal>>
    /\ \/ Under(o) /\ Moves(o, "served", Failed)
       \/ Later(o) /\ Moves(o, "loaded", Failed)
    /\ tally'.overlaps = tally.overlaps /\ tally'.errors = tally.errors /\ tally'.faults # 0
    /\ tally'.unsaid = 0 => tally.unsaid = 0 /\ ops[o].stage # "served"
LoadComes(result) ==
    /\ page.load # NoLoad /\ page'.ws = page.ws /\ page'.selected = page.selected /\ page'.route = page.route
    /\ page'.load # NoLoad /\ page'.load.report = page.load.report /\ page'.load.result = result
    /\ UNCHANGED <<seen, server, ops, goal>>
    /\ tally'.overlaps = tally.overlaps /\ tally'.errors = tally.errors /\ tally'.unsaid = tally.unsaid
    /\ tally'.faults = 0 => tally.faults = 0
    /\ \/ result = Workspace(page.load.report)
       \/ result = Failed /\ tally'.faults # 0
Fails(result) ==
    /\ tally'.errors = IF result = Failed THEN 1 ELSE tally.errors
    /\ tally'.overlaps = tally.overlaps /\ tally'.unsaid = tally.unsaid /\ tally'.faults = tally.faults
Loads ==
    LET result == page.load.result
    IN  /\ Quiet /\ page.load # NoLoad /\ result # Unserved /\ (result = Failed \/ result.there)
        /\ page'.ws = IF result = Failed THEN page.ws ELSE result
        /\ page'.selected = page.selected /\ page'.route = page.route /\ page'.load = NoLoad
        /\ UNCHANGED <<seen, server, ops, goal>> /\ Fails(result)
Reloads(o) ==
    LET op == ops[o]
    IN  /\ Quiet /\ op.stage = "loaded" /\ (op.result = Failed \/ op.result.there)
        /\ page'.ws = IF op.result = Failed THEN (IF op.kind = "save" THEN page.ws ELSE NoSpace) ELSE op.result
        /\ page'.selected = page.selected /\ page'.route = page.route /\ page'.load = page.load
        /\ Others(o) /\ ops'[o] = Done
        /\ UNCHANGED <<seen, server, goal>> /\ Fails(op.result)
NotWritten(o) ==
    /\ Quiet /\ ops[o].stage = "served" /\ (ops[o].result = Failed \/ ops[o].kind = "preview")
    /\ SameView /\ Others(o) /\ ops'[o] = Done
    /\ UNCHANGED <<seen, server, goal>> /\ SameTally
IsWritten(o) ==
    LET op == ops[o]
    IN  /\ Quiet /\ op.stage = "served" /\ op.result # Failed /\ op.kind # "preview"
        /\ page'.ws.there = page.ws.there /\ page'.ws.active = page.ws.active /\ page'.ws.list = page.ws.list
        /\ page'.ws.of = IF op.kind = "save" /\ page.ws.there THEN op.report ELSE page.ws.of
        /\ page'.ws.cron = IF op.kind = "save" /\ page.ws.there THEN op.cron ELSE page.ws.cron
        /\ page'.selected = IF op.kind = "save" THEN page.selected
                            ELSE IF op.kind = "delete" THEN op.next ELSE op.report
        /\ page'.route = page.route /\ page'.load = page.load
        /\ Moves(o, "load", op.result)
        /\ UNCHANGED <<seen, server>> /\ SameTally
        /\ goal' = IF tally.overlaps = 0 THEN op.next ELSE 0

LEMMA ClickCounts ==
    ASSUME TypeOK, NEW w, NEW g, NEW a, Clicked(w, g, a)
    PROVE  /\ tally'.overlaps = (IF Busy /\ w.selected # page.selected THEN 1 ELSE tally.overlaps)
           /\ tally'.errors = tally.errors /\ tally'.unsaid = tally.unsaid /\ tally'.faults = tally.faults
<1>. DEFINE n == IF Busy /\ w.selected # page.selected THEN 1 ELSE tally.overlaps
            m == tally.clicks + 1
<1>1. tally' = [tally EXCEPT !.clicks = m, !.overlaps = n]
  BY DEF Clicked
<1>2. tally \in TallyState
  BY DEF TypeOK, TallyState
<1>. HIDE DEF n, m
<1>3. /\ tally'.overlaps = n
      /\ tally'.errors = tally.errors /\ tally'.unsaid = tally.unsaid /\ tally'.faults = tally.faults
  BY <1>1, <1>2 DEF TallyState
<1>. QED BY <1>3 DEF n

LEMMA FaultCounts ==
    ASSUME TypeOK, NEW n \in Nat, FaultOf(n)
    PROVE  /\ tally'.overlaps = tally.overlaps /\ tally'.errors = tally.errors
           /\ tally'.unsaid = tally.unsaid + n /\ tally'.faults # 0
<1>. DEFINE a == tally.faults + 1
            b == tally.unsaid + n
<1>1. tally \in TallyState /\ a # 0
  BY DEF TypeOK, TallyState
<1>2. tally' = [tally EXCEPT !.faults = a, !.unsaid = b]
  BY DEF FaultOf
<1>. HIDE DEF a, b
<1>3. tally'.overlaps = tally.overlaps /\ tally'.errors = tally.errors /\ tally'.unsaid = b /\ tally'.faults = a
  BY <1>1, <1>2 DEF TallyState
<1>. QED BY <1>1, <1>3 DEF b

LEMMA UserSteps ==
    ASSUME TypeOK,
           \/ \E r \in Report : Pick(r) \/ (\E action \in Actions : OpenAction(r, action))
           \/ \E form \in {"create", "edit"} : OpenForm(form)
    PROVE  Idles \/ \E r \in Report : Selects(r)
<1>0. page \in PageState
  BY DEF TypeOK
<1>1. ASSUME NEW r \in Report PROVE r # 0
  BY <1>1, ReportAssumption
<1>2. ASSUME NEW r \in Report, Pick(r) PROVE Selects(r)
  <2>. DEFINE w == [page EXCEPT !.selected = r]
  <2>1. Quiet /\ r \in page.ws.list /\ Clicked(w, Shown(r), NoAction)
    BY <1>2 DEF Pick, Click, Listed
  <2>2. w.selected = r /\ w.ws = page.ws /\ w.route = page.route /\ w.load = page.load
    BY <1>0 DEF PageState
  <2>. HIDE DEF w
  <2>3. /\ tally'.overlaps = (IF Busy /\ w.selected # page.selected THEN 1 ELSE tally.overlaps)
        /\ tally'.errors = tally.errors /\ tally'.unsaid = tally.unsaid /\ tally'.faults = tally.faults
    BY <2>1, ClickCounts
  <2>. QED BY <1>1, <2>1, <2>2, <2>3 DEF Selects, Clicked, Shown
<1>3. ASSUME NEW r \in Report, NEW action \in Actions, OpenAction(r, action) PROVE Idles \/ Selects(r)
  <2>. DEFINE v == [page EXCEPT !.open = page.open \union {action}]
              a == [report |-> r, action |-> action]
              w == [page EXCEPT !.open = page.open \ Actions, !.selected = r, !.pending = a]
  <2>1. Quiet /\ r \in page.ws.list /\ (Clicked(v, goal, NoAction) \/ Clicked(w, Shown(r), a))
    BY <1>3 DEF OpenAction, Click, Listed
  <2>2. v.selected = page.selected /\ v.ws = page.ws /\ v.route = page.route /\ v.load = page.load
    BY <1>0 DEF PageState
  <2>3. w.selected = r /\ w.ws = page.ws /\ w.route = page.route /\ w.load = page.load
    BY <1>0 DEF PageState
  <2>. HIDE DEF v, w, a
  <2>4. CASE Clicked(v, goal, NoAction)
    <3>1. /\ tally'.overlaps = (IF Busy /\ v.selected # page.selected THEN 1 ELSE tally.overlaps)
          /\ tally'.errors = tally.errors /\ tally'.unsaid = tally.unsaid /\ tally'.faults = tally.faults
      BY <2>4, ClickCounts
    <3>. QED BY <2>2, <2>4, <3>1 DEF Idles, SameView, Clicked
  <2>5. CASE Clicked(w, Shown(r), a)
    <3>1. /\ tally'.overlaps = (IF Busy /\ w.selected # page.selected THEN 1 ELSE tally.overlaps)
          /\ tally'.errors = tally.errors /\ tally'.unsaid = tally.unsaid /\ tally'.faults = tally.faults
      BY <2>5, ClickCounts
    <3>. QED BY <1>1, <2>1, <2>3, <2>5, <3>1 DEF Selects, Clicked, Shown
  <2>. QED BY <2>1, <2>4, <2>5
<1>4. ASSUME NEW form \in {"create", "edit"}, OpenForm(form) PROVE Idles
  <2>. DEFINE w == [page EXCEPT !.opening = page.opening \union {form}]
  <2>1. Clicked(w, goal, NoAction)
    BY <1>4 DEF OpenForm
  <2>2. w.selected = page.selected /\ w.ws = page.ws /\ w.route = page.route /\ w.load = page.load
    BY <1>0 DEF PageState
  <2>. HIDE DEF w
  <2>3. /\ tally'.overlaps = (IF Busy /\ w.selected # page.selected THEN 1 ELSE tally.overlaps)
        /\ tally'.errors = tally.errors /\ tally'.unsaid = tally.unsaid /\ tally'.faults = tally.faults
    BY <2>1, ClickCounts
  <2>. QED BY <2>1, <2>2, <2>3 DEF Idles, SameView, Clicked
<1>. QED
  BY <1>2, <1>3, <1>4

LEMMA DialogSteps ==
    ASSUME TypeOK,
           \/ \E d \in Actions \union {"create", "edit"} : CloseDialog(d)
           \/ \E form \in {"create", "edit"}, ok \in BOOLEAN : FormOpens(form, ok)
    PROVE  Idles
<1>0. page \in PageState
  BY DEF TypeOK
<1>1. ASSUME NEW d, CloseDialog(d) PROVE Idles
  BY <1>0, <1>1 DEF CloseDialog, Idles, SameView, PageState
<1>2. ASSUME NEW form, NEW ok \in BOOLEAN, FormOpens(form, ok) PROVE Idles
  <2>1. SameView
    BY <1>0, <1>2 DEF FormOpens, SameView, PageState
  <2>2. /\ tally'.overlaps = tally.overlaps /\ tally'.errors = tally.errors /\ tally'.unsaid = tally.unsaid
        /\ tally'.faults = 0 => tally.faults = 0
    <3>1. CASE ok
      BY <1>2, <3>1 DEF FormOpens
    <3>2. CASE ~ok
      <4>1. FaultOf(0)
        BY <1>2, <3>2 DEF FormOpens, Fault
      <4>2. tally.unsaid + 0 = tally.unsaid
        BY DEF TypeOK
      <4>. QED BY <4>1, <4>2, FaultCounts
    <3>. QED BY <3>1, <3>2
  <2>. QED BY <1>2, <2>1, <2>2 DEF FormOpens, Idles
<1>. QED
  BY <1>1, <1>2

LEMMA BeginSteps ==
    ASSUME TypeOK, LoadInv, DialogInv, NEW o \in Operation, Writes(o)
    PROVE  Begins(o)
<1>0. /\ page \in PageState /\ page.ws.list \in SUBSET Nat /\ tally \in TallyState /\ NoOp \in OpState
      /\ NoOp.result = NoSpace
  BY Constants_ DEF TypeOK, PageState, Space, TallyState
<1>1. ASSUME NEW op \in OpState, Begin(o, op), op.result = NoSpace,
             op.kind \in {"save", "delete"} => page.load = NoLoad,
             op.kind = "save" => page.ws.there /\ op.report = page.ws.of /\ op.next = page.ws.of,
             op.kind = "edit" => page.ws.there /\ op.report = page.ws.active /\ op.next = page.ws.active,
             op.kind = "create" => op.report \notin server.reports /\ op.next = op.report,
             op.kind = "delete" => /\ op.report \in page.ws.list /\ op.report # 0 /\ op.next # op.report
                                   /\ op.next \in page.ws.list \union {0, Active(page)}
      PROVE  Begins(o)
  <2>. DEFINE n == IF Busy THEN 1 ELSE tally.overlaps
              sent == [op EXCEPT !.stage = "sent"]
  <2>1. /\ Quiet /\ ops[o].stage = "new" /\ ops' = [ops EXCEPT ![o] = sent]
        /\ page' = [page EXCEPT !.busy = page.busy \union {op.kind}] /\ goal' = IF Busy THEN 0 ELSE goal
        /\ tally' = [tally EXCEPT !.overlaps = n] /\ UNCHANGED <<seen, server>>
    BY <1>1 DEF Begin, Shown
  <2>2. /\ sent.stage = "sent" /\ sent.kind = op.kind /\ sent.report = op.report /\ sent.next = op.next
        /\ sent.result = op.result
    BY DEF OpState
  <2>. HIDE DEF n, sent
  <2>3. SameView
    BY <1>0, <2>1 DEF SameView, PageState
  <2>4. /\ tally'.overlaps = n
        /\ tally'.errors = tally.errors /\ tally'.unsaid = tally.unsaid /\ tally'.faults = tally.faults
    BY <1>0, <2>1 DEF TallyState
  <2>5. ops'[o] = sent /\ Others(o)
    BY <2>1 DEF TypeOK, Others
  <2>. QED BY <1>1, <2>1, <2>2, <2>3, <2>4, <2>5 DEF Begins, n
<1>2. ASSUME NEW c \in Cron, SaveSchedule(o, c) PROVE Begins(o)
  <2>. DEFINE op == [NoOp EXCEPT !.kind = "save", !.report = page.ws.of, !.next = page.ws.of, !.cron = {c}]
  <2>1. Begin(o, op) /\ page.ws.there /\ "schedule" \in page.open
    BY <1>2 DEF SaveSchedule
  <2>2. page.load = NoLoad
    BY <2>1, QuietSees DEF Begin, DialogInv
  <2>3. op \in OpState /\ op.result = NoSpace /\ op.kind = "save" /\ op.report = page.ws.of /\ op.next = page.ws.of
    <3>1. page.ws.of \in Nat /\ "save" \in Kinds /\ {c} \in SUBSET Cron
      BY <1>0 DEF Kinds, PageState, Space
    <3>2. op \in OpState
      BY <1>0, <3>1 DEF OpState
    <3>. QED BY <1>0, <3>2 DEF OpState
  <2>. HIDE DEF op
  <2>. QED BY <1>1, <2>1, <2>2, <2>3
<1>3. CASE RunPreview(o)
  <2>. DEFINE op == [NoOp EXCEPT !.kind = "preview", !.report = page.ws.active]
  <2>1. Begin(o, op)
    BY <1>3 DEF RunPreview
  <2>2. op \in OpState /\ op.result = NoSpace /\ op.kind = "preview"
    BY <1>0 DEF OpState, Kinds, PageState, Space
  <2>. HIDE DEF op
  <2>. QED BY <1>1, <2>1, <2>2
<1>4. CASE SubmitEdit(o)
  <2>. DEFINE op == [NoOp EXCEPT !.kind = "edit", !.report = page.ws.active, !.next = page.ws.active]
  <2>1. Begin(o, op) /\ page.ws.there
    BY <1>4 DEF SubmitEdit
  <2>2. op \in OpState /\ op.result = NoSpace /\ op.kind = "edit" /\ op.report = page.ws.active
        /\ op.next = page.ws.active
    BY <1>0 DEF OpState, Kinds, PageState, Space
  <2>. HIDE DEF op
  <2>. QED BY <1>1, <2>1, <2>2
<1>5. ASSUME NEW r \in Report, SubmitCreate(o, r) PROVE Begins(o)
  <2>. DEFINE op == [NoOp EXCEPT !.kind = "create", !.report = r, !.next = r]
  <2>1. Begin(o, op) /\ r \notin server.reports
    BY <1>5 DEF SubmitCreate
  <2>2. op \in OpState /\ op.result = NoSpace /\ op.kind = "create" /\ op.report = r /\ op.next = r
    BY <1>0, ReportAssumption DEF OpState, Kinds
  <2>. HIDE DEF op
  <2>. QED BY <1>1, <2>1, <2>2
<1>6. ASSUME NEW r \in Report, DeleteReport(o, r) PROVE Begins(o)
  <2>. DEFINE n == NextActive(r)
              op == [NoOp EXCEPT !.kind = "delete", !.report = r, !.next = n]
  <2>1. Begin(o, op) /\ r \in page.ws.list /\ page.load = NoLoad
    BY <1>6 DEF DeleteReport, Listed, LoadInv
  <2>2. r \in Nat /\ r # 0
    BY ReportAssumption
  <2>3. n \in Nat /\ n # r /\ n \in page.ws.list \union {0, Active(page)}
    <3>1. page.ws.list \ {r} \in SUBSET Nat /\ Active(page) \in Nat
      BY <1>0 DEF Active, PageState, Space
    <3>2. page.ws.list \ {r} # {} => Min(page.ws.list \ {r}) \in page.ws.list \ {r}
      BY <3>1, MinIsLeast
    <3>. QED BY <2>2, <3>1, <3>2 DEF NextActive
  <2>. HIDE DEF n
  <2>4. op \in OpState /\ op.result = NoSpace /\ op.kind = "delete" /\ op.report = r /\ op.next = n
    BY <1>0, <2>2, <2>3 DEF OpState, Kinds
  <2>. HIDE DEF op
  <2>. QED BY <1>1, <2>1, <2>2, <2>3, <2>4
<1>. QED
  BY <1>2, <1>3, <1>4, <1>5, <1>6 DEF Writes

LEMMA ServerSteps ==
    ASSUME TypeOK, NEW o \in Operation
    PROVE  /\ ServeWrite(o) => Served(o)
           /\ ServeReload(o) => Reloaded(o)
           /\ Lose(o) => Lost(o)
<1>0. ops[o] \in OpState /\ tally \in TallyState
  BY DEF TypeOK, TallyState
<1>1. ASSUME NEW stage, NEW result, ops' = [ops EXCEPT ![o] = [ops[o] EXCEPT !.stage = stage, !.result = result]]
      PROVE  Moves(o, stage, result)
  <2>. DEFINE new == [ops[o] EXCEPT !.stage = stage, !.result = result]
  <2>1. /\ new.stage = stage /\ new.result = result /\ new.kind = ops[o].kind /\ new.report = ops[o].report
        /\ new.next = ops[o].next /\ new.cron = ops[o].cron
    BY <1>0 DEF OpState
  <2>. HIDE DEF new
  <2>2. ops'[o] = new /\ Others(o)
    BY <1>1 DEF new, TypeOK, Others
  <2>. QED BY <2>1, <2>2 DEF Moves
<1>2. ASSUME ServeWrite(o) PROVE Served(o)
  <2>. DEFINE result == IF ops[o].kind = "create" \/ ops[o].report \in server.reports THEN NoSpace ELSE Failed
  <2>1. ops' = [ops EXCEPT ![o] = [ops[o] EXCEPT !.stage = "served", !.result = result]]
    BY <1>0, <1>2 DEF ServeWrite, TypeOK, OpState
  <2>. HIDE DEF result
  <2>2. Moves(o, "served", result)
    BY <1>1, <2>1
  <2>. QED BY <1>2, <2>2 DEF ServeWrite, Served, result
<1>3. ASSUME ServeReload(o) PROVE Reloaded(o)
  <2>1. ops' = [ops EXCEPT ![o] = [ops[o] EXCEPT !.stage = "loaded", !.result = Workspace(ops[o].next)]]
    BY <1>0, <1>3 DEF ServeReload, TypeOK, OpState
  <2>. QED BY <1>1, <1>3, <2>1 DEF ServeReload, Reloaded
<1>4. ASSUME Lose(o) PROVE Lost(o)
  <2>. DEFINE stage == IF ops[o].stage \in {"sent", "served"} THEN "served" ELSE "loaded"
              n == IF ops[o].stage = "served" THEN 1 ELSE 0
  <2>1. /\ InFlight(o) /\ UNCHANGED <<page, seen, server, goal, asked>> /\ FaultOf(n)
        /\ ops' = [ops EXCEPT ![o] = [ops[o] EXCEPT !.result = Failed, !.stage = stage]]
    BY <1>4 DEF Lose, TypeOK
  <2>2. [ops[o] EXCEPT !.result = Failed, !.stage = stage] = [ops[o] EXCEPT !.stage = stage, !.result = Failed]
    BY <1>0 DEF OpState
  <2>3. Moves(o, stage, Failed)
    BY <1>1, <2>1, <2>2
  <2>4. /\ tally'.overlaps = tally.overlaps /\ tally'.errors = tally.errors
        /\ tally'.unsaid = tally.unsaid + n /\ tally'.faults # 0
    BY <2>1, FaultCounts
  <2>5. tally'.unsaid = 0 => tally.unsaid = 0 /\ n = 0
    BY <1>0, <2>4 DEF TallyState
  <2>6. (Under(o) /\ stage = "served") \/ (Later(o) /\ stage = "loaded")
    <3>1. InFlight(o)
      BY <2>1
    <3>. QED BY <3>1 DEF InFlight, Under, Later
  <2>. HIDE DEF stage
  <2>. QED BY <2>1, <2>3, <2>4, <2>5, <2>6 DEF Lost
<1>. QED
  BY <1>2, <1>3, <1>4

LEMMA LoadSteps ==
    ASSUME Inv
    PROVE  /\ ServeLoad \/ LoseLoad => \E result : LoadComes(result)
           /\ LoadAnswer => Loads
<1>0. /\ TypeOK /\ page \in PageState /\ page.load \in [report : Nat, result : Space] /\ tally \in TallyState
  BY DEF Inv, TypeOK, PageState, TallyState
<1>1. ASSUME NEW result \in Space, page.load # NoLoad, page' = [page EXCEPT !.load.result = result],
             result # NoSpace,
             UNCHANGED <<seen, server, ops, goal>>,
             tally'.overlaps = tally.overlaps, tally'.errors = tally.errors, tally'.unsaid = tally.unsaid,
             tally'.faults = 0 => tally.faults = 0,
             result = Workspace(page.load.report) \/ (result = Failed /\ tally'.faults # 0)
      PROVE  LoadComes(result)
  <2>. DEFINE load == [page.load EXCEPT !.result = result]
  <2>1. page' = [page EXCEPT !.load = load] /\ load.report = page.load.report /\ load.result = result
    BY <1>0, <1>1 DEF PageState
  <2>. HIDE DEF load
  <2>2. page'.load = load /\ page'.ws = page.ws /\ page'.selected = page.selected /\ page'.route = page.route
    BY <1>0, <2>1 DEF PageState
  <2>3. load # NoLoad
    BY <1>1, <2>1, Constants_
  <2>. QED BY <1>1, <2>1, <2>2, <2>3 DEF LoadComes
<1>2. ASSUME ServeLoad PROVE \E result : LoadComes(result)
  <2>. DEFINE result == Workspace(page.load.report)
  <2>1. result \in Space /\ (result = Failed \/ result.there)
    BY <1>0, WorkspaceType DEF TypeOK
  <2>2. page.load # NoLoad /\ result # NoSpace
    BY <1>2, <2>1, Constants_ DEF ServeLoad
  <2>3. page' = [page EXCEPT !.load.result = result] /\ UNCHANGED <<seen, server, ops, goal, tally>>
    BY <1>2 DEF ServeLoad
  <2>. HIDE DEF result
  <2>4. result = Workspace(page.load.report)
    BY DEF result
  <2>. QED BY <1>1, <2>1, <2>2, <2>3, <2>4
<1>3. ASSUME LoseLoad PROVE LoadComes(Failed)
  <2>1. FaultOf(0) /\ tally.unsaid + 0 = tally.unsaid
    BY <1>0, <1>3 DEF LoseLoad, Fault, TallyState
  <2>2. /\ tally'.overlaps = tally.overlaps /\ tally'.errors = tally.errors /\ tally'.unsaid = tally.unsaid
        /\ tally'.faults # 0
    BY <1>0, <2>1, FaultCounts
  <2>. QED BY <1>1, <1>3, <2>2, Constants_ DEF LoseLoad
<1>4. ASSUME LoadAnswer PROVE Loads
  <2>. DEFINE result == page.load.result
              ws == IF result = Failed THEN page.ws ELSE result
  <2>1. /\ Quiet /\ page.load # NoLoad /\ result # Unserved /\ UNCHANGED <<seen, server, ops, goal>>
        /\ Counted(result)
        /\ page' = [page EXCEPT !.ws = ws, !.load = NoLoad, !.loading = FALSE]
    BY <1>0, <1>4 DEF LoadAnswer, Showing, PageState
  <2>2. result = Failed \/ result.there
    BY <2>1 DEF Inv, PageInv, LoadInv
  <2>3. Fails(result)
    BY <1>0, <2>1 DEF Counted, Fails, TallyState
  <2>. HIDE DEF ws
  <2>4. page'.ws = ws /\ page'.selected = page.selected /\ page'.route = page.route /\ page'.load = NoLoad
    BY <1>0, <2>1 DEF PageState
  <2>. QED BY <2>1, <2>2, <2>3, <2>4 DEF Loads, ws
<1>. QED
  BY <1>2, <1>3, <1>4

LEMMA AnswerSteps ==
    ASSUME Inv, NEW o \in Operation
    PROVE  /\ WriteAnswer(o) => NotWritten(o) \/ IsWritten(o)
           /\ ReloadAnswer(o) => Reloads(o)
<1>. DEFINE op == ops[o]
<1>0. /\ TypeOK /\ page \in PageState /\ page.ws \in Space /\ op \in OpState /\ tally \in TallyState
  BY DEF Inv, TypeOK, PageState, TallyState
<1>1. ASSUME ReloadAnswer(o) PROVE Reloads(o)
  <2>. DEFINE ws == IF op.result = Failed THEN (IF op.kind = "save" THEN page.ws ELSE NoSpace) ELSE op.result
              busy == page.busy \ {op.kind}
              open == IF op.result # Failed /\ op.kind = "save" THEN page.open \ {"schedule"} ELSE page.open
  <2>1. /\ Quiet /\ op.stage = "loaded" /\ UNCHANGED <<seen, server, goal>> /\ Counted(op.result)
        /\ ops' = [ops EXCEPT ![o] = Done]
        /\ page' = [page EXCEPT !.ws = ws, !.busy = busy, !.open = open]
    <3>1. CASE op.result = Failed
      <4>1. page' = NotReloaded(page, op)
        BY <1>1, <3>1 DEF ReloadAnswer
      <4>2. NotReloaded(page, op) = [page EXCEPT !.ws = ws, !.busy = busy, !.open = open]
        BY <1>0, <3>1 DEF NotReloaded, PageState
      <4>. QED BY <1>1, <4>1, <4>2 DEF ReloadAnswer
    <3>2. CASE op.result # Failed
      BY <1>1, <3>2 DEF ReloadAnswer
    <3>. QED BY <3>1, <3>2
  <2>2. op.result = Failed \/ op.result.there
    BY <2>1 DEF Inv, OpsInv
  <2>3. Fails(op.result)
    BY <1>0, <2>1 DEF Counted, Fails, TallyState
  <2>. HIDE DEF ws, busy, open
  <2>4. page'.ws = ws /\ page'.selected = page.selected /\ page'.route = page.route /\ page'.load = page.load
    BY <1>0, <2>1 DEF PageState
  <2>5. ops'[o] = Done /\ Others(o)
    BY <1>0, <2>1 DEF TypeOK, Others
  <2>. QED BY <2>1, <2>2, <2>3, <2>4, <2>5 DEF Reloads, ws
<1>2. ASSUME WriteAnswer(o), op.result = Failed \/ op.kind = "preview" PROVE NotWritten(o)
  <2>1. /\ Quiet /\ op.stage = "served" /\ UNCHANGED <<seen, server, goal, tally>>
        /\ ops' = [ops EXCEPT ![o] = Done]
        /\ page' = IF op.result = Failed THEN [page EXCEPT !.busy = page.busy \ {op.kind}] ELSE After(page, op)
    BY <1>2 DEF WriteAnswer
  <2>2. SameView
    <3>1. CASE op.result = Failed
      BY <1>0, <2>1, <3>1 DEF SameView, PageState
    <3>2. CASE op.result # Failed
      BY <1>0, <1>2, <2>1, <3>2 DEF SameView, PageState, After
    <3>. QED BY <3>1, <3>2
  <2>3. ops'[o] = Done /\ Others(o)
    BY <1>0, <2>1 DEF TypeOK, Others
  <2>. QED BY <1>2, <2>1, <2>2, <2>3 DEF NotWritten, SameTally
<1>3. ASSUME WriteAnswer(o), op.result # Failed, op.kind # "preview" PROVE IsWritten(o)
  <2>1. /\ Quiet /\ op.stage = "served" /\ UNCHANGED <<seen, server, tally>>
        /\ ops' = [ops EXCEPT ![o] = [op EXCEPT !.stage = "load"]]
        /\ page' = After(page, op)
        /\ goal' = IF tally.overlaps = 0 THEN op.next ELSE 0
    BY <1>3 DEF WriteAnswer
  <2>2. Moves(o, "load", op.result)
    <3>. DEFINE new == [op EXCEPT !.stage = "load"]
    <3>1. /\ new.stage = "load" /\ new.result = op.result /\ new.kind = op.kind /\ new.report = op.report
          /\ new.next = op.next /\ new.cron = op.cron
      BY <1>0 DEF OpState
    <3>. HIDE DEF new
    <3>2. ops'[o] = new /\ Others(o)
      BY <1>0, <2>1 DEF new, TypeOK, Others
    <3>. QED BY <3>1, <3>2 DEF Moves
  <2>3. /\ page'.ws.there = page.ws.there /\ page'.ws.active = page.ws.active /\ page'.ws.list = page.ws.list
        /\ page'.ws.of = (IF op.kind = "save" /\ page.ws.there THEN op.report ELSE page.ws.of)
        /\ page'.ws.cron = (IF op.kind = "save" /\ page.ws.there THEN op.cron ELSE page.ws.cron)
        /\ page'.selected = (IF op.kind = "save" THEN page.selected
                             ELSE IF op.kind = "delete" THEN op.next ELSE op.report)
        /\ page'.route = page.route /\ page'.load = page.load
    <3>1. CASE op.kind = "save"
      <4>. DEFINE ws == [page.ws EXCEPT !.of = op.report, !.cron = op.cron]
      <4>1. page' = IF page.ws.there THEN [page EXCEPT !.ws = ws] ELSE page
        BY <1>0, <2>1, <3>1 DEF After, Merged, PageState
      <4>2. ws.there = page.ws.there /\ ws.active = page.ws.active /\ ws.list = page.ws.list
            /\ ws.of = op.report /\ ws.cron = op.cron
        BY <1>0 DEF Space
      <4>. HIDE DEF ws
      <4>3. /\ page'.ws = (IF page.ws.there THEN ws ELSE page.ws) /\ page'.selected = page.selected
            /\ page'.route = page.route /\ page'.load = page.load
        BY <1>0, <4>1 DEF PageState
      <4>. QED BY <3>1, <4>2, <4>3
    <3>2. ASSUME NEW open, NEW r, page' = [page EXCEPT !.open = open, !.selected = r]
          PROVE  page'.ws = page.ws /\ page'.selected = r /\ page'.route = page.route /\ page'.load = page.load
      BY <1>0, <3>2 DEF PageState
    <3>3. CASE op.kind \in {"create", "edit"}
      <4>1. page' = [page EXCEPT !.open = page.open \ {op.kind}, !.selected = op.report]
        BY <2>1, <3>3 DEF After
      <4>2. page'.ws = page.ws /\ page'.selected = op.report /\ page'.route = page.route /\ page'.load = page.load
        BY <3>2, <4>1
      <4>. QED BY <3>3, <4>2
    <3>4. CASE op.kind = "delete"
      <4>1. page' = [page EXCEPT !.open = page.open \ {"config", "create", "edit"}, !.selected = op.next]
        BY <2>1, <3>4 DEF After
      <4>2. page'.ws = page.ws /\ page'.selected = op.next /\ page'.route = page.route /\ page'.load = page.load
        BY <3>2, <4>1
      <4>. QED BY <3>4, <4>2
    <3>. QED BY <1>0, <1>3, <3>1, <3>3, <3>4 DEF OpState, Kinds
  <2>. QED BY <1>3, <2>1, <2>2, <2>3 DEF IsWritten, SameTally
<1>. QED
  BY <1>1, <1>2, <1>3

LEMMA CommitSteps == ASSUME TypeOK, Commit PROVE Commits
<1>. DEFINE c == {k \in DOMAIN Deps(page) : seen[k] # Deps(page)[k]}
<1>1. page' = Effects(page, c) /\ seen' = Deps(page) /\ UNCHANGED <<server, ops, goal, asked, tally>>
  BY DEF Commit
<1>2. /\ "route" \in c <=> seen.route # page.route
      /\ "selected" \in c <=> seen.selected # page.selected
      /\ "active" \in c <=> seen.active # Active(page)
  BY DEF Deps
<1>. HIDE DEF c
<1>3. FieldsOf(page', page, c)
  BY <1>1, EffectsOf DEF TypeOK
<1>. QED
  BY <1>1, <1>2, <1>3 DEF FieldsOf, Commits, Deps

Steps ==
    \/ Idles \/ Commits \/ Loads
    \/ \E r \in Report : Selects(r)
    \/ \E result : LoadComes(result)
    \/ \E o \in Operation : \/ Begins(o) \/ Served(o) \/ Reloaded(o) \/ Lost(o)
                            \/ Reloads(o) \/ NotWritten(o) \/ IsWritten(o)

\* Every step is one of these.
LEMMA NextSteps == Inv /\ DialogInv /\ [Next]_vars => Steps
<1>. SUFFICES ASSUME Inv, DialogInv, [Next]_vars PROVE Steps
  OBVIOUS
<1>0. TypeOK /\ LoadInv
  BY DEF Inv, PageInv
<1>1. CASE Commit
  BY <1>0, <1>1, CommitSteps DEF Steps
<1>2. CASE Answers
  BY <1>0, <1>2, LoadSteps, ServerSteps, AnswerSteps, DialogSteps DEF Answers, Steps
<1>3. CASE \/ \E r \in Report : Pick(r) \/ (\E action \in Actions : OpenAction(r, action))
           \/ \E form \in {"create", "edit"} : OpenForm(form)
  BY <1>0, <1>3, UserSteps DEF Steps
<1>4. CASE \E d \in Actions \union {"create", "edit"} : CloseDialog(d)
  BY <1>0, <1>4, DialogSteps DEF Steps
<1>5. CASE \E o \in Operation : Writes(o)
  BY <1>0, <1>5, BeginSteps DEF Steps
<1>6. CASE UNCHANGED vars
  BY <1>6 DEF vars, Steps, Idles, SameView
<1>. QED
  BY <1>1, <1>2, <1>3, <1>4, <1>5, <1>6 DEF Next
-----------------------------------------------------------------------------
(***************************************************************************)
(* An operation on its own.                                                *)
(***************************************************************************)
\* The route only moves to what the workspace shows, the load that goes on is of the selection,
\* and a write whose outcome nobody knows is a fault.
RouteInv ==
    /\ page.ws.there \/ page.ws.list = {}
    /\ page.route # seen.route => page.route = seen.active
    /\ page.load # NoLoad => page.load.report = page.selected \/ page.selected # seen.selected
    /\ tally.faults = 0 => tally.unsaid = 0

OfActive(ws) == ws.there => ws.of = ws.active
Still == seen.route = page.route /\ seen.selected = page.selected /\ seen.active = Active(page)

\* Without overlaps there is one operation at a time.  While the server has a save or a delete the
\* page loads nothing and stays as it was when it began; a create or an edit may find a load going on.
AloneInv ==
    tally.overlaps = 0 =>
        /\ \A o, p \in Operation : InFlight(o) /\ InFlight(p) => o = p
        /\ OfActive(page.ws) /\ OfActive(page.load.result)
        /\ \A o \in Operation : OfActive(ops[o].result)
        /\ \A o \in Operation : Under(o) =>
              /\ ops[o].kind \in {"save", "delete"} => Still /\ page.load = NoLoad
              /\ ops[o].kind = "save" =>
                    page.ws.there /\ ops[o].report = page.ws.active /\ ops[o].next = page.ws.active
              /\ ops[o].kind \in {"create", "edit"} => ops[o].next = ops[o].report
              /\ ops[o].kind = "delete" => /\ ops[o].next # ops[o].report /\ page.ws.there
                                           /\ ops[o].next \in page.ws.list \union {0, Active(page)}

Shows(ws) == ws.there /\ ws.active \in server.reports => ws.cron = {server.cron[ws.active]}

\* The reply to a load once more: with the schedule and the list that the server has.
LEMMA WorkspaceIs ==
    ASSUME server \in ServerState, NEW r \in Nat
    PROVE  LET ws == Workspace(r)
           IN  /\ \/ ws = Failed
                  \/ /\ ws.there /\ OfActive(ws) /\ Shows(ws) /\ ws.list = server.reports
                     /\ ws.active \in Known /\ (r # 0 => ws.active = r)
               /\ r \in Known => ws # Failed
<1>. DEFINE S == server.reports
<1>0. S \subseteq Report /\ S \subseteq Nat \ {0}
  BY ReportAssumption DEF ServerState
<1>1. ASSUME NEW x \in S
      PROVE  /\ SpaceOf(x).there /\ SpaceOf(x).active = x /\ SpaceOf(x).of = x
             /\ SpaceOf(x).cron = {server.cron[x]} /\ SpaceOf(x).list = S
  BY DEF SpaceOf
<1>2. S # {} => Min(S) \in S
  BY <1>0, MinIsLeast
<1>3. ASSUME NEW x \in S, Workspace(r) = SpaceOf(x), r # 0 => x = r
      PROVE  LET ws == Workspace(r)
             IN  /\ ws.there /\ OfActive(ws) /\ Shows(ws) /\ ws.list = server.reports
                 /\ ws.active \in Known /\ (r # 0 => ws.active = r)
                 /\ ws # Failed
  <2>1. SpaceOf(x) # Failed
    BY <1>1, Constants_
  <2>. QED BY <1>1, <1>3, <2>1 DEF OfActive, Shows, Known
<1>4. CASE r \in S
  <2>1. Workspace(r) = SpaceOf(r)
    BY <1>0, <1>4 DEF Workspace
  <2>. QED BY <1>3, <1>4, <2>1
<1>5. CASE r = 0 /\ S # {}
  <2>1. Workspace(r) = SpaceOf(Min(S))
    BY <1>0, <1>5 DEF Workspace
  <2>. QED BY <1>2, <1>3, <1>5, <2>1
<1>6. CASE r = 0 /\ S = {}
  <2>. DEFINE x == [NoSpace EXCEPT !.there = TRUE]
  <2>1. Workspace(r) = x
    BY <1>6 DEF Workspace
  <2>2. x.there = TRUE /\ x.active = 0 /\ x.of = 0 /\ x.list = {}
    BY DEF NoSpace
  <2>3. x # Failed
    BY <2>2, Constants_
  <2>. HIDE DEF x
  <2>. QED BY <1>6, <2>1, <2>2, <2>3 DEF OfActive, Shows, Known
<1>7. CASE r # 0 /\ r \notin S
  BY <1>7 DEF Workspace, Known
<1>. QED
  BY <1>4, <1>5, <1>6, <1>7

LEMMA DoneIs ==
    /\ Done.stage = "over" /\ ~Done.result.there
    /\ ~Failed.there /\ ~NoSpace.there /\ ~Unserved.there
    /\ NoSpace.list = {} /\ NoSpace.active = 0
    /\ NoLoad.result = NoSpace
<1>1. Done.result = NoSpace
  BY DEF Done, NoOp
<1>. QED
  BY <1>1, Constants_ DEF NoSpace

LEMMA RouteInit == Init => RouteInv
<1>. SUFFICES ASSUME Init PROVE RouteInv
  OBVIOUS
<1>1. PICK r \in AtFirst \union {0} : page = Opened(r)
  BY DEF Init
<1>2. /\ page.ws = NoSpace /\ page.selected = r /\ page.route = r /\ page.load.report = r
      /\ seen = Deps(page) /\ tally.unsaid = 0
  BY <1>1 DEF Init, Opened
<1>. QED
  BY <1>2, DoneIs DEF RouteInv, Deps

LEMMA RouteStep == Inv /\ RouteInv /\ Steps => RouteInv'
<1>. SUFFICES ASSUME Inv, RouteInv, Steps PROVE RouteInv'
  OBVIOUS
<1>1. CASE Idles
  BY <1>1 DEF RouteInv, Idles, SameView
<1>2. CASE Commits
  <2>1. page'.ws.there \/ page'.ws.list = {}
    BY <1>2 DEF RouteInv, Commits
  <2>2. page'.route # seen'.route => page'.route = seen'.active
    BY <1>2 DEF Commits
  <2>3. page'.load # NoLoad => page'.load.report = page'.selected \/ page'.selected # seen'.selected
    BY <1>2 DEF RouteInv, Commits
  <2>4. tally' = tally
    BY <1>2 DEF Commits
  <2>. QED BY <2>1, <2>2, <2>3, <2>4 DEF RouteInv
<1>3. CASE Loads
  BY <1>3, DoneIs DEF RouteInv, Loads, Fails
<1>4. ASSUME NEW r, Selects(r) PROVE RouteInv'
  BY <1>4, QuietSees DEF RouteInv, Selects
<1>5. ASSUME NEW result, LoadComes(result) PROVE RouteInv'
  BY <1>5 DEF RouteInv, LoadComes
<1>6. ASSUME NEW o \in Operation, Begins(o) \/ NotWritten(o) PROVE RouteInv'
  BY <1>6 DEF RouteInv, Begins, NotWritten, SameView, SameTally
<1>7. ASSUME NEW o \in Operation, Served(o) \/ Reloaded(o) PROVE RouteInv'
  BY <1>7 DEF RouteInv, Served, Reloaded
<1>8. ASSUME NEW o \in Operation, Lost(o) PROVE RouteInv'
  BY <1>8 DEF RouteInv, Lost
<1>9. ASSUME NEW o \in Operation, Reloads(o) PROVE RouteInv'
  BY <1>9, DoneIs DEF RouteInv, Reloads, Fails
<1>10. ASSUME NEW o \in Operation, IsWritten(o) PROVE RouteInv'
  BY <1>10, QuietSees DEF RouteInv, IsWritten, SameTally
<1>. QED
  BY <1>1, <1>2, <1>3, <1>4, <1>5, <1>6, <1>7, <1>8, <1>9, <1>10 DEF Steps

LEMMA AloneInit == Init => AloneInv
<1>. SUFFICES ASSUME Init PROVE AloneInv
  OBVIOUS
<1>1. PICK r \in AtFirst \union {0} : page = Opened(r)
  BY DEF Init
<1>2. page.ws = NoSpace /\ page.load.result = Unserved
  BY <1>1 DEF Opened
<1>3. \A o \in Operation : ops[o] = NoOp
  BY DEF Init
<1>4. NoOp.stage = "new" /\ NoOp.result = NoSpace
  BY Constants_
<1>. QED
  BY <1>2, <1>3, <1>4, DoneIs DEF AloneInv, OfActive, InFlight, Under

LEMMA AloneStep == Inv /\ RouteInv /\ AloneInv /\ Steps => AloneInv'
<1>. SUFFICES ASSUME Inv, RouteInv, AloneInv, Steps, tally'.overlaps = 0 PROVE AloneInv'
  BY DEF AloneInv
<1>0. /\ server \in ServerState
      /\ page.load.report \in Nat
      /\ \A o \in Operation : ops[o].next \in Nat
  BY DEF Inv, TypeOK, PageState, ServerState, OpState
<1>1. ASSUME SameView, seen' = seen PROVE Still <=> Still'
  BY <1>1 DEF SameView, Still, Active
<1>2. ASSUME NEW o \in Operation, Others(o), InFlight(o), ~Under(o)', OfActive(ops'[o].result),
             tally.overlaps = 0, OfActive(page.ws)', OfActive(page.load.result)'
      PROVE  AloneInv'
  <2>1. \A p \in Operation : p # o => ~InFlight(p) /\ ~InFlight(p)' /\ ~Under(p)' /\ ops'[p] = ops[p]
    BY <1>2 DEF AloneInv, Others, InFlight, Under
  <2>2. \A p \in Operation : OfActive(ops'[p].result)
    BY <1>2, <2>1 DEF AloneInv
  <2>. QED BY <1>2, <2>1, <2>2 DEF AloneInv
<1>3. ASSUME ops' = ops, tally.overlaps = 0, OfActive(page.ws)', OfActive(page.load.result)',
             \A o \in Operation : Under(o) => ops[o].kind \notin {"save", "delete"}
      PROVE  AloneInv'
  BY <1>3 DEF AloneInv, InFlight, Under
<1>4. ASSUME ops' = ops, tally.overlaps = 0, SameView, Still => Still'
      PROVE  AloneInv'
  <2>1. Active(page') = Active(page)
    BY <1>4 DEF SameView, Active
  <2>2. \A o \in Operation : (InFlight(o)' <=> InFlight(o)) /\ (Under(o)' <=> Under(o))
    BY <1>4 DEF InFlight, Under
  <2>. QED BY <1>4, <2>1, <2>2 DEF AloneInv, SameView
<1>5. CASE Idles
  BY <1>1, <1>4, <1>5 DEF Idles
<1>6. CASE Commits
  <2>1. OfActive(page.ws)' /\ tally.overlaps = 0 /\ ops' = ops
    BY <1>6 DEF Commits, AloneInv
  <2>2. OfActive(page.load.result)'
    BY <1>6, <2>1, DoneIs DEF Commits, AloneInv, OfActive
  <2>3. CASE Still
    BY <1>4, <1>6, <2>1, <2>3 DEF Commits, Still, SameView, Active
  <2>4. CASE ~Still
    BY <1>3, <2>1, <2>2, <2>4 DEF AloneInv
  <2>. QED BY <2>3, <2>4
<1>7. CASE Loads
  BY <1>3, <1>7, DoneIs DEF Loads, Fails, AloneInv, OfActive
<1>8. ASSUME NEW r, Selects(r) PROVE AloneInv'
  <2>1. tally.overlaps = 0 /\ (Busy => r = page.selected) /\ ops' = ops
    BY <1>8 DEF Selects
  <2>2. CASE Busy
    <3>1. SameView
      BY <1>8, <2>1, <2>2 DEF Selects, SameView
    <3>. QED BY <1>1, <1>4, <1>8, <2>1, <3>1 DEF Selects
  <2>3. CASE ~Busy
    <3>1. \A o \in Operation : ~Under(o)
      BY <2>3 DEF Busy, InFlight, Under
    <3>. QED BY <1>3, <1>8, <2>1, <3>1 DEF Selects, AloneInv
  <2>. QED BY <2>2, <2>3
<1>9. ASSUME NEW result, LoadComes(result) PROVE AloneInv'
  <2>1. OfActive(result)
    BY <1>0, <1>9, WorkspaceIs, DoneIs DEF LoadComes, OfActive
  <2>. QED BY <1>3, <1>9, <2>1 DEF LoadComes, AloneInv
<1>10. ASSUME NEW o \in Operation, Begins(o) PROVE AloneInv'
  <2>1. tally.overlaps = 0 /\ ~Busy /\ SameView
    BY <1>10 DEF Begins
  <2>2. \A p \in Operation : p # o => ~InFlight(p)' /\ ~Under(p)' /\ ops'[p] = ops[p]
    BY <1>10, <2>1 DEF Begins, Others, Busy, InFlight, Under
  <2>3. Still'
    BY <1>1, <1>10, QuietSees DEF Begins, Still
  <2>4. Active(page') = Active(page) /\ page'.load = page.load /\ page'.ws = page.ws
    BY <2>1 DEF SameView, Active
  <2>5. page.ws.there => page.ws.of = page.ws.active
    BY <2>1 DEF AloneInv, OfActive
  <2>6. ops'[o].kind = "delete" => page.ws.there
    BY <1>10 DEF Begins, RouteInv
  <2>7. \A p \in Operation : OfActive(ops'[p].result)
    BY <1>10, <2>1, <2>2, DoneIs DEF Begins, AloneInv, OfActive
  <2>8. OfActive(page.ws)' /\ OfActive(page.load.result)'
    BY <2>1, <2>4 DEF AloneInv
  <2>9. \A p \in Operation : Under(p)' =>
              /\ ops'[p].kind \in {"save", "delete"} => page.load = NoLoad
              /\ ops'[p].kind = "save" =>
                    page.ws.there /\ ops'[p].report = page.ws.active /\ ops'[p].next = page.ws.active
              /\ ops'[p].kind \in {"create", "edit"} => ops'[p].next = ops'[p].report
              /\ ops'[p].kind = "delete" => /\ ops'[p].next # ops'[p].report /\ page.ws.there
                                            /\ ops'[p].next \in page.ws.list \union {0, Active(page)}
    BY <1>10, <2>2, <2>5, <2>6 DEF Begins
  <2>. QED BY <2>2, <2>3, <2>4, <2>7, <2>8, <2>9 DEF AloneInv
<1>11. ASSUME NEW o \in Operation, NEW stage, NEW result, Moves(o, stage, result), InFlight(o),
              stage \in {"served", "loaded"}, stage = "served" => Under(o), OfActive(result),
              UNCHANGED <<page, seen>>, tally.overlaps = 0
       PROVE  AloneInv'
  <2>1. \A p \in Operation : (InFlight(p)' <=> InFlight(p)) /\ (Under(p)' => Under(p))
    BY <1>11 DEF Moves, Others, InFlight, Under
  <2>2. \A p \in Operation : /\ ops'[p].kind = ops[p].kind /\ ops'[p].report = ops[p].report
                             /\ ops'[p].next = ops[p].next /\ OfActive(ops'[p].result)
    BY <1>11 DEF Moves, Others, AloneInv
  <2>. QED BY <1>11, <2>1, <2>2 DEF AloneInv, Still
<1>12. ASSUME NEW o \in Operation, Served(o) PROVE AloneInv'
  <2>. DEFINE result == IF ops[o].kind = "create" \/ ops[o].report \in server.reports THEN NoSpace ELSE Failed
  <2>1. OfActive(result)
    BY DoneIs DEF OfActive
  <2>2. InFlight(o) /\ Under(o) /\ Moves(o, "served", result) /\ UNCHANGED <<page, seen, tally>>
    BY <1>12 DEF Served, InFlight, Under
  <2>. HIDE DEF result
  <2>. QED BY <1>11, <2>1, <2>2
<1>13. ASSUME NEW o \in Operation, Reloaded(o) PROVE AloneInv'
  <2>1. OfActive(Workspace(ops[o].next))
    BY <1>0, WorkspaceIs, DoneIs DEF OfActive
  <2>2. InFlight(o) /\ UNCHANGED <<page, seen, tally>>
    BY <1>13 DEF Reloaded, InFlight
  <2>. QED BY <1>11, <1>13, <2>1, <2>2 DEF Reloaded
<1>14. ASSUME NEW o \in Operation, Lost(o) PROVE AloneInv'
  <2>1. OfActive(Failed)
    BY DoneIs DEF OfActive
  <2>. QED BY <1>11, <1>14, <2>1 DEF Lost
<1>15. ASSUME NEW o \in Operation, Reloads(o) PROVE AloneInv'
  <2>1. tally.overlaps = 0 /\ InFlight(o) /\ ~Under(o)' /\ OfActive(ops'[o].result) /\ Others(o)
    BY <1>15, DoneIs DEF Reloads, Fails, InFlight, Under, OfActive
  <2>2. OfActive(page.ws)' /\ OfActive(page.load.result)'
    BY <1>15, <2>1, DoneIs DEF Reloads, AloneInv, OfActive
  <2>. QED BY <1>2, <2>1, <2>2
<1>16. ASSUME NEW o \in Operation, NotWritten(o) PROVE AloneInv'
  <2>1. tally.overlaps = 0 /\ InFlight(o) /\ ~Under(o)' /\ OfActive(ops'[o].result) /\ Others(o)
    BY <1>16, DoneIs DEF NotWritten, SameTally, InFlight, Under, OfActive
  <2>2. OfActive(page.ws)' /\ OfActive(page.load.result)'
    BY <1>16, <2>1 DEF NotWritten, SameView, AloneInv
  <2>. QED BY <1>2, <2>1, <2>2
<1>17. ASSUME NEW o \in Operation, IsWritten(o) PROVE AloneInv'
  <2>1. tally.overlaps = 0 /\ InFlight(o) /\ Under(o) /\ ~Under(o)' /\ Others(o) /\ OfActive(ops'[o].result)
    BY <1>17 DEF IsWritten, SameTally, Moves, InFlight, Under, AloneInv
  <2>2. OfActive(page.ws)' /\ OfActive(page.load.result)'
    BY <1>17, <2>1 DEF IsWritten, AloneInv, OfActive
  <2>. QED BY <1>2, <2>1, <2>2
<1>. QED
  BY <1>5, <1>6, <1>7, <1>8, <1>9, <1>10, <1>12, <1>13, <1>14, <1>15, <1>16, <1>17 DEF Steps
-----------------------------------------------------------------------------
(***************************************************************************)
(* The report asked for last.                                              *)
(***************************************************************************)
\* The selection is the goal, or its workspace has come and nothing is to come that changes it;
\* what the effects still have to do leads to the goal, and so does the load that follows a write.
GoalInv ==
    tally.errors = 0 /\ goal # 0 =>
        /\ page.route # seen.route => page.route = goal
        /\ Active(page) # seen.active => Active(page) = goal
        /\ \/ page.selected = goal
           \/ page.ws.there /\ page.ws.active = goal /\ page.load = NoLoad /\ page.selected = seen.selected
        /\ \A o \in Operation : Later(o) =>
              /\ tally.overlaps = 0 /\ ops[o].next = goal
              /\ ops[o].stage = "loaded" /\ ops[o].result.there => ops[o].result.active = goal

LEMMA GoalInit == Init => GoalInv
<1>. SUFFICES ASSUME Init PROVE GoalInv
  OBVIOUS
<1>1. PICK r \in AtFirst \union {0} : page = Opened(r)
  BY DEF Init
<1>2. page.selected = r /\ page.route = r /\ seen = Deps(page) /\ goal = page.selected
  BY <1>1 DEF Opened, Init
<1>3. \A o \in Operation : ~Later(o)
  BY Constants_ DEF Init, Later
<1>. QED
  BY <1>2, <1>3 DEF GoalInv, Deps

LEMMA GoalStep == Inv /\ RouteInv /\ AloneInv /\ GoalInv /\ Steps => GoalInv'
<1>. SUFFICES ASSUME Inv, RouteInv, AloneInv, GoalInv, Steps, tally'.errors = 0, goal' # 0 PROVE GoalInv'
  BY DEF GoalInv
<1>0. server \in ServerState /\ \A o \in Operation : ops[o].next \in Nat /\ ops[o].kind \in Kinds
  BY DEF Inv, TypeOK, ServerState, OpState
<1>1. CASE Idles
  BY <1>1 DEF Idles, SameView, GoalInv, Active, InFlight, Later
<1>2. CASE Commits
  <2>1. tally.errors = 0 /\ goal # 0 /\ ops' = ops /\ goal' = goal /\ tally' = tally
    BY <1>2 DEF Commits
  <2>2. page'.route # seen'.route => page'.route = goal
    <3>1. page.route # seen.route => page.route = goal /\ page.route = seen.active
      BY <2>1 DEF GoalInv, RouteInv
    <3>. QED BY <1>2, <2>1, <3>1 DEF Commits, GoalInv, NavNeeded
  <2>3. Active(page') # seen'.active => Active(page') = goal
    BY <1>2, <2>1 DEF Commits, GoalInv, Active
  <2>4. \/ page'.selected = goal
        \/ page'.ws.there /\ page'.ws.active = goal /\ page'.load = NoLoad /\ page'.selected = seen'.selected
    BY <1>2, <2>1 DEF Commits, GoalInv
  <2>. QED BY <2>1, <2>2, <2>3, <2>4 DEF GoalInv, Later
<1>3. CASE Loads
  <2>1. /\ tally.errors = 0 /\ goal # 0 /\ goal' = goal /\ ops' = ops /\ seen' = seen
        /\ page.load.result # Failed /\ page.load.result.there /\ page.load # NoLoad
        /\ page'.ws = page.load.result /\ page'.selected = page.selected /\ page'.route = page.route
        /\ tally'.overlaps = tally.overlaps /\ page.load.result # Unserved
    BY <1>3 DEF Loads, Fails
  <2>2. seen.route = page.route /\ seen.selected = page.selected
    BY <1>3, QuietSees DEF Loads
  <2>3. page.load.report = page.selected /\ page.selected = goal
    BY <2>1, <2>2 DEF RouteInv, GoalInv
  <2>4. page.load.result.active = goal
    BY <2>1, <2>3 DEF Inv, PageInv, LoadInv
  <2>5. Active(page') = goal
    BY <2>1, <2>4 DEF Active
  <2>. QED BY <2>1, <2>2, <2>3, <2>5 DEF GoalInv, InFlight, Later
<1>4. ASSUME NEW r, Selects(r) PROVE GoalInv'
  <2>1. ~Busy /\ goal' = r /\ r # 0 /\ page'.selected = r /\ page'.route = page.route /\ ops' = ops /\ seen' = seen
    BY <1>4 DEF Selects
  <2>2. page.ws.there /\ page'.ws = page.ws
    BY <1>4 DEF Selects, RouteInv
  <2>3. seen.route = page.route /\ seen.active = page.ws.active
    BY <1>4, <2>2, QuietSees DEF Selects
  <2>4. \A o \in Operation : ~Later(o)'
    BY <2>1 DEF Busy, InFlight, Later
  <2>. QED BY <2>1, <2>2, <2>3, <2>4 DEF GoalInv, Active
<1>5. ASSUME NEW result, LoadComes(result) PROVE GoalInv'
  BY <1>5 DEF LoadComes, GoalInv, Active, InFlight, Later
<1>6. ASSUME NEW o \in Operation, Begins(o) PROVE GoalInv'
  <2>1. ~Busy /\ goal' = goal /\ SameView /\ seen' = seen /\ tally.errors = 0
    BY <1>6 DEF Begins
  <2>2. \A p \in Operation : ~Later(p)'
    BY <1>6, <2>1 DEF Begins, Others, Busy, InFlight, Later
  <2>3. Active(page') = Active(page)
    BY <2>1 DEF SameView, Active
  <2>. QED BY <2>1, <2>2, <2>3 DEF GoalInv, SameView
<1>7. ASSUME NEW o \in Operation, Served(o) PROVE GoalInv'
  BY <1>7 DEF Served, Moves, Others, GoalInv, Later
<1>8. ASSUME NEW o \in Operation, NEW result, Later(o), Moves(o, "loaded", result),
             UNCHANGED <<page, seen, goal>>, result.there /\ ops[o].next = goal => result.active = goal,
             tally'.errors = tally.errors, tally'.overlaps = tally.overlaps
      PROVE  GoalInv'
  <2>1. \A p \in Operation : p # o => ops'[p] = ops[p]
    BY <1>8 DEF Moves, Others
  <2>2. tally.errors = 0 /\ goal # 0
    BY <1>8
  <2>3. ops[o].next = goal /\ tally.overlaps = 0
    BY <1>8, <2>2 DEF GoalInv
  <2>4. \A p \in Operation : Later(p)' =>
              /\ tally.overlaps = 0 /\ ops'[p].next = goal
              /\ ops'[p].stage = "loaded" /\ ops'[p].result.there => ops'[p].result.active = goal
    BY <1>8, <2>1, <2>2, <2>3 DEF Moves, GoalInv, Later
  <2>. QED BY <1>8, <2>2, <2>4 DEF GoalInv
<1>9. ASSUME NEW o \in Operation, Reloaded(o) PROVE GoalInv'
  <2>1. goal # 0 /\ Later(o) /\ UNCHANGED <<page, seen, goal, tally>> /\ Moves(o, "loaded", Workspace(ops[o].next))
    BY <1>9 DEF Reloaded, Later
  <2>2. Workspace(ops[o].next).there /\ ops[o].next = goal => Workspace(ops[o].next).active = goal
    BY <1>0, <2>1, WorkspaceIs, DoneIs
  <2>. QED BY <1>8, <2>1, <2>2
<1>10. ASSUME NEW o \in Operation, Lost(o) PROVE GoalInv'
  <2>1. CASE Later(o)
    <3>1. Moves(o, "loaded", Failed)
      BY <1>10, <2>1 DEF Lost, Under, Later
    <3>. QED BY <1>8, <1>10, <2>1, <3>1, DoneIs DEF Lost
  <2>2. CASE Under(o) /\ Moves(o, "served", Failed)
    BY <1>10, <2>2 DEF Lost, Moves, Others, GoalInv, Later
  <2>. QED BY <1>10, <2>1, <2>2 DEF Lost
<1>11. ASSUME NEW o \in Operation, Reloads(o) PROVE GoalInv'
  <2>1. /\ tally.errors = 0 /\ goal # 0 /\ goal' = goal /\ seen' = seen
        /\ ops[o].result # Failed /\ ops[o].result.there /\ ops[o].stage = "loaded"
        /\ page'.ws = ops[o].result /\ page'.selected = page.selected /\ page'.route = page.route
        /\ page'.load = page.load /\ tally'.overlaps = tally.overlaps
    BY <1>11 DEF Reloads, Fails
  <2>2. seen.route = page.route /\ seen.selected = page.selected
    BY <1>11, QuietSees DEF Reloads
  <2>3. ops[o].result.active = goal
    BY <2>1 DEF GoalInv, Later
  <2>4. Active(page') = goal
    BY <2>1, <2>3 DEF Active
  <2>5. \/ page'.selected = goal
        \/ page'.ws.there /\ page'.ws.active = goal /\ page'.load = NoLoad /\ page'.selected = seen'.selected
    BY <2>1, <2>2, <2>3 DEF GoalInv
  <2>6. \A p \in Operation : Later(p)' => Later(p) /\ ops'[p] = ops[p]
    BY <1>11, DoneIs DEF Reloads, Others, Later
  <2>. QED BY <2>1, <2>2, <2>4, <2>5, <2>6 DEF GoalInv
<1>12. ASSUME NEW o \in Operation, NotWritten(o) PROVE GoalInv'
  <2>1. \A p \in Operation : Later(p)' => Later(p) /\ ops'[p] = ops[p]
    BY <1>12, DoneIs DEF NotWritten, Others, Later
  <2>2. Active(page') = Active(page)
    BY <1>12 DEF NotWritten, SameView, Active
  <2>. QED BY <1>12, <2>1, <2>2 DEF NotWritten, SameView, SameTally, GoalInv
<1>13. ASSUME NEW o \in Operation, IsWritten(o) PROVE GoalInv'
  <2>1. /\ tally.overlaps = 0 /\ goal' = ops[o].next /\ Under(o) /\ InFlight(o) /\ seen' = seen
        /\ page'.route = page.route /\ tally'.overlaps = 0
        /\ page'.ws.there = page.ws.there /\ page'.ws.active = page.ws.active /\ page'.load = page.load
    BY <1>13 DEF IsWritten, SameTally, Under, InFlight
  <2>2. seen.route = page.route /\ seen.selected = page.selected /\ seen.active = Active(page)
    BY <1>13, QuietSees DEF IsWritten
  <2>3. /\ ops[o].kind = "save" => page.load = NoLoad /\ page.ws.there /\ ops[o].next = page.ws.active
        /\ ops[o].kind \in {"create", "edit"} => ops[o].next = ops[o].report
        /\ ops[o].kind \in {"save", "edit", "create", "delete"}
    BY <1>0, <1>13, <2>1 DEF AloneInv, IsWritten, Kinds
  <2>4. /\ ops[o].kind = "save" => page'.selected = page.selected
        /\ ops[o].kind # "save" => page'.selected = ops[o].next
    BY <1>13, <2>3 DEF IsWritten
  <2>5. Active(page') # seen.active => Active(page') = ops[o].next
    BY <2>1, <2>2, <2>3, <2>4 DEF Active
  <2>6. \A p \in Operation : Later(p)' => p = o
    BY <1>13, <2>1 DEF AloneInv, IsWritten, Moves, Others, InFlight, Later
  <2>7. ops'[o].stage = "load" /\ ops'[o].next = ops[o].next
    BY <1>13 DEF IsWritten, Moves
  <2>. QED BY <2>1, <2>2, <2>3, <2>4, <2>5, <2>6, <2>7 DEF GoalInv
<1>. QED
  BY <1>1, <1>2, <1>3, <1>4, <1>5, <1>6, <1>7, <1>9, <1>10, <1>11, <1>12, <1>13 DEF Steps
-----------------------------------------------------------------------------
(***************************************************************************)
(* What the page shows and what the server has.                            *)
(***************************************************************************)
\* A delete that the server has carried out, and the page not yet.
Goes(o) == ops[o].kind = "delete" /\ (Later(o) \/ (ops[o].stage = "served" /\ ops[o].result # Failed))
Gone(r) == \E o \in Operation : Goes(o) /\ ops[o].report = r
\* A save that the server has carried out, and the page not yet.
Saving(o) == ops[o].kind = "save" /\ ops[o].stage = "served" /\ ops[o].result # Failed

\* What the page shows, and is about to show, is as the server has it, but for the operation that
\* has been carried out and not answered.
KnownInv ==
    tally.overlaps = 0 /\ tally.unsaid = 0 =>
        /\ page.ws.active \in Known \/ Gone(page.ws.active)
        /\ page.load.result.there => page.load.result.active \in Known /\ Shows(page.load.result)
        /\ \A o \in Operation :
              /\ ops[o].stage = "loaded" /\ ops[o].result.there =>
                    ops[o].result.active \in Known /\ Shows(ops[o].result)
              /\ ops[o].kind = "create" /\ ops[o].stage = "sent" => ops[o].report \notin server.reports
              /\ Saving(o) => ops[o].report \in server.reports /\ ops[o].cron = {server.cron[ops[o].report]}
        /\ (\A o \in Operation : ~Saving(o)) => Shows(page.ws)

LEMMA KnownInit == Init => KnownInv
<1>. SUFFICES ASSUME Init PROVE KnownInv
  OBVIOUS
<1>1. PICK r \in AtFirst \union {0} : page = Opened(r)
  BY DEF Init
<1>2. page.ws = NoSpace /\ page.load.result = Unserved
  BY <1>1 DEF Opened
<1>3. \A o \in Operation : ops[o].stage = "new"
  BY Constants_ DEF Init
<1>. QED
  BY <1>2, <1>3, DoneIs DEF KnownInv, Known, Shows, Saving

\* What the server makes of a write.
LEMMA WrittenIs ==
    ASSUME TypeOK, NEW o \in Operation, InFlight(o), server' = Written(ops[o])
    PROVE  /\ ops[o].kind = "save" /\ ops[o].report \in server.reports =>
                /\ server'.reports = server.reports /\ ops[o].cron = {server'.cron[ops[o].report]}
                /\ \A r \in server.reports : r # ops[o].report => server'.cron[r] = server.cron[r]
           /\ ops[o].kind = "delete" => /\ server'.reports = server.reports \ {ops[o].report}
                                        /\ server'.cron = server.cron
           /\ ops[o].kind = "create" => /\ server'.reports = server.reports \union {ops[o].report}
                                        /\ server'.cron = server.cron /\ ops[o].report # 0
           /\ ~(ops[o].kind = "save" /\ ops[o].report \in server.reports) /\ ops[o].kind \notin {"delete", "create"}
                => server' = server
<1>0. server \in ServerState
  BY DEF TypeOK, ServerState
<1>1. ASSUME ops[o].kind = "save", ops[o].report \in server.reports
      PROVE  /\ server'.reports = server.reports /\ ops[o].cron = {server'.cron[ops[o].report]}
             /\ \A r \in server.reports : r # ops[o].report => server'.cron[r] = server.cron[r]
  <2>1. PICK c \in Cron : ops[o].cron = {c}
    BY <1>1 DEF TypeOK
  <2>2. (CHOOSE d \in Cron : ops[o].cron = {d}) = c
    BY <2>1
  <2>3. server' = [server EXCEPT !.cron[ops[o].report] = c]
    BY <1>1, <2>2 DEF Written
  <2>. QED BY <1>0, <1>1, <2>1, <2>3 DEF ServerState
<1>2. ASSUME ops[o].kind = "delete"
      PROVE  server'.reports = server.reports \ {ops[o].report} /\ server'.cron = server.cron
  BY <1>0, <1>2 DEF Written, ServerState
<1>3. ASSUME ops[o].kind = "create"
      PROVE  /\ server'.reports = server.reports \union {ops[o].report} /\ server'.cron = server.cron
             /\ ops[o].report # 0
  BY <1>0, <1>3, ReportAssumption DEF Written, ServerState, TypeOK
<1>4. ASSUME ~(ops[o].kind = "save" /\ ops[o].report \in server.reports), ops[o].kind \notin {"delete", "create"}
      PROVE  server' = server
  BY <1>4 DEF Written
<1>. QED
  BY <1>1, <1>2, <1>3, <1>4

LEMMA KnownStep == Inv /\ RouteInv /\ AloneInv /\ KnownInv /\ Steps => KnownInv'
<1>. SUFFICES ASSUME Inv, RouteInv, AloneInv, KnownInv, Steps, tally'.overlaps = 0, tally'.unsaid = 0
             PROVE  KnownInv'
  BY DEF KnownInv
<1>0. /\ server \in ServerState /\ TypeOK
      /\ page.load.report \in Nat
      /\ \A o \in Operation : ops[o].next \in Nat
  BY DEF Inv, TypeOK, PageState, ServerState, OpState
\* A step of the page only: the workspace that comes is one the server has now, or nothing.
<1>1. ASSUME tally.overlaps = 0, tally.unsaid = 0, UNCHANGED <<server, ops>>,
             page'.ws = page.ws \/ (page'.ws.there /\ page'.ws.active \in Known /\ Shows(page'.ws)),
             page'.load.result.there => page'.load.result.active \in Known /\ Shows(page'.load.result)
      PROVE  KnownInv'
  <2>1. (page.ws.active)' \in Known \/ Gone(page.ws.active)'
    BY <1>1 DEF KnownInv, Gone, Goes, Later
  <2>2. \A o \in Operation : Saving(o)' <=> Saving(o)
    BY <1>1 DEF Saving
  <2>. QED BY <1>1, <2>1, <2>2 DEF KnownInv, Known, Shows
<1>2. CASE Idles
  BY <1>1, <1>2 DEF Idles, SameView, KnownInv
<1>3. CASE Commits
  <2>1. page'.load = page.load \/ page'.load.result = Unserved
    BY <1>3 DEF Commits
  <2>. QED BY <1>1, <1>3, <2>1, DoneIs DEF Commits, KnownInv
<1>4. CASE Loads
  <2>1. tally.overlaps = 0 /\ tally.unsaid = 0 /\ UNCHANGED <<server, ops>> /\ ~page'.load.result.there
    BY <1>4, DoneIs DEF Loads, Fails
  <2>2. page'.ws = page.ws \/ (page'.ws.there /\ page'.ws.active \in Known /\ Shows(page'.ws))
    BY <1>4, <2>1 DEF Loads, KnownInv
  <2>. QED BY <1>1, <2>1, <2>2
<1>5. ASSUME NEW r, Selects(r) PROVE KnownInv'
  <2>1. tally.overlaps = 0
    BY <1>5 DEF Selects
  <2>. QED BY <1>1, <1>5, <2>1 DEF Selects, KnownInv
<1>6. ASSUME NEW result, LoadComes(result) PROVE KnownInv'
  <2>1. result.there => result.active \in Known /\ Shows(result)
    BY <1>0, <1>6, WorkspaceIs, DoneIs DEF LoadComes
  <2>. QED BY <1>1, <1>6, <2>1 DEF LoadComes
<1>7. ASSUME NEW o \in Operation, Begins(o) PROVE KnownInv'
  <2>1. /\ tally.overlaps = 0 /\ tally.unsaid = 0 /\ SameView /\ server' = server
        /\ ops[o].stage = "new" /\ ops'[o].stage = "sent" /\ Others(o)
        /\ ops'[o].kind = "create" => ops'[o].report \notin server.reports
    BY <1>7 DEF Begins
  <2>2. ~Goes(o) /\ ~Goes(o)' /\ ~Saving(o) /\ ~Saving(o)'
    BY <2>1 DEF Goes, Saving, Later
  <2>3. \A p \in Operation : p # o => ops'[p] = ops[p] /\ (Goes(p)' <=> Goes(p)) /\ (Saving(p)' <=> Saving(p))
    BY <2>1 DEF Others, Goes, Saving, Later
  <2>4. (page.ws.active)' \in Known \/ Gone(page.ws.active)'
    BY <2>1, <2>2, <2>3 DEF KnownInv, Gone, SameView
  <2>. QED BY <2>1, <2>2, <2>3, <2>4 DEF KnownInv, SameView, Known, Shows
<1>8. ASSUME NEW o \in Operation, Served(o) PROVE KnownInv'
  <2>. DEFINE op == ops[o]
              R == server.reports
  <2>1. /\ op.stage = "sent" /\ InFlight(o) /\ Under(o) /\ UNCHANGED <<page, seen, goal, tally>>
        /\ server' = Written(op) /\ tally.overlaps = 0 /\ tally.unsaid = 0
        /\ Others(o) /\ ops'[o].stage = "served" /\ ops'[o].kind = op.kind /\ ops'[o].report = op.report
        /\ ops'[o].cron = op.cron
        /\ ops'[o].result = IF op.kind = "create" \/ op.report \in R THEN NoSpace ELSE Failed
    BY <1>8 DEF Served, Moves, InFlight, Under
  <2>2. \A p \in Operation : p # o => ~InFlight(p) /\ ~InFlight(p)' /\ ops'[p] = ops[p]
    BY <2>1 DEF AloneInv, Others, InFlight
  <2>3. page.load.result.there => /\ page.load.result.active \in R \union {0} /\ Shows(page.load.result)
                                  /\ op.kind \notin {"save", "delete"}
    BY <2>1, DoneIs DEF AloneInv, KnownInv, Known
  <2>4. \A p \in Operation : ~Saving(p) /\ ~Goes(p) /\ (p # o => ~Saving(p)' /\ ~Goes(p)')
    BY <2>1, <2>2 DEF Saving, Goes, Later, InFlight
  <2>5. page.ws.active \in R \union {0} /\ Shows(page.ws)
    BY <2>1, <2>4 DEF KnownInv, Known, Gone
  <2>6. op.kind = "create" => op.report \notin R
    BY <2>1 DEF KnownInv
  <2>7. /\ op.kind = "save" /\ op.report \in R =>
                /\ server'.reports = R /\ op.cron = {server'.cron[op.report]}
        /\ op.kind = "delete" => server'.reports = R \ {op.report} /\ server'.cron = server.cron
        /\ op.kind = "create" => /\ server'.reports = R \union {op.report} /\ server'.cron = server.cron
                                 /\ op.report # 0
        /\ ~(op.kind = "save" /\ op.report \in R) /\ op.kind \notin {"delete", "create"} => server' = server
    BY <1>0, <2>1, WrittenIs
  <2>8. (page.ws.active)' \in server'.reports \union {0} \/ Gone(page.ws.active)'
    <3>1. CASE op.kind = "delete" /\ op.report \in R /\ page.ws.active = op.report
      <4>1. Goes(o)'
        BY <2>1, <3>1, Constants_ DEF Goes
      <4>. QED BY <2>1, <3>1, <4>1 DEF Gone
    <3>2. CASE ~(op.kind = "delete" /\ op.report \in R /\ page.ws.active = op.report)
      BY <2>1, <2>5, <2>7, <3>2
    <3>. QED BY <3>1, <3>2
  <2>9. Saving(o)' => op.report \in server'.reports /\ op.cron = {server'.cron[op.report]}
    BY <2>1, <2>7 DEF Saving
  <2>10. ~Saving(o)' => Shows(page.ws)'
    <3>. SUFFICES ASSUME ~Saving(o)', page.ws.there, page.ws.active \in server'.reports
                 PROVE  page.ws.cron = {server'.cron[page.ws.active]}
      BY <2>1 DEF Shows
    <3>1. ~(op.kind = "save" /\ op.report \in R)
      BY <2>1, Constants_ DEF Saving
    <3>2. page.ws.active \in R /\ server'.cron = server.cron
      BY <2>5, <2>6, <2>7, <3>1
    <3>. QED BY <2>5, <3>2 DEF Shows
  <2>11. \A p \in Operation : ops'[p].stage # "loaded" /\ (ops'[p].kind = "create" => ops'[p].stage # "sent")
    BY <2>1, <2>2 DEF InFlight
  <2>13. page.load.result.there => page.load.result.active \in server'.reports \union {0} /\ Shows(page.load.result)'
    <3>. SUFFICES ASSUME page.load.result.there
                 PROVE  page.load.result.active \in server'.reports \union {0} /\ Shows(page.load.result)'
      OBVIOUS
    <3>1. 0 \notin R /\ page' = page
      BY <1>0, <2>1, ReportAssumption DEF ServerState
    <3>2. /\ server'.cron = server.cron /\ R \subseteq server'.reports
          /\ 0 \notin server'.reports
          /\ op.report \notin R => page.load.result.active # op.report \/ page.load.result.active = 0
      BY <2>3, <2>7, <3>1
    <3>3. page.load.result.active \in server'.reports => page.load.result.active \in R
      BY <2>3, <3>2
    <3>. QED BY <2>3, <3>1, <3>2, <3>3 DEF Shows
  <2>. HIDE DEF op, R
  <2>12. ops'[o].report = op.report /\ ops'[o].cron = op.cron /\ page' = page
    BY <2>1
  <2>. QED BY <2>4, <2>8, <2>9, <2>10, <2>11, <2>12, <2>13 DEF KnownInv, Known
\* A reply that comes, or gets lost, while the server and the page do nothing.
<1>9. ASSUME NEW o \in Operation, NEW stage, NEW result, Moves(o, stage, result),
             tally.overlaps = 0, tally.unsaid = 0, UNCHANGED <<page, server>>,
             \/ ops[o].stage = "sent" /\ stage = "served" /\ result = Failed
             \/ Later(o) /\ stage = "loaded",
             result.there => result.active \in Known /\ Shows(result)
      PROVE  KnownInv'
  <2>1. /\ Others(o) /\ ops'[o].stage = stage /\ ops'[o].result = result /\ ops'[o].kind = ops[o].kind
        /\ ops'[o].report = ops[o].report
    BY <1>9 DEF Moves
  <2>2. \A p \in Operation : p # o => ops'[p] = ops[p] /\ (Goes(p)' <=> Goes(p)) /\ (Saving(p)' <=> Saving(p))
    BY <2>1 DEF Others, Goes, Saving, Later
  <2>3. (Goes(o)' <=> Goes(o)) /\ ~Saving(o)' /\ ~Saving(o)
    BY <1>9, <2>1 DEF Goes, Saving, Later
  <2>4. (page.ws.active)' \in Known \/ Gone(page.ws.active)'
    BY <1>9, <2>1, <2>2, <2>3 DEF KnownInv, Gone
  <2>5. \A p \in Operation :
              /\ ops'[p].stage = "loaded" /\ ops'[p].result.there =>
                    ops'[p].result.active \in Known /\ Shows(ops'[p].result)
              /\ ops'[p].kind = "create" /\ ops'[p].stage = "sent" => ops'[p].report \notin server.reports
              /\ Saving(p)' => ops'[p].report \in server.reports /\ ops'[p].cron = {server.cron[ops'[p].report]}
    BY <1>9, <2>1, <2>2, <2>3 DEF KnownInv
  <2>. QED BY <1>9, <2>2, <2>3, <2>4, <2>5 DEF KnownInv, Known, Shows
<1>10. ASSUME NEW o \in Operation, Reloaded(o) PROVE KnownInv'
  <2>1. LET ws == Workspace(ops[o].next) IN ws.there => ws.active \in Known /\ Shows(ws)
    BY <1>0, WorkspaceIs, DoneIs
  <2>. QED BY <1>9, <1>10, <2>1 DEF Reloaded, Later
<1>11. ASSUME NEW o \in Operation, Lost(o) PROVE KnownInv'
  BY <1>9, <1>11, DoneIs DEF Lost, Under
\* An answer ends the operation.
<1>12. ASSUME NEW o \in Operation, Others(o), ops'[o] = Done, InFlight(o), tally.overlaps = 0, tally.unsaid = 0,
              server' = server, page'.load = page.load,
              \/ page'.ws = page.ws /\ ~Goes(o) /\ ~Saving(o)
              \/ page'.ws.active \in Known /\ Shows(page'.ws)
       PROVE  KnownInv'
  <2>1. \A p \in Operation : p # o => ~InFlight(p) /\ ~InFlight(p)' /\ ~Saving(p) /\ ~Goes(p)
    BY <1>12 DEF AloneInv, Others, InFlight, Saving, Goes, Later
  <2>2. ~InFlight(o)'
    BY <1>12, DoneIs DEF InFlight
  <2>3. \A p \in Operation : /\ ops'[p].stage # "loaded" /\ ops'[p].stage # "sent" /\ ~Saving(p)'
    BY <2>1, <2>2 DEF InFlight, Saving
  <2>4. page'.ws.active \in Known /\ Shows(page'.ws)
    BY <1>12, <2>1 DEF KnownInv, Gone
  <2>5. page.load.result.there => page.load.result.active \in Known /\ Shows(page.load.result)
    BY <1>12 DEF KnownInv
  <2>. QED BY <1>12, <2>3, <2>4, <2>5 DEF KnownInv, Known, Shows
<1>13. ASSUME NEW o \in Operation, Reloads(o) PROVE KnownInv'
  <2>1. /\ Others(o) /\ ops'[o] = Done /\ ops[o].stage = "loaded" /\ InFlight(o) /\ tally.overlaps = 0 /\ tally.unsaid = 0
        /\ server' = server /\ page'.load = page.load
        /\ page'.ws = IF ops[o].result = Failed THEN (IF ops[o].kind = "save" THEN page.ws ELSE NoSpace) ELSE ops[o].result
        /\ ops[o].result = Failed \/ ops[o].result.there
    BY <1>13 DEF Reloads, Fails, InFlight
  <2>2. CASE ops[o].result # Failed
    BY <1>12, <2>1, <2>2 DEF KnownInv
  <2>3. CASE ops[o].result = Failed /\ ops[o].kind = "save"
    <3>1. ~Goes(o) /\ ~Saving(o)
      BY <2>1, <2>3 DEF Goes, Saving
    <3>. QED BY <1>12, <2>1, <2>3, <3>1
  <2>4. CASE ops[o].result = Failed /\ ops[o].kind # "save"
    <3>1. page'.ws.active \in Known /\ Shows(page'.ws)
      BY <2>1, <2>4, DoneIs DEF Known, Shows
    <3>. QED BY <1>12, <2>1, <3>1
  <2>. QED BY <2>2, <2>3, <2>4
<1>14. ASSUME NEW o \in Operation, NotWritten(o) PROVE KnownInv'
  <2>1. ~Goes(o) /\ ~Saving(o) /\ InFlight(o)
    BY <1>14 DEF NotWritten, Goes, Saving, Later, InFlight
  <2>. QED BY <1>12, <1>14, <2>1 DEF NotWritten, SameView, SameTally
<1>15. ASSUME NEW o \in Operation, IsWritten(o) PROVE KnownInv'
  <2>. DEFINE op == ops[o]
  <2>1. /\ Others(o) /\ op.stage = "served" /\ op.result # Failed /\ InFlight(o) /\ Under(o)
        /\ tally.overlaps = 0 /\ tally.unsaid = 0
        /\ page'.ws.there = page.ws.there /\ page'.ws.active = page.ws.active
        /\ page'.ws.cron = (IF op.kind = "save" /\ page.ws.there THEN op.cron ELSE page.ws.cron)
        /\ server' = server /\ page'.load = page.load
        /\ ops'[o].stage = "load" /\ ops'[o].kind = op.kind /\ ops'[o].report = op.report
    BY <1>15 DEF IsWritten, SameTally, Moves, InFlight, Under
  <2>2. \A p \in Operation : p # o => ~InFlight(p) /\ ops'[p] = ops[p]
    BY <2>1 DEF AloneInv, Others
  <2>3. op.kind = "save" => page.ws.there /\ op.report = page.ws.active
    BY <2>1 DEF AloneInv
  <2>4. \A p \in Operation : /\ Goes(p)' <=> Goes(p)
                             /\ ~Saving(p)' /\ (p # o => ~Saving(p)) /\ (Saving(o) <=> op.kind = "save")
    BY <2>1, <2>2 DEF Goes, Saving, Later, InFlight
  <2>5. (page.ws.active)' \in Known \/ Gone(page.ws.active)'
    <3>1. \A p \in Operation : ops'[p].report = ops[p].report
      BY <2>1, <2>2
    <3>. QED BY <2>1, <2>4, <3>1 DEF KnownInv, Gone
  <2>6. Shows(page'.ws)
    <3>1. CASE op.kind = "save"
      BY <2>1, <2>3, <2>4, <3>1 DEF KnownInv, Shows
    <3>2. CASE op.kind # "save"
      BY <2>1, <2>4, <3>2 DEF KnownInv, Shows
    <3>. QED BY <3>1, <3>2
  <2>7. \A p \in Operation : ops'[p].stage # "loaded" /\ ops'[p].stage # "sent"
    BY <2>1, <2>2 DEF InFlight
  <2>8. page.load.result.there => page.load.result.active \in Known /\ Shows(page.load.result)
    BY <2>1 DEF KnownInv
  <2>. HIDE DEF op
  <2>. QED BY <2>1, <2>4, <2>5, <2>6, <2>7, <2>8 DEF KnownInv, Known, Shows
<1>. QED
  BY <1>2, <1>3, <1>4, <1>5, <1>6, <1>7, <1>8, <1>10, <1>11, <1>13, <1>14, <1>15 DEF Steps
-----------------------------------------------------------------------------
(***************************************************************************)
(* Without a failure no report is asked for that is gone.                  *)
(***************************************************************************)
Deleting(o) == ops[o].kind = "delete" /\ ops[o].stage = "served"

\* Nothing has failed, and what is selected, listed, loaded or about to be is there, or is gone by the
\* delete that the page will hear of.
FreshInv ==
    tally.faults = 0 /\ tally.overlaps = 0 =>
        /\ tally.errors = 0
        /\ (\A o \in Operation : ~Deleting(o)) => page.selected \in Known
        /\ page.route # seen.route => page.route \in Known
        /\ Active(page) # seen.active => Active(page) \in Known
        /\ page.load # NoLoad =>
              /\ page.load.result # Failed /\ page.load.report \in Known
              /\ page.load.result.there => page.load.result.list \subseteq server.reports
        /\ \A r \in page.ws.list : r \in server.reports \/ Gone(r)
        /\ \A o \in Operation :
              /\ Later(o) => ops[o].next \in Known
              /\ ops[o].stage = "loaded" => ops[o].result.there /\ ops[o].result.list \subseteq server.reports
              /\ ops[o].kind = "create" /\ ops[o].stage = "served" => ops[o].report \in server.reports
              /\ ops[o].kind = "delete" /\ ops[o].stage = "sent" => ops[o].report \in server.reports
              /\ Deleting(o) => ops[o].result # Failed
              /\ ops[o].kind = "edit" /\ Under(o) => ops[o].report \in Known

LEMMA FreshInit == Init => FreshInv
<1>. SUFFICES ASSUME Init PROVE FreshInv
  OBVIOUS
<1>1. PICK r \in AtFirst \union {0} : page = Opened(r)
  BY DEF Init
<1>2. /\ page.ws = NoSpace /\ page.selected = r /\ page.route = r /\ page.load.report = r
      /\ page.load.result = Unserved /\ seen = Deps(page) /\ tally.errors = 0 /\ server.reports = AtFirst
  BY <1>1 DEF Opened, Init
<1>3. \A o \in Operation : ops[o].stage = "new"
  BY Constants_ DEF Init
<1>4. Unserved # Failed /\ ~Unserved.there /\ NoSpace.list = {}
  BY Constants_, DoneIs
<1>. QED
  BY <1>2, <1>3, <1>4 DEF FreshInv, Known, Deleting, Under, Later, Deps

LEMMA FreshStep == Inv /\ RouteInv /\ AloneInv /\ KnownInv /\ FreshInv /\ Steps => FreshInv'
<1>. SUFFICES ASSUME Inv, RouteInv, AloneInv, KnownInv, FreshInv, Steps, tally'.overlaps = 0, tally'.faults = 0
             PROVE  FreshInv'
  BY DEF FreshInv
<1>0. /\ server \in ServerState /\ TypeOK
      /\ page.load.report \in Nat
      /\ \A o \in Operation : ops[o].next \in Nat /\ ops[o].kind \in Kinds
  BY DEF Inv, TypeOK, PageState, ServerState, OpState
\* A step of the page only.
<1>1. ASSUME UNCHANGED <<server, ops>>, tally'.errors = 0,
             page'.ws = page.ws \/ page'.ws.list \subseteq server.reports,
             tally.overlaps = 0, tally.faults = 0,
             (\A o \in Operation : ~Deleting(o)) => page'.selected \in Known,
             page'.route # seen'.route => page'.route \in Known,
             Active(page') # seen'.active => Active(page') \in Known,
             page'.load # NoLoad =>
                /\ page'.load.result # Failed /\ page'.load.report \in Known
                /\ page'.load.result.there => page'.load.result.list \subseteq server.reports
      PROVE  FreshInv'
  <2>1. \A o \in Operation : /\ (Deleting(o)' <=> Deleting(o)) /\ (Later(o)' <=> Later(o))
                             /\ (Goes(o)' <=> Goes(o)) /\ (Under(o)' <=> Under(o))
    BY <1>1 DEF Deleting, Later, Goes, Under
  <2>2. \A r \in page'.ws.list : r \in server.reports \/ \E o \in Operation : Goes(o)' /\ ops'[o].report = r
    BY <1>1, <2>1 DEF FreshInv, Gone
  <2>. QED BY <1>1, <2>1, <2>2 DEF FreshInv, Known, Gone
<1>2. CASE Idles
  <2>1. tally.overlaps = 0 /\ tally.faults = 0 /\ SameView /\ UNCHANGED <<seen, server, ops>> /\ tally'.errors = tally.errors
    BY <1>2 DEF Idles
  <2>2. Active(page') = Active(page)
    BY <2>1 DEF SameView, Active
  <2>. QED BY <1>1, <2>1, <2>2 DEF SameView, FreshInv
<1>3. CASE Commits
  <2>1. tally.overlaps = 0 /\ tally.faults = 0 /\ UNCHANGED <<server, ops, tally>> /\ page'.ws = page.ws
    BY <1>3 DEF Commits
  <2>2. (\A o \in Operation : ~Deleting(o)) => page'.selected \in Known
    BY <1>3, <2>1 DEF Commits, FreshInv
  <2>3. page'.route # seen'.route => page'.route \in Known
    <3>1. page.route # seen.route => page.route = seen.active
      BY DEF RouteInv
    <3>. QED BY <1>3, <2>1, <3>1 DEF Commits, FreshInv, NavNeeded
  <2>4. Active(page') # seen'.active => Active(page') \in Known
    BY <1>3, <2>1 DEF Commits, FreshInv, Active
  <2>5. CASE seen.selected # page.selected
    <3>1. page'.load = [report |-> page.selected, result |-> Unserved]
      BY <1>3, <2>5 DEF Commits
    <3>2. \A o \in Operation : ~Deleting(o)
      BY <2>1, <2>5 DEF AloneInv, Still, Deleting, Under
    <3>3. page'.load.result = Unserved /\ page'.load.report \in Known
      BY <2>1, <3>1, <3>2 DEF FreshInv
    <3>4. Unserved # Failed /\ ~Unserved.there
      BY Constants_
    <3>. QED BY <1>1, <2>1, <2>2, <2>3, <2>4, <3>3, <3>4 DEF FreshInv
  <2>6. CASE seen.selected = page.selected
    <3>1. page'.load = page.load
      BY <1>3, <2>6 DEF Commits
    <3>. QED BY <1>1, <2>1, <2>2, <2>3, <2>4, <3>1 DEF FreshInv
  <2>. QED BY <2>5, <2>6
<1>4. CASE Loads
  <2>1. /\ tally.overlaps = 0 /\ tally.faults = 0 /\ tally.unsaid = 0 /\ UNCHANGED <<seen, server, ops>>
        /\ page.load # NoLoad
    BY <1>4 DEF Loads, Fails, RouteInv
  <2>2. /\ page.load.result # Failed /\ page.load.result.there /\ page'.ws = page.load.result
        /\ page'.selected = page.selected /\ page'.route = page.route /\ page'.load = NoLoad
        /\ tally'.errors = tally.errors
    BY <1>4, <2>1 DEF Loads, Fails, FreshInv
  <2>3. Active(page') \in Known
    BY <2>1, <2>2 DEF Active, KnownInv
  <2>. QED BY <1>1, <2>1, <2>2, <2>3 DEF FreshInv
<1>5. ASSUME NEW r, Selects(r) PROVE FreshInv'
  <2>1. /\ tally.overlaps = 0 /\ tally.faults = 0 /\ (Busy => r = page.selected) /\ UNCHANGED <<seen, server, ops>>
        /\ page'.selected = r /\ page'.ws = page.ws /\ page'.route = page.route /\ page'.load = page.load
        /\ tally'.errors = tally.errors /\ r \in page.ws.list /\ page.ws.there
    BY <1>5 DEF Selects, RouteInv
  <2>2. Active(page') = Active(page)
    BY <2>1 DEF Active
  <2>3. ASSUME \A o \in Operation : ~Deleting(o) PROVE r \in Known
    <3>1. CASE Busy
      BY <2>1, <2>3, <3>1 DEF FreshInv
    <3>2. CASE ~Busy
      <4>1. ~Gone(r)
        BY <3>2 DEF Busy, Gone, Goes, Later, InFlight
      <4>. QED BY <2>1, <4>1 DEF FreshInv, Known
    <3>. QED BY <3>1, <3>2
  <2>. QED BY <1>1, <2>1, <2>2, <2>3 DEF FreshInv
<1>6. ASSUME NEW result, LoadComes(result) PROVE FreshInv'
  <2>1. /\ tally.overlaps = 0 /\ tally.faults = 0 /\ UNCHANGED <<seen, server, ops>> /\ page.load # NoLoad
        /\ page'.ws = page.ws /\ page'.selected = page.selected /\ page'.route = page.route
        /\ page'.load.report = page.load.report /\ page'.load.result = result
        /\ tally'.errors = tally.errors /\ result = Workspace(page.load.report)
    BY <1>6 DEF LoadComes
  <2>2. page.load.report \in Known
    BY <2>1 DEF FreshInv
  <2>3. result # Failed /\ (result.there => result.list \subseteq server.reports)
    BY <1>0, <2>1, <2>2, WorkspaceIs
  <2>4. Active(page') = Active(page)
    BY <2>1 DEF Active
  <2>. QED BY <1>1, <2>1, <2>2, <2>3, <2>4 DEF FreshInv
<1>7. ASSUME NEW o \in Operation, Begins(o) PROVE FreshInv'
  <2>1. /\ tally.overlaps = 0 /\ tally.faults = 0 /\ tally.unsaid = 0 /\ ~Busy /\ SameView /\ UNCHANGED <<seen, server>>
        /\ tally'.errors = tally.errors /\ ops[o].stage = "new" /\ Others(o) /\ ops'[o].stage = "sent"
        /\ ops'[o].kind = "delete" => ops'[o].report \in page.ws.list
        /\ ops'[o].kind = "edit" => ops'[o].report = page.ws.active
    BY <1>7 DEF Begins, RouteInv
  <2>2. \A p \in Operation : /\ ~InFlight(p) /\ ~Goes(p) /\ ~Goes(p)' /\ ~Deleting(p) /\ ~Deleting(p)' /\ ~Later(p)'
                             /\ p # o => ~InFlight(p)'
    BY <2>1 DEF Busy, Others, InFlight, Goes, Deleting, Later
  <2>3. \A r \in page.ws.list : r \in server.reports
    BY <2>1, <2>2 DEF FreshInv, Gone
  <2>4. Active(page') = Active(page)
    BY <2>1 DEF SameView, Active
  <2>5. \A p \in Operation : /\ ops'[p].stage # "loaded" /\ ops'[p].stage # "served"
                             /\ ops'[p].kind = "delete" /\ ops'[p].stage = "sent" => ops'[p].report \in server.reports
    BY <2>1, <2>2, <2>3 DEF InFlight
  <2>6. page.selected \in Known
    BY <2>1, <2>2 DEF FreshInv
  <2>7. \A p \in Operation : ops'[p].kind = "edit" /\ Under(p)' => ops'[p].report \in Known
    <3>1. page.ws.active \in Known
      BY <2>1, <2>2 DEF KnownInv, Gone
    <3>. QED BY <2>1, <2>2, <3>1 DEF Under, InFlight
  <2>. QED BY <2>1, <2>2, <2>3, <2>4, <2>5, <2>6, <2>7 DEF SameView, FreshInv, Known
<1>8. ASSUME NEW o \in Operation, Served(o) PROVE FreshInv'
  <2>. DEFINE op == ops[o]
              R == server.reports
  <2>1. /\ op.stage = "sent" /\ InFlight(o) /\ Under(o) /\ UNCHANGED <<page, seen, goal, tally>>
        /\ server' = Written(op) /\ tally.overlaps = 0 /\ tally.faults = 0
        /\ Others(o) /\ ops'[o].stage = "served" /\ ops'[o].kind = op.kind /\ ops'[o].report = op.report
        /\ ops'[o].result = IF op.kind = "create" \/ op.report \in R THEN NoSpace ELSE Failed
    BY <1>8 DEF Served, Moves, InFlight, Under
  <2>2. \A p \in Operation : p # o => ~InFlight(p) /\ ~InFlight(p)' /\ ops'[p] = ops[p]
    BY <2>1 DEF AloneInv, Others, InFlight
  <2>3. op.kind = "delete" => page.load = NoLoad /\ seen.route = page.route /\ seen.active = Active(page)
    BY <2>1 DEF AloneInv, Still
  <2>4. \A p \in Operation : ~Deleting(p) /\ ~Goes(p) /\ (p # o => ~Deleting(p)' /\ ~Goes(p)') /\ ~Later(p)'
    BY <2>1, <2>2 DEF Deleting, Goes, Later, InFlight
  <2>5. /\ page.selected \in R \union {0} /\ page.ws.list \subseteq R /\ tally.errors = 0
        /\ op.kind = "delete" => op.report \in R
    BY <2>1, <2>4 DEF FreshInv, Known, Gone
  <2>6. /\ op.kind = "delete" => server'.reports = R \ {op.report}
        /\ op.kind # "delete" => R \subseteq server'.reports
        /\ op.kind = "create" => op.report \in server'.reports
    BY <1>0, <2>1, WrittenIs
  <2>7. op.kind = "delete" => Goes(o)' /\ ops'[o].result # Failed
    BY <2>1, <2>5, Constants_ DEF Goes
  <2>8. (\A p \in Operation : ~Deleting(p)') => page.selected \in server'.reports \union {0}
    <3>. SUFFICES ASSUME ~Deleting(o)' PROVE page.selected \in server'.reports \union {0}
      OBVIOUS
    <3>1. op.kind # "delete"
      BY <2>1 DEF Deleting
    <3>. QED BY <2>5, <2>6, <3>1
  <2>9. \A r \in page.ws.list : r \in server'.reports \/ \E p \in Operation : Goes(p)' /\ ops'[p].report = r
    <3>. SUFFICES ASSUME NEW r \in page.ws.list, r \notin server'.reports
                 PROVE  \E p \in Operation : Goes(p)' /\ ops'[p].report = r
      OBVIOUS
    <3>1. op.kind = "delete" /\ r = op.report
      BY <2>5, <2>6
    <3>. QED BY <2>1, <2>7, <3>1
  <2>10. \A p \in Operation :
              /\ ops'[p].stage # "loaded" /\ ops'[p].stage # "sent"
              /\ ops'[p].kind = "create" /\ ops'[p].stage = "served" => ops'[p].report \in server'.reports
              /\ Deleting(p)' => ops'[p].result # Failed
              /\ ops'[p].kind = "edit" /\ Under(p)' => ops'[p].report \in server'.reports \union {0}
    <3>1. op.kind = "edit" => op.report \in R \union {0}
      BY <2>1 DEF FreshInv, Known
    <3>. QED BY <2>1, <2>2, <2>4, <2>6, <2>7, <3>1 DEF InFlight, Under, Deleting
  <2>11. page' = page /\ seen' = seen /\ tally' = tally
    BY <2>1
  <2>12. /\ page.route # seen.route => page.route \in server'.reports \union {0}
         /\ Active(page) # seen.active => Active(page) \in server'.reports \union {0}
         /\ page.load # NoLoad =>
               /\ page.load.result # Failed /\ page.load.report \in server'.reports \union {0}
               /\ page.load.result.there => page.load.result.list \subseteq server'.reports
    <3>1. CASE op.kind = "delete"
      BY <2>3, <3>1
    <3>2. CASE op.kind # "delete"
      BY <2>1, <2>6, <3>2 DEF FreshInv, Known
    <3>. QED BY <3>1, <3>2
  <2>. HIDE DEF op, R
  <2>. QED BY <2>4, <2>5, <2>8, <2>9, <2>10, <2>11, <2>12 DEF FreshInv, Known, Gone
<1>9. ASSUME NEW o \in Operation, Reloaded(o) PROVE FreshInv'
  <2>. DEFINE result == Workspace(ops[o].next)
  <2>1. /\ tally.overlaps = 0 /\ tally.faults = 0 /\ UNCHANGED <<page, seen, server, goal, tally>>
        /\ ops[o].stage = "load" /\ Later(o) /\ Others(o)
        /\ ops'[o].stage = "loaded" /\ ops'[o].result = result /\ ops'[o].kind = ops[o].kind
        /\ ops'[o].report = ops[o].report /\ ops'[o].next = ops[o].next
    BY <1>9 DEF Reloaded, Moves, Later
  <2>2. ops[o].next \in Known
    BY <2>1 DEF FreshInv
  <2>3. result.there /\ result.list \subseteq server.reports
    BY <1>0, <2>2, WorkspaceIs
  <2>. HIDE DEF result
  <2>4. \A p \in Operation : /\ (Deleting(p)' <=> Deleting(p)) /\ (Later(p)' <=> Later(p)) /\ (Goes(p)' <=> Goes(p))
                             /\ Under(p)' <=> Under(p)
                             /\ ops'[p].report = ops[p].report /\ ops'[p].next = ops[p].next
                             /\ ops'[p].kind = ops[p].kind
                             /\ p # o => ops'[p] = ops[p]
    BY <2>1 DEF Others, Deleting, Later, Goes, Under
  <2>5. \A r \in page.ws.list : r \in server.reports \/ \E p \in Operation : Goes(p)' /\ ops'[p].report = r
    BY <2>1, <2>4 DEF FreshInv, Gone
  <2>6. \A p \in Operation :
              /\ Later(p)' => ops'[p].next \in Known
              /\ ops'[p].stage = "loaded" => ops'[p].result.there /\ ops'[p].result.list \subseteq server.reports
              /\ ops'[p].kind = "create" /\ ops'[p].stage = "served" => ops'[p].report \in server.reports
              /\ ops'[p].kind = "delete" /\ ops'[p].stage = "sent" => ops'[p].report \in server.reports
              /\ Deleting(p)' => ops'[p].result # Failed
              /\ ops'[p].kind = "edit" /\ Under(p)' => ops'[p].report \in Known
    <3>. SUFFICES ASSUME NEW p \in Operation
                 PROVE
              /\ Later(p)' => ops'[p].next \in Known
              /\ ops'[p].stage = "loaded" => ops'[p].result.there /\ ops'[p].result.list \subseteq server.reports
              /\ ops'[p].kind = "create" /\ ops'[p].stage = "served" => ops'[p].report \in server.reports
              /\ ops'[p].kind = "delete" /\ ops'[p].stage = "sent" => ops'[p].report \in server.reports
              /\ Deleting(p)' => ops'[p].result # Failed
              /\ ops'[p].kind = "edit" /\ Under(p)' => ops'[p].report \in Known
      OBVIOUS
    <3>1. CASE p = o
      BY <2>1, <2>2, <2>3, <3>1 DEF Deleting, Under
    <3>2. CASE p # o
      BY <2>1, <2>4, <3>2 DEF FreshInv
    <3>. QED BY <3>1, <3>2
  <2>. QED BY <2>1, <2>4, <2>5, <2>6 DEF FreshInv, Known, Gone
<1>10. ASSUME NEW o \in Operation, Lost(o) PROVE FreshInv'
  BY <1>10 DEF Lost
\* An answer ends the operation, or brings it to its load.
<1>11. ASSUME NEW o \in Operation, Others(o), InFlight(o), tally.overlaps = 0, tally.faults = 0,
              UNCHANGED <<server, seen>>, tally'.errors = tally.errors,
              \/ ops'[o] = Done
              \/ ops'[o].stage = "load" /\ ops'[o].next \in Known,
              page'.route = page.route, page'.load = page.load, page'.selected \in Known,
              Active(page') # seen.active => Active(page') \in Known,
              \/ page'.ws.list \subseteq server.reports
              \/ page'.ws.list = page.ws.list /\ ~Goes(o)
              \/ page'.ws.list = page.ws.list /\ Goes(o)' /\ ops'[o].report = ops[o].report
       PROVE  FreshInv'
  <2>1. \A p \in Operation : p # o => ~InFlight(p) /\ ~InFlight(p)' /\ ~Goes(p)
    BY <1>11 DEF AloneInv, Others, InFlight, Goes, Later
  <2>2. ops'[o].stage \in {"over", "load"}
    BY <1>11, DoneIs
  <2>3. \A p \in Operation : /\ ~Deleting(p)' /\ ops'[p].stage # "loaded" /\ ops'[p].stage # "served"
                             /\ ops'[p].stage # "sent" /\ (Later(p)' => ops'[p].next \in Known)
    BY <1>11, <2>1, <2>2, DoneIs DEF InFlight, Deleting, Later
  <2>4. \A r \in page'.ws.list : r \in server.reports \/ \E p \in Operation : Goes(p)' /\ ops'[p].report = r
    <3>. SUFFICES ASSUME NEW r \in page.ws.list, r \notin server.reports, page'.ws.list = page.ws.list
                 PROVE  \E p \in Operation : Goes(p)' /\ ops'[p].report = r
      BY <1>11
    <3>1. Goes(o) /\ ops[o].report = r
      BY <1>11, <2>1 DEF FreshInv, Gone
    <3>. QED BY <1>11, <3>1
  <2>. QED BY <1>11, <2>3, <2>4 DEF FreshInv, Known, Gone, Under
<1>12. ASSUME NEW o \in Operation, Reloads(o) PROVE FreshInv'
  <2>1. /\ tally.overlaps = 0 /\ tally.faults = 0 /\ tally.unsaid = 0 /\ ops[o].stage = "loaded" /\ InFlight(o)
        /\ Others(o) /\ ops'[o] = Done /\ UNCHANGED <<server, seen>>
        /\ page'.selected = page.selected /\ page'.route = page.route /\ page'.load = page.load
    BY <1>12 DEF Reloads, Fails, InFlight, RouteInv
  <2>2. ops[o].result.there /\ ops[o].result.list \subseteq server.reports
    BY <2>1 DEF FreshInv
  <2>3. page'.ws = ops[o].result /\ tally'.errors = tally.errors
    BY <1>12, <2>2, Constants_ DEF Reloads, Fails
  <2>4. Active(page') \in Known
    BY <2>1, <2>2, <2>3 DEF Active, KnownInv
  <2>5. \A p \in Operation : ~Deleting(p)
    BY <2>1 DEF AloneInv, Deleting, InFlight
  <2>6. page.selected \in Known
    BY <2>1, <2>5 DEF FreshInv
  <2>. QED BY <1>11, <2>1, <2>2, <2>3, <2>4, <2>6
<1>13. ASSUME NEW o \in Operation, NotWritten(o) PROVE FreshInv'
  <2>1. /\ tally.overlaps = 0 /\ tally.faults = 0 /\ ops[o].stage = "served" /\ InFlight(o)
        /\ Others(o) /\ ops'[o] = Done /\ UNCHANGED <<server, seen>> /\ SameView /\ tally'.errors = tally.errors
        /\ ops[o].result = Failed \/ ops[o].kind = "preview"
    BY <1>13 DEF NotWritten, SameTally, InFlight
  <2>2. ~Deleting(o) /\ ~Goes(o)
    BY <2>1 DEF FreshInv, Deleting, Goes, Later
  <2>3. \A p \in Operation : ~Deleting(p)
    BY <2>1, <2>2 DEF AloneInv, Deleting, InFlight
  <2>4. page.selected \in Known
    BY <2>1, <2>3 DEF FreshInv
  <2>5. Active(page') = Active(page)
    BY <2>1 DEF SameView, Active
  <2>6. Active(page') # seen.active => Active(page') \in Known
    BY <2>1, <2>5 DEF FreshInv
  <2>. QED BY <1>11, <2>1, <2>2, <2>4, <2>6 DEF SameView
<1>14. ASSUME NEW o \in Operation, IsWritten(o) PROVE FreshInv'
  <2>. DEFINE op == ops[o]
  <2>1. /\ tally.overlaps = 0 /\ tally.faults = 0 /\ tally.unsaid = 0 /\ op.stage = "served" /\ InFlight(o) /\ Under(o)
        /\ Others(o) /\ UNCHANGED <<server, seen>> /\ tally'.errors = tally.errors /\ op.result # Failed
        /\ page'.ws.there = page.ws.there /\ page'.ws.active = page.ws.active /\ page'.ws.list = page.ws.list
        /\ page'.selected = IF op.kind = "save" THEN page.selected
                            ELSE IF op.kind = "delete" THEN op.next ELSE op.report
        /\ page'.route = page.route /\ page'.load = page.load
        /\ ops'[o].stage = "load" /\ ops'[o].kind = op.kind /\ ops'[o].report = op.report /\ ops'[o].next = op.next
        /\ op.kind \in {"save", "edit", "create", "delete"}
    BY <1>0, <1>14 DEF IsWritten, SameTally, Moves, InFlight, Under, RouteInv, Kinds
  <2>2. \A p \in Operation : p # o => ~InFlight(p) /\ ~Goes(p)
    BY <2>1 DEF AloneInv, InFlight, Goes, Later
  <2>3. /\ op.kind = "save" => page.ws.there /\ op.report = page.ws.active /\ op.next = page.ws.active
        /\ op.kind \in {"create", "edit"} => op.next = op.report
        /\ op.kind = "delete" => op.next # op.report /\ page.ws.there /\ op.next \in page.ws.list \union {0, Active(page)}
    BY <2>1 DEF AloneInv
  <2>10. seen.active = Active(page)
    BY <1>14, QuietSees DEF IsWritten
  <2>4. \A r : Gone(r) => op.kind = "delete" /\ r = op.report
    BY <2>1, <2>2 DEF Gone, Goes
  <2>5. page.ws.active \in Known \/ (op.kind = "delete" /\ page.ws.active = op.report)
    BY <2>1, <2>4 DEF KnownInv
  <2>6. op.next \in Known
    <3>1. CASE op.kind = "save"
      BY <2>3, <2>5, <3>1
    <3>2. CASE op.kind \in {"create", "edit"}
      BY <2>1, <2>3, <3>2 DEF FreshInv, Known
    <3>3. CASE op.kind = "delete"
      <4>1. Active(page) = page.ws.active
        BY <2>3, <3>3 DEF Active
      <4>2. \A r \in page.ws.list : r \in server.reports \/ r = op.report
        BY <2>1, <2>4 DEF FreshInv
      <4>. QED BY <2>3, <2>5, <3>3, <4>1, <4>2 DEF Known
    <3>. QED BY <2>1, <3>1, <3>2, <3>3
  <2>7. page'.selected \in Known
    <3>1. CASE op.kind = "save"
      <4>1. \A p \in Operation : ~Deleting(p)
        BY <2>1, <2>2, <3>1 DEF Deleting, InFlight
      <4>. QED BY <2>1, <3>1, <4>1 DEF FreshInv
    <3>2. CASE op.kind # "save"
      BY <2>1, <2>3, <2>6, <3>2
    <3>. QED BY <3>1, <3>2
  <2>8. Active(page') # seen.active => Active(page') \in Known
    BY <2>1, <2>7, <2>10 DEF Active
  <2>9. ~Goes(o) \/ Goes(o)'
    BY <2>1 DEF Goes, Later
  <2>. HIDE DEF op
  <2>. QED BY <1>11, <2>1, <2>6, <2>7, <2>8, <2>9 DEF op
<1>. QED
  BY <1>2, <1>3, <1>4, <1>5, <1>6, <1>7, <1>8, <1>9, <1>10, <1>12, <1>13, <1>14 DEF Steps

-----------------------------------------------------------------------------
RestInv == Inv /\ DialogInv /\ RouteInv /\ AloneInv /\ GoalInv /\ KnownInv /\ FreshInv

LEMMA RestHolds == Spec => []RestInv
<1>1. Init => RestInv
  BY InitInv, DialogInit, RouteInit, AloneInit, GoalInit, KnownInit, FreshInit DEF RestInv
<1>2. RestInv /\ [Next]_vars => RestInv'
  <2>. SUFFICES ASSUME RestInv, [Next]_vars PROVE RestInv'
    OBVIOUS
  <2>1. Inv /\ DialogInv /\ RouteInv /\ AloneInv /\ GoalInv /\ KnownInv /\ FreshInv
    BY DEF RestInv
  <2>2. Steps
    BY <2>1, NextSteps
  <2>3. Inv' /\ DialogInv'
    BY <2>1, StepInv, DialogStep
  <2>. QED BY <2>1, <2>2, <2>3, RouteStep, AloneStep, GoalStep, KnownStep, FreshStep DEF RestInv
<1>. QED
  BY <1>1, <1>2, PTL DEF Spec

LEMMA AtRestSees ==
    ASSUME Inv, AtRest
    PROVE  /\ page.load = NoLoad /\ \A o \in Operation : ~InFlight(o)
           /\ tally.errors = 0 => page.ws.there /\ page.selected \in {0, page.ws.active}
<1>1. /\ seen.route = page.route /\ seen.selected = page.selected /\ ~page.gone
      /\ page.ws.there => seen.active = page.ws.active
      /\ page.load = NoLoad
  BY QuietSees DEF AtRest, Quiet
<1>. QED
  BY <1>1 DEF AtRest, Inv, PageInv, LoadInv, Settling

\* The report asked for last is the one that is shown in the end, for every number of reports, clicks
\* and writes, also when the create or the edit that asked for it met a load that was out.
THEOREM GoalShown == Spec => []GoalIsShown
<1>1. RestInv => GoalIsShown
  <2>. SUFFICES ASSUME RestInv, AtRest, tally.errors = 0, goal # 0 PROVE page.ws.active = goal
    BY DEF GoalIsShown
  <2>1. page.selected \in {0, page.ws.active}
    BY AtRestSees DEF RestInv
  <2>. QED BY <2>1 DEF RestInv, GoalInv
<1>. QED
  BY <1>1, RestHolds, PTL

\* A page at rest shows no report that is gone.
THEOREM ActiveIsThere == Spec => []ActiveExists
<1>1. RestInv => ActiveExists
  <2>. SUFFICES ASSUME RestInv, AtRest, tally.faults = 0, tally.overlaps = 0
               PROVE  page.ws.there /\ page.ws.active \in server.reports \union {0}
    BY DEF ActiveExists
  <2>1. tally.errors = 0 /\ tally.unsaid = 0
    BY DEF RestInv, FreshInv, RouteInv
  <2>2. page.ws.there /\ \A o \in Operation : ~InFlight(o)
    BY <2>1, AtRestSees DEF RestInv
  <2>3. ~Gone(page.ws.active)
    BY <2>2 DEF Gone, Goes, Later, InFlight
  <2>. QED BY <2>1, <2>2, <2>3 DEF RestInv, KnownInv, Known
<1>. QED
  BY <1>1, RestHolds, PTL

\* What is shown of a schedule is what the server has, whether or not the workspace could be loaded
\* after a save.
THEOREM SavedShown == Spec => []SavedIsShown
<1>1. RestInv => SavedIsShown
  <2>. SUFFICES ASSUME RestInv, AtRest, tally.overlaps = 0, tally.unsaid = 0, page.ws.there,
                      page.ws.active \in server.reports
               PROVE  page.ws.of = page.ws.active /\ page.ws.cron = {server.cron[page.ws.active]}
    BY DEF SavedIsShown
  <2>1. \A o \in Operation : ~InFlight(o)
    BY AtRestSees DEF RestInv
  <2>2. Shows(page.ws)
    BY <2>1 DEF RestInv, KnownInv, Saving, InFlight
  <2>. QED BY <2>2 DEF RestInv, AloneInv, OfActive, Shows
<1>. QED
  BY <1>1, RestHolds, PTL
=============================================================================
