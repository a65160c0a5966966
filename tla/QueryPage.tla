----------------------------- MODULE QueryPage -----------------------------
(***************************************************************************)
(* The log query page: the hook useQueryWorkspace and the part of          *)
(* QueryPage that selects tables, keeps a query per tab and runs queries.  *)
(*                                                                         *)
(* page is the state of the component (useState), its refs, the requests   *)
(* in flight and what the browser stores.  An event handler reads the page *)
(* as it was rendered.  Commit is one commit of React: every effect whose  *)
(* dependencies changed since the last commit runs, in the order in which  *)
(* the effects are declared; each reads the rendered page u and changes    *)
(* the page w the effects before it left.  Answers of the server arrive at *)
(* any time, also between the click that closes a tab and its timer, which *)
(* switches with the page of that click.  Handlers run when the page is    *)
(* quiet, since a cascade of commits takes milliseconds.                   *)
(***************************************************************************)
EXTENDS Naturals, Sequences, FiniteSetsExt

CONSTANTS Listing,    \* the tables in the order of the server: [inst, db, name]
          AtFirst,    \* the tables that exist when the page opens
          MaxClicks   \* bound: events of the user

Tables == DOMAIN Listing

ASSUME ListingAssumption ==
    /\ Listing \in Seq([inst : Nat \ {0}, db : STRING \ {""}, name : STRING \ {""}])
    /\ AtFirst \subseteq Tables
    /\ \A t, x \in Tables : Listing[t] = Listing[x] => t = x
ASSUME ClicksAssumption == MaxClicks \in Nat

VARIABLES page,    \* the page, its requests and what the browser keeps of it
          seen,    \* the dependencies of the effects at the last commit
          server,  \* the tables that exist
          goal,    \* the table last asked for by a click, a refresh or the URL (0: none)
          clicks   \* events of the user so far

vars == <<page, seen, server, goal, clicks>>

\* A query is named by the table on whose tab it was typed; 0 is the empty one.
\* A run, and the rows it leaves, remember whether it is the first query, which the
\* page starts by itself.
Texts == Tables \union {0}

NoTarget == [inst |-> 0, db |-> "", name |-> "", id |-> 0]
NoRows   == [id |-> 0, text |-> 0, first |-> FALSE]
NoQuery  == [id |-> 0, text |-> 0, copy |-> FALSE]
NoUrl    == <<"", "">>

\* A page that has just opened: the first list is asked for, and the effects of
\* the mount have taken the table out of the URL.
Opened(target, storedTabs) ==
    [rev |-> 0, list |-> {}, shown |-> {},                     \* instances, tablesByDatabase
     inst |-> 0, db |-> "", tbl |-> "", tid |-> 0,             \* the selection
     text |-> 0, kept |-> <<>>, tabs |-> <<>>, auto |-> NoQuery,
     logs |-> NoRows, charts |-> NoRows, loading |-> FALSE,
     fields |-> 0,
     target |-> NoTarget, restore |-> 0, run |-> 0,            \* refs
     started |-> 0, restored |-> FALSE,
     runs |-> {}, fieldsAsked |-> 0, trees |-> {target},       \* in flight
     timer |-> <<>>,
     url |-> NoUrl, stored |-> storedTabs,                       \* location, localStorage
     late |-> FALSE]   \* history: the last list came before the timer of a closed tab

------------------------------------------------------------------------------
\* Derived values (useMemo): objects change identity with every list of the server,
\* and the open tabs with their restoring too.

HasDb(u) == \E t \in Tables : Listing[t].inst = u.inst /\ Listing[t].db = u.db

TablesIn(u, i, d) == {t \in u.list : Listing[t].inst = i /\ Listing[t].db = d}

TableNamed(u, i, d, n) ==
    LET found == {t \in TablesIn(u, i, d) : Listing[t].name = n}
    IN  IF found = {} THEN 0 ELSE Min(found)

TableOf(u) == TableNamed(u, u.inst, u.db, u.tbl)

ValidTabs(u) == SelectSeq(u.tabs, LAMBDA tab : tab.id \in u.shown)

Deps(u) == [instance |-> <<u.rev, u.inst>>,
            database |-> IF HasDb(u) THEN <<u.rev, u.inst, u.db>> ELSE <<>>,
            table |-> IF TableOf(u) # 0 THEN <<u.rev, TableOf(u)>> ELSE <<>>,
            inst |-> u.inst, db |-> u.db, tbl |-> u.tbl, tid |-> u.tid,
            text |-> u.text, auto |-> u.auto, shown |-> u.shown, valid |-> <<u.restored, ValidTabs(u)>>]

Settled == seen = Deps(page)

Quiet == Settled /\ page.timer = <<>>

------------------------------------------------------------------------------
\* Operations of the hook.

\* mutant: the page goes on saying that it loads
CancelQuietly(w) ==
    [w EXCEPT !.run = 0,
              !.runs = {IF r.id = w.run THEN [r EXCEPT !.aborted = TRUE] ELSE r : r \in @}]
\* abortActiveQueryRequest, and the new run id that no request has
CancelQuery(w) ==
    [w EXCEPT !.run = 0, !.loading = FALSE,
              !.runs = {IF r.id = w.run THEN [r EXCEPT !.aborted = TRUE] ELSE r : r \in @}]

ClearResults(w) == [CancelQuery(w) EXCEPT !.logs = NoRows, !.charts = NoRows]

NewRun(w) == Min((1 .. Cardinality(w.runs) + 1) \ {r.id : r \in w.runs})

RunQuery(u, w, text, first) ==
    LET off   == CancelQuery(w)
        table == IF u.tid # 0 THEN u.tid ELSE TableOf(u)
    IN  IF table = 0
        THEN off
        ELSE [off EXCEPT !.run = NewRun(off), !.loading = TRUE,
                         !.runs = @ \union {[id |-> NewRun(off), tid |-> table,
                                             text |-> text, first |-> first, aborted |-> FALSE]}]

\* mutant: the name selected before comes first
PickCurrent(wanted, current, names, first) ==
    CASE current \in names  -> current
      [] current \notin names /\ wanted \in names -> wanted
      [] OTHER -> first
PickName(wanted, current, names, first) ==
    CASE wanted \in names  -> wanted
      [] wanted \notin names /\ current \in names -> current
      [] OTHER -> first

FirstDb(i) == Listing[Min({t \in Tables : Listing[t].inst = i})].db

FirstTable(u) ==
    LET here == TablesIn(u, u.inst, u.db)
    IN  IF here = {} THEN "" ELSE Listing[Min(here)].name

SetInstance(u, w, i) ==
    IF i = u.inst
    THEN w
    ELSE [ClearResults(w) EXCEPT !.target = NoTarget, !.db = "", !.tbl = "", !.tid = 0,
                                 !.shown = {}, !.inst = i]

SetDatabase(u, w, d) ==
    IF d = u.db
    THEN w
    ELSE [ClearResults(w) EXCEPT !.target = NoTarget, !.tbl = "", !.tid = 0,
                                 !.db = d]

SetTable(w, n) == [w EXCEPT !.target = NoTarget, !.tbl = n]

Select(u, w, t) ==
    SetTable(SetDatabase(u, SetInstance(u, w, Listing[t].inst), Listing[t].db), Listing[t].name)

AddTab(tabs, tab) == IF \E k \in DOMAIN tabs : tabs[k].id = tab.id THEN tabs ELSE Append(tabs, tab)

TabOf(t) == [id |-> t, db |-> Listing[t].db, name |-> Listing[t].name]

\* a query kept under the id of a table, and taken out
With(f, t, text) == [x \in DOMAIN f \union {t} |-> IF x = t THEN text ELSE f[x]]
Without(f, t) == [x \in DOMAIN f \ {t} |-> f[x]]

\* a query asked for is a new object: copy tells it from an equal one of the last commit
Asked(t, text) ==
    LET query == [id |-> t, text |-> text, copy |-> FALSE]
    IN  IF seen.auto = query THEN [query EXCEPT !.copy = TRUE] ELSE query

\* selectTableAndQueryRecentLogs, with the page u of the render that made the handler
PickTable(u, w, t) ==
    LET switching == u.tid # 0 /\ u.tid # t
        text == CASE ~switching -> u.text
                  [] switching /\ t \in DOMAIN u.kept -> u.kept[t]
                  [] OTHER -> 0
        kept == IF switching THEN With(w.kept, u.tid, u.text) ELSE w.kept
    IN  [Select(u, [w EXCEPT !.kept = kept, !.restore = t, !.text = text,
                             !.tabs = AddTab(@, TabOf(t))], t)
            EXCEPT !.auto = Asked(t, text)]

------------------------------------------------------------------------------
\* The effects, in the order of their declaration.

InstanceEffect(u, w) ==
    IF u.inst = 0
    THEN [ClearResults(w) EXCEPT !.shown = {}, !.db = "", !.tbl = "", !.tid = 0]
    ELSE LET here   == {t \in u.list : Listing[t].inst = u.inst}
             dbs    == {Listing[t].db : t \in {x \in Tables : Listing[x].inst = u.inst}}
             wanted == CASE w.target.inst # u.inst -> ""
                         [] w.target.inst = u.inst /\ w.target.id \in here -> Listing[w.target.id].db
                         [] OTHER -> w.target.db
         IN  [ClearResults(w) EXCEPT !.shown = here,
                                     !.db = PickName(wanted, u.db, dbs, FirstDb(u.inst))]

DatabaseEffect(u, w) ==
    IF ~HasDb(u)
    THEN [ClearResults(w) EXCEPT !.tbl = "", !.tid = 0]
    ELSE LET here   == TablesIn(u, u.inst, u.db)
             names  == {Listing[t].name : t \in here}
             aimed  == w.target.inst = u.inst /\ w.target.db = u.db
             wanted == CASE ~aimed -> ""
                         [] aimed /\ w.target.id \in here -> Listing[w.target.id].name
                         [] OTHER -> w.target.name
         IN  [ClearResults(w) EXCEPT !.tbl = PickName(wanted, u.tbl, names, FirstTable(u)), !.tid = 0]

Reached(target, u) ==
    /\ target.inst = u.inst
    /\ target.db = u.db
    /\ target.name \in {"", u.tbl}
    /\ target.id \in {0, TableOf(u)}

TableEffect(u, w) ==
    IF TableOf(u) = 0
    THEN [w EXCEPT !.tid = 0]
    ELSE [w EXCEPT !.tid = TableOf(u),
                   !.target = IF Reached(@, u) THEN NoTarget ELSE @]

\* mutant: fields are not asked for while an answer is awaited
FieldsOnce(u, w) ==
    IF w.fieldsAsked # 0 THEN w ELSE [w EXCEPT !.fieldsAsked = u.tid, !.fields = 0]
\* the cleanup makes the answer of the earlier request count for nothing
FieldsEffect(u, w) ==
    [w EXCEPT !.fieldsAsked = u.tid, !.fields = IF u.tid = 0 THEN 0 ELSE @]

UrlEffect(u, w) ==
    [w EXCEPT !.url = IF u.db # "" /\ u.tbl # "" THEN <<u.db, u.tbl>> ELSE NoUrl]

\* started is the number of the list on which the first query was run (0: not yet)
InitialEffect(u, w) ==
    IF w.started # 0 \/ u.auto.id # 0 \/ u.tid = 0
    THEN w
    ELSE RunQuery(u, [w EXCEPT !.started = u.rev], u.text, TRUE)

\* the stored tabs that name a table of the instance shown
RestoredTabs(u) ==
    LET found(pair) == {t \in u.shown : Listing[t].db = pair[1] /\ Listing[t].name = pair[2]}
        real == SelectSeq(u.stored, LAMBDA pair : found(pair) # {})
    IN  [k \in DOMAIN real |-> TabOf(Min(found(real[k])))]

RestoreEffect(u, w) ==
    IF w.restored \/ u.shown = {}
    THEN w
    ELSE [w EXCEPT !.restored = TRUE,
                   !.tabs = RestoredTabs(u) \o
                            SelectSeq(@, LAMBDA tab : \A k \in DOMAIN RestoredTabs(u) :
                                                          RestoredTabs(u)[k].id # tab.id)]

\* mutant: the flag is not taken down again
HydratingForever(u, w) == ~w.restored \/ RestoredTabs(u) # <<>>
\* openLogTabsHydratingRef skips the write of the commit that restores tabs
Hydrating(u, w) == ~w.restored \/ (~u.restored /\ RestoredTabs(u) # <<>>)

StoreEffect(u, w) ==
    IF Hydrating(u, w)
    THEN w
    ELSE [w EXCEPT !.stored = [k \in DOMAIN ValidTabs(u) |-> <<ValidTabs(u)[k].db, ValidTabs(u)[k].name>>]]

Restoring(u, w) == u.tid = 0 \/ w.restore \notin {0, u.tid}

KeepEffect(u, w) ==
    IF Restoring(u, w)
    THEN w
    ELSE [w EXCEPT !.kept = With(@, u.tid, u.text), !.restore = 0]

TabEffect(u, w) ==
    IF u.tid = 0 \/ u.db = "" \/ u.tbl = ""
    THEN w
    ELSE [w EXCEPT !.tabs = AddTab(@, [id |-> u.tid, db |-> u.db, name |-> u.tbl])]

AutoEffect(u, w) ==
    LET wanted == u.auto
    IN  IF wanted.id = 0 \/ u.tid # wanted.id
           \/ <<u.inst, u.db, u.tbl>> # <<Listing[wanted.id].inst, Listing[wanted.id].db, Listing[wanted.id].name>>
        THEN w
        ELSE RunQuery(u, [w EXCEPT !.auto = NoQuery], wanted.text, FALSE)

------------------------------------------------------------------------------
\* A commit: the effects whose dependencies changed.

If(changed, new, w) == IF changed THEN new ELSE w

\* mutant: a new list with the same names goes unnoticed
TableDepsByName == {"db", "inst", "tbl"}
TableDeps == {"db", "inst", "table"}

HookEffects(u, c) ==
    LET w1 == If("instance" \in c, InstanceEffect(u, u), u)
        w2 == If(c \intersect {"database", "inst", "tbl"} # {}, DatabaseEffect(u, w1), w1)
        w3 == If(c \intersect TableDeps # {}, TableEffect(u, w2), w2)
    IN  If("tid" \in c, FieldsEffect(u, w3), w3)

PageEffects(u, c, w) ==
    LET w1 == If(c \intersect {"db", "inst", "tbl", "tid"} # {}, UrlEffect(u, w), w)
        w2 == If(c \intersect {"auto", "tid"} # {}, InitialEffect(u, w1), w1)
        w3 == If("shown" \in c, RestoreEffect(u, w2), w2)
        w4 == If(c \intersect {"shown", "valid"} # {}, StoreEffect(u, w3), w3)
        w5 == If(c \intersect {"tid", "text"} # {}, KeepEffect(u, w4), w4)
        w6 == If(c \intersect {"db", "tbl", "tid"} # {}, TabEffect(u, w5), w5)
    IN  If(c \intersect {"auto", "db", "inst", "tbl", "tid"} # {}, AutoEffect(u, w6), w6)

Commit ==
    LET now     == Deps(page)
        changed == {k \in DOMAIN now : seen[k] # now[k]}
    IN  /\ changed # {}
        /\ page' = PageEffects(page, changed, HookEffects(page, changed))
        /\ seen' = now
        /\ UNCHANGED <<server, goal, clicks>>

------------------------------------------------------------------------------
\* Answers of the server.

\* mutant: no answer is too late
AcceptedAlways(r) == TRUE
\* the answer of the last run started, if it was not cancelled
Accepted(r) == r.id = page.run

RunAnswer(r, logsOk, chartsOk) ==
    LET left  == [page EXCEPT !.runs = @ \ {r}]
        idle  == [left EXCEPT !.run = 0, !.loading = FALSE]
        rows  == [id |-> r.tid, text |-> r.text, first |-> r.first]
    IN  /\ r \in page.runs
        /\ page' = CASE ~Accepted(r) -> left
                     [] Accepted(r) /\ r.aborted -> idle
                     [] OTHER -> [idle EXCEPT !.logs = IF logsOk THEN rows ELSE NoRows,
                                              !.charts = IF chartsOk THEN rows ELSE NoRows]
        /\ UNCHANGED <<seen, server, goal, clicks>>

FieldsAnswer(ok) ==
    /\ page.fieldsAsked # 0
    /\ page' = [page EXCEPT !.fields = IF ok THEN page.fieldsAsked ELSE 0, !.fieldsAsked = 0]
    /\ UNCHANGED <<seen, server, goal, clicks>>

TargetOf(t) == [inst |-> Listing[t].inst, db |-> Listing[t].db, name |-> Listing[t].name, id |-> t]

\* the table a target names in the list, by id or by names, or the target itself
Resolved(target) ==
    LET named == {t \in server : /\ target.inst \in {0, Listing[t].inst}
                                 /\ target.db = Listing[t].db
                                 /\ target.name = Listing[t].name}
    IN  CASE target.id \in server -> TargetOf(target.id)
          [] target.id \notin server /\ named # {} -> TargetOf(Min(named))
          [] OTHER -> target

PreferredInstance(target) ==
    CASE target.inst # 0 -> target.inst
      [] target.inst = 0 /\ page.inst # 0 -> page.inst
      [] OTHER -> IF Tables = {} THEN 0 ELSE Listing[1].inst

TreeAnswer(target, ok) ==
    LET left == [page EXCEPT !.trees = @ \ {target}]
    IN  /\ target \in page.trees
        /\ page' = IF ok
                   THEN [left EXCEPT !.target = Resolved(target), !.rev = @ + 1, !.list = server,
                                     !.inst = PreferredInstance(Resolved(target)), !.late = FALSE]
                   ELSE left
        /\ goal' = IF ok THEN Resolved(target).id ELSE goal
        /\ UNCHANGED <<seen, server, clicks>>

------------------------------------------------------------------------------
\* Events of the user.

\* Each gives the page, the goal and the tables of the server; User adds the rest.
Event(new, asked) == page' = new /\ goal' = asked

ClickTable(t) == t \in page.list /\ Event(PickTable(page, page, t), t) /\ UNCHANGED server

\* the context menus select what they are opened on
MenuOfTable(t) == t \in page.list /\ Event(Select(page, page, t), t) /\ UNCHANGED server

MenuOfDatabase(t) ==
    /\ page.rev > 0
    /\ Event(SetDatabase(page, SetInstance(page, page, Listing[t].inst), Listing[t].db), 0)
    /\ UNCHANGED server

MenuOfInstance(t) ==
    page.rev > 0 /\ Event(SetInstance(page, page, Listing[t].inst), 0) /\ UNCHANGED server

Opens(of, tab) == tab.id \in of.shown /\ Listing[tab.id].db = tab.db

\* switchLogTab: of is the rendered page the handler was made with
SwitchTab(of, w, tab) ==
    CASE tab.id = of.tid -> w
      [] tab.id # of.tid /\ Opens(of, tab) -> PickTable(of, w, tab.id)
      [] OTHER -> [w EXCEPT !.tabs = SelectSeq(@, LAMBDA x : x.id # tab.id)]

ClickTab(k) ==
    LET tab == page.tabs[k]
    IN  /\ tab.id \in page.shown \ {page.tid}
        /\ Event(SwitchTab(page, page, tab), IF Opens(page, tab) THEN tab.id ELSE goal)
        /\ UNCHANGED server

\* closeLogTab: the switch to the fallback runs later, with the page of the click
CloseTab(k) ==
    LET tab      == page.tabs[k]
        index    == CHOOSE j \in DOMAIN page.tabs : page.tabs[j].id = tab.id
        next     == SelectSeq(page.tabs, LAMBDA x : x.id # tab.id)
        fallback == next[Min({index, Len(next)})]
    IN  /\ tab.id \in page.shown
        /\ Event([page EXCEPT !.kept = Without(@, tab.id), !.tabs = next,
                              !.timer = IF tab.id = page.tid /\ next # <<>>
                                        THEN <<[tab |-> fallback, of |-> [page EXCEPT !.runs = {}]]>>
                                        ELSE <<>>],
                 IF tab.id = page.tid THEN 0 ELSE goal)
        /\ UNCHANGED server

\* the timer of 0 ms fires when the commit of the click is over; of a list that came
\* since then any number of commits is over
TimerFires ==
    LET waiting  == Head(page.timer)
        outdated == waiting.of.rev # page.rev
    IN  /\ page.timer # <<>>
        /\ Settled \/ outdated
        /\ page' = SwitchTab(waiting.of, [page EXCEPT !.timer = <<>>, !.late = @ \/ outdated], waiting.tab)
        /\ UNCHANGED <<seen, server, goal, clicks>>

Type(text) ==
    /\ text \in {0, page.tid} \ {page.text}
    /\ Event([page EXCEPT !.text = text], goal)
    /\ UNCHANGED server

Run == page.rev > 0 /\ Event(RunQuery(page, page, page.text, FALSE), goal) /\ UNCHANGED server

Cancel == page.loading /\ Event(CancelQuery(page), goal) /\ UNCHANGED server

CreateTable(t) ==
    /\ t \notin server
    /\ page.inst = Listing[t].inst
    /\ server' = server \union {t}
    /\ Event([page EXCEPT !.trees = @ \union {[TargetOf(t) EXCEPT !.id = 0]}], goal)

DeleteTable(t) ==
    /\ t \in server \intersect page.list
    /\ goal = t
    /\ server' = server \ {t}
    /\ Event([page EXCEPT !.trees = @ \union {[TargetOf(t) EXCEPT !.name = "", !.id = 0]}], goal)

\* the page is loaded anew, at any moment, from its URL and the stored tabs
Reload ==
    /\ clicks < MaxClicks
    /\ clicks' = clicks + 1
    /\ page' = Opened([NoTarget EXCEPT !.db = page.url[1], !.name = page.url[2]], page.stored)
    /\ seen' = Deps(page')
    /\ goal' = IF page.url = NoUrl THEN 0 ELSE TableOf(page)
    /\ UNCHANGED server

------------------------------------------------------------------------------
\* The page is opened bare, with the names of a table in its URL, or with a table id.
FirstTargets ==
    {NoTarget} \union {[TargetOf(t) EXCEPT !.inst = 0, !.id = 0] : t \in AtFirst}
               \union {[NoTarget EXCEPT !.id = t] : t \in AtFirst}

Init ==
    /\ server = AtFirst
    /\ \E target \in FirstTargets : page = Opened(target, <<>>)
    /\ seen = Deps(page)
    /\ goal = 0
    /\ clicks = 0

Answer ==
    \/ \E r \in page.runs, logsOk, chartsOk \in BOOLEAN : RunAnswer(r, logsOk, chartsOk)
    \/ \E ok \in BOOLEAN : FieldsAnswer(ok)
    \/ \E target \in page.trees, ok \in BOOLEAN : TreeAnswer(target, ok)

User ==
    /\ Quiet
    /\ clicks < MaxClicks
    /\ clicks' = clicks + 1
    /\ UNCHANGED seen
    /\ \/ \E t \in Tables : \/ ClickTable(t) \/ MenuOfTable(t) \/ MenuOfDatabase(t) \/ MenuOfInstance(t)
                           \/ CreateTable(t) \/ DeleteTable(t)
       \/ \E k \in DOMAIN page.tabs : ClickTab(k) \/ CloseTab(k)
       \/ \E text \in Texts : Type(text)
       \/ Run \/ Cancel

Next == Commit \/ TimerFires \/ Answer \/ User \/ Reload

Spec == Init /\ [][Next]_vars

------------------------------------------------------------------------------
\* Properties.

DbNames    == {Listing[t].db : t \in Tables} \union {""}
TableNames == {Listing[t].name : t \in Tables} \union {""}

\* The types of the page, of what is in flight and of what the other variables hold.
\* What the tabs hold needs none: a tab that names no table shown is never opened.
TypeOK ==
    /\ page.rev \in Nat /\ page.started \in Nat /\ page.inst \in Nat /\ page.run \in Nat
    /\ page.db \in DbNames /\ page.tbl \in TableNames /\ page.url \in DbNames \X TableNames
    /\ page.list \subseteq Tables /\ page.shown \subseteq Tables
    /\ {page.tid, page.text, page.fields, page.fieldsAsked, page.restore} \subseteq Texts
    /\ {page.loading, page.restored, page.late} \subseteq BOOLEAN
    /\ page.kept \in UNION {[ids -> Texts] : ids \in SUBSET Tables}
    /\ page.auto \in [id : Texts, text : Texts, copy : BOOLEAN]
    /\ {page.logs, page.charts} \subseteq [id : Texts, text : Texts, first : BOOLEAN]
    /\ page.runs \subseteq [id : Nat \ {0}, tid : Tables, text : Texts, first : BOOLEAN, aborted : BOOLEAN]
    /\ IsFiniteSet(page.runs)
    /\ page.trees \union {page.target} \subseteq [inst : Nat, db : DbNames, name : TableNames, id : Texts]
    /\ server \subseteq Tables /\ goal \in Texts /\ clicks \in 0 .. MaxClicks

\* When the effects have run, the selected id is none or the table that instance,
\* database and name select, and it is none only when the database has no tables, or when
\* the timer of a closed tab fired on a later list than its click: the switch takes the
\* id away and may leave the names as they are, so that no effect brings it back.
SelectionAgrees ==
    Settled => /\ page.tid \in {0, TableOf(page)}
               /\ page.tid = 0 => page.late \/ TablesIn(page, page.inst, page.db) = {}

\* The rows and the histogram on the page are of the selected table, however late
\* the answer of a run of another table arrives.  The first query runs for the id of the
\* render; on a later list than the first one the effects of that commit may
\* already have left it for another table.  A page that a late timer left without an
\* id runs queries for the table that is named.
ResultsOfSelection ==
    Settled => \A rows \in {page.logs, page.charts} :
                  \/ rows.id \in {0, page.tid}
                  \/ rows.first /\ page.started > 1
                  \/ page.late /\ page.tid = 0

\* The page says that it is loading exactly while a run that was not cancelled is out.
LoadingIsTrue ==
    page.loading <=> \E r \in page.runs : Accepted(r) /\ ~r.aborted

\* Fields of another table are shown only until the answer asked for the selected one.
FieldsOfSelection ==
    Settled => \/ page.fields \in {0, page.tid}
               \/ page.fieldsAsked = page.tid

\* The table last picked in the tree or on a tab, named by a refresh or by the URL of
\* a reload, is the one selected, and the query it asks for has been run, unless the
\* timer of a closed tab came later than the list and overruled it.
GoalIsSelected ==
    Settled /\ goal \in page.list /\ ~page.late => page.tid = goal /\ page.auto.id # goal

\* The stored tabs are the ones on the page, so a reload brings them back.
TabsAreStored ==
    Settled /\ page.restored =>
        page.stored = [k \in DOMAIN ValidTabs(page) |-> <<ValidTabs(page)[k].db, ValidTabs(page)[k].name>>]
=============================================================================
