--------------------------- MODULE QueryPageProofs ---------------------------
(***************************************************************************)
(* Theorems about QueryPage, for every list of tables, every set of tables *)
(* that exist at first and any number of events of the user.  An effect is *)
(* due when its dependencies differ from those of the last commit.  The    *)
(* inductive invariant says what is true of the selection while some       *)
(* effects are due: what a commit still has to put right is exactly what   *)
(* an effect is due for (DatabaseDue, TableDue, AutoDue and the others).   *)
(* Every step is one of six, by what it does to the selection (StepIs): a  *)
(* commit, a handler that selects, an answer with the list, a timer that   *)
(* overrules a later list, a step that leaves the selection alone, and a   *)
(* page that is opened.  The properties are the parts of the invariant at  *)
(* a moment when nothing is due.                                           *)
(***************************************************************************)
EXTENDS QueryPage, FiniteSetTheorems, WellFoundedInduction, TLAPS

-----------------------------------------------------------------------------
(***************************************************************************)
(* Helpers and the effects of the hook, as what they leave of the page.    *)
(***************************************************************************)
\* The least of some numbers is one of them.
LEMMA MinIsLeast == ASSUME NEW S \in SUBSET Nat, S # {} PROVE Min(S) \in S /\ \A y \in S : Min(S) <= y
<1>. DEFINE R == OpToRel(<, Nat)
<1>1. IsWellFoundedOn(R, Nat)
  BY NatLessThanWellFounded
<1>2. PICK x \in S : \A y \in S : ~ (<<y, x>> \in R)
  <2>. HIDE DEF R
  <2>. QED BY <1>1, WFMin
<1>3. \A y \in S : x <= y
  <2>. SUFFICES ASSUME NEW y \in S, y < x PROVE FALSE
    OBVIOUS
  <2>1. <<y, x>> \in R
    BY DEF OpToRel
  <2>. QED BY <1>2, <2>1
<1>. QED
  BY <1>2, <1>3 DEF Min

\* The numbers and names of the listed tables.
LEMMA ListingIs ==
    /\ Tables \subseteq Nat /\ 0 \notin Tables
    /\ \A t \in Tables : /\ Listing[t] \in [inst : Nat \ {0}, db : STRING \ {""}, name : STRING \ {""}]
                          /\ Listing[t].inst \in Nat /\ Listing[t].inst # 0
                          /\ Listing[t].db \in STRING /\ Listing[t].db # ""
                          /\ Listing[t].name \in STRING /\ Listing[t].name # ""
    /\ \A t, x \in Tables : /\ Listing[t].inst = Listing[x].inst /\ Listing[t].db = Listing[x].db
                             /\ Listing[t].name = Listing[x].name
                             => t = x
<1>. DEFINE E == [inst : Nat \ {0}, db : STRING \ {""}, name : STRING \ {""}]
<1>1. Listing \in Seq(E)
  BY ListingAssumption
<1>2. Tables = 1 .. Len(Listing) /\ Len(Listing) \in Nat /\ \A t \in Tables : Listing[t] \in E
  <2>. HIDE DEF E
  <2>. QED BY <1>1 DEF Tables
<1>3. \A t \in Tables : Listing[t] = [inst |-> Listing[t].inst, db |-> Listing[t].db, name |-> Listing[t].name]
  BY <1>2
<1>4. \A t, x \in Tables : Listing[t] = Listing[x] => t = x
  BY ListingAssumption
<1>5. \A t, x \in Tables : /\ Listing[t].inst = Listing[x].inst /\ Listing[t].db = Listing[x].db
                             /\ Listing[t].name = Listing[x].name
                             => t = x
  <2>1. ASSUME NEW t \in Tables, NEW x \in Tables,
               Listing[t].inst = Listing[x].inst, Listing[t].db = Listing[x].db, Listing[t].name = Listing[x].name
        PROVE  t = x
    <3>1. Listing[t] = [inst |-> Listing[x].inst, db |-> Listing[x].db, name |-> Listing[x].name]
      BY <1>3, <2>1
    <3>2. Listing[x] = [inst |-> Listing[x].inst, db |-> Listing[x].db, name |-> Listing[x].name]
      BY <1>3
    <3>. QED BY <1>4, <3>1, <3>2
  <2>. QED BY <2>1
<1>6. Tables \subseteq Nat /\ 0 \notin Tables
  <2>. HIDE DEF E
  <2>. QED BY <1>2
<1>7. \A t \in Tables : /\ Listing[t].inst \in Nat /\ Listing[t].inst # 0
                        /\ Listing[t].db \in STRING /\ Listing[t].db # ""
                        /\ Listing[t].name \in STRING /\ Listing[t].name # ""
  BY <1>2
<1>. QED BY <1>2, <1>5, <1>6, <1>7

\* The names of the tables in the database of the page, and the databases of an instance.
Names(u) == {Listing[t].name : t \in TablesIn(u, u.inst, u.db)}
Dbs(i) == {Listing[t].db : t \in {x \in Tables : Listing[x].inst = i}}

\* The table of a name is the one that the list has of it.
LEMMA TableNamedIs == ASSUME NEW u, u.list \subseteq Tables, NEW i, NEW d, NEW n
  PROVE /\ TableNamed(u, i, d, n) \in Tables \union {0}
        /\ TableNamed(u, i, d, n) # 0 =>
             /\ TableNamed(u, i, d, n) \in u.list
             /\ Listing[TableNamed(u, i, d, n)].inst = i /\ Listing[TableNamed(u, i, d, n)].db = d
             /\ Listing[TableNamed(u, i, d, n)].name = n
        /\ \A t \in u.list : Listing[t].inst = i /\ Listing[t].db = d /\ Listing[t].name = n
                               => TableNamed(u, i, d, n) = t
<1>. DEFINE found == {t \in TablesIn(u, i, d) : Listing[t].name = n}
<1>1. found \subseteq u.list /\ \A t \in found : Listing[t].inst = i /\ Listing[t].db = d /\ Listing[t].name = n
  BY DEF TablesIn
<1>2. found # {} => Min(found) \in found
  BY <1>1, MinIsLeast, ListingIs
<1>3. TableNamed(u, i, d, n) = IF found = {} THEN 0 ELSE Min(found)
  BY DEF TableNamed
<1>4. \A t \in u.list : Listing[t].inst = i /\ Listing[t].db = d /\ Listing[t].name = n => t \in found
  BY DEF TablesIn
<1>. HIDE DEF found
<1>. QED BY <1>1, <1>2, <1>3, <1>4, ListingIs

\* The table that instance, database and name of a page select, and when there is one.
LEMMA TableOfIs == ASSUME NEW u, u.list \subseteq Tables
  PROVE /\ TableOf(u) \in Tables \union {0}
        /\ TableOf(u) # 0 =>
             /\ TableOf(u) \in u.list /\ HasDb(u) /\ u.tbl \in Names(u) /\ u.db # "" /\ u.tbl # "" /\ u.inst # 0
             /\ Listing[TableOf(u)].inst = u.inst /\ Listing[TableOf(u)].db = u.db
             /\ Listing[TableOf(u)].name = u.tbl
        /\ u.tbl \in Names(u) => TableOf(u) # 0
        /\ \A t \in u.list : Listing[t].inst = u.inst /\ Listing[t].db = u.db /\ Listing[t].name = u.tbl
                               => TableOf(u) = t
<1>. DEFINE t0 == TableOf(u)
<1>1. /\ t0 \in Tables \union {0}
      /\ t0 # 0 => /\ t0 \in u.list /\ Listing[t0].inst = u.inst /\ Listing[t0].db = u.db /\ Listing[t0].name = u.tbl
      /\ \A t \in u.list : Listing[t].inst = u.inst /\ Listing[t].db = u.db /\ Listing[t].name = u.tbl
                               => t0 = t
  BY TableNamedIs DEF TableOf
<1>2. u.tbl \in Names(u) => \E t \in u.list : Listing[t].inst = u.inst /\ Listing[t].db = u.db /\ Listing[t].name = u.tbl
  BY DEF Names, TablesIn
<1>. HIDE DEF t0
<1>3. t0 # 0 => HasDb(u) /\ u.tbl \in Names(u) /\ u.db # "" /\ u.tbl # "" /\ u.inst # 0
  BY <1>1, ListingIs DEF HasDb, Names, TablesIn
<1>4. u.tbl \in Names(u) => t0 # 0
  BY <1>1, <1>2, ListingIs
<1>. QED BY <1>1, <1>3, <1>4 DEF t0

\* The fields of the page.
Fields == {"rev", "list", "shown", "inst", "db", "tbl", "tid", "text", "kept", "tabs", "auto", "logs", "charts",
           "loading", "fields", "target", "restore", "run", "started", "restored", "runs", "fieldsAsked", "trees",
           "timer", "url", "stored", "late"}
Shape(w) == DOMAIN w = Fields /\ w = [k \in Fields |-> w[k]]
\* Only the fields in S differ.
Only(S, w, e) == Shape(e) /\ \A k \in Fields \ S : e[k] = w[k]

\* What cancelling changes.
LEMMA CancelIs == ASSUME NEW w, Shape(w)
  PROVE /\ Only({"run", "loading", "runs"}, w, CancelQuery(w))
        /\ CancelQuery(w).run = 0 /\ CancelQuery(w).loading = FALSE
        /\ CancelQuery(w).runs = {IF r.id = w.run THEN [r EXCEPT !.aborted = TRUE] ELSE r : r \in w.runs}
BY DEF CancelQuery, Only, Shape, Fields

\* The fields that clearing the results changes.
Clearing == {"run", "loading", "runs", "logs", "charts"}
\* What clearing the results changes.
LEMMA ClearIs == ASSUME NEW w, Shape(w)
  PROVE /\ Only(Clearing, w, ClearResults(w))
        /\ ClearResults(w).run = 0 /\ ClearResults(w).loading = FALSE
        /\ ClearResults(w).logs = NoRows /\ ClearResults(w).charts = NoRows
        /\ ClearResults(w).runs = CancelQuery(w).runs
<1>. DEFINE v == CancelQuery(w)
<1>1. Only({"run", "loading", "runs"}, w, v) /\ v.run = 0 /\ v.loading = FALSE
  BY CancelIs
<1>2. ClearResults(w) = [v EXCEPT !.logs = NoRows, !.charts = NoRows]
  BY DEF ClearResults
<1>. HIDE DEF v
<1>3. Only(Clearing, w, ClearResults(w)) /\ ClearResults(w).run = 0 /\ ClearResults(w).loading = FALSE
        /\ ClearResults(w).logs = NoRows /\ ClearResults(w).charts = NoRows
        /\ ClearResults(w).runs = v.runs
  BY <1>1, <1>2 DEF Only, Shape, Fields, Clearing
<1>. QED BY <1>3 DEF v

\* What the effects of the hook leave.
InstanceMade(u, w, e) ==
     /\ Only(Clearing \union {"shown", "db", "tbl", "tid"}, w, e)
     /\ e.run = 0 /\ e.loading = FALSE /\ e.logs = NoRows /\ e.charts = NoRows
     /\ e.runs = CancelQuery(w).runs
     /\ u.inst = 0 => e.shown = {} /\ e.db = "" /\ e.tbl = "" /\ e.tid = 0
     /\ u.inst # 0 => e.tbl = w.tbl /\ e.tid = w.tid /\ e.shown = {t \in u.list : Listing[t].inst = u.inst}
Picked(u, target, e) ==
     /\ e.db \in Dbs(u.inst)
     /\ target.inst # u.inst /\ u.db \in Dbs(u.inst) => e.db = u.db
     /\ \A g \in u.list : target = TargetOf(g) /\ Listing[g].inst = u.inst => e.db = Listing[g].db
DatabaseMade(w, e) ==
     /\ Only(Clearing \union {"tbl", "tid"}, w, e)
     /\ e.run = 0 /\ e.loading = FALSE /\ e.logs = NoRows /\ e.charts = NoRows
     /\ e.runs = CancelQuery(w).runs
     /\ e.tid = 0
Named(u, target, e) ==
     /\ ~HasDb(u) => e.tbl = ""
     /\ HasDb(u) => /\ e.tbl \in Names(u) \/ (Names(u) = {} /\ e.tbl = "")
                    /\ target.inst # u.inst /\ u.tbl \in Names(u) => e.tbl = u.tbl
                    /\ \A g \in u.list : target = TargetOf(g) /\ Listing[g].inst = u.inst /\ Listing[g].db = u.db
                                          => e.tbl = Listing[g].name

\* The effect of the instance.
LEMMA InstanceIs == ASSUME NEW u, NEW w, Shape(w) PROVE InstanceMade(u, w, InstanceEffect(u, w))
<1>. DEFINE v == ClearResults(w)
            e == InstanceEffect(u, w)
<1>1. /\ Only(Clearing, w, v)
      /\ v.run = 0 /\ v.loading = FALSE
        /\ v.logs = NoRows /\ v.charts = NoRows
        /\ v.runs = CancelQuery(w).runs
  BY ClearIs
<1>2. CASE u.inst = 0
  <2>1. e = [v EXCEPT !.shown = {}, !.db = "", !.tbl = "", !.tid = 0]
    BY <1>2 DEF InstanceEffect
  <2>. HIDE DEF v, e
  <2>2. /\ Only(Clearing \union {"shown", "db", "tbl", "tid"}, w, e)
     /\ e.run = 0 /\ e.loading = FALSE /\ e.logs = NoRows /\ e.charts = NoRows
     /\ e.runs = CancelQuery(w).runs
     /\ e.shown = {} /\ e.db = "" /\ e.tbl = "" /\ e.tid = 0
    BY <1>1, <2>1 DEF Only, Shape, Fields, Clearing
  <2>. QED BY <1>2, <2>2 DEF e, InstanceMade
<1>3. CASE u.inst # 0
  <2>1. PICK here, d : e = [v EXCEPT !.shown = here, !.db = d] /\ here = {t \in u.list : Listing[t].inst = u.inst}
    BY <1>3 DEF InstanceEffect
  <2>. HIDE DEF v, e
  <2>2. /\ Only(Clearing \union {"shown", "db", "tbl", "tid"}, w, e)
     /\ e.run = 0 /\ e.loading = FALSE /\ e.logs = NoRows /\ e.charts = NoRows
     /\ e.runs = CancelQuery(w).runs
     /\ e.shown = here /\ e.tbl = w.tbl /\ e.tid = w.tid
    BY <1>1, <2>1 DEF Only, Shape, Fields, Clearing
  <2>. QED BY <1>3, <2>1, <2>2 DEF e, InstanceMade
<1>. QED BY <1>2, <1>3

\* What InstanceEffect makes of the database.
LEMMA InstancePicks == ASSUME NEW u, NEW w, Shape(w), u.list \subseteq Tables, u.inst # 0, Dbs(u.inst) # {}
  PROVE Picked(u, w.target, InstanceEffect(u, w))
<1>. DEFINE v == ClearResults(w)
            e == InstanceEffect(u, w)
            here == {t \in u.list : Listing[t].inst = u.inst}
            wanted == CASE w.target.inst # u.inst -> ""
                        [] w.target.inst = u.inst /\ w.target.id \in here -> Listing[w.target.id].db
                        [] OTHER -> w.target.db
            d == PickName(wanted, u.db, Dbs(u.inst), FirstDb(u.inst))
<1>1. Only(Clearing, w, v)
  BY ClearIs
<1>2. e = [v EXCEPT !.shown = here, !.db = d]
  BY DEF InstanceEffect, Dbs
<1>3. e.db = d
  <2>. HIDE DEF v, e, here, d
  <2>. QED BY <1>1, <1>2 DEF Only, Shape, Fields
<1>4. FirstDb(u.inst) \in Dbs(u.inst)
  <2>. DEFINE S == {t \in Tables : Listing[t].inst = u.inst}
  <2>1. S # {} /\ S \subseteq Nat
    BY ListingIs DEF Dbs
  <2>2. Min(S) \in S
    BY <2>1, MinIsLeast
  <2>. QED BY <2>2 DEF FirstDb, Dbs
<1>5. d \in Dbs(u.inst)
  <2>. HIDE DEF wanted
  <2>. QED BY <1>4 DEF PickName
<1>6. "" \notin Dbs(u.inst)
  BY ListingIs DEF Dbs
<1>7. w.target.inst # u.inst /\ u.db \in Dbs(u.inst) => d = u.db
  BY <1>6 DEF PickName
<1>8. ASSUME NEW g \in u.list, w.target = TargetOf(g), Listing[g].inst = u.inst PROVE d = Listing[g].db
  <2>1. w.target.inst = u.inst /\ w.target.id = g /\ g \in here
    BY <1>8 DEF TargetOf
  <2>2. wanted = Listing[g].db
    BY <2>1
  <2>3. Listing[g].db \in Dbs(u.inst)
    BY <1>8 DEF Dbs
  <2>. HIDE DEF wanted
  <2>. QED BY <2>2, <2>3 DEF PickName
<1>. HIDE DEF e, d
<1>9. /\ e.db \in Dbs(u.inst)
      /\ w.target.inst # u.inst /\ u.db \in Dbs(u.inst) => e.db = u.db
      /\ \A g \in u.list : w.target = TargetOf(g) /\ Listing[g].inst = u.inst => e.db = Listing[g].db
  BY <1>3, <1>5, <1>7, <1>8
<1>. QED BY <1>9 DEF e, Picked

\* The effect of the database, and the name it picks.
LEMMA DatabaseIs == ASSUME NEW u, NEW w, Shape(w), u.list \subseteq Tables
  PROVE DatabaseMade(w, DatabaseEffect(u, w)) /\ Named(u, w.target, DatabaseEffect(u, w))
<1>. DEFINE v == ClearResults(w)
            e == DatabaseEffect(u, w)
            here == TablesIn(u, u.inst, u.db)
            aimed == w.target.inst = u.inst /\ w.target.db = u.db
            wanted == CASE ~aimed -> ""
                        [] aimed /\ w.target.id \in here -> Listing[w.target.id].name
                        [] OTHER -> w.target.name
            n == PickName(wanted, u.tbl, Names(u), FirstTable(u))
<1>1. /\ Only(Clearing, w, v)
      /\ v.run = 0 /\ v.loading = FALSE /\ v.logs = NoRows /\ v.charts = NoRows
      /\ v.runs = CancelQuery(w).runs
  BY ClearIs
<1>2. e = [v EXCEPT !.tbl = IF HasDb(u) THEN n ELSE "", !.tid = 0]
  <2>1. CASE ~HasDb(u)
    BY <2>1 DEF DatabaseEffect
  <2>2. CASE HasDb(u)
    BY <2>2 DEF DatabaseEffect, Names
  <2>. QED BY <2>1, <2>2
<1>3. PICK m : m = IF HasDb(u) THEN n ELSE ""
  OBVIOUS
<1>4. e = [v EXCEPT !.tbl = m, !.tid = 0]
  BY <1>2, <1>3
<1>5. /\ Only(Clearing \union {"tbl", "tid"}, w, e)
      /\ e.run = 0 /\ e.loading = FALSE /\ e.logs = NoRows /\ e.charts = NoRows
      /\ e.runs = CancelQuery(w).runs
      /\ e.tid = 0 /\ e.tbl = m
  <2>. HIDE DEF v, e, n
  <2>. QED BY <1>1, <1>4 DEF Only, Shape, Fields, Clearing
<1>6. "" \notin Names(u)
  BY ListingIs DEF Names, TablesIn
<1>7. IF Names(u) = {} THEN FirstTable(u) = "" ELSE FirstTable(u) \in Names(u)
  <2>0. here \subseteq u.list /\ (Names(u) = {} <=> here = {})
    BY DEF TablesIn, Names
  <2>1. here \subseteq Nat
    BY <2>0, ListingIs
  <2>2. here # {} => Min(here) \in here
    BY <2>1, MinIsLeast
  <2>. QED BY <2>0, <2>1, <2>2 DEF FirstTable, Names
<1>8. n \in Names(u) \/ (Names(u) = {} /\ n = "")
  <2>. HIDE DEF wanted
  <2>. QED BY <1>7 DEF PickName
<1>9. w.target.inst # u.inst /\ u.tbl \in Names(u) => n = u.tbl
  BY <1>6 DEF PickName
<1>10. ASSUME NEW g \in u.list, w.target = TargetOf(g), Listing[g].inst = u.inst, Listing[g].db = u.db
       PROVE  n = Listing[g].name
  <2>1. aimed /\ w.target.id = g /\ g \in here
    BY <1>10 DEF TargetOf, TablesIn
  <2>2. wanted = Listing[g].name
    BY <2>1
  <2>3. Listing[g].name \in Names(u)
    BY <2>1 DEF Names
  <2>. HIDE DEF wanted
  <2>. QED BY <2>2, <2>3 DEF PickName
<1>. HIDE DEF e, n
<1>11. /\ ~HasDb(u) => e.tbl = ""
       /\ HasDb(u) => /\ e.tbl \in Names(u) \/ (Names(u) = {} /\ e.tbl = "")
                      /\ w.target.inst # u.inst /\ u.tbl \in Names(u) => e.tbl = u.tbl
                      /\ \A g \in u.list : w.target = TargetOf(g) /\ Listing[g].inst = u.inst /\ Listing[g].db = u.db
                                            => e.tbl = Listing[g].name
  BY <1>3, <1>5, <1>8, <1>9, <1>10
<1>. QED BY <1>5, <1>11 DEF e, DatabaseMade, Named

\* The effect of the table.
LEMMA TableIs == ASSUME NEW u, NEW w, Shape(w)
  PROVE LET e == TableEffect(u, w) IN
     /\ Only({"tid", "target"}, w, e)
     /\ e.tid = TableOf(u)
     /\ e.target = w.target \/ (TableOf(u) # 0 /\ Reached(w.target, u) /\ e.target = NoTarget)
<1>1. CASE TableOf(u) = 0
  BY <1>1 DEF TableEffect, Only, Shape, Fields
<1>2. CASE TableOf(u) # 0
  <2>1. PICK x : x = IF Reached(w.target, u) THEN NoTarget ELSE w.target
    OBVIOUS
  <2>2. TableEffect(u, w) = [w EXCEPT !.tid = TableOf(u), !.target = x]
    BY <1>2, <2>1 DEF TableEffect
  <2>. QED BY <1>2, <2>1, <2>2 DEF Only, Shape, Fields
<1>. QED BY <1>1, <1>2

-----------------------------------------------------------------------------
(***************************************************************************)
(* Runs, the effects of the page, the queries that are kept.               *)
(***************************************************************************)
\* A request of a run.
RunRec == [id : Nat \ {0}, tid : Tables, text : Texts, first : BOOLEAN, aborted : BOOLEAN]
\* The flag of loading stands for a run that is out.
LoadOK(w) ==
    /\ w.runs \subseteq RunRec /\ IsFiniteSet(w.runs) /\ w.run \in Nat
    /\ w.run = 0 => w.loading = FALSE
    /\ w.run # 0 => w.loading = TRUE /\ \E r \in w.runs : r.id = w.run /\ ~r.aborted
\* The requests whose answer will be accepted.
Active(w) == {r \in w.runs : r.id = w.run}

\* A request has a number and a table.
LEMMA RunRecIs == \A r \in RunRec : /\ r.id \in Nat /\ r.id # 0 /\ r.tid \in Tables /\ r.tid # 0
                                    /\ r.text \in Texts /\ r.first \in BOOLEAN
<1>1. \A r \in RunRec : r.id \in Nat /\ r.id # 0 /\ r.tid \in Tables /\ r.text \in Texts /\ r.first \in BOOLEAN
  BY DEF RunRec
<1>. QED BY <1>1, ListingIs

\* The image of a finite set is finite.
LEMMA ImageIsFinite == ASSUME NEW S, IsFiniteSet(S), NEW f, f = [x \in S |-> f[x]]
  PROVE LET T == {f[x] : x \in S} IN IsFiniteSet(T) /\ Cardinality(T) <= Cardinality(S)
<1>. DEFINE T == {f[x] : x \in S}
<1>1. f \in Surjection(S, T)
  BY DEF Surjection
<1>. HIDE DEF T
<1>2. IsFiniteSet(T) /\ Cardinality(T) <= Cardinality(S)
  BY <1>1, FS_Surjection
<1>. QED BY <1>2 DEF T

\* A new run gets a number that no request in flight has.
LEMMA FreeRun == ASSUME NEW w, w.runs \subseteq RunRec, IsFiniteSet(w.runs)
  PROVE NewRun(w) \in Nat /\ NewRun(w) # 0 /\ \A r \in w.runs : r.id # NewRun(w)
<1>. DEFINE ids == {r.id : r \in w.runs}
            n == Cardinality(w.runs)
            free == (1 .. n + 1) \ ids
<1>1. IsFiniteSet(ids) /\ Cardinality(ids) <= n
  <2>. DEFINE f == [r \in w.runs |-> r.id]
  <2>1. ids = {f[r] : r \in w.runs} /\ f = [r \in w.runs |-> f[r]]
    OBVIOUS
  <2>. HIDE DEF f, ids
  <2>. QED BY <2>1, ImageIsFinite
<1>2. n \in Nat
  BY FS_CardinalityType
<1>3. Cardinality(1 .. n + 1) = n + 1
  <2>. HIDE DEF n
  <2>1. 1 \in Int /\ n + 1 \in Int /\ ~(1 > n + 1) /\ (n + 1) - 1 + 1 = n + 1
    BY <1>2
  <2>2. Cardinality(1 .. n + 1) = IF 1 > n + 1 THEN 0 ELSE (n + 1) - 1 + 1
    BY <2>1, FS_Interval
  <2>. QED BY <2>1, <2>2
<1>4. Cardinality(ids) \in Nat
  BY <1>1, FS_CardinalityType
<1>5. free # {}
  <2>. SUFFICES ASSUME free = {} PROVE FALSE
    OBVIOUS
  <2>1. (1 .. n + 1) \subseteq ids
    OBVIOUS
  <2>2. Cardinality(1 .. n + 1) <= Cardinality(ids)
    BY <1>1, <2>1, FS_Subset
  <2>. HIDE DEF ids, n
  <2>. QED BY <1>1, <1>2, <1>3, <1>4, <2>2
<1>6. free \subseteq Nat
  BY <1>2
<1>7. NewRun(w) = Min(free)
  BY DEF NewRun
<1>8. NewRun(w) \in free
  BY <1>5, <1>6, <1>7, MinIsLeast
<1>9. NewRun(w) \in 1 .. n + 1 /\ NewRun(w) \notin ids
  BY <1>8
<1>10. NewRun(w) \in Nat /\ NewRun(w) # 0
  <2>. HIDE DEF n
  <2>. QED BY <1>2, <1>9
<1>. QED BY <1>9, <1>10

\* Cancelling leaves no run whose answer is accepted.
LEMMA CancelLoads == ASSUME NEW w, Shape(w), LoadOK(w)
  PROVE LoadOK(CancelQuery(w)) /\ Active(CancelQuery(w)) = {}
<1>. DEFINE e == CancelQuery(w)
            f(r) == IF r.id = w.run THEN [r EXCEPT !.aborted = TRUE] ELSE r
<1>1. e.run = 0 /\ e.loading = FALSE /\ e.runs = {f(r) : r \in w.runs}
  BY CancelIs
<1>2. \A r \in RunRec : f(r) \in RunRec
  BY DEF RunRec
<1>3. e.runs \subseteq RunRec
  BY <1>1, <1>2 DEF LoadOK
<1>4. IsFiniteSet(e.runs)
  <2>. DEFINE h == [r \in w.runs |-> f(r)]
  <2>1. e.runs = {h[r] : r \in w.runs} /\ h = [r \in w.runs |-> h[r]]
    BY <1>1
  <2>. HIDE DEF h, e
  <2>. QED BY <2>1, ImageIsFinite DEF LoadOK
<1>. HIDE DEF e
<1>5. LoadOK(e)
  BY <1>1, <1>3, <1>4 DEF LoadOK
<1>6. Active(e) = {}
  BY <1>1, <1>3, RunRecIs DEF Active
<1>. QED BY <1>5, <1>6 DEF e

\* What a query leaves that is run for the page u.
Ran(u, w, first, e) ==
     /\ Only({"run", "loading", "runs"}, w, e)
     /\ LoadOK(e)
     /\ \A r \in Active(e) : r.tid = (IF u.tid # 0 THEN u.tid ELSE TableOf(u)) /\ r.first = first
\* Running a query cancels the run before and starts one for the selected table.
LEMMA RunQueryIs == ASSUME NEW u, NEW w, Shape(w), LoadOK(w), u.tid \in Texts, TableOf(u) \in Texts,
                           NEW text \in Texts, NEW first \in BOOLEAN
  PROVE Ran(u, w, first, RunQuery(u, w, text, first))
<1>. DEFINE off == CancelQuery(w)
            table == IF u.tid # 0 THEN u.tid ELSE TableOf(u)
            e == RunQuery(u, w, text, first)
            new == [id |-> NewRun(off), tid |-> table, text |-> text, first |-> first, aborted |-> FALSE]
<1>1. Only({"run", "loading", "runs"}, w, off) /\ LoadOK(off) /\ Active(off) = {}
  BY CancelIs, CancelLoads
<1>2. CASE table = 0
  <2>1. e = off
    BY <1>2 DEF RunQuery
  <2>. QED BY <1>1, <2>1 DEF Ran
<1>3. CASE table # 0
  <2>1. e = [off EXCEPT !.run = NewRun(off), !.loading = TRUE, !.runs = @ \union {new}]
    BY <1>3 DEF RunQuery
  <2>2. NewRun(off) \in Nat /\ NewRun(off) # 0 /\ \A r \in off.runs : r.id # NewRun(off)
    BY <1>1, FreeRun DEF LoadOK
  <2>3. new \in RunRec
    BY <1>3, <2>2 DEF RunRec, Texts
  <2>4. new.id = NewRun(off) /\ new.tid = table /\ new.first = first /\ ~new.aborted
    OBVIOUS
  <2>. HIDE DEF off, new, table, e
  <2>5. /\ Only({"run", "loading", "runs"}, w, e)
        /\ e.run = NewRun(off) /\ e.loading = TRUE /\ e.runs = off.runs \union {new}
    BY <1>1, <2>1 DEF Only, Shape, Fields
  <2>6. IsFiniteSet(off.runs \union {new})
    BY <1>1, FS_AddElement DEF LoadOK
  <2>7. LoadOK(e)
    BY <1>1, <2>2, <2>3, <2>4, <2>5, <2>6 DEF LoadOK
  <2>8. \A r \in Active(e) : r.tid = table /\ r.first = first
    BY <2>2, <2>4, <2>5 DEF Active
  <2>9. Only({"run", "loading", "runs"}, w, e) /\ LoadOK(e) /\ \A r \in Active(e) : r.tid = table /\ r.first = first
    BY <2>5, <2>7, <2>8
  <2>. QED BY <2>9 DEF e, table, Ran
<1>. QED BY <1>2, <1>3

\* A run that is cleared.
LEMMA ClearLoads == ASSUME NEW w, LoadOK(w), Shape(w), NEW e,
      e.run = 0, e.loading = FALSE, e.runs = CancelQuery(w).runs
  PROVE LoadOK(e) /\ Active(e) = {}
<1>1. LoadOK(CancelQuery(w))
  BY CancelLoads
<1>2. LoadOK(e)
  BY <1>1 DEF LoadOK
<1>. QED BY <1>2, RunRecIs DEF LoadOK, Active

\* The effect of the fields.
LEMMA FieldsIs == ASSUME NEW u, NEW w, Shape(w)
  PROVE LET e == FieldsEffect(u, w) IN
     /\ Only({"fieldsAsked", "fields"}, w, e)
     /\ e.fieldsAsked = u.tid /\ e.fields = IF u.tid = 0 THEN 0 ELSE w.fields
<1>1. PICK x : x = IF u.tid = 0 THEN 0 ELSE w.fields
  OBVIOUS
<1>2. FieldsEffect(u, w) = [w EXCEPT !.fieldsAsked = u.tid, !.fields = x]
  BY <1>1 DEF FieldsEffect, Shape, Fields
<1>. QED BY <1>1, <1>2 DEF Only, Shape, Fields

\* The effect of the address.
LEMMA UrlIs == ASSUME NEW u, NEW w, Shape(w)
  PROVE /\ Only({"url"}, w, UrlEffect(u, w))
        /\ UrlEffect(u, w).url \in {NoUrl, <<u.db, u.tbl>>}
<1>1. PICK x : x = IF u.db # "" /\ u.tbl # "" THEN <<u.db, u.tbl>> ELSE NoUrl
  OBVIOUS
<1>2. UrlEffect(u, w) = [w EXCEPT !.url = x]
  BY <1>1 DEF UrlEffect
<1>. QED BY <1>1, <1>2 DEF Only, Shape, Fields

\* When the first query is run.
Starts(u, w) == w.started = 0 /\ u.auto.id = 0 /\ u.tid # 0
\* The effect of the first query.
LEMMA InitialIs == ASSUME NEW u, NEW w, Shape(w), LoadOK(w), u.tid \in Texts, TableOf(u) \in Texts, u.text \in Texts
  PROVE LET e == InitialEffect(u, w) IN
     /\ Only({"started", "run", "loading", "runs"}, w, e)
     /\ LoadOK(e)
     /\ ~Starts(u, w) => e = w
     /\ Starts(u, w) => e.started = u.rev /\ \A r \in Active(e) : r.tid = u.tid /\ r.first
<1>. DEFINE e == InitialEffect(u, w)
            v == [w EXCEPT !.started = u.rev]
<1>1. CASE ~Starts(u, w)
  <2>1. e = w
    BY <1>1 DEF InitialEffect, Starts
  <2>. QED BY <1>1, <2>1 DEF Only
<1>2. CASE Starts(u, w)
  <2>1. e = RunQuery(u, v, u.text, TRUE)
    BY <1>2 DEF InitialEffect, Starts
  <2>2. Only({"started"}, w, v) /\ v.started = u.rev
    BY DEF Only, Shape, Fields
  <2>. HIDE DEF v
  <2>3. LoadOK(v)
    BY <2>2 DEF LoadOK, Only, Fields
  <2>4. Shape(v)
    BY <2>2 DEF Only
  <2>0. Ran(u, v, TRUE, e)
    BY <2>1, <2>3, <2>4, RunQueryIs
  <2>5. /\ Only({"run", "loading", "runs"}, v, e) /\ LoadOK(e)
        /\ \A r \in Active(e) : r.tid = u.tid /\ r.first
    BY <1>2, <2>0 DEF Starts, Ran
  <2>. HIDE DEF e
  <2>6. Only({"started", "run", "loading", "runs"}, w, e) /\ e.started = u.rev
    BY <2>2, <2>5 DEF Only, Fields
  <2>. QED BY <1>2, <2>5, <2>6 DEF e
<1>. QED BY <1>1, <1>2

\* When the automatic query is run.
Match(u) == /\ u.auto.id # 0 /\ u.tid = u.auto.id
            /\ u.inst = Listing[u.auto.id].inst /\ u.db = Listing[u.auto.id].db /\ u.tbl = Listing[u.auto.id].name
\* The effect of the automatic query.
LEMMA AutoIs == ASSUME NEW u, NEW w, Shape(w), LoadOK(w), u.tid \in Texts, TableOf(u) \in Texts, u.auto.text \in Texts
  PROVE LET e == AutoEffect(u, w) IN
     /\ Only({"auto", "run", "loading", "runs"}, w, e)
     /\ LoadOK(e)
     /\ ~Match(u) => e = w
     /\ Match(u) => e.auto = NoQuery /\ \A r \in Active(e) : r.tid = u.tid
<1>. DEFINE e == AutoEffect(u, w)
            v == [w EXCEPT !.auto = NoQuery]
<1>1. CASE ~Match(u)
  <2>1. e = w
    BY <1>1 DEF AutoEffect, Match
  <2>. QED BY <1>1, <2>1 DEF Only
<1>2. CASE Match(u)
  <2>1. e = RunQuery(u, v, u.auto.text, FALSE)
    BY <1>2 DEF AutoEffect, Match
  <2>2. Only({"auto"}, w, v) /\ v.auto = NoQuery
    BY DEF Only, Shape, Fields
  <2>. HIDE DEF v
  <2>3. LoadOK(v)
    BY <2>2 DEF LoadOK, Only, Fields
  <2>4. Shape(v) /\ u.tid # 0
    BY <1>2, <2>2 DEF Only, Match
  <2>0. Ran(u, v, FALSE, e)
    BY <2>1, <2>3, <2>4, RunQueryIs
  <2>5. /\ Only({"run", "loading", "runs"}, v, e) /\ LoadOK(e)
        /\ \A r \in Active(e) : r.tid = u.tid
    BY <2>0, <2>4 DEF Ran
  <2>. HIDE DEF e
  <2>6. Only({"auto", "run", "loading", "runs"}, w, e) /\ e.auto = NoQuery
    BY <2>2, <2>5 DEF Only, Fields
  <2>. QED BY <1>2, <2>5, <2>6 DEF e
<1>. QED BY <1>1, <1>2

\* The effect that restores the tabs.
LEMMA RestoreIs == ASSUME NEW u, NEW w, Shape(w)
  PROVE LET e == RestoreEffect(u, w) IN
     /\ Only({"restored", "tabs"}, w, e)
     /\ e.restored = w.restored \/ e.restored = TRUE
     /\ w.restored \in BOOLEAN => e.restored \in BOOLEAN
     /\ w.restored = TRUE => e = w
<1>1. CASE w.restored \/ u.shown = {}
  BY <1>1 DEF RestoreEffect, Only
<1>2. CASE ~(w.restored \/ u.shown = {})
  <2>1. PICK x : RestoreEffect(u, w) = [w EXCEPT !.restored = TRUE, !.tabs = x]
    BY <1>2 DEF RestoreEffect, Shape, Fields
  <2>. QED BY <1>2, <2>1 DEF Only, Shape, Fields
<1>. QED BY <1>1, <1>2

\* What is stored of tabs.
Pairs(tabs) == [k \in DOMAIN tabs |-> <<tabs[k].db, tabs[k].name>>]
\* The effect that stores the tabs.
LEMMA StoreIs == ASSUME NEW u, NEW w, Shape(w)
  PROVE LET e == StoreEffect(u, w) IN
     /\ Only({"stored"}, w, e)
     /\ w.restored = TRUE /\ u.restored = TRUE => e.stored = Pairs(ValidTabs(u))
<1>1. CASE Hydrating(u, w)
  BY <1>1 DEF StoreEffect, Only, Hydrating
<1>2. CASE ~Hydrating(u, w)
  <2>1. StoreEffect(u, w) = [w EXCEPT !.stored = Pairs(ValidTabs(u))]
    BY <1>2 DEF StoreEffect, Pairs
  <2>. QED BY <2>1 DEF Only, Shape, Fields
<1>. QED BY <1>1, <1>2

\* The queries kept for tables.
Kept == UNION {[ids -> Texts] : ids \in SUBSET Tables}
\* A query may be added to those kept.
LEMMA KeptAdds == ASSUME NEW f \in Kept, NEW t \in Tables, NEW x \in Texts PROVE With(f, t, x) \in Kept
<1>1. PICK D \in SUBSET Tables : f \in [D -> Texts]
  BY DEF Kept
<1>2. With(f, t, x) \in [D \union {t} -> Texts]
  BY <1>1 DEF With
<1>. QED BY <1>2 DEF Kept

\* The effect that keeps the query.
LEMMA KeepIs == ASSUME NEW u, NEW w, Shape(w), u.tid \in Texts, u.text \in Texts, w.kept \in Kept
  PROVE LET e == KeepEffect(u, w) IN
     /\ Only({"kept", "restore"}, w, e)
     /\ e.kept \in Kept
     /\ e.restore \in {0, w.restore}
<1>1. CASE Restoring(u, w)
  BY <1>1 DEF KeepEffect, Only
<1>2. CASE ~Restoring(u, w)
  <2>1. u.tid \in Tables
    BY <1>2 DEF Restoring, Texts
  <2>2. With(w.kept, u.tid, u.text) \in Kept
    BY <2>1, KeptAdds
  <2>3. PICK x \in Kept : x = With(w.kept, u.tid, u.text)
    BY <2>2
  <2>4. KeepEffect(u, w) = [w EXCEPT !.kept = x, !.restore = 0]
    BY <1>2, <2>3 DEF KeepEffect, Shape, Fields
  <2>. QED BY <2>4 DEF Only, Shape, Fields
<1>. QED BY <1>1, <1>2

\* The effect that adds the tab.
LEMMA TabIs == ASSUME NEW u, NEW w, Shape(w) PROVE Only({"tabs"}, w, TabEffect(u, w))
<1>1. CASE u.tid = 0 \/ u.db = "" \/ u.tbl = ""
  BY <1>1 DEF TabEffect, Only
<1>2. CASE ~(u.tid = 0 \/ u.db = "" \/ u.tbl = "")
  <2>1. PICK x : TabEffect(u, w) = [w EXCEPT !.tabs = x]
    BY <1>2 DEF TabEffect, Shape, Fields
  <2>. QED BY <2>1 DEF Only, Shape, Fields
<1>. QED BY <1>1, <1>2

-----------------------------------------------------------------------------
(***************************************************************************)
(* The effects of one commit together.                                     *)
(***************************************************************************)
\* What the effects of the hook make of the page u: nI, nD, nT and nF say which of them run.
Hooked(u, w, nI, nD, nT, nF) ==
    /\ Only(Clearing \union {"shown", "db", "tbl", "tid", "target", "fields", "fieldsAsked"}, u, w)
    /\ LoadOK(w)
    /\ nI \/ nD => w.logs = NoRows /\ w.charts = NoRows /\ Active(w) = {}
    /\ ~nI /\ ~nD => w.logs = u.logs /\ w.charts = u.charts /\ Active(w) = Active(u)
    /\ w.shown = IF ~nI THEN u.shown ELSE IF u.inst = 0 THEN {} ELSE {t \in u.list : Listing[t].inst = u.inst}
    /\ ~nI => w.db = u.db
    /\ nI /\ u.inst = 0 => w.db = ""
    /\ nI /\ u.inst # 0 => Picked(u, u.target, w)
    /\ nD => Named(u, u.target, w)
    /\ ~nD => w.tbl = IF nI /\ u.inst = 0 THEN "" ELSE u.tbl
    /\ w.tid = IF nT THEN TableOf(u) ELSE IF nD \/ (nI /\ u.inst = 0) THEN 0 ELSE u.tid
    /\ \/ w.target = u.target
       \/ nT /\ TableOf(u) # 0 /\ Reached(u.target, u) /\ w.target = NoTarget
    /\ w.fieldsAsked = IF nF THEN u.tid ELSE u.fieldsAsked
    /\ w.fields = IF nF /\ u.tid = 0 THEN 0 ELSE u.fields

\* The effects of the hook, one after the other, read the page as it was rendered.
LEMMA HookIs == ASSUME NEW u, Shape(u), LoadOK(u), u.list \subseteq Tables, u.inst # 0 => Dbs(u.inst) # {}, NEW c
  PROVE Hooked(u, HookEffects(u, c), "instance" \in c, c \intersect {"database", "inst", "tbl"} # {},
               c \intersect TableDeps # {}, "tid" \in c)
<1>. DEFINE nI == "instance" \in c
            nD == c \intersect {"database", "inst", "tbl"} # {}
            nT == c \intersect TableDeps # {}
            nF == "tid" \in c
            w1 == If(nI, InstanceEffect(u, u), u)
            w2 == If(nD, DatabaseEffect(u, w1), w1)
            w3 == If(nT, TableEffect(u, w2), w2)
            w4 == If(nF, FieldsEffect(u, w3), w3)
<1>1. HookEffects(u, c) = w4
  BY DEF HookEffects
<1>2. /\ Only(Clearing \union {"shown", "db", "tbl", "tid"}, u, w1)
      /\ LoadOK(w1)
      /\ nI => w1.logs = NoRows /\ w1.charts = NoRows /\ Active(w1) = {}
      /\ ~nI => w1 = u
      /\ nI /\ u.inst = 0 => w1.shown = {} /\ w1.db = "" /\ w1.tbl = "" /\ w1.tid = 0
      /\ nI /\ u.inst # 0 => /\ w1.tbl = u.tbl /\ w1.tid = u.tid
                             /\ w1.shown = {t \in u.list : Listing[t].inst = u.inst} /\ Picked(u, u.target, w1)
  <2>1. CASE ~nI
    BY <2>1 DEF If, Only
  <2>2. CASE nI
    <3>1. w1 = InstanceEffect(u, u)
      BY <2>2 DEF If
    <3>. HIDE DEF w1
    <3>2. /\ Only(Clearing \union {"shown", "db", "tbl", "tid"}, u, w1)
          /\ w1.run = 0 /\ w1.loading = FALSE /\ w1.logs = NoRows /\ w1.charts = NoRows
          /\ w1.runs = CancelQuery(u).runs
          /\ u.inst = 0 => w1.shown = {} /\ w1.db = "" /\ w1.tbl = "" /\ w1.tid = 0
          /\ u.inst # 0 => w1.tbl = u.tbl /\ w1.tid = u.tid /\ w1.shown = {t \in u.list : Listing[t].inst = u.inst}
      <4>1. InstanceMade(u, u, w1)
        BY <3>1, InstanceIs
      <4>. QED BY <4>1 DEF InstanceMade
    <3>3. LoadOK(w1) /\ Active(w1) = {}
      BY <3>2, ClearLoads
    <3>4. u.inst # 0 => Picked(u, u.target, w1)
      BY <3>1, InstancePicks
    <3>. QED BY <2>2, <3>2, <3>3, <3>4
  <2>. QED BY <2>1, <2>2
<1>. HIDE DEF w1
<1>3. Shape(w1) /\ w1.target = u.target
  BY <1>2 DEF Only, Fields, Clearing
<1>4. /\ Only(Clearing \union {"tbl", "tid"}, w1, w2)
      /\ LoadOK(w2)
      /\ nD => w2.logs = NoRows /\ w2.charts = NoRows /\ Active(w2) = {} /\ w2.tid = 0 /\ Named(u, u.target, w2)
      /\ ~nD => w2 = w1
  <2>1. CASE ~nD
    BY <1>2, <1>3, <2>1 DEF If, Only
  <2>2. CASE nD
    <3>1. w2 = DatabaseEffect(u, w1)
      BY <2>2 DEF If
    <3>. HIDE DEF w2
    <3>2. /\ Only(Clearing \union {"tbl", "tid"}, w1, w2)
          /\ w2.run = 0 /\ w2.loading = FALSE /\ w2.logs = NoRows /\ w2.charts = NoRows
          /\ w2.runs = CancelQuery(w1).runs
          /\ w2.tid = 0
      BY <1>3, <3>1, DatabaseIs DEF DatabaseMade
    <3>3. Named(u, u.target, w2)
      BY <1>3, <3>1, DatabaseIs
    <3>4. LoadOK(w2) /\ Active(w2) = {}
      BY <1>2, <1>3, <3>2, ClearLoads
    <3>. QED BY <2>2, <3>2, <3>3, <3>4
  <2>. QED BY <2>1, <2>2
<1>. HIDE DEF w2
<1>5. Shape(w2) /\ w2.target = u.target
  BY <1>3, <1>4 DEF Only, Fields, Clearing
<1>6. /\ Only({"tid", "target"}, w2, w3)
      /\ w3.tid = IF nT THEN TableOf(u) ELSE w2.tid
      /\ \/ w3.target = u.target
         \/ nT /\ TableOf(u) # 0 /\ Reached(u.target, u) /\ w3.target = NoTarget
  <2>1. CASE ~nT
    BY <1>5, <2>1 DEF If, Only
  <2>2. CASE nT
    <3>1. w3 = TableEffect(u, w2)
      BY <2>2 DEF If
    <3>. HIDE DEF w3
    <3>. QED BY <1>5, <2>2, <3>1, TableIs
  <2>. QED BY <2>1, <2>2
<1>. HIDE DEF w3
<1>7. Shape(w3)
  BY <1>6 DEF Only
<1>8. /\ Only({"fieldsAsked", "fields"}, w3, w4)
      /\ w4.fieldsAsked = IF nF THEN u.tid ELSE w3.fieldsAsked
      /\ w4.fields = IF nF /\ u.tid = 0 THEN 0 ELSE w3.fields
  <2>1. CASE ~nF
    BY <1>7, <2>1 DEF If, Only
  <2>2. CASE nF
    <3>1. w4 = FieldsEffect(u, w3)
      BY <2>2 DEF If
    <3>. HIDE DEF w4
    <3>. QED BY <1>7, <2>2, <3>1, FieldsIs
  <2>. QED BY <2>1, <2>2
<1>. HIDE DEF w4
<1>9. /\ w4.run = w2.run /\ w4.loading = w2.loading /\ w4.runs = w2.runs /\ w4.logs = w2.logs /\ w4.charts = w2.charts
      /\ w4.tbl = w2.tbl /\ w4.db = w1.db /\ w4.shown = w1.shown
      /\ w4.tid = w3.tid /\ w4.target = w3.target
      /\ w3.fields = u.fields /\ w3.fieldsAsked = u.fieldsAsked
  <2>1. /\ w4.run = w2.run /\ w4.loading = w2.loading /\ w4.runs = w2.runs /\ w4.logs = w2.logs /\ w4.charts = w2.charts
        /\ w4.tbl = w2.tbl /\ w4.tid = w3.tid /\ w4.target = w3.target
    BY <1>6, <1>8 DEF Only, Fields
  <2>2. w4.db = w1.db /\ w4.shown = w1.shown
    BY <1>4, <1>6, <1>8 DEF Only, Fields, Clearing
  <2>3. w3.fields = u.fields /\ w3.fieldsAsked = u.fieldsAsked
    BY <1>2, <1>4, <1>6 DEF Only, Fields, Clearing
  <2>. QED BY <2>1, <2>2, <2>3
<1>10. Only(Clearing \union {"shown", "db", "tbl", "tid", "target", "fields", "fieldsAsked"}, u, w4)
  <2>. DEFINE all == Clearing \union {"shown", "db", "tbl", "tid", "target", "fields", "fieldsAsked"}
  <2>1. Only(all, u, w1) /\ Only(all, w1, w2) /\ Only(all, w2, w3) /\ Only(all, w3, w4)
    BY <1>2, <1>4, <1>6, <1>8 DEF Only
  <2>. HIDE DEF all
  <2>2. Only(all, u, w4)
    BY <2>1 DEF Only
  <2>. QED BY <2>2 DEF all
<1>11. LoadOK(w4) /\ Active(w4) = Active(w2)
  BY <1>4, <1>9 DEF LoadOK, Active
<1>12. /\ nI \/ nD => w4.logs = NoRows /\ w4.charts = NoRows /\ Active(w4) = {}
       /\ ~nI /\ ~nD => w4.logs = u.logs /\ w4.charts = u.charts /\ Active(w4) = Active(u)
  BY <1>2, <1>4, <1>9, <1>11
<1>13. /\ w4.shown = IF ~nI THEN u.shown ELSE IF u.inst = 0 THEN {} ELSE {t \in u.list : Listing[t].inst = u.inst}
       /\ ~nI => w4.db = u.db
       /\ nI /\ u.inst = 0 => w4.db = ""
       /\ nI /\ u.inst # 0 => Picked(u, u.target, w4)
  BY <1>2, <1>9 DEF Picked
<1>14. /\ nD => Named(u, u.target, w4)
       /\ ~nD => w4.tbl = IF nI /\ u.inst = 0 THEN "" ELSE u.tbl
  BY <1>2, <1>4, <1>9 DEF Named
<1>15. w4.tid = IF nT THEN TableOf(u) ELSE IF nD \/ (nI /\ u.inst = 0) THEN 0 ELSE u.tid
  BY <1>2, <1>4, <1>6, <1>9
<1>16. Hooked(u, w4, nI, nD, nT, nF)
  <2>. HIDE DEF nI, nD, nT, nF
  <2>. QED BY <1>6, <1>8, <1>9, <1>10, <1>11, <1>12, <1>13, <1>14, <1>15 DEF Hooked
<1>. QED BY <1>1, <1>16

\* What the effects of the page make of w: nQ, nV and nA say whether the first query, the store of the
\* tabs and the automatic query are due.
Paged(u, w, e, nQ, nV, nA) ==
    /\ Only({"url", "started", "run", "loading", "runs", "restored", "tabs", "stored", "kept", "restore", "auto"}, w, e)
    /\ LoadOK(e)
    /\ \A r \in Active(e) : \/ r \in Active(w)
                            \/ nQ /\ Starts(u, w) /\ r.tid = u.tid /\ r.first
                            \/ nA /\ Match(u) /\ r.tid = u.tid
    /\ e.started = IF nQ /\ Starts(u, w) THEN u.rev ELSE w.started
    /\ e.auto = IF nA /\ Match(u) THEN NoQuery ELSE w.auto
    /\ w.restored = TRUE /\ u.restored = TRUE => e.stored = IF nV THEN Pairs(ValidTabs(u)) ELSE w.stored
    /\ e.restored \in BOOLEAN /\ e.kept \in Kept /\ e.restore \in {0, w.restore}
    /\ e.url \in {w.url, NoUrl, <<u.db, u.tbl>>}

\* The effects of the page, one after the other.
LEMMA PageIs == ASSUME NEW u, NEW w, Shape(w), LoadOK(w), u.tid \in Texts, u.text \in Texts, TableOf(u) \in Texts,
                       u.auto.text \in Texts, w.restored \in BOOLEAN, w.kept \in Kept, NEW c
  PROVE Paged(u, w, PageEffects(u, c, w), c \intersect {"auto", "tid"} # {}, c \intersect {"shown", "valid"} # {},
              c \intersect {"auto", "db", "inst", "tbl", "tid"} # {})
<1>. DEFINE nU == c \intersect {"db", "inst", "tbl", "tid"} # {}
            nQ == c \intersect {"auto", "tid"} # {}
            nS == "shown" \in c
            nV == c \intersect {"shown", "valid"} # {}
            nK == c \intersect {"tid", "text"} # {}
            nB == c \intersect {"db", "tbl", "tid"} # {}
            nA == c \intersect {"auto", "db", "inst", "tbl", "tid"} # {}
            w1 == If(nU, UrlEffect(u, w), w)
            w2 == If(nQ, InitialEffect(u, w1), w1)
            w3 == If(nS, RestoreEffect(u, w2), w2)
            w4 == If(nV, StoreEffect(u, w3), w3)
            w5 == If(nK, KeepEffect(u, w4), w4)
            w6 == If(nB, TabEffect(u, w5), w5)
            w7 == If(nA, AutoEffect(u, w6), w6)
<1>1. PageEffects(u, c, w) = w7
  BY DEF PageEffects
<1>2. Only({"url"}, w, w1) /\ w1.url \in {w.url, NoUrl, <<u.db, u.tbl>>}
  <2>1. CASE ~nU
    BY <2>1 DEF If, Only
  <2>2. CASE nU
    BY <2>2, UrlIs DEF If
  <2>. QED BY <2>1, <2>2
<1>. HIDE DEF w1
<1>3. Shape(w1) /\ LoadOK(w1) /\ w1.started = w.started
  BY <1>2 DEF LoadOK, Only, Fields
<1>4. /\ Only({"started", "run", "loading", "runs"}, w1, w2) /\ LoadOK(w2)
      /\ w2.started = IF nQ /\ Starts(u, w) THEN u.rev ELSE w.started
      /\ \A r \in Active(w2) : r \in Active(w1) \/ (nQ /\ Starts(u, w) /\ r.tid = u.tid /\ r.first)
  <2>1. CASE ~nQ
    BY <1>3, <2>1 DEF If, Only
  <2>2. CASE nQ
    <3>1. w2 = InitialEffect(u, w1)
      BY <2>2 DEF If
    <3>2. Starts(u, w1) <=> Starts(u, w)
      BY <1>3 DEF Starts
    <3>. HIDE DEF w2
    <3>3. /\ Only({"started", "run", "loading", "runs"}, w1, w2) /\ LoadOK(w2)
          /\ ~Starts(u, w1) => w2 = w1
          /\ Starts(u, w1) => w2.started = u.rev /\ \A r \in Active(w2) : r.tid = u.tid /\ r.first
      BY <1>3, <3>1, InitialIs
    <3>. QED BY <1>3, <2>2, <3>2, <3>3
  <2>. QED BY <2>1, <2>2
<1>. HIDE DEF w2
<1>5. Shape(w2) /\ w2.restored = w.restored /\ Active(w1) = Active(w)
  BY <1>2, <1>4 DEF Only, Fields, Active
<1>6. /\ Only({"restored", "tabs"}, w2, w3) /\ w3.restored \in BOOLEAN /\ (w.restored = TRUE => w3.restored = TRUE)
  <2>1. CASE ~nS
    BY <1>5, <2>1 DEF If, Only
  <2>2. CASE nS
    <3>1. w3 = RestoreEffect(u, w2)
      BY <2>2 DEF If
    <3>. HIDE DEF w3
    <3>. QED BY <1>5, <3>1, RestoreIs
  <2>. QED BY <2>1, <2>2
<1>. HIDE DEF w3
<1>7. Shape(w3)
  BY <1>6 DEF Only
<1>8. /\ Only({"stored"}, w3, w4)
      /\ w3.restored = TRUE /\ u.restored = TRUE => w4.stored = IF nV THEN Pairs(ValidTabs(u)) ELSE w3.stored
  <2>1. CASE ~nV
    BY <1>7, <2>1 DEF If, Only
  <2>2. CASE nV
    <3>1. w4 = StoreEffect(u, w3)
      BY <2>2 DEF If
    <3>. HIDE DEF w4
    <3>. QED BY <1>7, <2>2, <3>1, StoreIs
  <2>. QED BY <2>1, <2>2
<1>. HIDE DEF w4
<1>9. Shape(w4) /\ w4.kept = w.kept /\ w4.restore = w.restore
  BY <1>2, <1>4, <1>6, <1>8 DEF Only, Fields
<1>10. /\ Only({"kept", "restore"}, w4, w5) /\ w5.kept \in Kept /\ w5.restore \in {0, w.restore}
  <2>1. CASE ~nK
    BY <1>9, <2>1 DEF If, Only
  <2>2. CASE nK
    <3>1. w5 = KeepEffect(u, w4)
      BY <2>2 DEF If
    <3>. HIDE DEF w5
    <3>. QED BY <1>9, <3>1, KeepIs
  <2>. QED BY <2>1, <2>2
<1>. HIDE DEF w5
<1>11. Only({"tabs"}, w5, w6)
  <2>1. CASE ~nB
    BY <1>10, <2>1 DEF If, Only
  <2>2. CASE nB
    <3>1. w6 = TabEffect(u, w5)
      BY <2>2 DEF If
    <3>2. Shape(w5)
      BY <1>10 DEF Only
    <3>. HIDE DEF w6
    <3>. QED BY <3>1, <3>2, TabIs
  <2>. QED BY <2>1, <2>2
<1>. HIDE DEF w6
<1>12. Shape(w6)
  BY <1>11 DEF Only
<1>13. w6.run = w2.run /\ w6.runs = w2.runs /\ w6.loading = w2.loading /\ w6.auto = w.auto
  BY <1>2, <1>4, <1>6, <1>8, <1>10, <1>11 DEF Only, Fields
<1>14. LoadOK(w6) /\ Active(w6) = Active(w2)
  BY <1>4, <1>13 DEF LoadOK, Active
<1>15. /\ Only({"auto", "run", "loading", "runs"}, w6, w7) /\ LoadOK(w7)
       /\ w7.auto = IF nA /\ Match(u) THEN NoQuery ELSE w.auto
       /\ \A r \in Active(w7) : r \in Active(w6) \/ (nA /\ Match(u) /\ r.tid = u.tid)
  <2>1. CASE ~nA
    BY <1>12, <1>13, <1>14, <2>1 DEF If, Only
  <2>2. CASE nA
    <3>1. w7 = AutoEffect(u, w6)
      BY <2>2 DEF If
    <3>. HIDE DEF w7
    <3>2. /\ Only({"auto", "run", "loading", "runs"}, w6, w7) /\ LoadOK(w7)
          /\ ~Match(u) => w7 = w6
          /\ Match(u) => w7.auto = NoQuery /\ \A r \in Active(w7) : r.tid = u.tid
      BY <1>12, <1>14, <3>1, AutoIs
    <3>. QED BY <1>13, <2>2, <3>2
  <2>. QED BY <2>1, <2>2
<1>. HIDE DEF w7
<1>16. Only({"url", "started", "run", "loading", "runs", "restored", "tabs", "stored", "kept", "restore", "auto"}, w, w7)
  <2>. DEFINE all == {"url", "started", "run", "loading", "runs", "restored", "tabs", "stored", "kept", "restore", "auto"}
  <2>1. Only(all, w, w1) /\ Only(all, w1, w2) /\ Only(all, w2, w3) /\ Only(all, w3, w4)
    BY <1>2, <1>4, <1>6, <1>8 DEF Only
  <2>2. Only(all, w4, w5) /\ Only(all, w5, w6) /\ Only(all, w6, w7)
    BY <1>10, <1>11, <1>15 DEF Only
  <2>. HIDE DEF all
  <2>3. Only(all, w, w7)
    BY <2>1, <2>2 DEF Only
  <2>. QED BY <2>3 DEF all
<1>17. /\ w7.started = w2.started /\ w7.restored = w3.restored /\ w7.stored = w4.stored /\ w3.stored = w.stored
       /\ w7.kept = w5.kept /\ w7.restore = w5.restore /\ w7.url = w1.url
  BY <1>2, <1>4, <1>6, <1>8, <1>10, <1>11, <1>15 DEF Only, Fields
<1>18. \A r \in Active(w7) :
          \/ r \in Active(w)
          \/ nQ /\ Starts(u, w) /\ r.tid = u.tid /\ r.first
          \/ nA /\ Match(u) /\ r.tid = u.tid
  <2>1. ASSUME NEW r \in Active(w7)
        PROVE  \/ r \in Active(w)
               \/ nQ /\ Starts(u, w) /\ r.tid = u.tid /\ r.first
               \/ nA /\ Match(u) /\ r.tid = u.tid
    <3>. HIDE DEF nQ, nA
    <3>1. r \in Active(w6) \/ (nA /\ Match(u) /\ r.tid = u.tid)
      BY <1>15
    <3>2. CASE r \in Active(w6)
      BY <1>4, <1>5, <1>14, <3>2
    <3>3. CASE nA /\ Match(u) /\ r.tid = u.tid
      BY <3>3
    <3>. QED BY <3>1, <3>2, <3>3
  <2>. QED BY <2>1
<1>19. Paged(u, w, w7, nQ, nV, nA)
  <2>. HIDE DEF nQ, nV, nA
  <2>. QED BY <1>2, <1>4, <1>6, <1>8, <1>10, <1>15, <1>16, <1>17, <1>18 DEF Paged
<1>. QED BY <1>1, <1>19

-----------------------------------------------------------------------------
(***************************************************************************)
(* The handlers that select.                                               *)
(***************************************************************************)
\* What a handler that selects leaves of the page w.
Choice == Clearing \union {"target", "db", "tbl", "tid", "shown", "inst", "kept", "restore", "text", "tabs", "auto"}
Emptied(e) == e.tid = 0 /\ e.logs = NoRows /\ e.charts = NoRows /\ Active(e) = {}
Chosen(w, e) ==
    /\ Only(Choice, w, e)
    /\ LoadOK(e)
    /\ e.inst = w.inst => e.shown = w.shown
    /\ e.shown \in {w.shown, {}}
    /\ IF e.inst = w.inst /\ e.db = w.db
       THEN e.tid = w.tid /\ e.logs = w.logs /\ e.charts = w.charts /\ Active(e) = Active(w)
       ELSE Emptied(e)
Aside(w, e) == e.kept = w.kept /\ e.restore = w.restore /\ e.text = w.text /\ e.tabs = w.tabs /\ e.auto = w.auto

\* What selecting an instance leaves.
OpenedInstance(u, w, e, i) ==
    /\ i = u.inst => e = w
    /\ i # u.inst => /\ Only(Choice, w, e) /\ LoadOK(e) /\ Aside(w, e) /\ Emptied(e)
                     /\ e.target = NoTarget /\ e.tbl = "" /\ e.db = "" /\ e.inst = i /\ e.shown = {}
LEMMA SetInstanceIs == ASSUME NEW u, NEW w, Shape(w), LoadOK(w), NEW i
  PROVE OpenedInstance(u, w, SetInstance(u, w, i), i)
<1>. DEFINE e == SetInstance(u, w, i)
            v == ClearResults(w)
<1>1. CASE i = u.inst
  BY <1>1 DEF SetInstance, OpenedInstance
<1>2. CASE i # u.inst
  <2>1. e = [v EXCEPT !.target = NoTarget, !.db = "", !.tbl = "", !.tid = 0, !.shown = {}, !.inst = i]
    BY <1>2 DEF SetInstance
  <2>2. /\ Only(Clearing, w, v) /\ v.run = 0 /\ v.loading = FALSE /\ v.logs = NoRows /\ v.charts = NoRows
        /\ v.runs = CancelQuery(w).runs
    BY ClearIs
  <2>. HIDE DEF v, e
  <2>3. /\ Only(Choice, w, e)
        /\ e.run = 0 /\ e.loading = FALSE /\ e.runs = CancelQuery(w).runs /\ e.logs = NoRows /\ e.charts = NoRows
        /\ e.target = NoTarget /\ e.tbl = "" /\ e.db = "" /\ e.tid = 0 /\ e.shown = {} /\ e.inst = i /\ Aside(w, e)
    <3>1. /\ e.target = NoTarget /\ e.tbl = "" /\ e.db = "" /\ e.tid = 0 /\ e.shown = {} /\ e.inst = i
          /\ \A k \in Fields \ {"target", "tbl", "db", "tid", "shown", "inst"} : e[k] = v[k]
          /\ Shape(e)
      <4>1. Shape(v)
        BY <2>2 DEF Only
      <4>2. /\ DOMAIN e = Fields
            /\ e.target = NoTarget /\ e.tbl = "" /\ e.db = "" /\ e.tid = 0 /\ e.shown = {} /\ e.inst = i
        BY <2>1, <4>1 DEF Shape, Fields
      <4>3. \A k \in Fields \ {"target", "tbl", "db", "tid", "shown", "inst"} : e[k] = v[k]
        BY <2>1, <4>1 DEF Shape, Fields
      <4>4. e = [k \in Fields |-> e[k]]
        BY <2>1, <4>1, <4>2 DEF Shape
      <4>. QED BY <4>2, <4>3, <4>4 DEF Shape
    <3>2. e.run = v.run /\ e.loading = v.loading /\ e.runs = v.runs /\ e.logs = v.logs /\ e.charts = v.charts
      BY <3>1 DEF Fields
    <3>3. Only(Choice, w, e)
      BY <2>2, <3>1 DEF Only, Clearing, Choice
    <3>4. Aside(w, e)
      BY <2>2, <3>1 DEF Only, Fields, Clearing, Aside
    <3>. QED BY <2>2, <3>1, <3>2, <3>3, <3>4
  <2>4. LoadOK(e) /\ Active(e) = {}
    BY <2>3, ClearLoads
  <2>5. /\ Only(Choice, w, e) /\ LoadOK(e) /\ Aside(w, e) /\ Emptied(e)
        /\ e.target = NoTarget /\ e.tbl = "" /\ e.db = "" /\ e.inst = i /\ e.shown = {}
    BY <2>3, <2>4 DEF Emptied
  <2>. QED BY <1>2, <2>5 DEF e, OpenedInstance
<1>. QED BY <1>1, <1>2

\* What selecting a database leaves, after the instance w.inst.
OpenedDatabase(u, w, e, d) ==
    /\ d = u.db => e = w
    /\ d # u.db => /\ Only(Choice, w, e) /\ LoadOK(e) /\ Aside(w, e) /\ Emptied(e)
                   /\ e.target = NoTarget /\ e.tbl = "" /\ e.db = d /\ e.inst = w.inst /\ e.shown = w.shown
LEMMA SetDatabaseIs == ASSUME NEW u, NEW w, Shape(w), LoadOK(w), NEW d
  PROVE OpenedDatabase(u, w, SetDatabase(u, w, d), d)
<1>. DEFINE e == SetDatabase(u, w, d)
            v == ClearResults(w)
<1>1. CASE d = u.db
  BY <1>1 DEF SetDatabase, OpenedDatabase
<1>2. CASE d # u.db
  <2>1. e = [v EXCEPT !.target = NoTarget, !.tbl = "", !.tid = 0, !.db = d]
    BY <1>2 DEF SetDatabase
  <2>2. /\ Only(Clearing, w, v) /\ v.run = 0 /\ v.loading = FALSE /\ v.logs = NoRows /\ v.charts = NoRows
        /\ v.runs = CancelQuery(w).runs
    BY ClearIs
  <2>. HIDE DEF v, e
  <2>3. /\ Only(Choice, w, e)
        /\ e.run = 0 /\ e.loading = FALSE /\ e.runs = CancelQuery(w).runs /\ e.logs = NoRows /\ e.charts = NoRows
        /\ e.target = NoTarget /\ e.tbl = "" /\ e.db = d /\ e.tid = 0 /\ e.shown = w.shown /\ e.inst = w.inst /\ Aside(w, e)
    BY <2>1, <2>2 DEF Only, Shape, Fields, Clearing, Choice, Aside
  <2>4. LoadOK(e) /\ Active(e) = {}
    BY <2>3, ClearLoads
  <2>5. /\ Only(Choice, w, e) /\ LoadOK(e) /\ Aside(w, e) /\ Emptied(e)
        /\ e.target = NoTarget /\ e.tbl = "" /\ e.db = d /\ e.inst = w.inst /\ e.shown = w.shown
    BY <2>3, <2>4 DEF Emptied
  <2>. QED BY <1>2, <2>5 DEF e, OpenedDatabase
<1>. QED BY <1>1, <1>2

\* The menus of an instance and of a database.
MenuOpened(w, e, i, d) ==
    /\ Chosen(w, e) /\ Aside(w, e) /\ e.inst = i
    /\ IF i = w.inst /\ d = w.db
       THEN e = w
       ELSE /\ Emptied(e) /\ e.target = NoTarget /\ e.tbl = ""
            /\ e.db = IF d = w.db THEN "" ELSE d
LEMMA MenuIs == ASSUME NEW u, NEW w, Shape(w), LoadOK(w), u.inst = w.inst, u.db = w.db, NEW i, NEW d, w.db # "" \/ d # ""
  PROVE MenuOpened(w, SetDatabase(u, SetInstance(u, w, i), d), i, d)
<1>. DEFINE v == SetInstance(u, w, i)
            e == SetDatabase(u, v, d)
<1>0. OpenedInstance(u, w, v, i)
  BY SetInstanceIs
<1>2. Shape(v) /\ LoadOK(v)
  BY <1>0 DEF OpenedInstance, Only
<1>3. OpenedDatabase(u, v, e, d)
  <2>. HIDE DEF v
  <2>. QED BY <1>2, SetDatabaseIs
<1>. HIDE DEF v, e
<1>1. /\ Chosen(w, v) /\ Aside(w, v) /\ v.inst = i
      /\ i = w.inst => v = w
      /\ i # w.inst => Emptied(v) /\ v.target = NoTarget /\ v.tbl = "" /\ v.db = ""
  <2>1. CASE i = w.inst
    <3>1. v = w
      BY <1>0, <2>1 DEF OpenedInstance
    <3>. QED BY <2>1, <3>1 DEF Chosen, Aside, Only
  <2>2. CASE i # w.inst
    BY <1>0, <2>2 DEF OpenedInstance, Chosen
  <2>. QED BY <2>1, <2>2
<1>4. ASSUME d = w.db PROVE MenuOpened(w, e, i, d)
  BY <1>1, <1>3, <1>4 DEF MenuOpened, OpenedDatabase
<1>5. ASSUME d # w.db PROVE MenuOpened(w, e, i, d)
  <2>1. Only(Choice, w, e) /\ Aside(w, e)
    BY <1>1, <1>3, <1>5 DEF Chosen, Only, Aside, OpenedDatabase
  <2>2. Chosen(w, e)
    BY <1>1, <1>3, <1>5, <2>1 DEF Chosen, OpenedDatabase
  <2>. QED BY <1>1, <1>3, <1>5, <2>1, <2>2 DEF MenuOpened, OpenedDatabase
<1>6. MenuOpened(w, e, i, d)
  BY <1>4, <1>5
<1>. QED BY <1>6 DEF v, e

\* A table that is selected.
Reaches(w, e, t) ==
    /\ Chosen(w, e) /\ e.inst = Listing[t].inst /\ e.tbl = Listing[t].name /\ e.target = NoTarget
    /\ e.db = IF Listing[t].inst # w.inst /\ Listing[t].db = w.db THEN "" ELSE Listing[t].db
LEMMA SelectIs == ASSUME NEW u, NEW w, Shape(w), LoadOK(w), u.inst = w.inst, u.db = w.db, NEW t \in Tables
  PROVE Reaches(w, Select(u, w, t), t) /\ Aside(w, Select(u, w, t))
<1>. DEFINE v == SetDatabase(u, SetInstance(u, w, Listing[t].inst), Listing[t].db)
            e == Select(u, w, t)
<1>1. MenuOpened(w, v, Listing[t].inst, Listing[t].db)
  BY MenuIs, ListingIs
<1>2. e = [v EXCEPT !.target = NoTarget, !.tbl = Listing[t].name]
  BY DEF Select, SetTable
<1>. HIDE DEF v, e
<1>3. Only(Choice, w, v) /\ Shape(v)
  BY <1>1 DEF MenuOpened, Chosen, Only
<1>4. Only({"target", "tbl"}, v, e) /\ e.target = NoTarget /\ e.tbl = Listing[t].name
  BY <1>2, <1>3 DEF Only, Shape, Fields
<1>5. Only(Choice, w, e)
  <2>1. Only(Choice, v, e)
    BY <1>4 DEF Only, Choice
  <2>. QED BY <1>3, <2>1 DEF Only
<1>6. /\ e.run = v.run /\ e.runs = v.runs /\ e.loading = v.loading /\ e.logs = v.logs /\ e.charts = v.charts
      /\ e.tid = v.tid /\ e.inst = v.inst /\ e.db = v.db /\ e.shown = v.shown
      /\ e.kept = v.kept /\ e.restore = v.restore /\ e.text = v.text /\ e.tabs = v.tabs /\ e.auto = v.auto
  BY <1>4 DEF Only, Fields
<1>7. Active(e) = Active(v) /\ (LoadOK(v) => LoadOK(e))
  BY <1>6 DEF Active, LoadOK
<1>8. Chosen(w, e)
  BY <1>1, <1>5, <1>6, <1>7 DEF Chosen, MenuOpened, Emptied
<1>9. Reaches(w, e, t) /\ Aside(w, e)
  BY <1>1, <1>4, <1>6, <1>8 DEF MenuOpened, Reaches, Aside
<1>. QED BY <1>9 DEF e

\* A table that is selected with the page u of an earlier list, which the page w may have left.
Lately(w, e, t) ==
    /\ Only(Choice, w, e) /\ LoadOK(e)
    /\ e.inst \in {w.inst, Listing[t].inst} /\ e.db \in {w.db, "", Listing[t].db}
    /\ e.tbl = Listing[t].name /\ e.target = NoTarget
    /\ e.inst # w.inst => e.shown = {}
    /\ e.shown \in {w.shown, {}}
    /\ \/ Emptied(e)
       \/ /\ e.inst = w.inst /\ e.db = w.db /\ e.tid = w.tid /\ e.logs = w.logs /\ e.charts = w.charts
          /\ Active(e) = Active(w)
LEMMA LateSelect == ASSUME NEW u, NEW w, Shape(w), LoadOK(w), NEW t \in Tables
  PROVE Lately(w, Select(u, w, t), t) /\ Aside(w, Select(u, w, t))
<1>. DEFINE x == SetInstance(u, w, Listing[t].inst)
            v == SetDatabase(u, x, Listing[t].db)
            e == Select(u, w, t)
<1>1. OpenedInstance(u, w, x, Listing[t].inst)
  BY SetInstanceIs
<1>2. Shape(x) /\ LoadOK(x)
  BY <1>1 DEF OpenedInstance, Only
<1>3. OpenedDatabase(u, x, v, Listing[t].db)
  <2>. HIDE DEF x
  <2>. QED BY <1>2, SetDatabaseIs
<1>4. e = [v EXCEPT !.target = NoTarget, !.tbl = Listing[t].name]
  BY DEF Select, SetTable
<1>. HIDE DEF x, v, e
<1>5. /\ Only(Choice, w, x) /\ Aside(w, x) /\ x.inst \in {w.inst, Listing[t].inst} /\ x.db \in {w.db, ""}
      /\ x = w \/ (Emptied(x) /\ x.shown = {})
  BY <1>1, <1>2 DEF OpenedInstance, Only, Aside
<1>6. /\ Only(Choice, x, v) /\ Aside(x, v) /\ v.inst = x.inst /\ v.db \in {x.db, Listing[t].db} /\ v.shown = x.shown
      /\ v = x \/ Emptied(v)
      /\ Shape(v) /\ LoadOK(v)
  BY <1>2, <1>3 DEF OpenedDatabase, Only, Aside
<1>7. Only({"target", "tbl"}, v, e) /\ e.target = NoTarget /\ e.tbl = Listing[t].name
  BY <1>4, <1>6 DEF Only, Shape, Fields
<1>8. Only(Choice, w, e)
  <2>1. Only(Choice, v, e)
    BY <1>7 DEF Only, Choice
  <2>. QED BY <1>5, <1>6, <2>1 DEF Only
<1>9. /\ e.run = v.run /\ e.runs = v.runs /\ e.loading = v.loading /\ e.logs = v.logs /\ e.charts = v.charts
      /\ e.tid = v.tid /\ e.inst = v.inst /\ e.db = v.db /\ e.shown = v.shown
      /\ e.kept = v.kept /\ e.restore = v.restore /\ e.text = v.text /\ e.tabs = v.tabs /\ e.auto = v.auto
  BY <1>7 DEF Only, Fields
<1>10. Active(e) = Active(v) /\ LoadOK(e)
  BY <1>6, <1>9 DEF Active, LoadOK
<1>11. Aside(w, e)
  BY <1>5, <1>6, <1>9 DEF Aside
<1>12. \/ Emptied(e)
       \/ /\ e.inst = w.inst /\ e.db = w.db /\ e.tid = w.tid /\ e.logs = w.logs /\ e.charts = w.charts
          /\ Active(e) = Active(w)
  <2>1. CASE v = w
    BY <1>9, <1>10, <2>1
  <2>2. CASE Emptied(v)
    BY <1>9, <1>10, <2>2 DEF Emptied
  <2>. QED BY <1>5, <1>6, <2>1, <2>2
<1>13. /\ e.inst \in {w.inst, Listing[t].inst} /\ e.db \in {w.db, "", Listing[t].db}
       /\ e.inst # w.inst => e.shown = {}
       /\ e.shown \in {w.shown, {}}
  BY <1>5, <1>6, <1>9
<1>14. Lately(w, e, t)
  BY <1>7, <1>8, <1>10, <1>12, <1>13 DEF Lately
<1>. QED BY <1>11, <1>14 DEF e

\* The query asked for with a table is none that the last commit has seen.
LEMMA AskedIs == ASSUME NEW t, NEW text \in Texts
  PROVE Asked(t, text) \in [id : {t}, text : Texts, copy : BOOLEAN] /\ Asked(t, text) # seen.auto
<1>. DEFINE q == [id |-> t, text |-> text, copy |-> FALSE]
<1>1. CASE seen.auto = q
  <2>1. Asked(t, text) = [id |-> t, text |-> text, copy |-> TRUE]
    BY <1>1 DEF Asked
  <2>2. q.copy = FALSE /\ Asked(t, text).copy = TRUE
    BY <2>1
  <2>. QED BY <1>1, <2>1, <2>2
<1>2. CASE seen.auto # q
  <2>1. Asked(t, text) = q
    BY <1>2 DEF Asked
  <2>. QED BY <1>2, <2>1
<1>. QED BY <1>1, <1>2

\* A table that is picked in the tree or on a tab: its query, and the selection of the page x.
PickedWith(u, w, t, x, e) ==
    /\ Only({"kept", "restore", "text", "tabs"}, w, x) /\ LoadOK(x) /\ Active(x) = Active(w)
    /\ x.kept \in Kept /\ x.restore = t /\ x.text \in Texts
    /\ Shape(Select(u, x, t)) => Only({"auto"}, Select(u, x, t), e)
    /\ Shape(Select(u, x, t)) => e.auto \in [id : {t}, text : Texts, copy : BOOLEAN] /\ e.auto # seen.auto
LEMMA PickParts == ASSUME NEW u, NEW w, Shape(w), LoadOK(w), NEW t \in Tables,
                          u.tid \in Texts, u.text \in Texts, u.kept \in Kept, w.kept \in Kept
  PROVE \E x : PickedWith(u, w, t, x, PickTable(u, w, t))
<1>. DEFINE switching == u.tid # 0 /\ u.tid # t
            text == CASE ~switching -> u.text
                      [] switching /\ t \in DOMAIN u.kept -> u.kept[t]
                      [] OTHER -> 0
            kept == IF switching THEN With(w.kept, u.tid, u.text) ELSE w.kept
            x == [w EXCEPT !.kept = kept, !.restore = t, !.text = text, !.tabs = AddTab(@, TabOf(t))]
            y == Select(u, x, t)
            asked == Asked(t, text)
            e == PickTable(u, w, t)
<1>1. e = [y EXCEPT !.auto = asked]
  BY DEF PickTable
<1>2. text \in Texts
  <2>1. PICK D \in SUBSET Tables : u.kept \in [D -> Texts]
    BY DEF Kept
  <2>2. t \in DOMAIN u.kept => u.kept[t] \in Texts
    BY <2>1
  <2>. QED BY <2>2 DEF Texts
<1>3. kept \in Kept
  <2>1. switching => u.tid \in Tables
    BY DEF Texts
  <2>. QED BY <2>1, KeptAdds
<1>4. x = [w EXCEPT !.kept = kept, !.restore = t, !.text = text, !.tabs = AddTab(w.tabs, TabOf(t))]
  OBVIOUS
<1>. HIDE DEF text, kept, switching, x
<1>5. Only({"kept", "restore", "text", "tabs"}, w, x) /\ x.kept = kept /\ x.restore = t /\ x.text = text
  BY <1>4 DEF Only, Shape, Fields
<1>6. x.run = w.run /\ x.runs = w.runs /\ x.loading = w.loading
  BY <1>5 DEF Only, Fields
<1>7. LoadOK(x) /\ Active(x) = Active(w)
  BY <1>6 DEF LoadOK, Active
<1>8. asked \in [id : {t}, text : Texts, copy : BOOLEAN] /\ asked # seen.auto
  BY <1>2, AskedIs
<1>. HIDE DEF y, e, asked
<1>9. Shape(y) => Only({"auto"}, y, e) /\ e.auto = asked
  BY <1>1 DEF Only, Shape, Fields
<1>10. PickedWith(u, w, t, x, e)
  BY <1>2, <1>3, <1>5, <1>7, <1>8, <1>9 DEF PickedWith, y
<1>. QED BY <1>10 DEF e

\* A table that is picked with the page as it is.
LEMMA PickIs == ASSUME NEW u, NEW w, Shape(w), LoadOK(w), u.inst = w.inst, u.db = w.db, NEW t \in Tables,
                       u.tid \in Texts, u.text \in Texts, u.kept \in Kept, w.kept \in Kept
  PROVE LET e == PickTable(u, w, t) IN
        /\ Reaches(w, e, t)
        /\ e.kept \in Kept /\ e.text \in Texts /\ e.restore = t /\ e.auto \in [id : {t}, text : Texts, copy : BOOLEAN]
<1>. DEFINE e == PickTable(u, w, t)
<1>1. PICK x : PickedWith(u, w, t, x, e)
  BY PickParts
<1>. DEFINE y == Select(u, x, t)
<1>. HIDE DEF e
<1>2. Only({"kept", "restore", "text", "tabs"}, w, x) /\ LoadOK(x) /\ Active(x) = Active(w)
  BY <1>1 DEF PickedWith
<1>3. /\ Shape(x) /\ x.inst = w.inst /\ x.db = w.db
      /\ x.shown = w.shown /\ x.tid = w.tid /\ x.logs = w.logs /\ x.charts = w.charts
  BY <1>2 DEF Only, Fields
<1>4. Reaches(x, y, t) /\ Aside(x, y)
  BY <1>2, <1>3, SelectIs
<1>. HIDE DEF y
<1>5. Shape(y)
  BY <1>4 DEF Reaches, Chosen, Only
<1>6. Only({"auto"}, y, e) /\ e.auto \in [id : {t}, text : Texts, copy : BOOLEAN]
  BY <1>1, <1>5 DEF PickedWith, y
<1>7. Only(Choice, w, e)
  <2>1. Only(Choice, w, x) /\ Only(Choice, x, y) /\ Only(Choice, y, e)
    BY <1>2, <1>4, <1>6 DEF Only, Choice, Reaches, Chosen
  <2>. QED BY <2>1 DEF Only
<1>8. /\ e.run = y.run /\ e.runs = y.runs /\ e.loading = y.loading /\ e.logs = y.logs /\ e.charts = y.charts
      /\ e.tid = y.tid /\ e.inst = y.inst /\ e.db = y.db /\ e.shown = y.shown /\ e.tbl = y.tbl /\ e.target = y.target
      /\ e.kept = y.kept /\ e.restore = y.restore /\ e.text = y.text
  BY <1>6 DEF Only, Fields
<1>9. Active(e) = Active(y) /\ (LoadOK(y) => LoadOK(e))
  BY <1>8 DEF Active, LoadOK
<1>10. Chosen(w, e)
  BY <1>2, <1>3, <1>4, <1>7, <1>8, <1>9 DEF Chosen, Reaches, Emptied
<1>11. Reaches(w, e, t)
  BY <1>3, <1>4, <1>8, <1>10 DEF Reaches
<1>12. e.kept \in Kept /\ e.text \in Texts /\ e.restore = t
  BY <1>1, <1>4, <1>8 DEF Aside, PickedWith
<1>. QED BY <1>6, <1>11, <1>12 DEF e

\* A table that is picked with the page of an earlier list.
LEMMA PickLate == ASSUME NEW u, NEW w, Shape(w), LoadOK(w), NEW t \in Tables,
                         u.tid \in Texts, u.text \in Texts, u.kept \in Kept, w.kept \in Kept
  PROVE LET e == PickTable(u, w, t) IN
        /\ Lately(w, e, t)
        /\ e.kept \in Kept /\ e.text \in Texts /\ e.restore = t
        /\ e.auto \in [id : {t}, text : Texts, copy : BOOLEAN] /\ e.auto # seen.auto
<1>. DEFINE e == PickTable(u, w, t)
<1>1. PICK x : PickedWith(u, w, t, x, e)
  BY PickParts
<1>. DEFINE y == Select(u, x, t)
<1>. HIDE DEF e
<1>2. Only({"kept", "restore", "text", "tabs"}, w, x) /\ LoadOK(x) /\ Active(x) = Active(w)
  BY <1>1 DEF PickedWith
<1>3. /\ Shape(x) /\ x.inst = w.inst /\ x.db = w.db
      /\ x.shown = w.shown /\ x.tid = w.tid /\ x.logs = w.logs /\ x.charts = w.charts
  BY <1>2 DEF Only, Fields
<1>4. Lately(x, y, t) /\ Aside(x, y)
  BY <1>2, <1>3, LateSelect
<1>. HIDE DEF y
<1>5. Shape(y)
  BY <1>4 DEF Lately, Only
<1>6. Only({"auto"}, y, e) /\ e.auto \in [id : {t}, text : Texts, copy : BOOLEAN] /\ e.auto # seen.auto
  BY <1>1, <1>5 DEF PickedWith, y
<1>7. Only(Choice, w, e)
  <2>1. Only(Choice, w, x) /\ Only(Choice, x, y) /\ Only(Choice, y, e)
    BY <1>2, <1>4, <1>6 DEF Only, Choice, Lately
  <2>. QED BY <2>1 DEF Only
<1>8. /\ e.run = y.run /\ e.runs = y.runs /\ e.loading = y.loading /\ e.logs = y.logs /\ e.charts = y.charts
      /\ e.tid = y.tid /\ e.inst = y.inst /\ e.db = y.db /\ e.shown = y.shown /\ e.tbl = y.tbl /\ e.target = y.target
      /\ e.kept = y.kept /\ e.restore = y.restore /\ e.text = y.text
  BY <1>6 DEF Only, Fields
<1>9. Active(e) = Active(y) /\ (LoadOK(y) => LoadOK(e))
  BY <1>8 DEF Active, LoadOK
<1>10. Lately(w, e, t)
  BY <1>2, <1>3, <1>4, <1>7, <1>8, <1>9 DEF Lately, Emptied
<1>11. e.kept \in Kept /\ e.text \in Texts /\ e.restore = t
  BY <1>1, <1>4, <1>8 DEF Aside, PickedWith
<1>. QED BY <1>6, <1>10, <1>11 DEF e

-----------------------------------------------------------------------------
(***************************************************************************)
(* The inductive invariant.                                                *)
(***************************************************************************)
\* What the next commit has to do.
DatabaseDep(u) == IF HasDb(u) THEN <<u.rev, u.inst, u.db>> ELSE <<>>
TableDep(u) == IF TableOf(u) # 0 THEN <<u.rev, TableOf(u)>> ELSE <<>>
InstanceDue == seen.instance # <<page.rev, page.inst>>
BaseDue     == seen.database # DatabaseDep(page) \/ seen.inst # page.inst
DatabaseDue == BaseDue \/ seen.tbl # page.tbl
TableDue    == seen.db # page.db \/ seen.inst # page.inst \/ seen.table # TableDep(page)
FieldsDue   == seen.tid # page.tid
InitialDue  == seen.auto # page.auto \/ seen.tid # page.tid
StoreDue    == seen.shown # page.shown \/ seen.valid # <<page.restored, ValidTabs(page)>>
AutoDue     == \/ seen.auto # page.auto \/ seen.db # page.db \/ seen.inst # page.inst
               \/ seen.tbl # page.tbl \/ seen.tid # page.tid

\* The timer of a closed tab fired on a later list than its click, and no list came since.
Late == page.late

\* What holds of the page whatever is due.
Basics == Shape(page) /\ TypeOK /\ LoadOK(page)

\* The parts of the inductive invariant.  What waits for a timer is the page of a click, on this list
\* or on an earlier one; on this list nothing has moved since.
TimerInv ==
    page.timer # <<>> =>
        LET of == Head(page.timer).of
        IN  /\ of.tid \in Texts /\ of.text \in Texts /\ of.kept \in Kept /\ of.shown \subseteq Tables
            /\ of.rev \in Nat \ {0} /\ of.rev <= page.rev
            /\ of.rev = page.rev =>
                   /\ of.inst = page.inst /\ of.db = page.db /\ of.tid = page.tid /\ of.shown = page.shown
                   /\ goal = 0
                   /\ ~InstanceDue /\ ~DatabaseDue /\ ~TableDue /\ ~AutoDue

\* Every instance that is selected or asked for has tables.
InstInv ==
    /\ page.inst # 0 => Dbs(page.inst) # {}
    /\ \A x \in page.trees : x.inst # 0 => Dbs(x.inst) # {}

\* A database is of the selected instance, or the effect of the instance will pick one, or a late timer
\* took the instance away from under it.
DbInv ==
    /\ page.db = "" \/ HasDb(page) \/ InstanceDue \/ Late
    /\ ~InstanceDue => page.shown \subseteq page.list

\* What the last commit saw: the number of the list and the table it selected.
Rev == seen.instance[1]
SeenTable == IF seen.table = <<>> THEN 0 ELSE seen.table[2]
\* The dependencies seen fit together: they are those of one page, of a list not newer than this.
SeenInv ==
    /\ Rev \in Nat /\ seen.instance = <<Rev, seen.inst>> /\ Rev <= page.rev
    /\ seen.database = IF HasDb(seen) THEN <<Rev, seen.inst, seen.db>> ELSE <<>>
    /\ seen.table # <<>> => /\ Rev # 0 /\ seen.table = <<Rev, SeenTable>> /\ SeenTable \in Tables
                            /\ Listing[SeenTable].inst = seen.inst /\ Listing[SeenTable].db = seen.db
                            /\ Listing[SeenTable].name = seen.tbl
    /\ Rev = page.rev => SeenTable = TableNamed(page, seen.inst, seen.db, seen.tbl)

\* The chain of the selection.  The name is one of the database unless the effect of the instance or the
\* database is due, and the id is the one last seen, or none, until the effect of the table is due.
NamedHere == IF HasDb(page) THEN page.tbl \in Names(page) \/ (Names(page) = {} /\ page.tbl = "")
                            ELSE page.tbl = ""
SelInv ==
    /\ ~InstanceDue /\ ~DatabaseDue /\ ~Late => NamedHere
    /\ page.tid \in {0, SeenTable}
    /\ ~DatabaseDue /\ ~TableDue /\ ~Late => page.tid = SeenTable

\* Fields, shown or asked for, are of the table last seen.
FieldsInv ==
    /\ page.fieldsAsked \in {0, seen.tid}
    /\ page.fields \in {0, seen.tid} \/ page.fieldsAsked = seen.tid

\* The stored tabs are those last seen, once they were restored.
TabsInv == page.restored /\ seen.valid[1] => page.stored = Pairs(seen.valid[2])

\* A page without a list has no selection; on the first list the selection follows the table of the address.
OpenInv ==
    /\ page.rev = 0 => /\ page.list = {} /\ page.shown = {} /\ page.inst = 0 /\ page.tid = 0 /\ page.tbl = "" /\ page.db = ""
                       /\ page.target = NoTarget /\ \A x \in page.trees : x.inst = 0
    /\ page.rev = 1 /\ page.target.inst # 0 =>
          \E t \in page.list : /\ page.target = TargetOf(t) /\ page.inst = Listing[t].inst
                               /\ \/ page.db = "" /\ page.tbl = ""
                                  \/ page.db = Listing[t].db /\ page.tbl \in {"", Listing[t].name}

\* The first query is not forgotten, and on the first list it runs when the selection is complete.
StartInv ==
    /\ page.tid # 0 /\ page.auto.id = 0 /\ ~InitialDue => page.started # 0
    /\ page.rev = 1 /\ page.tid # 0 /\ page.auto.id = 0 /\ page.started = 0
          => seen.inst = page.inst /\ seen.db = page.db /\ seen.tbl = page.tbl

\* Rows and runs of the first query on a later list are left out.
Excused(x) == x.first /\ page.started > 1
\* Rows and accepted runs are of the selected table, unless an effect is due that clears them; and one that
\* is due for a name alone, like a late timer, has left no table selected.
ResInv ==
    \/ InstanceDue \/ BaseDue \/ (page.tid = 0 /\ (seen.tbl # page.tbl \/ Late))
    \/ /\ \A rows \in {page.logs, page.charts} : rows.id \in {0, page.tid} \/ Excused(rows)
       /\ \A r \in Active(page) : r.tid = page.tid \/ Excused(r)

\* A commit whose selection fits the automatic query has run it.
SeenMatch == /\ seen.auto.id # 0 /\ seen.tid = seen.auto.id
             /\ seen.inst = Listing[seen.auto.id].inst /\ seen.db = Listing[seen.auto.id].db
             /\ seen.tbl = Listing[seen.auto.id].name
AutoInv == SeenMatch => page.auto # seen.auto

\* The table asked for is the target of the refreshed list until it is selected, and every effect brings the
\* selection closer to it, unless a late timer overruled it.
GoalInv ==
    ~Late /\ goal \in page.list =>
        /\ page.inst = Listing[goal].inst
        /\ \/ page.target = TargetOf(goal)
           \/ page.target = NoTarget /\ page.db = Listing[goal].db /\ page.tbl = Listing[goal].name
        /\ page.target = TargetOf(goal) /\ ~InstanceDue => page.db = Listing[goal].db
        /\ page.target = TargetOf(goal) /\ ~InstanceDue /\ ~DatabaseDue => page.tbl = Listing[goal].name

Inv == /\ Basics /\ TimerInv /\ InstInv /\ DbInv /\ SeenInv /\ SelInv /\ FieldsInv /\ TabsInv /\ OpenInv
       /\ StartInv /\ ResInv /\ AutoInv

-----------------------------------------------------------------------------
(***************************************************************************)
(* A commit, as the effects that are due.                                  *)
(***************************************************************************)
\* The types, one by one.
LEMMA TypesOfPage == ASSUME TypeOK
  PROVE /\ page.rev \in Nat /\ page.started \in Nat /\ page.inst \in Nat /\ page.db \in DbNames /\ page.tbl \in TableNames
        /\ page.url \in DbNames \X TableNames
        /\ page.list \subseteq Tables /\ page.shown \subseteq Tables
        /\ page.tid \in Texts /\ page.text \in Texts /\ page.fields \in Texts /\ page.fieldsAsked \in Texts /\ page.restore \in Texts
        /\ page.loading \in BOOLEAN /\ page.restored \in BOOLEAN /\ page.late \in BOOLEAN /\ page.kept \in Kept
        /\ page.auto.id \in Texts /\ page.auto.text \in Texts
        /\ page.logs \in [id : Texts, text : Texts, first : BOOLEAN] /\ page.charts \in [id : Texts, text : Texts, first : BOOLEAN]
        /\ page.trees \subseteq [inst : Nat, db : DbNames, name : TableNames, id : Texts]
        /\ page.target \in [inst : Nat, db : DbNames, name : TableNames, id : Texts]
        /\ TableOf(page) \in Texts
<1>1. page.list \subseteq Tables
  BY DEF TypeOK
<1>2. TableOf(page) \in Texts
  BY <1>1, TableOfIs DEF Texts
<1>3. page.auto.id \in Texts /\ page.auto.text \in Texts
  BY DEF TypeOK
<1>4. page.kept \in Kept
  BY DEF TypeOK, Kept
<1>. QED BY <1>1, <1>2, <1>3, <1>4 DEF TypeOK

\* A commit, with the effects that are due.
Committed ==
    /\ \E w : /\ Hooked(page, w, InstanceDue, DatabaseDue, TableDue, FieldsDue)
              /\ Paged(page, w, page', InitialDue, StoreDue, AutoDue)
    /\ seen' = Deps(page)
    /\ UNCHANGED <<server, goal, clicks>>

LEMMA CommitIs == ASSUME Basics, InstInv, Commit PROVE Committed
<1>. DEFINE c == {k \in DOMAIN Deps(page) : seen[k] # Deps(page)[k]}
            w == HookEffects(page, c)
<1>1. page' = PageEffects(page, c, w) /\ seen' = Deps(page) /\ UNCHANGED <<server, goal, clicks>>
  BY DEF Commit
<1>2. /\ ("instance" \in c) <=> InstanceDue
      /\ ("database" \in c) <=> seen.database # DatabaseDep(page)
      /\ ("table" \in c) <=> seen.table # TableDep(page)
      /\ ("inst" \in c) <=> seen.inst # page.inst
      /\ ("db" \in c) <=> seen.db # page.db
      /\ ("tbl" \in c) <=> seen.tbl # page.tbl
      /\ ("tid" \in c) <=> seen.tid # page.tid
      /\ ("auto" \in c) <=> seen.auto # page.auto
      /\ ("shown" \in c) <=> seen.shown # page.shown
      /\ ("valid" \in c) <=> seen.valid # <<page.restored, ValidTabs(page)>>
  BY DEF Deps, InstanceDue, DatabaseDep, TableDep
<1>. HIDE DEF c
<1>3. /\ (c \intersect {"database", "inst", "tbl"} # {}) <=> DatabaseDue
      /\ (c \intersect TableDeps # {}) <=> TableDue
      /\ (c \intersect {"auto", "tid"} # {}) <=> InitialDue
      /\ (c \intersect {"shown", "valid"} # {}) <=> StoreDue
      /\ (c \intersect {"auto", "db", "inst", "tbl", "tid"} # {}) <=> AutoDue
      /\ ("tid" \in c) <=> FieldsDue
  BY <1>2 DEF DatabaseDue, BaseDue, TableDue, FieldsDue, InitialDue, StoreDue, AutoDue, TableDeps
<1>4. Hooked(page, w, "instance" \in c, c \intersect {"database", "inst", "tbl"} # {}, c \intersect TableDeps # {}, "tid" \in c)
  BY TypesOfPage, HookIs DEF Basics, InstInv
<1>. HIDE DEF w
<1>5. Hooked(page, w, InstanceDue, DatabaseDue, TableDue, FieldsDue)
  BY <1>2, <1>3, <1>4, Zenon DEF Hooked
<1>6. Shape(w) /\ LoadOK(w) /\ w.restored = page.restored /\ w.kept = page.kept
  BY <1>5 DEF Hooked, Only, Fields, Clearing
<1>7. Paged(page, w, page', c \intersect {"auto", "tid"} # {}, c \intersect {"shown", "valid"} # {},
            c \intersect {"auto", "db", "inst", "tbl", "tid"} # {})
  BY <1>1, <1>6, TypesOfPage, PageIs DEF Basics
<1>8. Paged(page, w, page', InitialDue, StoreDue, AutoDue)
  BY <1>3, <1>7, Zenon DEF Paged
<1>. QED BY <1>1, <1>5, <1>8 DEF Committed

-----------------------------------------------------------------------------
(***************************************************************************)
(* Types, and the steps that are no commit.                                *)
(***************************************************************************)
\* The types, one conjunct for each field, with what LoadOK leaves open.
Row == [id : Texts, text : Texts, first : BOOLEAN]
Goto == [inst : Nat, db : DbNames, name : TableNames, id : Texts]
Query == [id : Texts, text : Texts, copy : BOOLEAN]
Typed(p) ==
    /\ p.rev \in Nat /\ p.started \in Nat /\ p.inst \in Nat /\ p.db \in DbNames /\ p.tbl \in TableNames
    /\ p.url \in DbNames \X TableNames /\ p.list \subseteq Tables /\ p.shown \subseteq Tables
    /\ p.tid \in Texts /\ p.text \in Texts /\ p.fields \in Texts /\ p.fieldsAsked \in Texts /\ p.restore \in Texts
    /\ p.restored \in BOOLEAN /\ p.late \in BOOLEAN /\ p.kept \in Kept /\ p.auto \in Query /\ p.logs \in Row /\ p.charts \in Row
    /\ p.trees \subseteq Goto /\ p.target \in Goto
Others == server \subseteq Tables /\ goal \in Texts /\ clicks \in 0 .. MaxClicks

LEMMA TypedIs == Basics <=> Shape(page) /\ Typed(page) /\ LoadOK(page) /\ Others
<1>1. LoadOK(page) => /\ page.loading \in BOOLEAN /\ page.run \in Nat /\ IsFiniteSet(page.runs)
                      /\ page.runs \subseteq [id : Nat \ {0}, tid : Tables, text : Texts, first : BOOLEAN, aborted : BOOLEAN]
  BY DEF LoadOK, RunRec
<1>2. ASSUME Typed(page), LoadOK(page), Others PROVE TypeOK
  BY <1>1, <1>2 DEF Typed, Others, TypeOK, Row, Goto, Query, Kept
<1>3. ASSUME TypeOK PROVE Typed(page) /\ Others
  BY <1>3 DEF Typed, Others, TypeOK, Row, Goto, Query, Kept
<1>. QED BY <1>2, <1>3 DEF Basics

LEMMA TypedNext == ASSUME Shape(page'), Typed(page'), LoadOK(page'), Others' PROVE Basics'
<1>1. LoadOK(page') => /\ page'.loading \in BOOLEAN /\ page'.run \in Nat /\ IsFiniteSet(page'.runs)
                       /\ page'.runs \subseteq [id : Nat \ {0}, tid : Tables, text : Texts, first : BOOLEAN, aborted : BOOLEAN]
  BY DEF LoadOK, RunRec
<1>2. TypeOK'
  BY <1>1 DEF Typed, Others, TypeOK, Row, Goto, Query, Kept
<1>. QED BY <1>2 DEF Basics

\* The other steps: a handler that selects; an answer with the list; what leaves the selection alone; and
\* the timer of a closed tab on a later list.
SelectsBy(w, t) ==
    /\ Only({"timer"}, page, w) /\ w.timer = <<>> /\ Chosen(w, page')
    /\ page'.inst = Listing[t].inst /\ page'.db \in {w.db, "", Listing[t].db}
    /\ page'.kept \in Kept /\ page'.restore \in Texts /\ page'.text \in Texts /\ page'.auto \in Query
    /\ \/ page' = w /\ goal' = 0
       \/ page'.tbl = "" /\ page'.target = NoTarget /\ Emptied(page') /\ page'.auto = page.auto /\ goal' = 0
       \/ Reaches(w, page', t) /\ goal' \in {0, t} /\ (page'.auto = page.auto \/ page'.auto.id = t)
Selects == Settled /\ page.rev # 0 /\ seen' = seen /\ Others' /\ \E w, t : t \in Tables /\ SelectsBy(w, t)

Lists ==
    /\ seen' = seen /\ Others' /\ goal' = page'.target.id /\ page'.late = FALSE
    /\ Only({"trees", "target", "rev", "list", "inst", "late"}, page, page')
    /\ page'.trees \subseteq page.trees /\ page'.rev = page.rev + 1 /\ page'.list \subseteq Tables
    /\ page'.target \in Goto /\ page'.inst \in Nat
    /\ page'.inst # 0 => Dbs(page'.inst) # {}
    /\ goal' \in page'.list => page'.target = TargetOf(goal')
    /\ page'.target.inst # 0 => page'.inst = page'.target.inst
    /\ page'.target.inst # 0 => goal' \in page'.list \/ page'.target \in page.trees

Rest == {"kept", "tabs", "timer", "text", "trees", "run", "loading", "runs", "logs", "charts", "fields", "fieldsAsked"}
Stays ==
    /\ seen' = seen /\ Others' /\ goal' \in {goal, 0}
    /\ Only(Rest, page, page') /\ LoadOK(page')
    /\ page'.kept \in Kept /\ page'.text \in Texts /\ page'.logs \in Row /\ page'.charts \in Row
    /\ page'.trees \subseteq Goto
    /\ \A x \in page'.trees : x \in page.trees \/ (page.rev # 0 /\ Dbs(x.inst) # {})
    /\ \A rows \in {page'.logs, page'.charts} :
          \/ rows \in {page.logs, page.charts, NoRows}
          \/ \E r \in Active(page) : rows.id = r.tid /\ rows.first = r.first
    /\ \A r \in Active(page') :
          \/ r \in Active(page)
          \/ Settled /\ r.tid = IF page.tid # 0 THEN page.tid ELSE TableOf(page)
    /\ \/ page'.fields = page.fields /\ page'.fieldsAsked = page.fieldsAsked
       \/ page'.fields \in {0, page.fieldsAsked} /\ page'.fieldsAsked = 0
    /\ \/ page'.timer = <<>>
       \/ page'.timer = page.timer /\ goal' = goal
       \/ /\ Settled /\ goal' = 0 /\ page'.timer # <<>>
          /\ LET of == Head(page'.timer).of
             IN  /\ of.inst = page.inst /\ of.db = page.db /\ of.tid = page.tid
                 /\ of.text \in Texts /\ of.kept \in Kept /\ of.shown = page.shown
                 /\ of.rev = page.rev /\ page.rev # 0

\* The timer of a closed tab that overrules a later list: it selects with the page of its click, or only
\* takes the tab away.
Overrules ==
    /\ seen' = seen /\ Others' /\ goal' = goal /\ page.rev \notin {0, 1}
    /\ Only(Choice \union {"timer", "late"}, page, page') /\ LoadOK(page')
    /\ page'.timer = <<>> /\ page'.late = TRUE
    /\ page'.kept \in Kept /\ page'.restore \in Texts /\ page'.text \in Texts /\ page'.auto \in Query
    /\ page'.auto = page.auto \/ (page'.auto.id # 0 /\ page'.auto # seen.auto)
    /\ page'.inst = page.inst \/ (page'.inst \in Nat /\ Dbs(page'.inst) # {})
    /\ page'.db \in DbNames /\ page'.tbl \in TableNames /\ page'.target \in {page.target, NoTarget}
    /\ page'.inst # page.inst => page'.shown = {}
    /\ page'.shown \in {page.shown, {}}
    /\ \/ Emptied(page')
       \/ /\ page'.inst = page.inst /\ page'.db = page.db /\ page'.tid = page.tid
          /\ page'.logs = page.logs /\ page'.charts = page.charts /\ Active(page') = Active(page)

-----------------------------------------------------------------------------
(***************************************************************************)
(* Answers of the server are such steps.                                   *)
(***************************************************************************)
\* An answer of a run.
LEMMA RunAnswers == ASSUME Basics, NEW r \in page.runs, NEW logsOk \in BOOLEAN, NEW chartsOk \in BOOLEAN,
                           RunAnswer(r, logsOk, chartsOk)
  PROVE Stays
<1>. DEFINE left == [page EXCEPT !.runs = @ \ {r}]
            idle == [left EXCEPT !.run = 0, !.loading = FALSE]
            rows == [id |-> r.tid, text |-> r.text, first |-> r.first]
<1>1. Shape(page) /\ Typed(page) /\ LoadOK(page) /\ Others
  BY TypedIs
<1>2. /\ page' = CASE ~Accepted(r) -> left
                   [] Accepted(r) /\ r.aborted -> idle
                   [] OTHER -> [idle EXCEPT !.logs = IF logsOk THEN rows ELSE NoRows,
                                            !.charts = IF chartsOk THEN rows ELSE NoRows]
      /\ UNCHANGED <<seen, server, goal, clicks>>
  BY DEF RunAnswer
<1>3. r \in RunRec
  BY <1>1 DEF LoadOK
<1>4. rows \in Row /\ NoRows \in Row /\ rows.id = r.tid /\ rows.first = r.first
  BY <1>3, RunRecIs DEF Row, NoRows, Texts
<1>5. IsFiniteSet(page.runs \ {r})
  BY <1>1, FS_RemoveElement DEF LoadOK
<1>6. Only({"runs"}, page, left) /\ left.runs = page.runs \ {r}
  BY <1>1 DEF Only, Shape, Fields
<1>7. Only({"runs", "run", "loading"}, page, idle) /\ idle.runs = page.runs \ {r} /\ idle.run = 0 /\ idle.loading = FALSE
  <2>. HIDE DEF left
  <2>. QED BY <1>6 DEF Only, Shape, Fields
<1>. HIDE DEF left, idle, rows
<1>8. /\ seen' = seen /\ goal' \in {goal, 0} /\ Others'
  BY <1>1, <1>2 DEF Others
<1>9. ASSUME ~Accepted(r) PROVE Stays
  <2>1. page' = left
    BY <1>2, <1>9
  <2>2. r.id # page.run
    BY <1>9 DEF Accepted
  <2>3. /\ page'.run = page.run /\ page'.loading = page.loading /\ page'.kept = page.kept /\ page'.text = page.text
        /\ page'.logs = page.logs /\ page'.charts = page.charts /\ page'.trees = page.trees /\ page'.fields = page.fields
        /\ page'.fieldsAsked = page.fieldsAsked /\ page'.timer = page.timer /\ goal' = goal
    BY <1>2, <1>6, <2>1 DEF Only, Fields
  <2>4. LoadOK(page')
    BY <1>1, <1>5, <1>6, <2>1, <2>2, <2>3 DEF LoadOK
  <2>5. Active(page') \subseteq Active(page)
    BY <1>6, <2>1, <2>3 DEF Active
  <2>6. Only(Rest, page, page')
    BY <1>6, <2>1 DEF Only, Rest
  <2>. QED BY <1>1, <1>8, <2>3, <2>4, <2>5, <2>6 DEF Stays, Typed
<1>10. ASSUME Accepted(r) PROVE Stays
  <2>1. page' = idle \/ page' = [idle EXCEPT !.logs = IF logsOk THEN rows ELSE NoRows,
                                            !.charts = IF chartsOk THEN rows ELSE NoRows]
    BY <1>2, <1>10
  <2>2. PICK a \in {page.logs, rows, NoRows}, b \in {page.charts, rows, NoRows} :
           page' = [idle EXCEPT !.logs = a, !.charts = b]
    <3>1. idle = [idle EXCEPT !.logs = page.logs, !.charts = page.charts]
      BY <1>7 DEF Only, Shape, Fields
    <3>. QED BY <2>1, <3>1
  <2>3. Only(Rest, page, page') /\ page'.logs = a /\ page'.charts = b /\ page'.run = 0 /\ page'.loading = FALSE
        /\ page'.runs = page.runs \ {r}
    BY <1>7, <2>2 DEF Only, Shape, Fields, Rest
  <2>4. /\ page'.kept = page.kept /\ page'.text = page.text /\ page'.trees = page.trees /\ page'.fields = page.fields
        /\ page'.fieldsAsked = page.fieldsAsked /\ page'.timer = page.timer /\ goal' = goal
    BY <1>2, <1>7, <2>2 DEF Only, Shape, Fields
  <2>5. LoadOK(page')
    BY <1>1, <1>5, <2>3 DEF LoadOK
  <2>6. Active(page') = {}
    BY <2>3, <2>5, RunRecIs DEF Active, LoadOK
  <2>7. r \in Active(page)
    BY <1>10 DEF Active, Accepted
  <2>8. page'.logs \in Row /\ page'.charts \in Row
    BY <1>1, <1>4, <2>3 DEF Typed
  <2>9. \A x \in {page'.logs, page'.charts} : \/ x \in {page.logs, page.charts, NoRows}
                                              \/ \E q \in Active(page) : x.id = q.tid /\ x.first = q.first
    BY <1>4, <2>3, <2>7
  <2>. QED BY <1>1, <1>8, <2>3, <2>4, <2>5, <2>6, <2>8, <2>9 DEF Stays, Typed
<1>. QED BY <1>9, <1>10

\* A step that changes nothing but some of the fields that the selection does not depend on.
LEMMA Calms == ASSUME Basics, seen' = seen, Others', goal' = goal,
      Only({"tabs", "timer", "text", "kept", "fields", "fieldsAsked", "trees"}, page, page'),
      page'.kept \in Kept, page'.text \in Texts, page'.trees \subseteq Goto,
      \A x \in page'.trees : x \in page.trees \/ (page.rev # 0 /\ Dbs(x.inst) # {}),
      \/ page'.fields = page.fields /\ page'.fieldsAsked = page.fieldsAsked
      \/ page'.fields \in {0, page.fieldsAsked} /\ page'.fieldsAsked = 0,
      page'.timer \in {<<>>, page.timer}
  PROVE Stays
<1>1. Typed(page) /\ LoadOK(page)
  BY TypedIs
<1>2. /\ page'.run = page.run /\ page'.runs = page.runs /\ page'.loading = page.loading
      /\ page'.logs = page.logs /\ page'.charts = page.charts /\ Only(Rest, page, page')
  BY DEF Only, Fields, Rest
<1>3. LoadOK(page') /\ Active(page') = Active(page)
  BY <1>1, <1>2 DEF LoadOK, Active
<1>4. page'.logs \in Row /\ page'.charts \in Row
  BY <1>1, <1>2 DEF Typed
<1>. QED BY <1>2, <1>3, <1>4 DEF Stays

\* An answer with fields.
LEMMA FieldsAnswers == ASSUME Basics, NEW ok \in BOOLEAN, FieldsAnswer(ok) PROVE Stays
<1>1. Shape(page) /\ Typed(page) /\ Others
  BY TypedIs
<1>2. PICK x \in {0, page.fieldsAsked} : page' = [page EXCEPT !.fields = x, !.fieldsAsked = 0]
  BY DEF FieldsAnswer
<1>3. UNCHANGED <<seen, server, goal, clicks>>
  BY DEF FieldsAnswer
<1>4. /\ Only({"tabs", "timer", "text", "kept", "fields", "fieldsAsked", "trees"}, page, page')
      /\ page'.fields = x /\ page'.fieldsAsked = 0 /\ page'.kept = page.kept /\ page'.text = page.text
      /\ page'.trees = page.trees /\ page'.timer = page.timer
  BY <1>1, <1>2 DEF Only, Shape, Fields
<1>5. Others' /\ seen' = seen /\ goal' = goal
  BY <1>1, <1>3 DEF Others
<1>. QED BY <1>1, <1>4, <1>5, Calms DEF Typed

\* A listed table as a target.
LEMMA TargetIs == ASSUME NEW t \in Tables
  PROVE /\ TargetOf(t) \in Goto /\ TargetOf(t).id = t /\ TargetOf(t).inst = Listing[t].inst /\ TargetOf(t).inst # 0
        /\ TargetOf(t).db = Listing[t].db /\ TargetOf(t).name = Listing[t].name
BY ListingIs DEF TargetOf, Goto, Texts, DbNames, TableNames

\* The instance of a table has databases.
LEMMA DbsOfTable == ASSUME NEW t \in Tables PROVE Dbs(Listing[t].inst) # {} /\ Listing[t].db \in Dbs(Listing[t].inst)
BY DEF Dbs

\* What a target is resolved to in the list of the server.
LEMMA ResolvedIs == ASSUME server \subseteq Tables, NEW x \in Goto
  PROVE /\ Resolved(x) \in Goto
        /\ \/ Resolved(x).id \in server /\ Resolved(x) = TargetOf(Resolved(x).id)
           \/ Resolved(x) = x /\ x.id \notin server
<1>. DEFINE named == {t \in server : /\ x.inst \in {0, Listing[t].inst}
                                     /\ x.db = Listing[t].db
                                     /\ x.name = Listing[t].name}
<1>1. CASE x.id \in server
  <2>1. Resolved(x) = TargetOf(x.id)
    BY <1>1 DEF Resolved
  <2>. QED BY <1>1, <2>1, TargetIs
<1>2. CASE x.id \notin server /\ named # {}
  <2>1. Min(named) \in named
    BY <1>2, ListingIs, MinIsLeast
  <2>2. Resolved(x) = TargetOf(Min(named))
    BY <1>2 DEF Resolved
  <2>3. Min(named) \in server
    BY <2>1
  <2>. HIDE DEF named
  <2>. QED BY <2>2, <2>3, TargetIs
<1>3. CASE x.id \notin server /\ named = {}
  <2>1. Resolved(x) = x
    BY <1>3 DEF Resolved
  <2>. QED BY <1>3, <2>1
<1>. QED BY <1>1, <1>2, <1>3

\* An answer of the tree, with the list or failed.
LEMMA TreeAnswers == ASSUME Basics, InstInv, NEW x \in page.trees, NEW ok \in BOOLEAN, TreeAnswer(x, ok) PROVE Lists \/ Stays
<1>. DEFINE left == [page EXCEPT !.trees = @ \ {x}]
            r == Resolved(x)
            i == PreferredInstance(r)
<1>1. Shape(page) /\ Typed(page) /\ Others
  BY TypedIs
<1>2. Only({"trees"}, page, left) /\ left.trees = page.trees \ {x} /\ Shape(left)
  BY <1>1 DEF Only, Shape, Fields
<1>3. CASE ok
  <2>1. page' = [left EXCEPT !.target = r, !.rev = @ + 1, !.list = server, !.inst = i, !.late = FALSE]
    BY <1>3 DEF TreeAnswer
  <2>2. goal' = r.id /\ UNCHANGED <<seen, server, clicks>>
    BY <1>3 DEF TreeAnswer
  <2>3. x \in Goto /\ server \subseteq Tables
    BY <1>1 DEF Typed, Others
  <2>4. r \in Goto /\ (r.id \in server => r = TargetOf(r.id)) /\ (r.id \notin server => r = x)
    BY <2>3, ResolvedIs
  <2>5. (r.inst # 0 => i = r.inst) /\ i \in Nat /\ (i # 0 => Dbs(i) # {})
    <3>1. r.inst # 0 => Dbs(r.inst) # {}
      BY <2>3, <2>4, TargetIs, DbsOfTable DEF InstInv
    <3>2. CASE r.inst # 0
      BY <2>4, <3>1, <3>2 DEF PreferredInstance, Goto
    <3>3. CASE r.inst = 0 /\ page.inst # 0
      BY <1>1, <3>3 DEF PreferredInstance, Typed, InstInv
    <3>4. CASE r.inst = 0 /\ page.inst = 0 /\ Tables = {}
      BY <3>4 DEF PreferredInstance
    <3>5. CASE r.inst = 0 /\ page.inst = 0 /\ Tables # {}
      <4>1. 1 \in Tables
        <5>. DEFINE E == [inst : Nat \ {0}, db : STRING \ {""}, name : STRING \ {""}]
        <5>1. Listing \in Seq(E)
          BY ListingAssumption
        <5>. HIDE DEF E
        <5>. QED BY <3>5, <5>1 DEF Tables
      <4>2. i = Listing[1].inst
        BY <3>5 DEF PreferredInstance
      <4>. QED BY <3>5, <4>1, <4>2, ListingIs, DbsOfTable
    <3>. QED BY <3>2, <3>3, <3>4, <3>5
  <2>6. r.id \in Texts
    BY <2>4 DEF Goto
  <2>. HIDE DEF r, i, left
  <2>7. /\ Only({"trees", "target", "rev", "list", "inst", "late"}, page, page') /\ page'.trees = page.trees \ {x}
        /\ page'.target = r /\ page'.rev = page.rev + 1 /\ page'.list = server /\ page'.inst = i /\ page'.late = FALSE
    <3>1. Shape(left) /\ Shape(page')
      <4>1. DOMAIN page' = Fields
        BY <1>2, <2>1 DEF Shape
      <4>. QED BY <1>2, <2>1, <4>1 DEF Shape
    <3>2. Only({"target", "rev", "list", "inst", "late"}, left, page')
      <4>1. ASSUME NEW k \in Fields \ {"target", "rev", "list", "inst", "late"} PROVE page'[k] = left[k]
        BY <2>1, <3>1 DEF Shape
      <4>. QED BY <3>1, <4>1 DEF Only
    <3>3. page'.target = r /\ page'.rev = left.rev + 1 /\ page'.list = server /\ page'.inst = i /\ page'.late = FALSE
      BY <2>1, <3>1 DEF Shape, Fields
    <3>. QED BY <1>2, <3>2, <3>3 DEF Only, Fields
  <2>8. Others' /\ seen' = seen
    BY <1>1, <2>2, <2>6 DEF Others
  <2>9. goal' \in page'.list => page'.target = TargetOf(goal')
    BY <2>2, <2>4, <2>7
  <2>10. page'.target.inst # 0 => page'.inst = page'.target.inst
    BY <2>5, <2>7
  <2>11. page'.target.inst # 0 => goal' \in page'.list \/ page'.target \in page.trees
    BY <2>2, <2>4, <2>7
  <2>12. Lists
    BY <2>2, <2>3, <2>4, <2>5, <2>7, <2>8, <2>9, <2>10, <2>11 DEF Lists
  <2>. QED BY <2>12
<1>4. CASE ~ok
  <2>1. page' = left /\ UNCHANGED <<seen, server, goal, clicks>>
    BY <1>4 DEF TreeAnswer
  <2>. HIDE DEF left
  <2>2. /\ Only({"tabs", "timer", "text", "kept", "fields", "fieldsAsked", "trees"}, page, page')
        /\ page'.fields = page.fields /\ page'.fieldsAsked = page.fieldsAsked /\ page'.kept = page.kept
        /\ page'.text = page.text /\ page'.trees \subseteq page.trees /\ page'.timer = page.timer
    BY <1>2, <2>1 DEF Only, Fields
  <2>3. Others' /\ seen' = seen /\ goal' = goal
    BY <1>1, <2>1 DEF Others
  <2>4. page'.trees \subseteq Goto
    BY <1>1, <2>2 DEF Typed
  <2>5. Stays
    BY <1>1, <2>2, <2>3, <2>4, Calms DEF Typed
  <2>. QED BY <2>5
<1>. QED BY <1>3, <1>4

-----------------------------------------------------------------------------
(***************************************************************************)
(* Handlers of the user that select are such steps, and those of the tabs. *)
(***************************************************************************)
\* A handler that picks a table, with the page w, the timer taken down.
LEMMA Picks == ASSUME Basics, Settled, page.rev # 0, seen' = seen, Others', NEW w, Only({"timer"}, page, w), w.timer = <<>>,
                      NEW u, u.inst = page.inst, u.db = page.db, u.tid = page.tid, u.text \in Texts, u.kept \in Kept,
                      NEW t \in Tables, page' = PickTable(u, w, t), goal' \in {0, t}
  PROVE Selects
<1>1. Shape(page) /\ Typed(page) /\ LoadOK(page)
  BY TypedIs
<1>2. /\ Shape(w) /\ w.inst = page.inst /\ w.db = page.db /\ w.kept = page.kept /\ w.run = page.run
      /\ w.runs = page.runs /\ w.loading = page.loading
  BY DEF Only, Fields
<1>3. LoadOK(w)
  BY <1>1, <1>2 DEF LoadOK
<1>4. /\ Reaches(w, page', t) /\ page'.kept \in Kept /\ page'.text \in Texts /\ page'.restore = t
      /\ page'.auto \in [id : {t}, text : Texts, copy : BOOLEAN]
  BY <1>1, <1>2, <1>3, PickIs DEF Typed
<1>5. page'.restore \in Texts /\ page'.auto \in Query /\ page'.auto.id = t
  BY <1>4 DEF Texts, Query
<1>6. Chosen(w, page') /\ page'.inst = Listing[t].inst /\ page'.db \in {w.db, "", Listing[t].db}
  BY <1>4 DEF Reaches
<1>7. SelectsBy(w, t)
  BY <1>4, <1>5, <1>6 DEF SelectsBy
<1>. QED BY <1>7 DEF Selects

\* A menu that selects, with the page as it was rendered.
LEMMA Menus == ASSUME Basics, Settled, page.rev # 0, page.timer = <<>>, seen' = seen, Others', NEW t \in Tables, Aside(page, page'), Chosen(page, page'),
      page'.inst = Listing[t].inst, page'.db \in {page.db, "", Listing[t].db},
      \/ page' = page /\ goal' = 0
      \/ page'.tbl = "" /\ page'.target = NoTarget /\ Emptied(page') /\ goal' = 0
      \/ Reaches(page, page', t) /\ goal' \in {0, t}
  PROVE Selects
<1>1. Shape(page) /\ Typed(page) /\ LoadOK(page)
  BY TypedIs
<1>2. Only({"timer"}, page, page)
  BY <1>1 DEF Only
<1>3. page'.kept \in Kept /\ page'.restore \in Texts /\ page'.text \in Texts /\ page'.auto \in Query /\ page'.auto = page.auto
  BY <1>1 DEF Typed, Aside
<1>4. SelectsBy(page, t)
  BY <1>2, <1>3 DEF SelectsBy
<1>. QED BY <1>4 DEF Selects

\* A click on a table.
LEMMA ClickTables == ASSUME Basics, OpenInv, Quiet, seen' = seen, clicks' \in 0 .. MaxClicks, NEW t \in Tables, ClickTable(t) PROVE Selects
<1>1. Shape(page) /\ Typed(page) /\ Others
  BY TypedIs
<1>2. page' = PickTable(page, page, t) /\ goal' = t /\ server' = server
  BY DEF ClickTable, Event
<1>5. page.rev # 0
  BY DEF ClickTable, OpenInv
<1>3. Others'
  BY <1>1, <1>2 DEF Others, Texts
<1>4. Only({"timer"}, page, page) /\ page.timer = <<>> /\ Settled
  BY <1>1 DEF Only, Quiet
<1>. QED BY <1>1, <1>2, <1>3, <1>4, <1>5, Picks DEF Typed

\* The menu of a table.
LEMMA MenuOfTables == ASSUME Basics, OpenInv, Quiet, seen' = seen, clicks' \in 0 .. MaxClicks, NEW t \in Tables, MenuOfTable(t) PROVE Selects
<1>1. Shape(page) /\ LoadOK(page) /\ Others
  BY TypedIs
<1>2. page' = Select(page, page, t) /\ goal' = t /\ server' = server
  BY DEF MenuOfTable, Event
<1>6. page.rev # 0
  BY DEF MenuOfTable, OpenInv
<1>3. Others' /\ page.timer = <<>> /\ Settled
  BY <1>1, <1>2 DEF Others, Texts, Quiet
<1>4. Reaches(page, page', t) /\ Aside(page, page')
  BY <1>1, <1>2, SelectIs
<1>5. page'.inst = Listing[t].inst /\ page'.db \in {page.db, "", Listing[t].db} /\ Chosen(page, page')
  BY <1>4 DEF Reaches
<1>. QED BY <1>2, <1>3, <1>4, <1>5, <1>6, Menus

\* The menu of a database.
LEMMA MenuOfDatabases == ASSUME Basics, Quiet, seen' = seen, clicks' \in 0 .. MaxClicks, NEW t \in Tables, MenuOfDatabase(t)
  PROVE Selects
<1>1. Shape(page) /\ LoadOK(page) /\ Others
  BY TypedIs
<1>2. page' = SetDatabase(page, SetInstance(page, page, Listing[t].inst), Listing[t].db) /\ goal' = 0 /\ server' = server
  BY DEF MenuOfDatabase, Event
<1>6. page.rev # 0
  BY <1>1, TypesOfPage DEF MenuOfDatabase, Basics
<1>3. Others' /\ page.timer = <<>> /\ Settled
  BY <1>1, <1>2 DEF Others, Texts, Quiet
<1>4. MenuOpened(page, page', Listing[t].inst, Listing[t].db)
  BY <1>1, <1>2, MenuIs, ListingIs
<1>5. /\ page'.inst = Listing[t].inst /\ page'.db \in {page.db, "", Listing[t].db} /\ Chosen(page, page') /\ Aside(page, page')
      /\ page' = page \/ (page'.tbl = "" /\ page'.target = NoTarget /\ Emptied(page'))
  BY <1>4 DEF MenuOpened
<1>. QED BY <1>2, <1>3, <1>5, <1>6, Menus

\* The menu of an instance.
LEMMA MenuOfInstances == ASSUME Basics, Quiet, seen' = seen, clicks' \in 0 .. MaxClicks, NEW t \in Tables, MenuOfInstance(t)
  PROVE Selects
<1>1. Shape(page) /\ LoadOK(page) /\ Others
  BY TypedIs
<1>2. page' = SetInstance(page, page, Listing[t].inst) /\ goal' = 0 /\ server' = server
  BY DEF MenuOfInstance, Event
<1>6. page.rev # 0
  BY <1>1, TypesOfPage DEF MenuOfInstance, Basics
<1>3. Others' /\ page.timer = <<>> /\ Settled
  BY <1>1, <1>2 DEF Others, Texts, Quiet
<1>4. OpenedInstance(page, page, page', Listing[t].inst)
  BY <1>1, <1>2, SetInstanceIs
<1>5. /\ page'.inst = Listing[t].inst /\ page'.db \in {page.db, ""} /\ Chosen(page, page') /\ Aside(page, page')
      /\ page' = page \/ (page'.tbl = "" /\ page'.target = NoTarget /\ Emptied(page'))
  <2>1. CASE Listing[t].inst = page.inst
    <3>1. page' = page
      BY <1>4, <2>1 DEF OpenedInstance
    <3>. QED BY <1>1, <2>1, <3>1 DEF Chosen, Aside, Only
  <2>2. CASE Listing[t].inst # page.inst
    BY <1>4, <2>2 DEF OpenedInstance, Chosen
  <2>. QED BY <2>1, <2>2
<1>. QED BY <1>2, <1>3, <1>5, <1>6, Menus

\* A switch to a tab, whose table is picked when it is shown.
LEMMA Switches == ASSUME Basics, OpenInv, Settled, seen' = seen, Others', NEW w, Only({"timer"}, page, w), w.timer = <<>>,
                         NEW u, u.inst = page.inst, u.db = page.db, u.tid = page.tid, u.text \in Texts, u.kept \in Kept,
                         u.shown = page.shown, NEW tab, page' = SwitchTab(u, w, tab),
                         IF tab.id # u.tid /\ Opens(u, tab) THEN goal' \in {0, tab.id} ELSE goal' = goal
  PROVE Selects \/ Stays
<1>1. Shape(page) /\ Typed(page)
  BY TypedIs
<1>2. CASE tab.id # u.tid /\ Opens(u, tab)
  <2>1. tab.id \in Tables /\ page.rev # 0
    BY <1>1, <1>2 DEF Opens, OpenInv, Typed
  <2>2. page' = PickTable(u, w, tab.id) /\ goal' \in {0, tab.id}
    BY <1>2 DEF SwitchTab
  <2>3. Selects
    BY <2>1, <2>2, Picks
  <2>. QED BY <2>3
<1>3. CASE ~(tab.id # u.tid /\ Opens(u, tab))
  <2>1. PICK x : page' = [w EXCEPT !.tabs = x]
    <3>1. w = [w EXCEPT !.tabs = w.tabs]
      BY DEF Only, Shape
    <3>. QED BY <1>3, <3>1 DEF SwitchTab
  <2>2. /\ Only({"tabs", "timer", "text", "kept", "fields", "fieldsAsked", "trees"}, page, page')
        /\ page'.fields = page.fields /\ page'.fieldsAsked = page.fieldsAsked /\ page'.kept = page.kept
        /\ page'.text = page.text /\ page'.trees = page.trees /\ page'.timer = <<>>
    <3>1. Only({"tabs"}, w, page')
      BY <2>1 DEF Only, Shape, Fields
    <3>. QED BY <1>1, <3>1 DEF Only, Fields
  <2>3. goal' = goal
    BY <1>3
  <2>4. Stays
    BY <1>1, <2>2, <2>3, Calms DEF Typed
  <2>. QED BY <2>4
<1>. QED BY <1>2, <1>3

\* A click on a tab.
LEMMA ClickTabs == ASSUME Basics, OpenInv, Quiet, seen' = seen, clicks' \in 0 .. MaxClicks, NEW k, ClickTab(k) PROVE Selects \/ Stays
<1>. DEFINE tab == page.tabs[k]
<1>1. Shape(page) /\ Typed(page) /\ Others
  BY TypedIs
<1>2. /\ page' = SwitchTab(page, page, tab) /\ goal' = (IF Opens(page, tab) THEN tab.id ELSE goal) /\ server' = server
      /\ tab.id # page.tid
  BY DEF ClickTab, Event
<1>. HIDE DEF tab
<1>3. page.timer = <<>> /\ Settled /\ Only({"timer"}, page, page)
  BY <1>1 DEF Quiet, Only
<1>4. Opens(page, tab) => tab.id \in Tables
  BY <1>1 DEF Opens, Typed
<1>5. Others'
  BY <1>1, <1>2, <1>4 DEF Others, Texts
<1>6. IF tab.id # page.tid /\ Opens(page, tab) THEN goal' \in {0, tab.id} ELSE goal' = goal
  BY <1>2
<1>. QED BY <1>1, <1>2, <1>3, <1>5, <1>6, Switches DEF Typed

\* A switch to a tab with the page u of an earlier list, with the page w, the timer taken down.
LEMMA LateSwitches == ASSUME Basics, page.rev \notin {0, 1}, UNCHANGED <<seen, server, goal, clicks>>,
                             NEW w, Only({"timer", "late"}, page, w), w.timer = <<>>, w.late = TRUE,
                             NEW u, u.tid \in Texts, u.text \in Texts, u.kept \in Kept,
                             NEW tab, page' = SwitchTab(u, w, tab), Opens(u, tab) => tab.id \in Tables
  PROVE Overrules
<1>1. Shape(page) /\ Typed(page) /\ LoadOK(page) /\ Others
  BY TypedIs
<1>2. Others'
  BY <1>1 DEF Others
<1>3. /\ Shape(w) /\ w.inst = page.inst /\ w.db = page.db /\ w.tid = page.tid /\ w.kept = page.kept /\ w.shown = page.shown
      /\ w.logs = page.logs /\ w.charts = page.charts /\ w.run = page.run /\ w.runs = page.runs /\ w.loading = page.loading
      /\ w.tbl = page.tbl /\ w.target = page.target /\ w.restore = page.restore /\ w.text = page.text /\ w.auto = page.auto
  BY DEF Only, Fields
<1>4. LoadOK(w) /\ Active(w) = Active(page)
  BY <1>1, <1>3 DEF LoadOK, Active
<1>5. ASSUME tab.id # u.tid, Opens(u, tab) PROVE Overrules
  <2>. DEFINE t == tab.id
  <2>1. t \in Tables /\ page' = PickTable(u, w, t)
    BY <1>5 DEF SwitchTab
  <2>. HIDE DEF t
  <2>2. /\ Lately(w, page', t) /\ page'.kept \in Kept /\ page'.text \in Texts /\ page'.restore = t
        /\ page'.auto \in [id : {t}, text : Texts, copy : BOOLEAN] /\ page'.auto # seen.auto
    BY <1>1, <1>3, <1>4, <2>1, PickLate DEF Typed
  <2>3. Only(Choice \union {"timer", "late"}, page, page') /\ page'.timer = <<>> /\ page'.late = TRUE
    <3>1. Only(Choice, w, page') /\ {"timer", "late"} \subseteq Fields \ Choice
      BY <2>2 DEF Lately, Choice, Clearing, Fields
    <3>2. Shape(page') /\ (\A k \in Fields \ Choice : page'[k] = w[k])
          /\ \A k \in Fields \ {"timer", "late"} : w[k] = page[k]
      BY <3>1 DEF Only
    <3>3. page'["timer"] = w["timer"] /\ page'["late"] = w["late"]
      BY <3>1, <3>2
    <3>4. \A k \in Fields \ (Choice \union {"timer", "late"}) : page'[k] = page[k]
      BY <3>2
    <3>. QED BY <3>2, <3>3, <3>4 DEF Only
  <2>4. t \in Texts /\ t # 0 /\ Listing[t].inst \in Nat /\ Dbs(Listing[t].inst) # {}
        /\ Listing[t].db \in DbNames /\ Listing[t].name \in TableNames /\ "" \in DbNames
    BY <2>1, ListingIs, DbsOfTable DEF Texts, DbNames, TableNames
  <2>5. page'.auto \in Query /\ page'.auto.id # 0 /\ page'.restore \in Texts
    BY <2>2, <2>4 DEF Query
  <2>6. page'.db \in DbNames /\ page'.tbl \in TableNames /\ page'.target = NoTarget
        /\ page'.inst \in {page.inst, Listing[t].inst}
    <3>1. page.db \in DbNames /\ page.tbl \in TableNames
      BY <1>1 DEF Typed
    <3>2. /\ page'.inst \in {w.inst, Listing[t].inst} /\ page'.db \in {w.db, "", Listing[t].db}
          /\ page'.tbl = Listing[t].name /\ page'.target = NoTarget
      BY <2>2 DEF Lately
    <3>3. w.inst = page.inst /\ w.db = page.db
      BY <1>3
    <3>. QED BY <2>4, <3>1, <3>2, <3>3
  <2>7. /\ LoadOK(page')
        /\ page'.inst # page.inst => page'.shown = {}
        /\ page'.shown \in {page.shown, {}}
        /\ \/ Emptied(page')
           \/ /\ page'.inst = page.inst /\ page'.db = page.db /\ page'.tid = page.tid
              /\ page'.logs = page.logs /\ page'.charts = page.charts /\ Active(page') = Active(page)
    BY <1>3, <1>4, <2>2 DEF Lately
  <2>. QED BY <1>2, <2>2, <2>3, <2>4, <2>5, <2>6, <2>7 DEF Overrules
<1>6. ASSUME ~(tab.id # u.tid /\ Opens(u, tab)) PROVE Overrules
  <2>1. PICK x : page' = [w EXCEPT !.tabs = x]
    <3>1. w = [w EXCEPT !.tabs = w.tabs]
      BY DEF Only, Shape
    <3>. QED BY <1>6, <3>1 DEF SwitchTab
  <2>2. Only({"tabs"}, w, page')
    BY <1>3, <2>1 DEF Only, Shape, Fields
  <2>3. Only(Choice \union {"timer", "late"}, page, page') /\ page'.timer = <<>> /\ page'.late = TRUE
    BY <2>2 DEF Only, Choice, Fields
  <2>4. /\ page'.inst = page.inst /\ page'.db = page.db /\ page'.tid = page.tid /\ page'.kept = page.kept
        /\ page'.shown = page.shown /\ page'.logs = page.logs /\ page'.charts = page.charts /\ page'.tbl = page.tbl
        /\ page'.target = page.target /\ page'.restore = page.restore /\ page'.text = page.text /\ page'.auto = page.auto
        /\ page'.run = page.run /\ page'.runs = page.runs /\ page'.loading = page.loading
    BY <1>3, <2>2 DEF Only, Fields
  <2>5. LoadOK(page') /\ Active(page') = Active(page)
    BY <1>1, <2>4 DEF LoadOK, Active
  <2>. QED BY <1>1, <1>2, <2>3, <2>4, <2>5 DEF Overrules, Typed
<1>. QED BY <1>5, <1>6

\* The timer of a closed tab, on the list of its click or on a later one.
LEMMA Timers == ASSUME Basics, OpenInv, TimerInv, TimerFires PROVE Selects \/ Stays \/ Overrules
<1>. DEFINE u == Head(page.timer).of
            tab == Head(page.timer).tab
            outdated == u.rev # page.rev
            w == [page EXCEPT !.timer = <<>>, !.late = @ \/ outdated]
<1>1. Shape(page) /\ Typed(page) /\ Others
  BY TypedIs
<1>2. /\ Settled \/ outdated
      /\ page.timer # <<>> /\ page' = SwitchTab(u, w, tab) /\ UNCHANGED <<seen, server, goal, clicks>>
  BY DEF TimerFires
<1>3. PICK late \in BOOLEAN : late = (page.late \/ outdated)
  OBVIOUS
<1>4. w = [page EXCEPT !.timer = <<>>, !.late = late]
  BY <1>3
<1>. HIDE DEF w
<1>5. Only({"timer", "late"}, page, w) /\ w.timer = <<>> /\ w.late = late
  BY <1>1, <1>4 DEF Only, Shape, Fields
<1>6. /\ u.tid \in Texts /\ u.text \in Texts /\ u.kept \in Kept /\ u.shown \subseteq Tables
      /\ u.rev \in Nat \ {0} /\ u.rev <= page.rev
      /\ ~outdated => /\ u.inst = page.inst /\ u.db = page.db /\ u.tid = page.tid /\ u.shown = page.shown
                      /\ goal = 0
  BY <1>2 DEF TimerInv
<1>. HIDE DEF u, tab
<1>7. CASE ~outdated
  <2>1. late = page.late
    BY <1>1, <1>3, <1>7 DEF Typed
  <2>2. Only({"timer"}, page, w)
    BY <1>5, <2>1 DEF Only
  <2>3. Others' /\ seen' = seen /\ goal' = 0
    BY <1>1, <1>2, <1>6, <1>7 DEF Others
  <2>4. IF tab.id # u.tid /\ Opens(u, tab) THEN goal' \in {0, tab.id} ELSE goal' = goal
    BY <1>6, <1>7, <2>3
  <2>. QED BY <1>2, <1>5, <1>6, <1>7, <2>2, <2>3, <2>4, Switches
<1>8. CASE outdated
  <2>1. page.rev \notin {0, 1}
    BY <1>1, <1>6, <1>8 DEF Typed
  <2>2. late = TRUE
    BY <1>3, <1>8
  <2>3. Opens(u, tab) => tab.id \in Tables
    BY <1>6 DEF Opens
  <2>. QED BY <1>2, <1>5, <1>6, <2>1, <2>2, <2>3, LateSwitches
<1>. QED BY <1>7, <1>8

\* A tab that is closed.
LEMMA CloseTabs == ASSUME Basics, OpenInv, Quiet, seen' = seen, clicks' \in 0 .. MaxClicks, NEW k, CloseTab(k) PROVE Stays
<1>1. Shape(page) /\ Typed(page) /\ LoadOK(page) /\ Others
  BY TypedIs
<1>2. page.timer = <<>> /\ Settled
  BY DEF Quiet
<1>. DEFINE off == [page EXCEPT !.runs = {}]
            id == page.tabs[k].id
            next == SelectSeq(page.tabs, LAMBDA x : x.id # id)
<1>3. PICK fallback, timer :
         /\ page' = [page EXCEPT !.kept = Without(@, id), !.tabs = next, !.timer = timer]
         /\ \/ timer = <<>> /\ goal' \in {goal, 0}
            \/ timer = <<[tab |-> fallback, of |-> off]>> /\ goal' = 0
         /\ server' = server /\ id \in page.shown
  BY DEF CloseTab, Event
<1>4. Only({"runs"}, page, off)
  BY <1>1 DEF Only, Shape, Fields
<1>5. /\ off.inst = page.inst /\ off.db = page.db /\ off.tid = page.tid /\ off.text = page.text /\ off.kept = page.kept
      /\ off.shown = page.shown /\ off.rev = page.rev
  BY <1>4 DEF Only, Fields
<1>6. Without(page.kept, id) \in Kept
  <2>1. PICK D \in SUBSET Tables : page.kept \in [D -> Texts]
    BY <1>1 DEF Typed, Kept
  <2>2. Without(page.kept, id) \in [D \ {id} -> Texts]
    BY <2>1 DEF Without
  <2>. QED BY <2>2 DEF Kept
<1>7. PICK kept \in Kept : kept = Without(page.kept, id)
  BY <1>6
<1>. HIDE DEF off, id, next
<1>8. page' = [page EXCEPT !.kept = kept, !.tabs = next, !.timer = timer]
  BY <1>3, <1>7
<1>9. Only({"kept", "tabs", "timer"}, page, page') /\ page'.kept = kept /\ page'.timer = timer
  BY <1>1, <1>8 DEF Only, Shape, Fields
<1>10. /\ page'.run = page.run /\ page'.runs = page.runs /\ page'.loading = page.loading /\ page'.text = page.text
       /\ page'.logs = page.logs /\ page'.charts = page.charts /\ Only(Rest, page, page') /\ page'.trees = page.trees
       /\ page'.fields = page.fields /\ page'.fieldsAsked = page.fieldsAsked
  BY <1>9 DEF Only, Fields, Rest
<1>11. LoadOK(page') /\ Active(page') = Active(page)
  BY <1>1, <1>10 DEF LoadOK, Active
<1>12. Others' /\ goal' \in {goal, 0}
  BY <1>1, <1>3 DEF Others, Texts
<1>13. \/ page'.timer = <<>>
       \/ /\ goal' = 0 /\ page'.timer # <<>>
          /\ Head(page'.timer).of = off
  <2>1. CASE timer = <<>>
    BY <1>9, <2>1
  <2>2. CASE timer = <<[tab |-> fallback, of |-> off]>> /\ goal' = 0
    BY <1>9, <2>2
  <2>. QED BY <1>3, <2>1, <2>2
<1>14. \/ page'.timer = <<>>
       \/ page'.timer = page.timer /\ goal' = goal
       \/ /\ Settled /\ goal' = 0 /\ page'.timer # <<>>
          /\ LET of == Head(page'.timer).of
             IN  /\ of.inst = page.inst /\ of.db = page.db /\ of.tid = page.tid
                 /\ of.text \in Texts /\ of.kept \in Kept /\ of.shown = page.shown
                 /\ of.rev = page.rev /\ page.rev # 0
  <2>1. page.rev # 0
    BY <1>3 DEF OpenInv
  <2>. QED BY <1>1, <1>2, <1>5, <1>13, <2>1 DEF Typed
<1>. QED BY <1>1, <1>9, <1>10, <1>11, <1>12, <1>14 DEF Stays, Typed

-----------------------------------------------------------------------------
(***************************************************************************)
(* The other handlers, a page that opens, and every step as one of six.    *)
(***************************************************************************)
\* A query that is typed.
LEMMA Types == ASSUME Basics, Quiet, seen' = seen, clicks' \in 0 .. MaxClicks, NEW text \in Texts, Type(text) PROVE Stays
<1>1. Shape(page) /\ Typed(page) /\ Others
  BY TypedIs
<1>2. page' = [page EXCEPT !.text = text] /\ goal' = goal /\ server' = server
  BY DEF Type, Event
<1>3. /\ Only({"tabs", "timer", "text", "kept", "fields", "fieldsAsked", "trees"}, page, page')
      /\ page'.text = text /\ page'.kept = page.kept /\ page'.fields = page.fields /\ page'.fieldsAsked = page.fieldsAsked
      /\ page'.trees = page.trees /\ page'.timer = page.timer
  BY <1>1, <1>2 DEF Only, Shape, Fields
<1>4. Others'
  BY <1>1, <1>2 DEF Others
<1>. QED BY <1>1, <1>2, <1>3, <1>4, Calms DEF Typed

\* A table that is created.
LEMMA Creates == ASSUME Basics, OpenInv, seen' = seen, clicks' \in 0 .. MaxClicks, NEW t \in Tables, CreateTable(t) PROVE Stays
<1>. DEFINE x == [TargetOf(t) EXCEPT !.id = 0]
<1>1. Shape(page) /\ Typed(page) /\ Others
  BY TypedIs
<1>2. page' = [page EXCEPT !.trees = page.trees \union {x}] /\ goal' = goal /\ server' = server \union {t} /\ page.inst = Listing[t].inst
  BY DEF CreateTable, Event
<1>3. x \in Goto /\ x.inst = Listing[t].inst
  BY ListingIs DEF TargetOf, Goto, Texts, DbNames, TableNames
<1>. HIDE DEF x
<1>4. /\ Only({"tabs", "timer", "text", "kept", "fields", "fieldsAsked", "trees"}, page, page')
      /\ page'.text = page.text /\ page'.kept = page.kept /\ page'.fields = page.fields /\ page'.fieldsAsked = page.fieldsAsked
      /\ page'.trees = page.trees \union {x} /\ page'.timer = page.timer
  BY <1>1, <1>2 DEF Only, Shape, Fields
<1>5. Others'
  BY <1>1, <1>2 DEF Others
<1>6. page.rev # 0 /\ Dbs(x.inst) # {}
  BY <1>2, <1>3, ListingIs, DbsOfTable DEF OpenInv
<1>7. page'.trees \subseteq Goto /\ \A y \in page'.trees : y \in page.trees \/ (page.rev # 0 /\ Dbs(y.inst) # {})
  BY <1>1, <1>3, <1>4, <1>6 DEF Typed
<1>. QED BY <1>1, <1>2, <1>4, <1>5, <1>7, Calms DEF Typed

\* A table that is deleted.
LEMMA Deletes == ASSUME Basics, OpenInv, seen' = seen, clicks' \in 0 .. MaxClicks, NEW t \in Tables, DeleteTable(t) PROVE Stays
<1>. DEFINE x == [TargetOf(t) EXCEPT !.name = "", !.id = 0]
<1>1. Shape(page) /\ Typed(page) /\ Others
  BY TypedIs
<1>2. page' = [page EXCEPT !.trees = page.trees \union {x}] /\ goal' = goal /\ server' = server \ {t} /\ t \in page.list
  BY DEF DeleteTable, Event
<1>3. x \in Goto /\ x.inst = Listing[t].inst
  BY ListingIs DEF TargetOf, Goto, Texts, DbNames, TableNames
<1>. HIDE DEF x
<1>4. /\ Only({"tabs", "timer", "text", "kept", "fields", "fieldsAsked", "trees"}, page, page')
      /\ page'.text = page.text /\ page'.kept = page.kept /\ page'.fields = page.fields /\ page'.fieldsAsked = page.fieldsAsked
      /\ page'.trees = page.trees \union {x} /\ page'.timer = page.timer
  BY <1>1, <1>2 DEF Only, Shape, Fields
<1>5. Others'
  BY <1>1, <1>2 DEF Others
<1>6. page.rev # 0 /\ Dbs(x.inst) # {}
  BY <1>2, <1>3, DbsOfTable DEF OpenInv
<1>7. page'.trees \subseteq Goto /\ \A y \in page'.trees : y \in page.trees \/ (page.rev # 0 /\ Dbs(y.inst) # {})
  BY <1>1, <1>3, <1>4, <1>6 DEF Typed
<1>. QED BY <1>1, <1>2, <1>4, <1>5, <1>7, Calms DEF Typed

\* A query that is run or cancelled.
LEMMA Runs == ASSUME Basics, Quiet, seen' = seen, Others', goal' = goal,
                     Only({"run", "loading", "runs"}, page, page'), LoadOK(page'),
                     \A r \in Active(page') : r.tid = IF page.tid # 0 THEN page.tid ELSE TableOf(page)
  PROVE Stays
<1>1. Typed(page)
  BY TypedIs
<1>2. /\ Only(Rest, page, page') /\ page'.kept = page.kept /\ page'.text = page.text /\ page'.logs = page.logs
      /\ page'.charts = page.charts /\ page'.trees = page.trees /\ page'.timer = page.timer
      /\ page'.fields = page.fields /\ page'.fieldsAsked = page.fieldsAsked
  BY DEF Only, Fields, Rest
<1>3. Settled
  BY DEF Quiet
<1>. QED BY <1>1, <1>2, <1>3 DEF Stays, Typed

LEMMA RunAgain == ASSUME Basics, Quiet, seen' = seen, clicks' \in 0 .. MaxClicks, Run PROVE Stays
<1>1. Shape(page) /\ Typed(page) /\ LoadOK(page) /\ Others
  BY TypedIs
<1>2. page' = RunQuery(page, page, page.text, FALSE) /\ goal' = goal /\ server' = server
  BY DEF Run, Event
<1>3. Ran(page, page, FALSE, page')
  BY <1>1, <1>2, TypesOfPage, RunQueryIs DEF Basics
<1>4. Others'
  BY <1>1, <1>2 DEF Others
<1>. QED BY <1>2, <1>3, <1>4, Runs DEF Ran

LEMMA Cancels == ASSUME Basics, Quiet, seen' = seen, clicks' \in 0 .. MaxClicks, Cancel PROVE Stays
<1>1. Shape(page) /\ LoadOK(page) /\ Others
  BY TypedIs
<1>2. page' = CancelQuery(page) /\ goal' = goal /\ server' = server
  BY DEF Cancel, Event
<1>3. Only({"run", "loading", "runs"}, page, page') /\ LoadOK(page') /\ Active(page') = {}
  BY <1>1, <1>2, CancelIs, CancelLoads
<1>4. Others'
  BY <1>1, <1>2 DEF Others
<1>. QED BY <1>2, <1>3, <1>4, Runs

\* A page that has just opened.
Fresh(p) ==
    /\ Shape(p) /\ Typed(p) /\ LoadOK(p)
    /\ p.rev = 0 /\ p.list = {} /\ p.shown = {} /\ p.inst = 0 /\ p.db = "" /\ p.tbl = "" /\ p.tid = 0
    /\ p.auto = NoQuery /\ p.logs = NoRows /\ p.charts = NoRows /\ p.fields = 0 /\ p.fieldsAsked = 0
    /\ p.target = NoTarget /\ p.restored = FALSE /\ p.late = FALSE /\ p.timer = <<>> /\ p.runs = {} /\ p.started = 0
    /\ \A x \in p.trees : x.inst = 0
Anew == Fresh(page) /\ seen = Deps(page) /\ Others

\* The page of Opened.
LEMMA OpenedIs == ASSUME NEW x \in Goto, x.inst = 0, NEW s PROVE Fresh(Opened(x, s))
<1>. DEFINE p == Opened(x, s)
<1>1. DOMAIN p = Fields
  BY DEF Opened, Fields
<1>2. /\ p.rev = 0 /\ p.list = {} /\ p.shown = {} /\ p.inst = 0 /\ p.db = "" /\ p.tbl = "" /\ p.tid = 0
      /\ p.auto = NoQuery /\ p.logs = NoRows /\ p.charts = NoRows /\ p.fields = 0 /\ p.fieldsAsked = 0
      /\ p.target = NoTarget /\ p.restored = FALSE /\ p.late = FALSE /\ p.timer = <<>> /\ p.runs = {} /\ p.started = 0
      /\ p.trees = {x} /\ p.text = 0 /\ p.restore = 0 /\ p.kept = <<>> /\ p.url = NoUrl /\ p.loading = FALSE /\ p.run = 0
  BY DEF Opened
<1>3. p = [k \in Fields |-> p[k]]
  BY <1>1 DEF Opened, Fields
<1>. HIDE DEF p
<1>4. LoadOK(p)
  <2>1. p.run = 0 /\ p.runs = {} /\ p.loading = FALSE
    BY <1>2
  <2>. QED BY <2>1, FS_EmptySet DEF LoadOK
<1>5. NoRows \in Row /\ NoQuery \in Query /\ NoUrl \in DbNames \X TableNames /\ NoTarget \in Goto
  BY DEF NoRows, NoQuery, NoUrl, NoTarget, Row, Query, Goto, Texts, DbNames, TableNames
<1>6. <<>> \in Kept
  <2>1. <<>> \in [{} -> Texts]
    OBVIOUS
  <2>. QED BY <2>1 DEF Kept
<1>7. Typed(p)
  <2>1. /\ p.rev \in Nat /\ p.started \in Nat /\ p.inst \in Nat /\ p.db \in DbNames /\ p.tbl \in TableNames
        /\ p.url \in DbNames \X TableNames /\ p.list \subseteq Tables /\ p.shown \subseteq Tables
    <3>1. "" \in DbNames /\ "" \in TableNames
      BY DEF DbNames, TableNames
    <3>2. /\ p.rev = 0 /\ p.started = 0 /\ p.inst = 0 /\ p.db = "" /\ p.tbl = "" /\ p.url = NoUrl /\ p.list = {} /\ p.shown = {}
      BY <1>2
    <3>3. NoUrl \in DbNames \X TableNames
      BY <1>5
    <3>4. p.rev \in Nat /\ p.started \in Nat /\ p.inst \in Nat
      <4>1. p.rev = 0 /\ p.started = 0 /\ p.inst = 0
        BY <3>2
      <4>. QED BY <4>1
    <3>5. p.list \subseteq Tables /\ p.shown \subseteq Tables
      BY <3>2
    <3>. QED BY <3>1, <3>2, <3>3, <3>4, <3>5
  <2>2. p.tid \in Texts /\ p.text \in Texts /\ p.fields \in Texts /\ p.fieldsAsked \in Texts /\ p.restore \in Texts
    BY <1>2 DEF Texts
  <2>3. /\ p.restored \in BOOLEAN /\ p.late \in BOOLEAN /\ p.kept \in Kept /\ p.auto \in Query /\ p.logs \in Row /\ p.charts \in Row
        /\ p.trees \subseteq Goto /\ p.target \in Goto
    BY <1>2, <1>5, <1>6
  <2>. QED BY <2>1, <2>2, <2>3 DEF Typed
<1>8. Fresh(p)
  BY <1>1, <1>2, <1>3, <1>4, <1>7 DEF Fresh, Shape
<1>. QED BY <1>8 DEF p

\* The first page.
LEMMA Inits == ASSUME Init PROVE Anew
<1>1. PICK x \in FirstTargets : page = Opened(x, <<>>)
  BY DEF Init
<1>2. x \in Goto /\ x.inst = 0
  <2>0. AtFirst \subseteq Tables
    BY ListingAssumption
  <2>1. CASE x = NoTarget
    BY <2>1 DEF NoTarget, Goto, Texts, DbNames, TableNames
  <2>2. ASSUME NEW t \in AtFirst, x = [TargetOf(t) EXCEPT !.inst = 0, !.id = 0] PROVE x \in Goto /\ x.inst = 0
    BY <2>0, <2>2, ListingIs DEF TargetOf, Goto, Texts, DbNames, TableNames
  <2>3. ASSUME NEW t \in AtFirst, x = [NoTarget EXCEPT !.id = t] PROVE x \in Goto /\ x.inst = 0
    BY <2>0, <2>3 DEF NoTarget, Goto, Texts, DbNames, TableNames
  <2>. QED BY <2>1, <2>2, <2>3 DEF FirstTargets
<1>3. Others
  <2>1. server = AtFirst /\ goal = 0 /\ clicks = 0
    BY DEF Init
  <2>2. AtFirst \subseteq Tables
    BY ListingAssumption
  <2>3. 0 \in 0 .. MaxClicks
    BY ClicksAssumption
  <2>. QED BY <2>1, <2>2, <2>3 DEF Others, Texts
<1>. QED BY <1>1, <1>2, <1>3, OpenedIs DEF Init, Anew

\* A page that is loaded anew.
LEMMA Reloads == ASSUME Basics, Reload PROVE Anew'
<1>1. Typed(page) /\ Others
  BY TypedIs
<1>2. PICK x : x = [NoTarget EXCEPT !.db = page.url[1], !.name = page.url[2]]
  OBVIOUS
<1>3. x \in Goto /\ x.inst = 0
  BY <1>1, <1>2 DEF Typed, NoTarget, Goto, Texts, DbNames, TableNames
<1>4. page' = Opened(x, page.stored) /\ seen' = Deps(page') /\ server' = server /\ clicks' = clicks + 1 /\ clicks < MaxClicks
  BY <1>2 DEF Reload
<1>5. goal' \in Texts
  BY TypesOfPage DEF Basics, Reload, Texts
<1>6. Others'
  BY <1>1, <1>4, <1>5, ClicksAssumption DEF Others
<1>. QED BY <1>3, <1>4, <1>6, OpenedIs DEF Anew

\* A step that changes nothing.
LEMMA Nothing == ASSUME Basics, UNCHANGED vars PROVE Stays
<1>1. Shape(page) /\ Typed(page) /\ Others
  BY TypedIs
<1>2. Only({"tabs", "timer", "text", "kept", "fields", "fieldsAsked", "trees"}, page, page')
  BY <1>1 DEF Only, vars
<1>3. Others'
  BY <1>1 DEF Others, vars
<1>. QED BY <1>1, <1>2, <1>3, Calms DEF Typed, vars

\* Every step is one of six.
LEMMA StepIs == ASSUME Basics, TimerInv, InstInv, OpenInv, [Next]_vars
  PROVE Committed \/ Selects \/ Lists \/ Stays \/ Overrules \/ Anew'
<1>1. CASE Commit
  BY <1>1, CommitIs
<1>2. CASE TimerFires
  BY <1>2, Timers
<1>3. CASE Answer
  BY <1>3, RunAnswers, FieldsAnswers, TreeAnswers DEF Answer
<1>4. CASE User
  <2>1. Quiet /\ seen' = seen
    BY <1>4 DEF User
  <2>2. clicks' \in 0 .. MaxClicks
    BY <1>4, TypedIs, ClicksAssumption DEF User, Others
  <2>3. ASSUME NEW t \in Tables, ClickTable(t) \/ MenuOfTable(t) \/ MenuOfDatabase(t) \/ MenuOfInstance(t)
        PROVE  Selects
    BY <2>1, <2>2, <2>3, ClickTables, MenuOfTables, MenuOfDatabases, MenuOfInstances
  <2>4. ASSUME NEW t \in Tables, CreateTable(t) \/ DeleteTable(t) PROVE Stays
    BY <2>1, <2>2, <2>4, Creates, Deletes
  <2>5. ASSUME NEW k, ClickTab(k) \/ CloseTab(k) PROVE Selects \/ Stays
    BY <2>1, <2>2, <2>5, ClickTabs, CloseTabs
  <2>6. ASSUME NEW text \in Texts, Type(text) PROVE Stays
    BY <2>1, <2>2, <2>6, Types
  <2>7. ASSUME Run \/ Cancel PROVE Stays
    BY <2>1, <2>2, <2>7, RunAgain, Cancels
  <2>. QED BY <1>4, <2>3, <2>4, <2>5, <2>6, <2>7 DEF User
<1>5. CASE Reload
  BY <1>5, Reloads
<1>6. CASE UNCHANGED vars
  BY <1>6, Nothing
<1>. QED BY <1>1, <1>2, <1>3, <1>4, <1>5, <1>6 DEF Next

-----------------------------------------------------------------------------
(***************************************************************************)
(* What a commit makes of the page, field by field.                        *)
(***************************************************************************)
\* The dependencies by name.
LEMMA DepsIs == ASSUME NEW u
  PROVE /\ Deps(u).instance = <<u.rev, u.inst>> /\ Deps(u).database = DatabaseDep(u) /\ Deps(u).table = TableDep(u)
        /\ Deps(u).inst = u.inst /\ Deps(u).db = u.db /\ Deps(u).tbl = u.tbl /\ Deps(u).tid = u.tid
        /\ Deps(u).auto = u.auto /\ Deps(u).shown = u.shown /\ Deps(u).valid = <<u.restored, ValidTabs(u)>>
BY DEF Deps, DatabaseDep, TableDep

\* Pages with one selection and one list have the same tables.
LEMMA SameNames == ASSUME NEW u, NEW e, e.inst = u.inst, e.db = u.db
  PROVE /\ HasDb(e) <=> HasDb(u)
        /\ e.list = u.list => Names(e) = Names(u)
        /\ e.list = u.list /\ e.tbl = u.tbl => TableOf(e) = TableOf(u)
BY DEF HasDb, Names, TablesIn, TableOf, TableNamed

\* What a commit makes of the page.
Moves ==
    /\ Shape(page') /\ LoadOK(page') /\ seen' = Deps(page) /\ UNCHANGED <<server, goal, clicks>>
    /\ page'.rev = page.rev /\ page'.list = page.list /\ page'.inst = page.inst /\ page'.trees = page.trees
    /\ page'.timer = page.timer /\ page'.text = page.text /\ page'.late = page.late
    /\ IF InstanceDue \/ DatabaseDue
       THEN page'.logs = NoRows /\ page'.charts = NoRows
       ELSE page'.logs = page.logs /\ page'.charts = page.charts
    /\ \A r \in Active(page') :
          \/ ~InstanceDue /\ ~DatabaseDue /\ r \in Active(page)
          \/ InitialDue /\ Starts(page, page) /\ r.tid = page.tid /\ r.first
          \/ AutoDue /\ Match(page) /\ r.tid = page.tid
    /\ page'.shown = IF ~InstanceDue THEN page.shown
                     ELSE IF page.inst = 0 THEN {} ELSE {t \in page.list : Listing[t].inst = page.inst}
    /\ ~InstanceDue => page'.db = page.db
    /\ InstanceDue /\ page.inst = 0 => page'.db = ""
    /\ InstanceDue /\ page.inst # 0 => Picked(page, page.target, page')
    /\ DatabaseDue => Named(page, page.target, page')
    /\ ~DatabaseDue => page'.tbl = IF InstanceDue /\ page.inst = 0 THEN "" ELSE page.tbl
    /\ page'.tid = IF TableDue THEN TableOf(page)
                   ELSE IF DatabaseDue \/ (InstanceDue /\ page.inst = 0) THEN 0 ELSE page.tid
    /\ \/ page'.target = page.target
       \/ TableDue /\ TableOf(page) # 0 /\ Reached(page.target, page) /\ page'.target = NoTarget
    /\ page'.fieldsAsked = IF FieldsDue THEN page.tid ELSE page.fieldsAsked
    /\ page'.fields = IF FieldsDue /\ page.tid = 0 THEN 0 ELSE page.fields
    /\ page'.started = IF InitialDue /\ Starts(page, page) THEN page.rev ELSE page.started
    /\ page'.auto = IF AutoDue /\ Match(page) THEN NoQuery ELSE page.auto
    /\ page.restored = TRUE => page'.stored = IF StoreDue THEN Pairs(ValidTabs(page)) ELSE page.stored
    /\ page'.restored \in BOOLEAN /\ page'.kept \in Kept /\ page'.restore \in {0, page.restore}
    /\ page'.url \in {page.url, NoUrl, <<page.db, page.tbl>>}

LEMMA CommittedIs == ASSUME Basics, Committed PROVE Moves
<1>1. PICK w : /\ Hooked(page, w, InstanceDue, DatabaseDue, TableDue, FieldsDue)
               /\ Paged(page, w, page', InitialDue, StoreDue, AutoDue)
  BY DEF Committed
<1>2. seen' = Deps(page) /\ UNCHANGED <<server, goal, clicks>>
  BY DEF Committed
<1>3. /\ w.rev = page.rev /\ w.list = page.list /\ w.inst = page.inst /\ w.trees = page.trees /\ w.timer = page.timer
      /\ w.text = page.text /\ w.started = page.started /\ w.auto = page.auto /\ w.restored = page.restored
      /\ w.stored = page.stored /\ w.restore = page.restore /\ w.url = page.url /\ w.late = page.late
  <2>1. Only(Clearing \union {"shown", "db", "tbl", "tid", "target", "fields", "fieldsAsked"}, page, w)
    BY <1>1 DEF Hooked
  <2>. QED BY <2>1 DEF Only, Fields, Clearing
<1>4. /\ Shape(page') /\ LoadOK(page')
      /\ page'.rev = w.rev /\ page'.list = w.list /\ page'.inst = w.inst /\ page'.trees = w.trees /\ page'.timer = w.timer
      /\ page'.text = w.text /\ page'.logs = w.logs /\ page'.charts = w.charts /\ page'.shown = w.shown /\ page'.db = w.db
      /\ page'.tbl = w.tbl /\ page'.tid = w.tid /\ page'.target = w.target /\ page'.fields = w.fields
      /\ page'.fieldsAsked = w.fieldsAsked /\ page'.late = w.late
  BY <1>1 DEF Paged, Only, Fields
<1>5. Starts(page, w) <=> Starts(page, page)
  BY <1>3 DEF Starts
<1>6. \A r \in Active(page') :
          \/ ~InstanceDue /\ ~DatabaseDue /\ r \in Active(page)
          \/ InitialDue /\ Starts(page, page) /\ r.tid = page.tid /\ r.first
          \/ AutoDue /\ Match(page) /\ r.tid = page.tid
  <2>1. \A r \in Active(page') : \/ r \in Active(w)
                                 \/ InitialDue /\ Starts(page, w) /\ r.tid = page.tid /\ r.first
                                 \/ AutoDue /\ Match(page) /\ r.tid = page.tid
    BY <1>1 DEF Paged
  <2>2. /\ InstanceDue \/ DatabaseDue => Active(w) = {}
        /\ ~InstanceDue /\ ~DatabaseDue => Active(w) = Active(page)
    BY <1>1 DEF Hooked
  <2>. QED BY <1>5, <2>1, <2>2
<1>7. /\ IF InstanceDue \/ DatabaseDue
         THEN page'.logs = NoRows /\ page'.charts = NoRows
         ELSE page'.logs = page.logs /\ page'.charts = page.charts
      /\ page'.shown = IF ~InstanceDue THEN page.shown
                       ELSE IF page.inst = 0 THEN {} ELSE {t \in page.list : Listing[t].inst = page.inst}
      /\ ~InstanceDue => page'.db = page.db
      /\ InstanceDue /\ page.inst = 0 => page'.db = ""
      /\ page'.tid = IF TableDue THEN TableOf(page)
                     ELSE IF DatabaseDue \/ (InstanceDue /\ page.inst = 0) THEN 0 ELSE page.tid
      /\ ~DatabaseDue => page'.tbl = IF InstanceDue /\ page.inst = 0 THEN "" ELSE page.tbl
      /\ \/ page'.target = page.target
         \/ TableDue /\ TableOf(page) # 0 /\ Reached(page.target, page) /\ page'.target = NoTarget
      /\ page'.fieldsAsked = IF FieldsDue THEN page.tid ELSE page.fieldsAsked
      /\ page'.fields = IF FieldsDue /\ page.tid = 0 THEN 0 ELSE page.fields
  BY <1>1, <1>4 DEF Hooked
<1>8. /\ InstanceDue /\ page.inst # 0 => Picked(page, page.target, page')
      /\ DatabaseDue => Named(page, page.target, page')
  BY <1>1, <1>4 DEF Hooked, Picked, Named
<1>9. /\ page'.started = IF InitialDue /\ Starts(page, page) THEN page.rev ELSE page.started
      /\ page'.auto = IF AutoDue /\ Match(page) THEN NoQuery ELSE page.auto
      /\ page.restored = TRUE => page'.stored = IF StoreDue THEN Pairs(ValidTabs(page)) ELSE page.stored
      /\ page'.restored \in BOOLEAN /\ page'.kept \in Kept /\ page'.restore \in {0, page.restore}
      /\ page'.url \in {page.url, NoUrl, <<page.db, page.tbl>>}
  BY <1>1, <1>3, <1>5 DEF Paged
<1>10. /\ page'.rev = page.rev /\ page'.list = page.list /\ page'.inst = page.inst /\ page'.trees = page.trees
       /\ page'.timer = page.timer /\ page'.text = page.text /\ page'.late = page.late
  BY <1>3, <1>4
<1>. QED BY <1>2, <1>4, <1>6, <1>7, <1>8, <1>9, <1>10 DEF Moves

-----------------------------------------------------------------------------
(***************************************************************************)
(* A commit keeps the parts of the invariant.                              *)
(***************************************************************************)
\* A commit has seen everything that it was rendered with; what it changed is due.
LEMMA AfterCommit == ASSUME Moves
  PROVE /\ seen'.instance = <<page.rev, page.inst>> /\ seen'.database = DatabaseDep(page) /\ seen'.table = TableDep(page)
        /\ seen'.inst = page.inst /\ seen'.db = page.db /\ seen'.tbl = page.tbl /\ seen'.tid = page.tid
        /\ seen'.auto = page.auto /\ seen'.valid = <<page.restored, ValidTabs(page)>>
        /\ ~InstanceDue'
        /\ BaseDue' <=> DatabaseDep(page) # DatabaseDep(page')
        /\ DatabaseDue' <=> BaseDue' \/ page.tbl # page'.tbl
        /\ TableDue' <=> page.db # page'.db \/ TableDep(page) # TableDep(page')
        /\ InitialDue' <=> page.auto # page'.auto \/ page.tid # page'.tid
<1>1. seen' = Deps(page) /\ page'.rev = page.rev /\ page'.inst = page.inst
  BY DEF Moves
<1>. QED BY <1>1, DepsIs DEF InstanceDue, DatabaseDue, BaseDue, TableDue, InitialDue

\* The parts that depend on one effect.
LEMMA MovesFields == ASSUME FieldsInv, Moves PROVE FieldsInv'
<1>1. seen'.tid = page.tid
  BY AfterCommit
<1>2. CASE FieldsDue
  BY <1>1, <1>2 DEF FieldsInv, Moves
<1>3. CASE ~FieldsDue
  BY <1>1, <1>3 DEF FieldsInv, Moves, FieldsDue
<1>. QED BY <1>2, <1>3

LEMMA MovesTabs == ASSUME Basics, TabsInv, Moves PROVE TabsInv'
<1>1. seen'.valid = <<page.restored, ValidTabs(page)>>
  BY AfterCommit
<1>2. ASSUME page.restored = TRUE PROVE page'.stored = Pairs(ValidTabs(page))
  <2>1. CASE StoreDue
    BY <1>2, <2>1 DEF Moves
  <2>2. CASE ~StoreDue
    <3>1. seen.valid = <<page.restored, ValidTabs(page)>>
      BY <2>2 DEF StoreDue
    <3>2. seen.valid[1] = page.restored /\ seen.valid[2] = ValidTabs(page)
      BY <3>1
    <3>3. page.stored = Pairs(ValidTabs(page))
      BY <1>2, <3>2, Zenon DEF TabsInv
    <3>. QED BY <1>2, <2>2, <3>3 DEF Moves
  <2>. QED BY <2>1, <2>2
<1>3. page.restored \in BOOLEAN
  BY TypesOfPage DEF Basics
<1>4. seen'.valid[1] = page.restored /\ seen'.valid[2] = ValidTabs(page)
  BY <1>1
<1>. QED BY <1>2, <1>3, <1>4 DEF TabsInv

LEMMA MovesAuto == ASSUME AutoInv, Moves PROVE AutoInv'
<1>1. /\ seen'.inst = page.inst /\ seen'.db = page.db /\ seen'.tbl = page.tbl /\ seen'.tid = page.tid
      /\ seen'.auto = page.auto
  BY AfterCommit
<1>2. SeenMatch' => Match(page)
  BY <1>1 DEF SeenMatch, Match
<1>3. ASSUME Match(page), page'.auto = page.auto PROVE FALSE
  <2>1. CASE AutoDue
    <3>1. page'.auto = NoQuery /\ page.auto.id # 0
      BY <1>3, <2>1 DEF Moves, Match
    <3>. QED BY <1>3, <3>1 DEF NoQuery
  <2>2. CASE ~AutoDue
    <3>1. /\ seen.inst = page.inst /\ seen.db = page.db /\ seen.tbl = page.tbl /\ seen.tid = page.tid
          /\ seen.auto = page.auto
      BY <2>2 DEF AutoDue
    <3>2. SeenMatch
      BY <1>3, <3>1 DEF SeenMatch, Match
    <3>. QED BY <3>1, <3>2 DEF AutoInv
  <2>. QED BY <2>1, <2>2
<1>. QED BY <1>1, <1>2, <1>3 DEF AutoInv

LEMMA MovesInst == ASSUME InstInv, Moves PROVE InstInv'
<1>1. page'.inst = page.inst /\ page'.trees = page.trees
  BY DEF Moves
<1>. QED BY <1>1 DEF InstInv

\* A database of the instance selected.
LEMMA DbsIs == ASSUME NEW u, NEW d PROVE d \in Dbs(u.inst) /\ d = u.db => HasDb(u)
BY DEF Dbs, HasDb

LEMMA MovesDb == ASSUME Basics, DbInv, Moves PROVE DbInv'
<1>1. ~InstanceDue'
  BY AfterCommit
<1>2. page'.db = "" \/ HasDb(page') \/ Late'
  <2>1. CASE ~InstanceDue
    <3>1. page'.db = page.db /\ page'.inst = page.inst /\ Late' = Late
      BY <2>1 DEF Moves, Late
    <3>. QED BY <2>1, <3>1, SameNames DEF DbInv
  <2>2. CASE InstanceDue /\ page.inst = 0
    BY <2>2 DEF Moves
  <2>3. CASE InstanceDue /\ page.inst # 0
    BY <2>3 DEF Moves, Picked, Dbs, HasDb
  <2>. QED BY <2>1, <2>2, <2>3
<1>3. page'.shown \subseteq page'.list
  BY DEF DbInv, Moves
<1>. QED BY <1>1, <1>2, <1>3 DEF DbInv

\* What a commit saw.
LEMMA MovesSeen == ASSUME Basics, OpenInv, Moves PROVE SeenInv'
<1>1. /\ seen'.instance = <<page.rev, page.inst>> /\ seen'.database = DatabaseDep(page) /\ seen'.table = TableDep(page)
      /\ seen'.inst = page.inst /\ seen'.db = page.db /\ seen'.tbl = page.tbl
  BY AfterCommit
<1>2. Rev' = page.rev /\ page.rev \in Nat /\ page'.rev = page.rev /\ page'.list = page.list
  <2>1. Rev' = page.rev
    BY <1>1 DEF Rev
  <2>2. page.rev \in Nat
    BY TypesOfPage DEF Basics
  <2>. QED BY <2>1, <2>2 DEF Moves
<1>3. HasDb(seen') <=> HasDb(page)
  BY <1>1, SameNames
<1>4. seen'.database = IF HasDb(seen') THEN <<Rev', seen'.inst, seen'.db>> ELSE <<>>
  BY <1>1, <1>2, <1>3 DEF DatabaseDep
<1>5. page.list \subseteq Tables
  BY TypesOfPage DEF Basics
<1>6. SeenTable' = TableOf(page)
  BY <1>1 DEF SeenTable, TableDep
<1>7. seen'.table # <<>> => /\ TableOf(page) # 0 /\ seen'.table = <<page.rev, TableOf(page)>>
  BY <1>1 DEF TableDep
<1>8. seen'.table # <<>> => /\ Rev' # 0 /\ SeenTable' \in Tables
                            /\ Listing[SeenTable'].inst = seen'.inst /\ Listing[SeenTable'].db = seen'.db
                            /\ Listing[SeenTable'].name = seen'.tbl
  BY <1>1, <1>2, <1>5, <1>6, <1>7, TableOfIs DEF OpenInv
<1>9. SeenTable' = TableNamed(page', seen'.inst, seen'.db, seen'.tbl)
  BY <1>1, <1>2, <1>6 DEF TableOf, TableNamed, TablesIn
<1>. QED BY <1>1, <1>2, <1>4, <1>6, <1>7, <1>8, <1>9 DEF SeenInv

\* The first list.
LEMMA MovesOpen == ASSUME Basics, OpenInv, Moves PROVE OpenInv'
<1>1. /\ page'.rev = page.rev /\ page'.list = page.list /\ page'.inst = page.inst /\ page'.trees = page.trees
  BY DEF Moves
<1>2. page.list \subseteq Tables
  BY TypesOfPage DEF Basics
<1>3. ASSUME page.rev = 0
      PROVE  page'.shown = {} /\ page'.tid = 0 /\ page'.tbl = "" /\ page'.db = "" /\ page'.target = NoTarget
  <2>1. page.list = {} /\ page.shown = {} /\ page.inst = 0 /\ page.tid = 0 /\ page.tbl = "" /\ page.db = "" /\ page.target = NoTarget
    BY <1>3 DEF OpenInv
  <2>2. TableOf(page) = 0 /\ ~HasDb(page)
    BY <1>2, <2>1, TableOfIs, ListingIs DEF HasDb
  <2>. QED BY <2>1, <2>2 DEF Moves, Named
<1>4. ASSUME page.rev = 1, page'.target.inst # 0
      PROVE \E t \in page.list : /\ page'.target = TargetOf(t) /\ page.inst = Listing[t].inst
                               /\ \/ page'.db = "" /\ page'.tbl = ""
                                  \/ page'.db = Listing[t].db /\ page'.tbl \in {"", Listing[t].name}
  <2>1. page'.target = page.target
    <3>1. NoTarget.inst = 0
      BY DEF NoTarget
    <3>. QED BY <1>4, <3>1 DEF Moves
  <2>2. PICK t \in page.list : /\ page.target = TargetOf(t) /\ page.inst = Listing[t].inst
                               /\ \/ page.db = "" /\ page.tbl = ""
                                  \/ page.db = Listing[t].db /\ page.tbl \in {"", Listing[t].name}
    BY <1>4, <2>1 DEF OpenInv
  <2>3. t \in Tables /\ page.inst # 0
    BY <1>2, <2>2, ListingIs
  <2>4. page'.db = page.db \/ page'.db = Listing[t].db
    BY <2>2, <2>3 DEF Moves, Picked
  <2>5. page.db = "" => ~HasDb(page)
    BY ListingIs DEF HasDb
  <2>6. page'.tbl \in {"", Listing[t].name} /\ (page.db = "" => page'.tbl = "")
    <3>1. CASE ~DatabaseDue
      <4>1. page'.tbl = page.tbl
        BY <2>3, <3>1 DEF Moves
      <4>. QED BY <2>2, <2>3, <4>1, ListingIs
    <3>2. CASE DatabaseDue /\ page.db = ""
      BY <2>5, <3>2 DEF Moves, Named
    <3>3. CASE DatabaseDue /\ page.db = Listing[t].db
      <4>1. HasDb(page) /\ Listing[t].db # ""
        BY <2>2, <2>3, <3>3, ListingIs DEF HasDb
      <4>2. page'.tbl = Listing[t].name
        BY <2>2, <3>3, <4>1 DEF Moves, Named
      <4>. QED BY <3>3, <4>1, <4>2
    <3>. QED BY <2>2, <3>1, <3>2, <3>3
  <2>7. \/ page'.db = "" /\ page'.tbl = ""
        \/ page'.db = Listing[t].db /\ page'.tbl \in {"", Listing[t].name}
    BY <2>2, <2>4, <2>6
  <2>. QED BY <2>1, <2>2, <2>7
<1>5. \A x \in page'.trees : page.rev = 0 => x.inst = 0
  BY <1>1 DEF OpenInv
<1>6. page.rev = 0 => page.list = {} /\ page.inst = 0
  BY DEF OpenInv
<1>. QED BY <1>1, <1>3, <1>4, <1>5, <1>6 DEF OpenInv

\* No effect that is due moves the selection a timer of this list waits with.
LEMMA MovesTimer == ASSUME Basics, TimerInv, Moves PROVE TimerInv'
<1>. DEFINE of == Head(page.timer).of
<1>1. page'.timer = page.timer /\ goal' = goal /\ page'.rev = page.rev
  BY DEF Moves
<1>2. ASSUME page.timer # <<>>, of.rev = page.rev
      PROVE /\ of.inst = page'.inst /\ of.db = page'.db /\ of.tid = page'.tid /\ of.shown = page'.shown /\ goal = 0
            /\ ~InstanceDue' /\ ~DatabaseDue' /\ ~TableDue' /\ ~AutoDue'
  <2>1. /\ of.inst = page.inst /\ of.db = page.db /\ of.tid = page.tid /\ of.shown = page.shown /\ goal = 0
        /\ ~InstanceDue /\ ~DatabaseDue /\ ~TableDue /\ ~AutoDue
    BY <1>2 DEF TimerInv
  <2>. HIDE DEF of
  <2>2. /\ page'.inst = page.inst /\ page'.db = page.db /\ page'.tid = page.tid /\ page'.tbl = page.tbl
        /\ page'.auto = page.auto /\ page'.list = page.list /\ page'.rev = page.rev /\ page'.shown = page.shown
    BY <2>1 DEF Moves
  <2>3. DatabaseDep(page') = DatabaseDep(page) /\ TableDep(page') = TableDep(page)
    BY <2>2, SameNames DEF DatabaseDep, TableDep
  <2>4. ~InstanceDue' /\ ~DatabaseDue' /\ ~TableDue' /\ ~AutoDue'
    BY <2>2, <2>3, AfterCommit DEF AutoDue
  <2>. QED BY <2>1, <2>2, <2>4
<1>3. page.timer # <<>> => /\ of.tid \in Texts /\ of.text \in Texts /\ of.kept \in Kept /\ of.shown \subseteq Tables
                          /\ of.rev \in Nat \ {0} /\ of.rev <= page.rev
  BY DEF TimerInv
<1>4. Head(page'.timer).of = of
  BY <1>1
<1>. HIDE DEF of
<1>. QED BY <1>1, <1>2, <1>3, <1>4 DEF TimerInv

\* Tuples of different lengths differ.
LEMMA Tuples ==
    /\ \A a, b : <<a, b>> # <<>>
    /\ \A a, b, c : <<a, b, c>> # <<>>
    /\ \A a, b, x, y : <<a, b>> = <<x, y>> => a = x /\ b = y
    /\ \A a, b, c, x, y, z : <<a, b, c>> = <<x, y, z>> => a = x /\ b = y /\ c = z
<1>1. \A a, b : <<a, b>> # <<>>
  <2>1. ASSUME NEW a, NEW b, <<a, b>> = <<>> PROVE FALSE
    <3>1. Len(<<a, b>>) = 2 /\ Len(<<>>) = 0
      OBVIOUS
    <3>. QED BY <2>1, <3>1
  <2>. QED BY <2>1
<1>2. \A a, b, c : <<a, b, c>> # <<>>
  <2>1. ASSUME NEW a, NEW b, NEW c, <<a, b, c>> = <<>> PROVE FALSE
    <3>1. Len(<<a, b, c>>) = 3 /\ Len(<<>>) = 0
      OBVIOUS
    <3>. QED BY <2>1, <3>1
  <2>. QED BY <2>1
<1>. QED BY <1>1, <1>2

\* What it means that no effect is due.
LEMMA SeenTableIs == ASSUME Basics, SeenInv
  PROVE /\ SeenTable = 0 => seen.table = <<>>
        /\ SeenTable # 0 => /\ seen.table = <<Rev, SeenTable>> /\ SeenTable \in Tables /\ HasDb(seen)
                            /\ Listing[SeenTable].inst = seen.inst /\ Listing[SeenTable].db = seen.db
                            /\ Listing[SeenTable].name = seen.tbl
<1>1. seen.table # <<>> => SeenTable \in Tables /\ SeenTable # 0
  BY ListingIs DEF SeenInv
<1>2. seen.table = <<>> => SeenTable = 0
  BY DEF SeenTable
<1>3. SeenTable # 0 => HasDb(seen)
  BY <1>1, <1>2 DEF SeenInv, HasDb
<1>. QED BY <1>1, <1>2, <1>3 DEF SeenInv

\* The table of the page is one of its list.
LEMMA ListedIs == ASSUME Basics
  PROVE /\ TableOf(page) \in Texts
        /\ TableOf(page) # 0 =>
             /\ TableOf(page) \in page.list /\ HasDb(page) /\ page.tbl \in Names(page) /\ page.db # "" /\ page.tbl # ""
             /\ page.inst # 0 /\ page.db \in Dbs(page.inst)
             /\ Listing[TableOf(page)].inst = page.inst /\ Listing[TableOf(page)].db = page.db
             /\ Listing[TableOf(page)].name = page.tbl
        /\ page.tbl \in Names(page) => TableOf(page) # 0
        /\ \A t \in page.list : Listing[t].inst = page.inst /\ Listing[t].db = page.db /\ Listing[t].name = page.tbl
                               => TableOf(page) = t
<1>1. page.list \subseteq Tables /\ TableOf(page) \in Texts
  BY TypesOfPage DEF Basics
<1>2. HasDb(page) => page.db \in Dbs(page.inst)
  BY DEF HasDb, Dbs
<1>3. /\ TableOf(page) # 0 =>
             /\ TableOf(page) \in page.list /\ HasDb(page) /\ page.tbl \in Names(page) /\ page.db # "" /\ page.tbl # "" /\ page.inst # 0
             /\ Listing[TableOf(page)].inst = page.inst /\ Listing[TableOf(page)].db = page.db
             /\ Listing[TableOf(page)].name = page.tbl
  BY <1>1, TableOfIs
<1>5. page.tbl \in Names(page) => TableOf(page) # 0
  BY <1>1, TableOfIs
<1>4. \A t \in page.list : Listing[t].inst = page.inst /\ Listing[t].db = page.db /\ Listing[t].name = page.tbl
                               => TableOf(page) = t
  BY <1>1, TableOfIs
<1>. QED BY <1>1, <1>2, <1>3, <1>4, <1>5

LEMMA InstanceKept == ASSUME Basics, SeenInv PROVE InstanceDue <=> Rev # page.rev \/ seen.inst # page.inst
BY DEF SeenInv, InstanceDue

LEMMA TableKept == ASSUME Basics, SeenInv, ~TableDue, SeenTable # 0
  PROVE ~InstanceDue /\ ~DatabaseDue /\ TableOf(page) = SeenTable
<1>1. seen.db = page.db /\ seen.inst = page.inst /\ seen.table = TableDep(page)
  BY DEF TableDue
<1>2. /\ seen.table = <<Rev, SeenTable>> /\ Listing[SeenTable].name = seen.tbl /\ HasDb(seen)
  BY SeenTableIs
<1>3. TableOf(page) # 0 /\ Rev = page.rev /\ SeenTable = TableOf(page)
  BY <1>1, <1>2 DEF TableDep
<1>4. seen.tbl = page.tbl /\ HasDb(page)
  BY <1>2, <1>3, ListedIs
<1>5. seen.database = DatabaseDep(page)
  BY <1>1, <1>2, <1>3, <1>4 DEF SeenInv, DatabaseDep
<1>. QED BY <1>1, <1>3, <1>4, <1>5, InstanceKept DEF DatabaseDue, BaseDue

LEMMA NothingSelected == ASSUME Basics, SeenInv, ~DatabaseDue, TableDue \/ InstanceDue
  PROVE (InstanceDue => ~HasDb(page)) /\ TableOf(page) = 0 /\ SeenTable = 0
<1>1. seen.inst = page.inst /\ seen.tbl = page.tbl /\ seen.database = DatabaseDep(page)
  BY DEF DatabaseDue, BaseDue
<1>2. HasDb(page) => HasDb(seen) /\ Rev = page.rev /\ seen.db = page.db
  <2>1. HasDb(page) => DatabaseDep(page) = <<page.rev, page.inst, page.db>>
    BY DEF DatabaseDep
  <2>2. seen.database = IF HasDb(seen) THEN <<Rev, seen.inst, seen.db>> ELSE <<>>
    BY DEF SeenInv
  <2>3. CASE HasDb(page) /\ HasDb(seen)
    BY <1>1, <2>1, <2>2, <2>3, Tuples
  <2>4. CASE HasDb(page) /\ ~HasDb(seen)
    BY <1>1, <2>1, <2>2, <2>4, Tuples
  <2>. QED BY <2>3, <2>4
<1>3. HasDb(seen) => HasDb(page)
  <2>1. ~HasDb(page) => DatabaseDep(page) = <<>>
    BY DEF DatabaseDep
  <2>2. HasDb(seen) => seen.database = <<Rev, seen.inst, seen.db>>
    BY DEF SeenInv
  <2>3. ASSUME HasDb(seen), ~HasDb(page) PROVE FALSE
    <3>1. <<Rev, seen.inst, seen.db>> = <<>>
      BY <1>1, <2>1, <2>2, <2>3
    <3>. QED BY <3>1, Tuples
  <2>. QED BY <2>3
<1>4. InstanceDue => ~HasDb(page)
  BY <1>1, <1>2, InstanceKept
<1>5. CASE ~HasDb(page)
  BY <1>3, <1>4, <1>5, ListedIs, SeenTableIs
<1>6. CASE HasDb(page)
  <2>1. ~InstanceDue /\ TableDue
    BY <1>4, <1>6
  <2>2. SeenTable = TableOf(page)
    BY <1>1, <1>2, <1>6 DEF SeenInv, TableOf
  <2>3. seen.table = TableDep(page)
    BY <1>2, <1>6, <2>2, SeenTableIs DEF TableDep
  <2>. QED BY <1>1, <1>2, <1>6, <2>1, <2>3 DEF TableDue
<1>. QED BY <1>5, <1>6

\* The chain of the selection goes one step on with every commit.
LEMMA MovesSel == ASSUME Basics, SeenInv, SelInv, Moves PROVE SelInv'
<1>1. /\ seen'.table = TableDep(page)
      /\ DatabaseDue' <=> DatabaseDep(page) # DatabaseDep(page') \/ page.tbl # page'.tbl
      /\ Late' = Late
  BY AfterCommit DEF Moves, Late
<1>2. SeenTable' = TableOf(page)
  BY <1>1 DEF SeenTable, TableDep
<1>3. page'.tid \in {0, TableOf(page)} /\ (~TableDue /\ ~Late => page'.tid = TableOf(page))
  <2>1. CASE TableDue
    BY <2>1 DEF Moves
  <2>2. CASE ~TableDue /\ SeenTable # 0
    <3>1. ~InstanceDue /\ ~DatabaseDue /\ TableOf(page) = SeenTable
      BY <2>2, TableKept
    <3>2. page'.tid = page.tid /\ page.tid \in {0, SeenTable} /\ (~Late => page.tid = SeenTable)
      BY <2>2, <3>1 DEF Moves, SelInv
    <3>. QED BY <3>1, <3>2
  <2>3. CASE ~TableDue /\ SeenTable = 0
    <3>1. seen.table = <<>> /\ seen.table = TableDep(page)
      BY <2>3, SeenTableIs DEF TableDue
    <3>2. TableOf(page) = 0
      BY <3>1, Tuples DEF TableDep
    <3>3. page.tid = 0
      BY <2>3 DEF SelInv
    <3>. QED BY <2>3, <3>2, <3>3 DEF Moves
  <2>. QED BY <2>1, <2>2, <2>3
<1>4. TableDue => page'.tid = TableOf(page)
  BY DEF Moves
<1>5. ASSUME ~DatabaseDue', ~Late PROVE NamedHere'
  <2>1. DatabaseDep(page) = DatabaseDep(page') /\ page.tbl = page'.tbl /\ page'.inst = page.inst /\ page'.list = page.list
    BY <1>1, <1>5 DEF Moves
  <2>2. (HasDb(page') <=> HasDb(page)) /\ (HasDb(page) => page'.db = page.db)
    BY <2>1 DEF DatabaseDep
  <2>3. HasDb(page) => Names(page') = Names(page)
    BY <2>1, <2>2, SameNames
  <2>4. IF HasDb(page) THEN page'.tbl \in Names(page) \/ (Names(page) = {} /\ page'.tbl = "")
                       ELSE page'.tbl = ""
    <3>1. CASE DatabaseDue
      BY <3>1 DEF Moves, Named
    <3>2. CASE ~DatabaseDue /\ ~InstanceDue
      BY <1>5, <2>1, <3>2 DEF SelInv, NamedHere
    <3>3. CASE ~DatabaseDue /\ InstanceDue /\ page.inst = 0
      BY <3>3, NothingSelected DEF Moves
    <3>4. CASE ~DatabaseDue /\ InstanceDue /\ page.inst # 0
      <4>1. ~HasDb(page)
        BY <3>4, NothingSelected
      <4>2. HasDb(page')
        BY <3>4 DEF Moves, Picked, Dbs, HasDb
      <4>. QED BY <2>2, <4>1, <4>2
    <3>. QED BY <3>1, <3>2, <3>3, <3>4
  <2>. QED BY <2>2, <2>3, <2>4 DEF NamedHere
<1>. QED BY <1>1, <1>2, <1>3, <1>4, <1>5 DEF SelInv

\* The first query runs on a complete selection when the page has its first list.
LEMMA MovesStart == ASSUME Basics, InstInv, SeenInv, SelInv, OpenInv, StartInv, Moves PROVE StartInv'
<1>1. /\ seen'.inst = page.inst /\ seen'.db = page.db /\ seen'.tbl = page.tbl
      /\ InitialDue' <=> page.auto # page'.auto \/ page.tid # page'.tid
  BY AfterCommit
<1>2. ASSUME page'.tid # 0, page'.auto.id = 0, ~InitialDue' PROVE page'.started # 0
  <2>1. page.tid # 0 /\ page.auto.id = 0
    BY <1>1, <1>2
  <2>2. page.rev # 0
    BY <2>1 DEF OpenInv
  <2>3. CASE InitialDue /\ page.started = 0
    BY <2>1, <2>2, <2>3 DEF Moves, Starts
  <2>4. CASE InitialDue /\ page.started # 0
    BY <2>4 DEF Moves, Starts
  <2>5. CASE ~InitialDue
    BY <2>1, <2>5 DEF Moves, StartInv
  <2>. QED BY <2>3, <2>4, <2>5
<1>3. ASSUME page.rev = 1, page'.tid # 0 PROVE page'.db = page.db /\ page'.tbl = page.tbl
  <2>1. CASE ~TableDue
    <3>1. page'.tid = page.tid /\ page.tid \in {0, SeenTable}
      BY <1>3, <2>1 DEF Moves, SelInv
    <3>2. ~InstanceDue /\ ~DatabaseDue
      BY <1>3, <2>1, <3>1, TableKept
    <3>. QED BY <3>2 DEF Moves
  <2>2. CASE TableDue
    <3>1. TableOf(page) # 0
      BY <1>3, <2>2 DEF Moves
    <3>2. /\ HasDb(page) /\ page.tbl \in Names(page) /\ page.db # "" /\ page.tbl # "" /\ page.inst # 0
          /\ page.db \in Dbs(page.inst)
      BY <3>1, ListedIs
    <3>3. CASE page.target.inst = 0
      BY <3>2, <3>3 DEF Moves, Picked, Named
    <3>4. CASE page.target.inst # 0
      <4>1. PICK t \in page.list : /\ page.target = TargetOf(t) /\ page.inst = Listing[t].inst
                                   /\ page.db = Listing[t].db /\ page.tbl = Listing[t].name
        BY <1>3, <3>2, <3>4 DEF OpenInv
      <4>2. page'.db = page.db
        BY <3>2, <4>1 DEF Moves, Picked
      <4>3. page'.tbl = page.tbl
        BY <3>2, <4>1 DEF Moves, Named
      <4>. QED BY <4>2, <4>3
    <3>. QED BY <3>3, <3>4
  <2>. QED BY <2>1, <2>2
<1>4. page'.rev = page.rev /\ page'.inst = page.inst
  BY DEF Moves
<1>. QED BY <1>1, <1>2, <1>3, <1>4 DEF StartInv

\* A commit keeps the types.
LEMMA MovesBasics == ASSUME Basics, InstInv, Moves PROVE Basics'
<1>1. Typed(page) /\ Others
  BY TypedIs
<1>2. page.list \subseteq Tables /\ TableOf(page) \in Texts
  BY TypesOfPage DEF Basics
<1>3. page'.db \in DbNames
  <2>1. Dbs(page.inst) \subseteq DbNames /\ "" \in DbNames
    BY DEF Dbs, DbNames
  <2>2. CASE ~InstanceDue
    BY <1>1, <2>2 DEF Moves, Typed
  <2>3. CASE InstanceDue
    BY <2>1, <2>3 DEF Moves, Picked
  <2>. QED BY <2>2, <2>3
<1>4. page'.tbl \in TableNames
  <2>1. Names(page) \subseteq TableNames /\ "" \in TableNames
    BY <1>2 DEF Names, TablesIn, TableNames
  <2>2. CASE ~DatabaseDue
    BY <1>1, <2>1, <2>2 DEF Moves, Typed
  <2>3. CASE DatabaseDue
    BY <2>1, <2>3 DEF Moves, Named
  <2>. QED BY <2>2, <2>3
<1>5. page'.url \in DbNames \X TableNames
  <2>1. NoUrl \in DbNames \X TableNames
    BY DEF NoUrl, DbNames, TableNames
  <2>2. <<page.db, page.tbl>> \in DbNames \X TableNames /\ page.url \in DbNames \X TableNames
    BY <1>1 DEF Typed
  <2>3. page'.url \in {page.url, NoUrl, <<page.db, page.tbl>>}
    BY DEF Moves
  <2>. QED BY <2>1, <2>2, <2>3
<1>6. page'.shown \subseteq Tables
  BY <1>1, <1>2 DEF Moves, Typed
<1>7. page'.tid \in Texts /\ page'.fields \in Texts /\ page'.fieldsAsked \in Texts /\ page'.restore \in Texts
  BY <1>1, <1>2 DEF Moves, Typed, Texts
<1>8. page'.started \in Nat
  BY <1>1 DEF Moves, Typed
<1>9. page'.auto \in Query /\ page'.logs \in Row /\ page'.charts \in Row /\ page'.target \in Goto
  <2>1. NoRows \in Row /\ NoQuery \in Query /\ NoTarget \in Goto
    BY DEF NoRows, NoQuery, NoTarget, Row, Query, Goto, Texts, DbNames, TableNames
  <2>. QED BY <1>1, <2>1 DEF Moves, Typed
<1>10. Others'
  BY <1>1 DEF Moves, Others
<1>11. Typed(page')
  BY <1>1, <1>3, <1>4, <1>5, <1>6, <1>7, <1>8, <1>9 DEF Moves, Typed
<1>. QED BY <1>10, <1>11, TypedNext DEF Moves

\* A commit clears what it moves away from.
LEMMA MovesRes == ASSUME Basics, InstInv, SeenInv, SelInv, OpenInv, StartInv, ResInv, Moves PROVE ResInv'
<1>1. seen'.tbl = page.tbl /\ Late' = Late
  BY AfterCommit DEF Moves, Late
<1>2. page'.started = page.started \/ (page.started = 0 /\ page'.started = page.rev)
  BY DEF Moves, Starts
<1>3. \A x : Excused(x) => Excused(x)'
  BY <1>2, TypesOfPage DEF Excused, Basics
<1>4. ~InstanceDue /\ ~DatabaseDue => page'.tid = page.tid
  <2>1. ASSUME ~InstanceDue, ~DatabaseDue, TableDue PROVE page'.tid = page.tid
    BY <2>1, NothingSelected DEF Moves, SelInv
  <2>. QED BY <2>1 DEF Moves
<1>0. SUFFICES ASSUME ~(~InstanceDue /\ ~DatabaseDue /\ page.tid = 0 /\ Late) PROVE ResInv'
  BY <1>1, <1>4 DEF ResInv
<1>5. \A rows \in {page'.logs, page'.charts} : rows.id \in {0, page'.tid} \/ Excused(rows)'
  <2>1. CASE InstanceDue \/ DatabaseDue
    <3>1. page'.logs = NoRows /\ page'.charts = NoRows /\ NoRows.id = 0
      BY <2>1 DEF Moves, NoRows
    <3>. QED BY <3>1
  <2>2. CASE ~InstanceDue /\ ~DatabaseDue
    BY <1>0, <1>3, <1>4, <2>2 DEF Moves, ResInv, DatabaseDue
  <2>. QED BY <2>1, <2>2
<1>6. ASSUME NEW r \in Active(page') PROVE r.tid = page'.tid \/ Excused(r)' \/ (page'.tid = 0 /\ page.tbl # page'.tbl)
  <2>1. CASE ~InstanceDue /\ ~DatabaseDue /\ r \in Active(page)
    BY <1>0, <1>3, <1>4, <2>1 DEF ResInv, DatabaseDue
  <2>2. CASE InitialDue /\ Starts(page, page) /\ r.tid = page.tid /\ r.first
    <3>1. page'.started = page.rev /\ page.tid # 0 /\ page.auto.id = 0 /\ page.started = 0
      BY <2>2 DEF Moves, Starts
    <3>2. page.rev \in Nat /\ page.rev # 0
      BY <3>1, TypesOfPage DEF OpenInv, Basics
    <3>3. CASE page.rev > 1
      BY <2>2, <3>1, <3>3 DEF Excused
    <3>4. CASE page.rev = 1
      <4>1. seen.inst = page.inst /\ seen.db = page.db /\ seen.tbl = page.tbl
        BY <3>1, <3>4 DEF StartInv
      <4>2. SeenTable = page.tid /\ SeenTable # 0
        BY <3>1 DEF SelInv
      <4>3. Rev = page.rev
        <5>1. seen.table # <<>>
          BY <4>2 DEF SeenTable
        <5>2. Rev # 0 /\ Rev \in Nat /\ Rev <= page.rev
          BY <5>1 DEF SeenInv
        <5>. QED BY <3>4, <5>2
      <4>4. SeenTable = TableOf(page)
        BY <4>1, <4>3 DEF SeenInv, TableOf
      <4>5. seen.table = TableDep(page)
        BY <4>2, <4>3, <4>4, SeenTableIs DEF TableDep
      <4>6. ~TableDue
        BY <4>1, <4>5 DEF TableDue
      <4>7. ~InstanceDue /\ ~DatabaseDue
        BY <4>2, <4>6, TableKept
      <4>. QED BY <1>4, <2>2, <4>7
    <3>. QED BY <3>2, <3>3, <3>4
  <2>3. CASE AutoDue /\ Match(page) /\ r.tid = page.tid
    <3>1. /\ page.auto.id \in Tables /\ page.tid = page.auto.id /\ page.tid # 0
          /\ page.inst = Listing[page.tid].inst /\ page.db = Listing[page.tid].db /\ page.tbl = Listing[page.tid].name
      BY <2>3, TypesOfPage DEF Match, Basics, Texts
    <3>2. HasDb(page) /\ page.inst # 0 /\ page.tbl # ""
      BY <3>1, ListingIs DEF HasDb
    <3>3. TableOf(page) # 0 => TableOf(page) = page.tid
      <4>1. TableOf(page) # 0 => /\ TableOf(page) \in Tables
                                 /\ Listing[TableOf(page)].inst = page.inst /\ Listing[TableOf(page)].db = page.db
                                 /\ Listing[TableOf(page)].name = page.tbl
        BY ListedIs, TypesOfPage DEF Basics
      <4>. QED BY <3>1, <4>1, ListingIs
    <3>4. SeenTable = page.tid
      BY <3>1 DEF SelInv
    <3>5. CASE ~TableDue
      <4>1. ~InstanceDue /\ ~DatabaseDue
        BY <3>1, <3>4, <3>5, TableKept
      <4>. QED BY <1>4, <2>3, <4>1
    <3>6. CASE TableDue /\ TableOf(page) # 0
      <4>1. page'.tid = page.tid
        BY <3>3, <3>6 DEF Moves
      <4>. QED BY <2>3, <4>1
    <3>7. CASE TableDue /\ TableOf(page) = 0
      <4>1. DatabaseDue
        BY <3>1, <3>4, <3>7, NothingSelected
      <4>2. page.tbl \notin Names(page)
        BY <3>7, ListedIs
      <4>3. page'.tbl # page.tbl /\ page'.tid = 0
        BY <3>2, <3>7, <4>1, <4>2 DEF Moves, Named
      <4>. QED BY <4>3
    <3>. QED BY <3>5, <3>6, <3>7
  <2>. QED BY <1>6, <2>1, <2>2, <2>3 DEF Moves
<1>. QED BY <1>1, <1>5, <1>6 DEF ResInv

\* A commit moves the selection to the table asked for.
LEMMA MovesGoal == ASSUME Basics, InstInv, DbInv, SeenInv, SelInv, OpenInv, GoalInv, Moves PROVE GoalInv'
<1>. DEFINE g == Listing[goal]
<1>0. goal' = goal /\ page'.list = page.list /\ page'.inst = page.inst /\ ~InstanceDue' /\ Late' = Late
  BY AfterCommit DEF Moves, Late
<1>1. SUFFICES ASSUME ~Late, goal \in page.list PROVE GoalInv'
  BY <1>0 DEF GoalInv
<1>2. /\ page.inst = g.inst
      /\ page.target = TargetOf(goal) \/ (page.target = NoTarget /\ page.db = g.db /\ page.tbl = g.name)
      /\ page.target = TargetOf(goal) /\ ~InstanceDue => page.db = g.db
      /\ page.target = TargetOf(goal) /\ ~InstanceDue /\ ~DatabaseDue => page.tbl = g.name
  BY <1>1 DEF GoalInv
<1>3. goal \in Tables /\ page.inst # 0 /\ g.db \in Dbs(page.inst) /\ NoTarget.inst = 0 /\ TargetOf(goal).inst # 0
  <2>1. goal \in Tables
    BY <1>1, TypesOfPage DEF Basics
  <2>. QED BY <1>2, <2>1, ListingIs, DbsOfTable, TargetIs DEF NoTarget
<1>4. page.db = g.db => HasDb(page)
  BY <1>2, <1>3 DEF HasDb
<1>5. ASSUME page.db = g.db, page.tbl = g.name PROVE page.tbl \in Names(page)
  BY <1>1, <1>2, <1>5 DEF Names, TablesIn
<1>. HIDE DEF g
<1>6. ASSUME page.target = TargetOf(goal) PROVE page'.db = g.db
  <2>1. CASE InstanceDue
    <3>1. Picked(page, page.target, page')
      BY <1>3, <2>1 DEF Moves
    <3>. QED BY <1>1, <1>2, <1>6, <3>1 DEF Picked, g
  <2>2. CASE ~InstanceDue
    BY <1>2, <1>6, <2>2 DEF Moves
  <2>. QED BY <2>1, <2>2
<1>7. ASSUME page.target = TargetOf(goal), page.db = g.db, DatabaseDue PROVE page'.tbl = g.name
  <2>1. Named(page, page.target, page')
    BY <1>7 DEF Moves
  <2>. QED BY <1>1, <1>2, <1>4, <1>7, <2>1 DEF Named, g
<1>8. ASSUME page.target = NoTarget, page.db = g.db, page.tbl = g.name PROVE page'.db = g.db /\ page'.tbl = g.name
  <2>1. page'.db = g.db
    <3>1. CASE InstanceDue
      <4>1. Picked(page, page.target, page')
        BY <1>3, <3>1 DEF Moves
      <4>. QED BY <1>3, <1>8, <4>1 DEF Picked
    <3>2. CASE ~InstanceDue
      BY <1>8, <3>2 DEF Moves
    <3>. QED BY <3>1, <3>2
  <2>2. page'.tbl = g.name
    <3>1. CASE DatabaseDue
      <4>1. Named(page, page.target, page')
        BY <3>1 DEF Moves
      <4>. QED BY <1>3, <1>4, <1>5, <1>8, <4>1 DEF Named
    <3>2. CASE ~DatabaseDue
      BY <1>3, <1>8, <3>2 DEF Moves
    <3>. QED BY <3>1, <3>2
  <2>. QED BY <2>1, <2>2
<1>9. CASE page'.target = page.target /\ page.target = TargetOf(goal)
  <2>1. page'.db = g.db
    BY <1>6, <1>9
  <2>2. ASSUME ~DatabaseDue' PROVE page'.tbl = g.name
    <3>1. DatabaseDep(page) = DatabaseDep(page') /\ page.tbl = page'.tbl
      BY <2>2, AfterCommit
    <3>2. HasDb(page')
      BY <1>0, <1>2, <1>3, <2>1 DEF HasDb, g
    <3>3. HasDb(page) /\ page.db = g.db
      <4>1. DatabaseDep(page') = <<page'.rev, page'.inst, page'.db>>
        BY <3>2 DEF DatabaseDep
      <4>2. HasDb(page)
        BY <3>1, <4>1, Tuples DEF DatabaseDep
      <4>3. DatabaseDep(page) = <<page.rev, page.inst, page.db>>
        BY <4>2 DEF DatabaseDep
      <4>. QED BY <2>1, <3>1, <4>1, <4>2, <4>3, Tuples
    <3>4. CASE DatabaseDue
      BY <1>7, <1>9, <3>3, <3>4
    <3>5. CASE ~DatabaseDue
      BY <1>2, <1>9, <3>1, <3>3, <3>5, NothingSelected
    <3>. QED BY <3>4, <3>5
  <2>. QED BY <1>0, <1>2, <1>9, <2>1, <2>2 DEF GoalInv, g
<1>10. CASE page'.target = page.target /\ page.target = NoTarget /\ page.db = g.db /\ page.tbl = g.name
  BY <1>0, <1>2, <1>8, <1>10 DEF GoalInv, g
<1>11. CASE TableOf(page) # 0 /\ Reached(page.target, page) /\ page'.target = NoTarget /\ page.target = TargetOf(goal)
  <2>1. page.db = g.db /\ page.tbl = g.name
    <3>1. g.name # "" /\ page.target.db = g.db /\ page.target.name = g.name
      BY <1>3, <1>11, ListingIs, TargetIs DEF g
    <3>. QED BY <1>11, <3>1 DEF Reached
  <2>2. page'.db = g.db
    BY <1>6, <1>11
  <2>3. page'.tbl = g.name
    <3>1. CASE DatabaseDue
      BY <1>7, <1>11, <2>1, <3>1
    <3>2. CASE ~DatabaseDue
      BY <1>3, <2>1, <3>2 DEF Moves
    <3>. QED BY <3>1, <3>2
  <2>4. TargetOf(goal) # NoTarget
    BY <1>3
  <2>. QED BY <1>0, <1>2, <1>11, <2>2, <2>3, <2>4 DEF GoalInv, g
<1>12. CASE page'.target = NoTarget /\ page.target = NoTarget /\ page.db = g.db /\ page.tbl = g.name
  BY <1>0, <1>2, <1>3, <1>8, <1>12 DEF GoalInv, g
<1>. QED BY <1>2, <1>9, <1>10, <1>11, <1>12 DEF Moves

-----------------------------------------------------------------------------
(***************************************************************************)
(* A step that leaves the selection alone keeps the invariant.             *)
(***************************************************************************)
\* A step that leaves the selection alone.
LEMMA StaysIs == ASSUME Stays
  PROVE /\ seen' = seen /\ Shape(page')
        /\ page'.rev = page.rev /\ page'.list = page.list /\ page'.shown = page.shown /\ page'.inst = page.inst
        /\ page'.db = page.db /\ page'.tbl = page.tbl /\ page'.tid = page.tid /\ page'.target = page.target
        /\ page'.auto = page.auto /\ page'.started = page.started /\ page'.restored = page.restored
        /\ page'.stored = page.stored /\ page'.url = page.url /\ page'.restore = page.restore
        /\ page'.late = page.late
BY DEF Stays, Only, Fields, Rest

\* The same effects are due.
LEMMA StaysDue == ASSUME Stays
  PROVE /\ InstanceDue' <=> InstanceDue
        /\ BaseDue' <=> BaseDue
        /\ DatabaseDue' <=> DatabaseDue
        /\ TableDue' <=> TableDue
        /\ InitialDue' <=> InitialDue
        /\ AutoDue' <=> AutoDue
        /\ HasDb(page') <=> HasDb(page)
        /\ Names(page') = Names(page) /\ TableOf(page') = TableOf(page)
<1>1. (HasDb(page') <=> HasDb(page)) /\ Names(page') = Names(page) /\ TableOf(page') = TableOf(page)
  BY StaysIs, SameNames
<1>2. DatabaseDep(page') = DatabaseDep(page) /\ TableDep(page') = TableDep(page)
  BY <1>1, StaysIs DEF DatabaseDep, TableDep
<1>. QED BY <1>1, <1>2, StaysIs DEF InstanceDue, DatabaseDue, BaseDue, TableDue, InitialDue, AutoDue

\* Nothing is due when the effects have run.
LEMMA SettledIs == ASSUME Settled
  PROVE /\ ~InstanceDue /\ ~DatabaseDue /\ ~TableDue /\ ~InitialDue /\ ~AutoDue
        /\ seen.inst = page.inst /\ seen.db = page.db /\ seen.tbl = page.tbl /\ seen.tid = page.tid /\ seen.auto = page.auto
        /\ seen.table = TableDep(page) /\ seen.database = DatabaseDep(page)
        /\ seen.valid = <<page.restored, ValidTabs(page)>> /\ SeenTable = TableOf(page)
<1>1. seen = Deps(page)
  BY DEF Settled
<1>2. seen.table = TableDep(page)
  BY <1>1, DepsIs
<1>3. SeenTable = TableOf(page)
  BY <1>2 DEF SeenTable, TableDep
<1>. QED BY <1>1, <1>3, DepsIs DEF InstanceDue, DatabaseDue, BaseDue, TableDue, InitialDue, AutoDue

\* Each part in turn.
LEMMA StaysBasics == ASSUME Basics, Stays PROVE Basics'
<1>1. Typed(page)
  BY TypedIs
<1>2. page'.fields \in Texts /\ page'.fieldsAsked \in Texts
  BY <1>1 DEF Stays, Typed, Texts
<1>3. Typed(page')
  <2>1. /\ page'.kept \in Kept /\ page'.text \in Texts /\ page'.logs \in Row /\ page'.charts \in Row
        /\ page'.trees \subseteq Goto
    BY DEF Stays
  <2>. QED BY <1>1, <1>2, <2>1, StaysIs DEF Typed
<1>4. Others' /\ LoadOK(page')
  BY DEF Stays
<1>. QED BY <1>3, <1>4, StaysIs, TypedNext

LEMMA StaysRes == ASSUME Basics, SeenInv, SelInv, ResInv, Stays PROVE ResInv'
<1>1. \A x : Excused(x)' <=> Excused(x)
  BY StaysIs DEF Excused
<1>2. /\ \A rows \in {page'.logs, page'.charts} :
          \/ rows \in {page.logs, page.charts, NoRows}
          \/ \E r \in Active(page) : rows.id = r.tid /\ rows.first = r.first
      /\ \A r \in Active(page') :
          \/ r \in Active(page)
          \/ Settled /\ r.tid = IF page.tid # 0 THEN page.tid ELSE TableOf(page)
  BY DEF Stays
<1>3. SUFFICES ASSUME ~InstanceDue, ~BaseDue, ~(page.tid = 0 /\ (seen.tbl # page.tbl \/ Late)) PROVE ResInv'
  BY StaysIs, StaysDue DEF ResInv, Late
<1>4. /\ \A rows \in {page.logs, page.charts} : rows.id \in {0, page.tid} \/ Excused(rows)
      /\ \A r \in Active(page) : r.tid = page.tid \/ Excused(r)
  BY <1>3 DEF ResInv
<1>5. ASSUME NEW rows \in {page'.logs, page'.charts} PROVE rows.id \in {0, page'.tid} \/ Excused(rows)'
  <2>1. CASE rows \in {page.logs, page.charts}
    BY <1>1, <1>4, <2>1, StaysIs
  <2>2. CASE rows = NoRows
    BY <2>2 DEF NoRows
  <2>3. CASE \E r \in Active(page) : rows.id = r.tid /\ rows.first = r.first
    BY <1>4, <2>3, StaysIs DEF Excused
  <2>. QED BY <1>2, <1>5, <2>1, <2>2, <2>3
<1>6. ASSUME NEW r \in Active(page') PROVE r.tid = page'.tid \/ Excused(r)'
  <2>1. CASE r \in Active(page)
    BY <1>1, <1>4, <2>1, StaysIs
  <2>2. CASE Settled /\ r.tid = IF page.tid # 0 THEN page.tid ELSE TableOf(page)
    <3>1. ~Late => page.tid = TableOf(page)
      BY <2>2, SettledIs DEF SelInv
    <3>. QED BY <1>3, <2>2, <3>1, StaysIs
  <2>. QED BY <1>2, <1>6, <2>1, <2>2
<1>. QED BY <1>5, <1>6 DEF ResInv

LEMMA StaysTimer == ASSUME Basics, TimerInv, Stays PROVE TimerInv'
<1>1. CASE page'.timer = <<>>
  BY <1>1 DEF TimerInv
<1>2. CASE page'.timer = page.timer /\ goal' = goal
  BY <1>2, StaysIs, StaysDue DEF TimerInv
<1>3. CASE /\ Settled /\ goal' = 0 /\ page'.timer # <<>>
           /\ LET of == Head(page'.timer).of
              IN  /\ of.inst = page.inst /\ of.db = page.db /\ of.tid = page.tid
                  /\ of.text \in Texts /\ of.kept \in Kept /\ of.shown = page.shown
                  /\ of.rev = page.rev /\ page.rev # 0
  <2>1. page.tid \in Texts /\ page.shown \subseteq Tables /\ page.rev \in Nat
    BY TypesOfPage DEF Basics
  <2>. QED BY <1>3, <2>1, StaysIs, StaysDue, SettledIs DEF TimerInv
<1>. QED BY <1>1, <1>2, <1>3 DEF Stays

LEMMA StaysFields == ASSUME FieldsInv, Stays PROVE FieldsInv'
BY StaysIs DEF Stays, FieldsInv

LEMMA StaysOpen == ASSUME InstInv, OpenInv, Stays PROVE InstInv' /\ OpenInv'
<1>1. /\ \A x \in page'.trees : x \in page.trees \/ (page.rev # 0 /\ Dbs(x.inst) # {})
      /\ page'.rev = page.rev /\ page'.inst = page.inst
  BY StaysIs DEF Stays
<1>2. InstInv'
  BY <1>1 DEF InstInv
<1>3. \A x \in page'.trees : page'.rev = 0 => x.inst = 0
  BY <1>1 DEF OpenInv
<1>4. OpenInv'
  BY <1>3, StaysIs DEF OpenInv
<1>. QED BY <1>2, <1>4

LEMMA StaysSeen == ASSUME Basics, SeenInv, Stays PROVE SeenInv'
<1>1. seen' = seen /\ page'.rev = page.rev /\ page'.list = page.list
  BY StaysIs
<1>2. SeenTable' = SeenTable /\ Rev' = Rev
  BY <1>1 DEF SeenTable, Rev
<1>3. TableNamed(page', seen.inst, seen.db, seen.tbl) = TableNamed(page, seen.inst, seen.db, seen.tbl)
  BY <1>1 DEF TableNamed, TablesIn
<1>. QED BY <1>1, <1>2, <1>3 DEF SeenInv

LEMMA StaysSel == ASSUME DbInv, SelInv, StartInv, TabsInv, AutoInv, Stays
  PROVE DbInv' /\ SelInv' /\ StartInv' /\ TabsInv' /\ AutoInv'
<1>1. SeenTable' = SeenTable
  BY StaysIs DEF SeenTable
<1>2. DbInv'
  BY StaysIs, StaysDue DEF DbInv, Late
<1>3. SelInv'
  BY <1>1, StaysIs, StaysDue DEF SelInv, NamedHere, Late
<1>4. StartInv'
  BY StaysIs, StaysDue DEF StartInv
<1>5. TabsInv' /\ AutoInv'
  BY StaysIs DEF TabsInv, AutoInv, SeenMatch
<1>. QED BY <1>2, <1>3, <1>4, <1>5

LEMMA StaysGoal == ASSUME Basics, GoalInv, Stays PROVE GoalInv'
<1>1. goal' \in {goal, 0} /\ 0 \notin page.list
  <2>1. page.list \subseteq Tables
    BY TypesOfPage DEF Basics
  <2>. QED BY <2>1, ListingIs DEF Stays
<1>2. ASSUME goal' = goal PROVE GoalInv'
  BY <1>2, StaysIs, StaysDue DEF GoalInv, Late
<1>3. ASSUME goal' = 0 PROVE GoalInv'
  BY <1>1, <1>3, StaysIs DEF GoalInv
<1>. QED BY <1>1, <1>2, <1>3

-----------------------------------------------------------------------------
(***************************************************************************)
(* An answer with the list keeps the invariant.                            *)
(***************************************************************************)
\* An answer with the list: every effect is due again.
LEMMA ListsIs == ASSUME Lists
  PROVE /\ seen' = seen /\ Shape(page') /\ page'.rev = page.rev + 1
        /\ page'.shown = page.shown /\ page'.db = page.db /\ page'.tbl = page.tbl /\ page'.tid = page.tid
        /\ page'.text = page.text /\ page'.kept = page.kept /\ page'.tabs = page.tabs /\ page'.auto = page.auto
        /\ page'.logs = page.logs /\ page'.charts = page.charts /\ page'.fields = page.fields
        /\ page'.fieldsAsked = page.fieldsAsked /\ page'.restored = page.restored /\ page'.stored = page.stored
        /\ page'.url = page.url /\ page'.started = page.started /\ page'.restore = page.restore
        /\ page'.run = page.run /\ page'.runs = page.runs /\ page'.loading = page.loading /\ page'.timer = page.timer
        /\ page'.late = FALSE
        /\ SeenTable' = SeenTable /\ Rev' = Rev
<1>1. seen' = seen
  BY DEF Lists
<1>2. SeenTable' = SeenTable /\ Rev' = Rev
  BY <1>1 DEF SeenTable, Rev
<1>. QED BY <1>2 DEF Lists, Only, Fields

LEMMA ListsDue == ASSUME Basics, SeenInv, Lists
  PROVE /\ InstanceDue' /\ page'.rev \in Nat /\ page'.rev # 0 /\ page'.rev # Rev
        /\ InitialDue' <=> InitialDue
        /\ HasDb(page') => DatabaseDue'
        /\ TableOf(page') # 0 => TableDue'
<1>1. page.rev \in Nat /\ Rev \in Nat /\ Rev <= page.rev
  BY TypesOfPage DEF Basics, SeenInv
<1>2. page'.rev \in Nat /\ page'.rev # 0 /\ page'.rev # Rev
  BY <1>1, ListsIs
<1>3. seen.instance = <<Rev, seen.inst>>
  BY DEF SeenInv
<1>4. InstanceDue'
  BY <1>2, <1>3, Tuples, ListsIs DEF InstanceDue
<1>5. ASSUME HasDb(page') PROVE DatabaseDue'
  <2>1. DatabaseDep(page') = <<page'.rev, page'.inst, page'.db>>
    BY <1>5 DEF DatabaseDep
  <2>2. seen.database = IF HasDb(seen) THEN <<Rev, seen.inst, seen.db>> ELSE <<>>
    BY DEF SeenInv
  <2>3. seen.database # DatabaseDep(page')
    BY <1>2, <2>1, <2>2, Tuples
  <2>. QED BY <2>3, ListsIs DEF DatabaseDue, BaseDue
<1>6. ASSUME TableOf(page') # 0 PROVE TableDue'
  <2>1. TableDep(page') = <<page'.rev, TableOf(page')>>
    BY <1>6 DEF TableDep
  <2>2. seen.table # <<>> => seen.table = <<Rev, SeenTable>>
    BY DEF SeenInv
  <2>3. CASE seen.table = <<>>
    <3>1. seen.table # TableDep(page')
      BY <2>1, <2>3, Tuples
    <3>. QED BY <3>1, ListsIs DEF TableDue
  <2>4. CASE seen.table = <<Rev, SeenTable>>
    <3>1. seen.table # TableDep(page')
      BY <1>2, <2>1, <2>4, Tuples
    <3>. QED BY <3>1, ListsIs DEF TableDue
  <2>. QED BY <2>2, <2>3, <2>4
<1>. QED BY <1>2, <1>4, <1>5, <1>6, ListsIs DEF InitialDue

\* Each part in turn.
LEMMA ListsBasics == ASSUME Basics, Lists PROVE Basics'
<1>1. Typed(page) /\ LoadOK(page)
  BY TypedIs
<1>2. page'.rev \in Nat
  BY <1>1, ListsIs DEF Typed
<1>3. page'.list \subseteq Tables /\ page'.inst \in Nat /\ page'.target \in Goto /\ page'.trees \subseteq Goto /\ Others'
  BY <1>1 DEF Lists, Typed
<1>4. Typed(page')
  BY <1>1, <1>2, <1>3, ListsIs DEF Typed
<1>5. LoadOK(page')
  BY <1>1, ListsIs DEF LoadOK
<1>. QED BY <1>3, <1>4, <1>5, ListsIs, TypedNext

LEMMA ListsSel == ASSUME Basics, SeenInv, SelInv, Lists PROVE SelInv'
<1>1. ASSUME ~TableDue' PROVE page'.tid = SeenTable
  <2>1. seen.table = TableDep(page') /\ TableOf(page') = 0
    BY <1>1, ListsIs, ListsDue DEF TableDue
  <2>2. SeenTable = 0
    BY <2>1 DEF TableDep, SeenTable
  <2>. QED BY <2>2, ListsIs DEF SelInv
<1>2. page'.tid \in {0, SeenTable}
  BY ListsIs DEF SelInv
<1>. QED BY <1>1, <1>2, ListsIs, ListsDue DEF SelInv

LEMMA ListsOpen == ASSUME Basics, SeenInv, InstInv, OpenInv, StartInv, Lists PROVE InstInv' /\ OpenInv' /\ StartInv'
<1>1. /\ page'.trees \subseteq page.trees
      /\ page'.inst # 0 => Dbs(page'.inst) # {}
      /\ goal' \in page'.list => page'.target = TargetOf(goal')
      /\ page'.target.inst # 0 => page'.inst = page'.target.inst
      /\ page'.target.inst # 0 => goal' \in page'.list \/ page'.target \in page.trees
  BY DEF Lists
<1>2. InstInv'
  BY <1>1 DEF InstInv
<1>3. page'.rev = 1 => page.rev = 0
  BY ListsIs, TypesOfPage DEF Basics
<1>4. ASSUME page'.rev = 1, page'.target.inst # 0
      PROVE  \E t \in page'.list : /\ page'.target = TargetOf(t) /\ page'.inst = Listing[t].inst
                                   /\ \/ page'.db = "" /\ page'.tbl = ""
                                      \/ page'.db = Listing[t].db /\ page'.tbl \in {"", Listing[t].name}
  <2>1. page.db = "" /\ page.tbl = "" /\ \A x \in page.trees : x.inst = 0
    BY <1>3, <1>4 DEF OpenInv
  <2>2. goal' \in page'.list /\ page'.target = TargetOf(goal')
    BY <1>1, <1>4, <2>1
  <2>3. page'.inst = Listing[goal'].inst
    BY <1>1, <1>4, <2>2 DEF TargetOf
  <2>4. page'.db = "" /\ page'.tbl = ""
    BY <2>1, ListsIs
  <2>. QED BY <2>2, <2>3, <2>4
<1>5. OpenInv'
  BY <1>4, ListsDue DEF OpenInv
<1>6. page'.rev = 1 => page'.tid = 0
  BY <1>3, ListsIs DEF OpenInv
<1>7. page'.tid # 0 /\ page'.auto.id = 0 /\ ~InitialDue' => page'.started # 0
  BY ListsIs, ListsDue DEF StartInv
<1>8. StartInv'
  BY <1>6, <1>7 DEF StartInv
<1>. QED BY <1>2, <1>5, <1>8

LEMMA ListsRest == ASSUME Basics, TimerInv, SeenInv, FieldsInv, TabsInv, AutoInv, Lists
  PROVE TimerInv' /\ DbInv' /\ SeenInv' /\ FieldsInv' /\ TabsInv' /\ ResInv' /\ AutoInv'
<1>1. DbInv' /\ ResInv'
  BY ListsDue DEF DbInv, ResInv
<1>2. FieldsInv' /\ TabsInv' /\ AutoInv'
  BY ListsIs DEF FieldsInv, TabsInv, AutoInv, SeenMatch
<1>3. SeenInv'
  <2>1. Rev <= page'.rev
    BY ListsIs, TypesOfPage DEF Basics, SeenInv
  <2>2. HasDb(seen') <=> HasDb(seen)
    BY ListsIs
  <2>. QED BY <2>1, <2>2, ListsIs, ListsDue DEF SeenInv
<1>4. TimerInv'
  <2>. DEFINE of == Head(page.timer).of
  <2>1. page.timer # <<>> => /\ of.tid \in Texts /\ of.text \in Texts /\ of.kept \in Kept /\ of.shown \subseteq Tables
                            /\ of.rev \in Nat \ {0} /\ of.rev <= page.rev
    BY DEF TimerInv
  <2>2. page'.timer = page.timer /\ page'.rev = page.rev + 1 /\ page.rev \in Nat /\ Head(page'.timer).of = of
    BY ListsIs, TypesOfPage DEF Basics
  <2>. HIDE DEF of
  <2>3. page.timer # <<>> => of.rev <= page'.rev /\ of.rev # page'.rev
    BY <2>1, <2>2
  <2>. QED BY <2>1, <2>2, <2>3 DEF TimerInv
<1>. QED BY <1>1, <1>2, <1>3, <1>4

\* The list brings the target that the table asked for is reached by.
LEMMA ListsGoal == ASSUME Basics, SeenInv, Lists PROVE GoalInv'
<1>1. ASSUME goal' \in page'.list PROVE page'.target = TargetOf(goal') /\ page'.inst = Listing[goal'].inst
  <2>1. page'.target = TargetOf(goal') /\ (page'.target.inst # 0 => page'.inst = page'.target.inst) /\ goal' \in Tables
    BY <1>1 DEF Lists
  <2>2. TargetOf(goal').inst = Listing[goal'].inst
    BY DEF TargetOf
  <2>3. Listing[goal'].inst # 0
    BY <2>1, ListingIs
  <2>. QED BY <2>1, <2>2, <2>3
<1>. QED BY <1>1, ListsDue DEF GoalInv

-----------------------------------------------------------------------------
(***************************************************************************)
(* A handler that selects keeps the invariant.                             *)
(***************************************************************************)
\* A handler that selects, with the table t that it was called for.
Turns(t) ==
    /\ page'.inst = Listing[t].inst /\ page'.db \in {page.db, "", Listing[t].db}
    /\ page'.kept \in Kept /\ page'.restore \in Texts /\ page'.text \in Texts /\ page'.auto \in Query
    /\ page'.auto = page.auto \/ page'.auto.id = t
    /\ \/ /\ page'.inst = page.inst /\ page'.db = page.db /\ page'.tbl = page.tbl /\ page'.target = page.target
          /\ goal' = 0
       \/ page'.tbl = "" /\ page'.target = NoTarget /\ goal' = 0
       \/ /\ page'.tbl = Listing[t].name /\ page'.target = NoTarget /\ goal' \in {0, t}
          /\ page'.db = IF Listing[t].inst # page.inst /\ Listing[t].db = page.db THEN "" ELSE Listing[t].db

LEMMA SelectsIs == ASSUME Basics, Selects
  PROVE /\ seen' = seen /\ Settled /\ page.rev # 0 /\ Others'
        /\ Shape(page') /\ LoadOK(page') /\ page'.timer = <<>> /\ page'.late = page.late
        /\ page'.rev = page.rev /\ page'.list = page.list /\ page'.started = page.started
        /\ page'.restored = page.restored /\ page'.stored = page.stored /\ page'.url = page.url
        /\ page'.fields = page.fields /\ page'.fieldsAsked = page.fieldsAsked /\ page'.trees = page.trees
        /\ page'.inst = page.inst => page'.shown = page.shown
        /\ page'.shown \in {page.shown, {}}
        /\ IF page'.inst = page.inst /\ page'.db = page.db
           THEN page'.tid = page.tid /\ page'.logs = page.logs /\ page'.charts = page.charts /\ Active(page') = Active(page)
           ELSE page'.tid = 0 /\ page'.logs = NoRows /\ page'.charts = NoRows /\ Active(page') = {}
        /\ \E t \in Tables : Turns(t)
<1>1. PICK w, t : t \in Tables /\ SelectsBy(w, t)
  BY DEF Selects
<1>2. /\ Shape(w) /\ w.rev = page.rev /\ w.list = page.list /\ w.started = page.started /\ w.restored = page.restored
      /\ w.stored = page.stored /\ w.url = page.url /\ w.fields = page.fields /\ w.fieldsAsked = page.fieldsAsked
      /\ w.trees = page.trees /\ w.inst = page.inst /\ w.db = page.db /\ w.tbl = page.tbl /\ w.tid = page.tid
      /\ w.shown = page.shown /\ w.target = page.target /\ w.logs = page.logs /\ w.charts = page.charts
      /\ w.run = page.run /\ w.runs = page.runs /\ w.timer = <<>> /\ w.auto = page.auto /\ w.late = page.late
  BY <1>1 DEF SelectsBy, Only, Fields
<1>3. Active(w) = Active(page)
  BY <1>2 DEF Active
<1>4. /\ page'.rev = w.rev /\ page'.list = w.list /\ page'.started = w.started /\ page'.restored = w.restored
      /\ page'.stored = w.stored /\ page'.url = w.url /\ page'.fields = w.fields
      /\ page'.fieldsAsked = w.fieldsAsked /\ page'.trees = w.trees /\ page'.timer = w.timer /\ page'.late = w.late
      /\ Shape(page') /\ LoadOK(page')
  BY <1>1 DEF SelectsBy, Chosen, Only, Fields, Choice, Clearing
<1>5. /\ page'.inst = w.inst => page'.shown = w.shown
      /\ page'.shown \in {w.shown, {}}
      /\ IF page'.inst = w.inst /\ page'.db = w.db
         THEN page'.tid = w.tid /\ page'.logs = w.logs /\ page'.charts = w.charts /\ Active(page') = Active(w)
         ELSE page'.tid = 0 /\ page'.logs = NoRows /\ page'.charts = NoRows /\ Active(page') = {}
  BY <1>1 DEF SelectsBy, Chosen, Emptied
<1>6. Turns(t)
  BY <1>1, <1>2 DEF SelectsBy, Turns, Reaches
<1>. QED BY <1>1, <1>2, <1>3, <1>4, <1>5, <1>6 DEF Selects

\* What is due after it.
LEMMA SelectsDue == ASSUME Basics, Selects
  PROVE /\ ~InstanceDue /\ ~DatabaseDue /\ ~TableDue /\ ~InitialDue
        /\ InstanceDue' <=> page'.inst # page.inst
        /\ seen.tbl = page.tbl
        /\ DatabaseDue' <=> DatabaseDep(page') # DatabaseDep(page) \/ page'.inst # page.inst \/ page'.tbl # page.tbl
        /\ ~TableDue' => page'.inst = page.inst /\ page'.db = page.db
        /\ ~InitialDue' => page'.auto = page.auto
        /\ SeenTable' = SeenTable /\ Rev' = Rev /\ SeenTable = TableOf(page)
<1>1. /\ ~InstanceDue /\ ~DatabaseDue /\ ~TableDue /\ ~InitialDue /\ SeenTable = TableOf(page)
      /\ seen.inst = page.inst /\ seen.db = page.db /\ seen.tbl = page.tbl /\ seen.auto = page.auto
      /\ seen.database = DatabaseDep(page)
  BY SelectsIs, SettledIs
<1>2. seen' = seen /\ page'.rev = page.rev /\ seen.instance = <<page.rev, page.inst>>
  BY <1>1, SelectsIs DEF InstanceDue
<1>3. InstanceDue' <=> page'.inst # page.inst
  BY <1>2 DEF InstanceDue
<1>4. SeenTable' = SeenTable /\ Rev' = Rev
  BY <1>2 DEF SeenTable, Rev
<1>. QED BY <1>1, <1>2, <1>3, <1>4 DEF DatabaseDue, BaseDue, TableDue, InitialDue

\* Each part in turn.
LEMMA SelectsBasics == ASSUME Basics, Selects PROVE Basics'
<1>1. Typed(page) /\ LoadOK(page)
  BY TypedIs
<1>2. PICK t \in Tables : Turns(t)
  BY SelectsIs
<1>3. page'.inst \in Nat /\ Listing[t].db \in DbNames /\ "" \in DbNames /\ Listing[t].name \in TableNames /\ "" \in TableNames
  BY <1>2, ListingIs DEF Turns, DbNames, TableNames
<1>4. page'.db \in DbNames
  BY <1>1, <1>2, <1>3 DEF Typed, Turns
<1>5. page'.tbl \in TableNames
  BY <1>1, <1>2, <1>3 DEF Typed, Turns
<1>6. page'.target \in Goto
  <2>1. NoTarget \in Goto
    BY DEF NoTarget, Goto, Texts, DbNames, TableNames
  <2>. QED BY <1>1, <1>2, <2>1 DEF Typed, Turns
<1>7. page'.tid \in Texts /\ page'.shown \subseteq Tables
  BY <1>1, SelectsIs DEF Typed, Texts
<1>8. page'.logs \in Row /\ page'.charts \in Row
  <2>1. NoRows \in Row
    BY DEF NoRows, Row, Texts
  <2>. QED BY <1>1, <2>1, SelectsIs DEF Typed
<1>9. Typed(page')
  BY <1>1, <1>2, <1>3, <1>4, <1>5, <1>6, <1>7, <1>8, SelectsIs DEF Typed, Turns
<1>. QED BY <1>9, SelectsIs, TypedNext

LEMMA SelectsSel == ASSUME Basics, DbInv, SelInv, Selects PROVE DbInv' /\ SelInv'
<1>1. page'.list = page.list /\ page'.rev = page.rev /\ seen' = seen /\ Late' = Late
  BY SelectsIs DEF Late
<1>2. page'.inst = page.inst /\ page'.db = page.db => (HasDb(page') <=> HasDb(page)) /\ Names(page') = Names(page)
  BY <1>1, SameNames
<1>3. DbInv'
  <2>1. SUFFICES ASSUME page'.inst = page.inst PROVE DbInv'
    BY SelectsDue DEF DbInv
  <2>2. page'.shown \subseteq page'.list
    BY <2>1, SelectsIs, SelectsDue DEF DbInv
  <2>3. PICK t \in Tables : Turns(t)
    BY SelectsIs
  <2>4. page'.db = Listing[t].db => HasDb(page')
    BY <2>3 DEF Turns, HasDb
  <2>5. page'.db = page.db => page'.db = "" \/ HasDb(page') \/ Late'
    BY <1>1, <1>2, <2>1, SelectsDue DEF DbInv
  <2>. QED BY <2>2, <2>3, <2>4, <2>5 DEF DbInv, Turns
<1>4. ASSUME ~DatabaseDue', ~Late PROVE NamedHere'
  <2>1. page'.inst = page.inst /\ page'.tbl = page.tbl /\ DatabaseDep(page') = DatabaseDep(page)
    BY <1>4, SelectsDue
  <2>2. IF HasDb(page) THEN page.tbl \in Names(page) \/ (Names(page) = {} /\ page.tbl = "") ELSE page.tbl = ""
    BY <1>4, SelectsDue DEF SelInv, NamedHere
  <2>3. (HasDb(page') <=> HasDb(page)) /\ (HasDb(page) => page'.db = page.db)
    BY <2>1 DEF DatabaseDep
  <2>. QED BY <1>2, <2>1, <2>2, <2>3 DEF NamedHere
<1>5. page'.tid \in {0, SeenTable} /\ (~TableDue' /\ ~Late => page'.tid = SeenTable)
  BY SelectsIs, SelectsDue DEF SelInv
<1>6. SelInv'
  BY <1>1, <1>4, <1>5, SelectsDue DEF SelInv
<1>. QED BY <1>3, <1>6

LEMMA SelectsOpen == ASSUME Basics, InstInv, OpenInv, StartInv, Selects PROVE InstInv' /\ OpenInv' /\ StartInv'
<1>1. PICK t \in Tables : Turns(t)
  BY SelectsIs
<1>2. InstInv'
  <2>1. Dbs(page'.inst) # {}
    BY <1>1 DEF Turns, Dbs
  <2>. QED BY <2>1, SelectsIs DEF InstInv
<1>3. OpenInv'
  <2>1. NoTarget.inst = 0
    BY DEF NoTarget
  <2>. QED BY <1>1, <2>1, SelectsIs DEF OpenInv, Turns
<1>4. page'.tid # 0 /\ page'.auto.id = 0 => page'.started # 0
  <2>1. ASSUME page'.tid # 0, page'.auto.id = 0 PROVE page.tid # 0 /\ page.auto.id = 0
    BY <1>1, <2>1, SelectsIs, ListingIs DEF Turns
  <2>. QED BY <2>1, SelectsIs, SelectsDue DEF StartInv
<1>. QED BY <1>2, <1>3, <1>4 DEF StartInv

LEMMA SelectsRes == ASSUME Basics, ResInv, Selects PROVE ResInv'
<1>1. \A x : Excused(x)' <=> Excused(x)
  BY SelectsIs DEF Excused
<1>2. CASE page'.inst = page.inst /\ page'.db = page.db
  <2>1. /\ page'.tid = page.tid /\ page'.logs = page.logs /\ page'.charts = page.charts /\ Active(page') = Active(page)
    BY <1>2, SelectsIs
  <2>. QED BY <1>1, <2>1, SelectsIs, SelectsDue DEF ResInv, DatabaseDue, Late
<1>3. CASE ~(page'.inst = page.inst /\ page'.db = page.db)
  <2>1. page'.logs = NoRows /\ page'.charts = NoRows /\ Active(page') = {} /\ NoRows.id = 0
    BY <1>3, SelectsIs DEF NoRows
  <2>. QED BY <2>1 DEF ResInv
<1>. QED BY <1>2, <1>3

LEMMA SelectsRest == ASSUME Basics, SeenInv, FieldsInv, TabsInv, AutoInv, Selects
  PROVE TimerInv' /\ SeenInv' /\ FieldsInv' /\ TabsInv' /\ AutoInv'
<1>1. TimerInv'
  BY SelectsIs DEF TimerInv
<1>2. FieldsInv' /\ TabsInv'
  BY SelectsIs DEF FieldsInv, TabsInv
<1>3. ~SeenMatch
  BY SelectsIs, SettledIs DEF AutoInv
<1>4. AutoInv'
  <2>1. SeenMatch' <=> SeenMatch
    BY SelectsIs DEF SeenMatch
  <2>. QED BY <1>3, <2>1 DEF AutoInv
<1>5. SeenInv'
  <2>1. TableNamed(page', seen.inst, seen.db, seen.tbl) = TableNamed(page, seen.inst, seen.db, seen.tbl)
    BY SelectsIs DEF TableNamed, TablesIn
  <2>2. HasDb(seen') <=> HasDb(seen)
    BY SelectsIs
  <2>. QED BY <2>1, <2>2, SelectsIs, SelectsDue DEF SeenInv
<1>. QED BY <1>1, <1>2, <1>4, <1>5

\* No two instances have a database of the same name.
DistinctDatabases == \A t, x \in Tables : Listing[t].db = Listing[x].db => Listing[t].inst = Listing[x].inst

\* The table clicked is selected at once, but for the early return of setSelectedDatabase.
LEMMA SelectsGoal == ASSUME DistinctDatabases, Basics, DbInv, Selects PROVE GoalInv'
<1>0. SUFFICES ASSUME ~Late PROVE GoalInv'
  BY SelectsIs DEF GoalInv, Late
<1>1. PICK t \in Tables : Turns(t)
  BY SelectsIs
<1>2. page'.list = page.list /\ 0 \notin page.list
  <2>1. page.list \subseteq Tables
    BY TypesOfPage DEF Basics
  <2>. QED BY <2>1, ListingIs, SelectsIs
<1>3. ASSUME Listing[t].db = page.db PROVE Listing[t].inst = page.inst
  <2>1. HasDb(page)
    BY <1>0, <1>3, ListingIs, SelectsDue DEF DbInv
  <2>. QED BY <1>3, <2>1 DEF DistinctDatabases, HasDb
<1>4. ASSUME goal' \in page'.list
      PROVE  /\ page'.inst = Listing[goal'].inst /\ page'.target = NoTarget
             /\ page'.db = Listing[goal'].db /\ page'.tbl = Listing[goal'].name
  BY <1>1, <1>2, <1>3, <1>4 DEF Turns
<1>5. TargetOf(goal') # NoTarget \/ goal' \notin page'.list
  <2>1. ASSUME goal' \in page'.list PROVE Listing[goal'].inst # 0
    BY <1>1, <1>2, <1>4, <2>1, ListingIs DEF Turns
  <2>2. TargetOf(goal').inst = Listing[goal'].inst /\ NoTarget.inst = 0
    BY DEF TargetOf, NoTarget
  <2>. QED BY <2>1, <2>2
<1>. QED BY <1>4, <1>5 DEF GoalInv

-----------------------------------------------------------------------------
(***************************************************************************)
(* A late timer keeps the invariant.                                       *)
(***************************************************************************)
\* The timer of a closed tab that overrules a later list.
LEMMA OverrulesIs == ASSUME Overrules
  PROVE /\ seen' = seen /\ Shape(page') /\ Late' = TRUE
        /\ page'.rev = page.rev /\ page'.list = page.list /\ page'.started = page.started
        /\ page'.restored = page.restored /\ page'.stored = page.stored /\ page'.url = page.url
        /\ page'.fields = page.fields /\ page'.fieldsAsked = page.fieldsAsked /\ page'.trees = page.trees
        /\ page'.tid \in {0, page.tid}
        /\ SeenTable' = SeenTable /\ Rev' = Rev
<1>1. /\ page'.rev = page.rev /\ page'.list = page.list /\ page'.started = page.started
      /\ page'.restored = page.restored /\ page'.stored = page.stored /\ page'.url = page.url
      /\ page'.fields = page.fields /\ page'.fieldsAsked = page.fieldsAsked /\ page'.trees = page.trees
      /\ Shape(page')
  BY DEF Overrules, Only, Fields, Choice, Clearing
<1>2. page'.tid \in {0, page.tid}
  BY DEF Overrules, Emptied
<1>3. seen' = seen /\ Late' = TRUE
  BY DEF Overrules, Late
<1>4. SeenTable' = SeenTable /\ Rev' = Rev
  BY <1>3 DEF SeenTable, Rev
<1>. QED BY <1>1, <1>2, <1>3, <1>4

LEMMA OverrulesBasics == ASSUME Basics, Overrules PROVE Basics'
<1>1. Typed(page)
  BY TypedIs
<1>2. /\ LoadOK(page') /\ Others' /\ page'.late = TRUE
      /\ page'.kept \in Kept /\ page'.restore \in Texts /\ page'.text \in Texts /\ page'.auto \in Query
      /\ page'.inst = page.inst \/ page'.inst \in Nat
      /\ page'.db \in DbNames /\ page'.tbl \in TableNames /\ page'.target \in {page.target, NoTarget}
      /\ page'.shown \in {page.shown, {}}
      /\ Emptied(page') \/ (page'.logs = page.logs /\ page'.charts = page.charts)
  BY DEF Overrules
<1>3. page'.logs \in Row /\ page'.charts \in Row /\ page'.target \in Goto
  <2>1. NoRows \in Row /\ NoTarget \in Goto
    BY DEF NoRows, NoTarget, Row, Goto, Texts, DbNames, TableNames
  <2>. QED BY <1>1, <1>2, <2>1 DEF Typed, Emptied
<1>4. page'.tid \in Texts /\ page'.shown \subseteq Tables /\ page'.inst \in Nat
  BY <1>1, <1>2, OverrulesIs DEF Typed, Texts
<1>5. Typed(page')
  BY <1>1, <1>2, <1>3, <1>4, OverrulesIs DEF Typed
<1>. QED BY <1>2, <1>5, OverrulesIs, TypedNext

LEMMA OverrulesSel == ASSUME Basics, InstInv, DbInv, SelInv, Overrules
  PROVE InstInv' /\ DbInv' /\ SelInv' /\ OpenInv' /\ TimerInv' /\ GoalInv'
<1>1. InstInv'
  BY OverrulesIs DEF Overrules, InstInv
<1>2. DbInv'
  <2>1. CASE page'.inst = page.inst
    <3>1. (InstanceDue' <=> InstanceDue) /\ page'.shown \in {page.shown, {}}
      BY <2>1, OverrulesIs DEF Overrules, InstanceDue
    <3>. QED BY <3>1, OverrulesIs DEF DbInv
  <2>2. CASE page'.inst # page.inst
    BY <2>2, OverrulesIs DEF Overrules, DbInv
  <2>. QED BY <2>1, <2>2
<1>3. SelInv'
  BY OverrulesIs DEF SelInv
<1>4. OpenInv'
  BY OverrulesIs DEF Overrules, OpenInv
<1>5. TimerInv' /\ GoalInv'
  BY OverrulesIs DEF Overrules, TimerInv, GoalInv
<1>. QED BY <1>1, <1>2, <1>3, <1>4, <1>5

LEMMA OverrulesRest == ASSUME Basics, SeenInv, FieldsInv, TabsInv, AutoInv, StartInv, Overrules
  PROVE SeenInv' /\ FieldsInv' /\ TabsInv' /\ AutoInv' /\ StartInv'
<1>1. FieldsInv' /\ TabsInv'
  BY OverrulesIs DEF FieldsInv, TabsInv
<1>2. SeenMatch' <=> SeenMatch
  BY OverrulesIs DEF SeenMatch
<1>3. page'.auto = page.auto \/ (page'.auto.id # 0 /\ page'.auto # seen.auto)
  BY DEF Overrules
<1>4. AutoInv'
  BY <1>2, <1>3, OverrulesIs DEF AutoInv
<1>5. ASSUME page'.tid # 0, page'.auto.id = 0, ~InitialDue' PROVE page'.started # 0
  <2>1. page'.tid = page.tid /\ page'.auto = page.auto
    BY <1>3, <1>5, OverrulesIs
  <2>. QED BY <1>5, <2>1, OverrulesIs DEF StartInv, InitialDue
<1>6. StartInv'
  BY <1>5, OverrulesIs DEF Overrules, StartInv
<1>7. SeenInv'
  <2>1. TableNamed(page', seen.inst, seen.db, seen.tbl) = TableNamed(page, seen.inst, seen.db, seen.tbl)
    BY OverrulesIs DEF TableNamed, TablesIn
  <2>2. HasDb(seen') <=> HasDb(seen)
    BY OverrulesIs
  <2>. QED BY <2>1, <2>2, OverrulesIs DEF SeenInv
<1>. QED BY <1>1, <1>4, <1>6, <1>7

LEMMA OverrulesRes == ASSUME Basics, ResInv, Overrules PROVE ResInv'
<1>1. \A x : Excused(x)' <=> Excused(x)
  BY OverrulesIs DEF Excused
<1>2. CASE Emptied(page')
  <2>1. page'.logs = NoRows /\ page'.charts = NoRows /\ Active(page') = {} /\ NoRows.id = 0
    BY <1>2 DEF Emptied, NoRows
  <2>. QED BY <2>1 DEF ResInv
<1>3. CASE /\ page'.inst = page.inst /\ page'.db = page.db /\ page'.tid = page.tid
           /\ page'.logs = page.logs /\ page'.charts = page.charts /\ Active(page') = Active(page)
  <2>1. DatabaseDep(page') = DatabaseDep(page)
    BY <1>3, OverrulesIs, SameNames DEF DatabaseDep
  <2>2. (InstanceDue' <=> InstanceDue) /\ (BaseDue' <=> BaseDue)
    BY <1>3, <2>1, OverrulesIs DEF InstanceDue, BaseDue
  <2>. QED BY <1>1, <1>3, <2>2, OverrulesIs DEF ResInv
<1>. QED BY <1>2, <1>3 DEF Overrules

-----------------------------------------------------------------------------
(***************************************************************************)
(* A page that has just opened, and the theorems.                          *)
(***************************************************************************)
\* A page that has just opened.
LEMMA AnewIs == ASSUME Anew PROVE Inv /\ GoalInv
<1>1. /\ page.rev = 0 /\ page.list = {} /\ page.shown = {} /\ page.inst = 0 /\ page.db = "" /\ page.tbl = "" /\ page.tid = 0
      /\ page.auto = NoQuery /\ page.logs = NoRows /\ page.charts = NoRows /\ page.fields = 0 /\ page.fieldsAsked = 0
      /\ page.target = NoTarget /\ page.restored = FALSE /\ page.late = FALSE /\ page.timer = <<>> /\ page.runs = {} /\ page.started = 0
      /\ \A x \in page.trees : x.inst = 0
  BY DEF Anew, Fresh
<1>2. Basics
  BY TypedIs DEF Anew, Fresh
<1>3. TableOf(page) = 0
  BY <1>1, <1>2, ListedIs
<1>4. Settled /\ seen = Deps(page)
  BY DEF Anew, Settled
<1>5. /\ ~InstanceDue /\ ~DatabaseDue /\ ~TableDue /\ ~InitialDue /\ ~AutoDue
      /\ seen.inst = page.inst /\ seen.db = page.db /\ seen.tbl = page.tbl /\ seen.tid = page.tid /\ seen.auto = page.auto
      /\ seen.table = TableDep(page) /\ seen.database = DatabaseDep(page) /\ SeenTable = 0
  BY <1>3, <1>4, SettledIs
<1>6. ~HasDb(page) /\ ~HasDb(seen)
  BY <1>1, <1>5, ListingIs DEF HasDb
<1>7. TimerInv /\ InstInv /\ DbInv /\ FieldsInv /\ TabsInv /\ OpenInv /\ StartInv
  <2>1. TimerInv
    BY <1>1 DEF TimerInv
  <2>2. InstInv
    BY <1>1 DEF InstInv
  <2>3. DbInv
    BY <1>1 DEF DbInv
  <2>4. FieldsInv
    BY <1>1, <1>5 DEF FieldsInv
  <2>5. TabsInv
    BY <1>1 DEF TabsInv
  <2>6. OpenInv
    <3>1. page.rev = 0
      BY <1>1
    <3>2. page.rev # 1
      BY <3>1
    <3>. QED BY <1>1, <3>2, Zenon DEF OpenInv
  <2>7. StartInv
    BY <1>1, <1>5 DEF StartInv
  <2>. QED BY <2>1, <2>2, <2>3, <2>4, <2>5, <2>6, <2>7
<1>8. SeenInv
  <2>1. seen.instance = <<page.rev, page.inst>>
    BY <1>5 DEF InstanceDue
  <2>2. Rev = 0
    <3>1. Rev = page.rev
      BY <2>1 DEF Rev
    <3>. QED BY <1>1, <3>1
  <2>3. seen.table = <<>> /\ seen.database = <<>>
    BY <1>3, <1>5, <1>6 DEF TableDep, DatabaseDep
  <2>4. TableNamed(page, seen.inst, seen.db, seen.tbl) = TableOf(page)
    BY <1>5 DEF TableOf
  <2>5. Rev \in Nat /\ Rev <= page.rev /\ seen.instance = <<Rev, seen.inst>>
    <3>1. page.rev = 0
      BY <1>1
    <3>2. Rev \in Nat /\ Rev <= page.rev
      BY <2>2, <3>1
    <3>. QED BY <1>5, <2>1, <2>2, <3>1, <3>2
  <2>6. SeenTable = TableNamed(page, seen.inst, seen.db, seen.tbl)
    BY <1>3, <1>5, <2>4
  <2>. QED BY <1>6, <2>3, <2>5, <2>6 DEF SeenInv
<1>9. SelInv
  BY <1>1, <1>5, <1>6 DEF SelInv, NamedHere
<1>10. ResInv /\ AutoInv
  <2>0. NoRows.id = 0 /\ NoQuery.id = 0
    BY DEF NoRows, NoQuery
  <2>1. page.logs.id = 0 /\ page.charts.id = 0
    BY <1>1, <2>0, Zenon
  <2>2. Active(page) = {}
    BY <1>1 DEF Active
  <2>3. ResInv
    BY <2>1, <2>2 DEF ResInv
  <2>4. seen.auto.id = 0
    BY <1>1, <1>5, <2>0, Zenon
  <2>5. AutoInv
    BY <2>4 DEF AutoInv, SeenMatch
  <2>. QED BY <2>3, <2>5
<1>11. GoalInv
  BY <1>1 DEF GoalInv
<1>. QED BY <1>2, <1>7, <1>8, <1>9, <1>10, <1>11 DEF Inv

LEMMA AnewNext == Anew' => Inv' /\ GoalInv'
BY AnewIs, PTL

\* The invariant is inductive.
LEMMA InvNext == ASSUME Inv, [Next]_vars PROVE Inv'
<1>. USE DEF Inv
<1>1. CASE Committed
  <2>1. Moves
    BY <1>1, CommittedIs
  <2>. QED BY <2>1, MovesBasics, MovesTimer, MovesInst, MovesDb, MovesSeen, MovesSel, MovesFields, MovesTabs, MovesOpen,
              MovesStart, MovesRes, MovesAuto
<1>2. CASE Selects
  BY <1>2, SelectsBasics, SelectsSel, SelectsOpen, SelectsRes, SelectsRest
<1>3. CASE Lists
  BY <1>3, ListsBasics, ListsSel, ListsOpen, ListsRest
<1>4. CASE Stays
  BY <1>4, StaysBasics, StaysTimer, StaysOpen, StaysSeen, StaysSel, StaysFields, StaysRes
<1>5. CASE Anew'
  BY <1>5, AnewNext
<1>6. CASE Overrules
  BY <1>6, OverrulesBasics, OverrulesSel, OverrulesRest, OverrulesRes
<1>. QED BY <1>1, <1>2, <1>3, <1>4, <1>5, <1>6, StepIs

\* So is the part about the table asked for, with DistinctDatabases.
LEMMA GoalNext == ASSUME DistinctDatabases, Inv, GoalInv, [Next]_vars PROVE GoalInv'
<1>1. CASE Committed
  <2>1. Moves
    BY <1>1, CommittedIs DEF Inv
  <2>. QED BY <2>1, MovesGoal DEF Inv
<1>2. CASE Selects
  BY <1>2, SelectsGoal DEF Inv
<1>3. CASE Lists
  BY <1>3, ListsGoal DEF Inv
<1>4. CASE Stays
  BY <1>4, StaysGoal DEF Inv
<1>5. CASE Anew'
  BY <1>5, AnewNext
<1>6. CASE Overrules
  BY <1>6, OverrulesSel DEF Inv
<1>. QED BY <1>1, <1>2, <1>3, <1>4, <1>5, <1>6, StepIs DEF Inv

\* The inductive invariant: whatever the selection lacks, an effect is due that puts it right.
THEOREM PageInvariant == Spec => []Inv
<1>1. Init => Inv
  BY Inits, AnewIs
<1>2. Inv /\ [Next]_vars => Inv'
  BY InvNext
<1>. QED BY <1>1, <1>2, PTL DEF Spec

\* Page, requests and what the browser stores keep their shape.
THEOREM TypeCorrect == Spec => []TypeOK
<1>1. Inv => TypeOK
  BY DEF Inv, Basics
<1>. QED BY <1>1, PageInvariant, PTL

\* The page says that it is loading exactly while a run is out that was not cancelled, whatever is
\* selected, cancelled or answered meanwhile.
THEOREM LoadingTrue == Spec => []LoadingIsTrue
<1>1. ASSUME Inv PROVE LoadingIsTrue
  <2>1. /\ page.runs \subseteq RunRec
        /\ page.run = 0 => page.loading = FALSE
        /\ page.run # 0 => page.loading = TRUE /\ \E r \in page.runs : r.id = page.run /\ ~r.aborted
    BY <1>1 DEF Inv, Basics, LoadOK
  <2>2. page.run = 0 => \A r \in page.runs : r.id # page.run
    BY <2>1, RunRecIs
  <2>. QED BY <2>1, <2>2, Zenon DEF LoadingIsTrue, Accepted
<1>. QED BY <1>1, PageInvariant, PTL

\* The effects end with the id of the table that instance, database and name select, and with a table
\* selected where there is one, from every state that a list, a click or a reload leaves; after a timer
\* that came later than a list, the id may be missing.
THEOREM SelectionHolds == Spec => []SelectionAgrees
<1>1. ASSUME Inv PROVE SelectionAgrees
  <2>. SUFFICES ASSUME Settled
               PROVE  /\ page.tid \in {0, TableOf(page)}
                      /\ page.tid = 0 => page.late \/ TablesIn(page, page.inst, page.db) = {}
    BY DEF SelectionAgrees
  <2>1. page.tid \in {0, TableOf(page)} /\ (~Late => page.tid = TableOf(page))
    BY <1>1, SettledIs DEF Inv, SelInv
  <2>2. ASSUME page.tid = 0, ~Late PROVE TablesIn(page, page.inst, page.db) = {}
    <3>1. page.list \subseteq Tables /\ page.tbl \notin Names(page)
      BY <1>1, <2>1, <2>2, ListedIs, TypesOfPage DEF Inv, Basics
    <3>2. TablesIn(page, page.inst, page.db) # {} => HasDb(page) /\ Names(page) # {}
      BY <3>1 DEF TablesIn, Names, HasDb
    <3>. QED BY <1>1, <2>2, <3>1, <3>2, SettledIs DEF Inv, SelInv, NamedHere
  <2>. QED BY <2>1, <2>2 DEF Late
<1>. QED BY <1>1, PageInvariant, PTL

\* Rows and histogram are of the selected table, however late the answers come; the first query on a
\* later list is left out, and so is a page that a late timer left without an id.
THEOREM ResultsBelong == Spec => []ResultsOfSelection
<1>1. ASSUME Inv PROVE ResultsOfSelection
  BY <1>1, SettledIs DEF Inv, ResInv, Excused, ResultsOfSelection, DatabaseDue, Late
<1>. QED BY <1>1, PageInvariant, PTL

\* Fields of another table are shown only until the answer asked for arrives.
THEOREM FieldsBelong == Spec => []FieldsOfSelection
<1>1. ASSUME Inv PROVE FieldsOfSelection
  BY <1>1, SettledIs DEF Inv, FieldsInv, FieldsOfSelection
<1>. QED BY <1>1, PageInvariant, PTL

\* The stored tabs are the ones on the page.
THEOREM TabsStored == Spec => []TabsAreStored
<1>1. ASSUME Inv PROVE TabsAreStored
  <2>1. ASSUME Settled, page.restored PROVE page.stored = Pairs(ValidTabs(page))
    <3>1. seen.valid = <<page.restored, ValidTabs(page)>>
      BY <2>1, SettledIs
    <3>. QED BY <1>1, <2>1, <3>1 DEF Inv, TabsInv
  <2>. QED BY <2>1 DEF TabsAreStored, Pairs
<1>. QED BY <1>1, PageInvariant, PTL

\* The table last picked, refreshed to or named by the address is selected and queried, when no two
\* instances have a database of the same name and no timer of a closed tab came later than the list.
THEOREM GoalSelected == ASSUME DistinctDatabases PROVE Spec => []GoalIsSelected
<1>1. Init => Inv /\ GoalInv
  BY Inits, AnewIs
<1>2. Inv /\ GoalInv /\ [Next]_vars => Inv' /\ GoalInv'
  BY InvNext, GoalNext
<1>3. ASSUME Inv, GoalInv PROVE GoalIsSelected
  <2>. SUFFICES ASSUME Settled, ~Late, goal \in page.list PROVE page.tid = goal /\ page.auto.id # goal
    BY DEF GoalIsSelected, Late
  <2>1. page.inst = Listing[goal].inst /\ page.db = Listing[goal].db /\ page.tbl = Listing[goal].name
    BY <1>3, SettledIs DEF GoalInv
  <2>2. page.tid = goal /\ goal # 0
    <3>1. page.tid = TableOf(page)
      BY <1>3, SettledIs DEF Inv, SelInv
    <3>2. page.list \subseteq Tables
      BY <1>3, TypesOfPage DEF Inv, Basics
    <3>. QED BY <1>3, <2>1, <3>1, <3>2, ListedIs, ListingIs DEF Inv
  <2>3. page.auto.id # goal
    BY <1>3, <2>1, <2>2, SettledIs DEF Inv, AutoInv, SeenMatch
  <2>. QED BY <2>2, <2>3
<1>. QED BY <1>1, <1>2, <1>3, PTL DEF Spec
=============================================================================
