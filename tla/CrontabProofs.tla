----------------------------- MODULE CrontabProofs -----------------------------
(***************************************************************************)
(* Theorems about CrontabWorker, for every number of replicas, nodes, rows *)
(* of a node, schedules and requests.  That a row in doing is run needs    *)
(* nothing of the lock, the order of the requests and their places in the  *)
(* rounds: the inductive invariant, DoingInv, says which cron or which     *)
(* request answers for a node with such a row.                             *)
(***************************************************************************)
EXTENDS CrontabWorker, TLAPS

Budget == [stops : 0 .. MaxStops, starts : 0 .. MaxStarts, faults : 0 .. MaxFaults]

LEMMA SpendType ==
    ASSUME budget \in Budget, NEW what \in {"stops", "starts", "faults"}, Spend(what)
    PROVE  /\ budget' \in Budget
           /\ budget[what] > 0 /\ budget'[what] = budget[what] - 1
           /\ \A x \in {"stops", "starts", "faults"} : x # what => budget'[x] = budget[x]
<1>1. what = "stops" \/ what = "starts" \/ what = "faults"
  OBVIOUS
<1>. QED
  BY <1>1, BoundsAssumption DEF Spend, Budget

LEMMA NoRowType == NoRow \in RowState /\ ~NoRow.exists /\ NoRow.status = "wait" /\ NoRows \in [Slot -> RowState]
<1>1. (CHOOSE s \in Schedule : TRUE) \in Schedule
  BY ScheduleAssumption
<1>. QED
  BY <1>1 DEF NoRow, NoRows, RowState

LEMMA NewRowType ==
    ASSUME NEW typ \in {"normal", "suspended"}, NEW spec \in Schedule
    PROVE  NewRow(typ, spec) \in RowState /\ NewRow(typ, spec).status = "wait"
  BY DEF NewRow, RowState

\* A row is inserted at a free place.
LEMMA InsertedType ==
    ASSUME NEW rows \in [Slot -> RowState], Free(rows) # {}, NEW new \in RowState
    PROVE  /\ Inserted(rows, new) \in [Slot -> RowState]
           /\ \A c \in Slot : Inserted(rows, new)[c] \in {rows[c], new}
<1>. DEFINE d == CHOOSE c \in Free(rows) : TRUE
<1>1. d \in Slot
  BY DEF Free
<1>2. Inserted(rows, new) = [rows EXCEPT ![d] = new]
  BY DEF Inserted
<1>. HIDE DEF d
<1>. QED
  BY <1>1, <1>2

\* Every row there is waits at first.
LEMMA InitRows == Init => row \in [Node -> [Slot -> RowState]] /\ \A n \in Node, c \in Slot : row[n][c].status = "wait"
<1>. SUFFICES ASSUME Init
              PROVE  row \in [Node -> [Slot -> RowState]] /\ \A n \in Node, c \in Slot : row[n][c].status = "wait"
  OBVIOUS
<1>. DEFINE first == {NoRows} \cup {Inserted(NoRows, NewRow("normal", s)) : s \in Schedule}
<1>1. ASSUME NEW x \in first
      PROVE  x \in [Slot -> RowState] /\ \A c \in Slot : x[c].status = "wait"
  <2>1. \A c \in Slot : NoRows[c] = NoRow
    BY DEF NoRows
  <2>2. CASE x = NoRows
    BY <2>1, <2>2, NoRowType
  <2>3. ASSUME NEW s \in Schedule, x = Inserted(NoRows, NewRow("normal", s))
        PROVE  x \in [Slot -> RowState] /\ \A c \in Slot : x[c].status = "wait"
    <3>1. NewRow("normal", s) \in RowState /\ NewRow("normal", s).status = "wait"
      BY NewRowType
    <3>2. Free(NoRows) # {}
      BY <2>1, NoRowType, SlotAssumption DEF Free
    <3>3. x \in [Slot -> RowState] /\ \A c \in Slot : x[c] \in {NoRows[c], NewRow("normal", s)}
      BY <2>3, <3>1, <3>2, NoRowType, InsertedType
    <3>. QED BY <2>1, <3>1, <3>3, NoRowType
  <2>. QED BY <2>2, <2>3
<1>2. row \in [Node -> first]
  BY DEF Init
<1>. HIDE DEF first
<1>. QED
  BY <1>1, <1>2

LEMMA InitType == Init => TypeOK
<1>. SUFFICES ASSUME Init PROVE TypeOK
  OBVIOUS
<1>3. row \in [Node -> [Slot -> RowState]]
  BY InitRows
<1>4. cron \in [Replica -> [Node -> CronState]]
  BY DEF Init, NoCron, CronState
<1>5. Off \in LooperState /\ Asleep \in LooperState /\ Off.pc = "off" /\ Asleep.pc = "sleep"
  BY DEF Off, Asleep, LooperState
<1>6. looper \in [Replica -> LooperState] /\ \A r \in Replica : looper[r].pc \notin {"build", "store"}
  BY <1>5 DEF Init
<1>7. proc \in [Replica -> ProcState]
  BY DEF Init, Alive, ProcState
<1>8. req \in [Request -> RequestState] /\ \A q \in Request : ~Pending(q)
  BY DEF Init, Unsent, RequestState, Pending, Rewrites
<1>9. working \in SUBSET Replica
  BY DEF Init, Election!Init
<1>10. budget \in Budget
  <2>1. MaxStops \in 0 .. MaxStops /\ MaxStarts \in 0 .. MaxStarts /\ MaxFaults \in 0 .. MaxFaults
    BY BoundsAssumption
  <2>2. budget = [stops |-> MaxStops, starts |-> MaxStarts, faults |-> MaxFaults]
    BY DEF Init
  <2>. QED BY <2>1, <2>2 DEF Budget
<1>. QED
  BY <1>3, <1>4, <1>6, <1>7, <1>8, <1>9, <1>10 DEF TypeOK, Budget

\* An UPDATE changes the rows of its node, if there are any.
LEMMA UpdateType ==
    ASSUME TypeOK, NEW n \in Node, NEW new \in [Slot -> RowState], Update(n, new)
    PROVE  /\ row' \in [Node -> [Slot -> RowState]]
           /\ \A c \in Slot : row'[n][c] = IF row[n][c].exists THEN new[c] ELSE row[n][c]
           /\ \A m \in Node : m # n => row'[m] = row[m]
<1>. DEFINE rows == [c \in Slot |-> IF row[n][c].exists THEN new[c] ELSE row[n][c]]
<1>1. row' = [row EXCEPT ![n] = rows]
  BY DEF Update
<1>2. row \in [Node -> [Slot -> RowState]] /\ rows \in [Slot -> RowState]
  BY DEF TypeOK
<1>3. \A c \in Slot : rows[c] = IF row[n][c].exists THEN new[c] ELSE row[n][c]
  OBVIOUS
<1>. HIDE DEF rows
<1>. QED
  BY <1>1, <1>2, <1>3

\* What an update of the status does: it may fail, and it may find no row.
LEMMA StatusType ==
    ASSUME TypeOK, NEW n \in Node, NEW status \in {"wait", "preempt", "doing"}, SetStatus(n, status)
    PROVE  /\ row' \in [Node -> [Slot -> RowState]] /\ budget' \in Budget
           /\ \A m \in Node : m # n => row'[m] = row[m]
           /\ ~Spend("faults") => \A c \in Slot : row'[n][c].exists => row'[n][c].status = status
<1>1. row[n] \in [Slot -> RowState] /\ row \in [Node -> [Slot -> RowState]] /\ budget \in Budget
  BY DEF TypeOK, Budget
<1>2. CASE Update(n, [c \in Slot |-> [row[n][c] EXCEPT !.status = status]]) /\ UNCHANGED budget
  <2>. DEFINE x == [c \in Slot |-> [row[n][c] EXCEPT !.status = status]]
  <2>1. ASSUME NEW c \in Slot
        PROVE  [row[n][c] EXCEPT !.status = status] \in RowState /\ [row[n][c] EXCEPT !.status = status].status = status
    <3>1. row[n][c] \in RowState
      BY <1>1
    <3>. QED BY <3>1 DEF RowState
  <2>2. x \in [Slot -> RowState] /\ \A c \in Slot : x[c].status = status
    BY <2>1
  <2>3. Update(n, x) /\ UNCHANGED budget
    BY <1>2
  <2>. HIDE DEF x
  <2>4. /\ row' \in [Node -> [Slot -> RowState]]
        /\ \A c \in Slot : row'[n][c] = IF row[n][c].exists THEN x[c] ELSE row[n][c]
        /\ \A m \in Node : m # n => row'[m] = row[m]
    BY <2>2, <2>3, UpdateType
  <2>. QED BY <1>1, <2>2, <2>3, <2>4
<1>3. CASE Spend("faults") /\ UNCHANGED row
  BY <1>1, <1>3, SpendType
<1>. QED
  BY <1>2, <1>3 DEF SetStatus

\* What an insert does: it may fail.
LEMMA InsertType ==
    ASSUME TypeOK, NEW n \in Node, NEW new \in RowState, Insert(n, new)
    PROVE  /\ row' \in [Node -> [Slot -> RowState]] /\ budget' \in Budget
           /\ \A m \in Node : m # n => row'[m] = row[m]
           /\ \A c \in Slot : row'[n][c] \in {row[n][c], new}
<1>1. row[n] \in [Slot -> RowState] /\ row \in [Node -> [Slot -> RowState]] /\ budget \in Budget
  BY DEF TypeOK, Budget
<1>2. CASE Free(row[n]) # {} /\ row' = [row EXCEPT ![n] = Inserted(row[n], new)] /\ UNCHANGED budget
  <2>1. /\ Inserted(row[n], new) \in [Slot -> RowState]
        /\ \A c \in Slot : Inserted(row[n], new)[c] \in {row[n][c], new}
    BY <1>1, <1>2, InsertedType
  <2>. QED BY <1>1, <1>2, <2>1
<1>3. CASE Spend("faults") /\ UNCHANGED row
  BY <1>1, <1>3, SpendType
<1>. QED
  BY <1>2, <1>3 DEF Insert

\* The parts of the shape that a step of the looper leaves alone.
LEMMA LooperType ==
    ASSUME TypeOK, NEW r \in Replica, NEW s \in LooperState, Loop(r, s),
           s.pc \in {"build", "store"} => s.job \in Job,
           row' \in [Node -> [Slot -> RowState]], cron' \in [Replica -> [Node -> CronState]], budget' \in Budget,
           UNCHANGED <<proc, req, working>>
    PROVE  TypeOK'
<1>1. looper' = [looper EXCEPT ![r] = s]
  BY DEF Loop
<1>2. looper' \in [Replica -> LooperState]
      /\ \A v \in Replica : looper'[v].pc \in {"build", "store"} => looper'[v].job \in Job
  BY <1>1 DEF TypeOK
<1>. QED
  BY <1>2 DEF TypeOK, Budget, Pending, Rewrites

\* Storing or halting one cron keeps the others.
LEMMA CronType ==
    ASSUME TypeOK, NEW r \in Replica, NEW n \in Node, NEW c \in CronState, Cron(r, n, c)
    PROVE  /\ cron' \in [Replica -> [Node -> CronState]]
           /\ cron'[r][n] = c
           /\ \A s \in Replica, m \in Node : s # r \/ m # n => cron'[s][m] = cron[s][m]
  BY DEF TypeOK, Cron

\* What is left of an entry once it is stopped.
LEMMA StopType ==
    ASSUME TypeOK, NEW r \in Replica, NEW n \in Node, Stop(r, n)
    PROVE  /\ cron' \in [Replica -> [Node -> CronState]]
           /\ \A s \in Replica, m \in Node : s # r \/ m # n => cron'[s][m] = cron[s][m]
           /\ cron'[r][n].held \notin Schedule /\ cron'[r][n].strays = cron[r][n].strays
<1>. DEFINE h == Halted(cron[r][n].held)
            c == [cron[r][n] EXCEPT !.held = h]
<1>1. cron[r][n] \in CronState
  BY DEF TypeOK
<1>2. h \in {Nothing, Stopped} /\ h \notin Schedule
  BY <1>1, ScheduleAssumption DEF Halted, CronState
<1>3. Cron(r, n, c)
  BY DEF Stop
<1>. HIDE DEF h
<1>4. c \in CronState /\ c.held = h /\ c.strays = cron[r][n].strays
  BY <1>1, <1>2 DEF CronState
<1>. HIDE DEF c
<1>. QED
  BY <1>2, <1>3, <1>4, CronType

\* The places a round passes through.
LEMMA AfterType ==
    ASSUME NEW todo \in SUBSET Job
    PROVE  /\ After(todo) \in LooperState /\ After(todo).pc \in {"sleep", "mark"}
           /\ After(todo).todo = todo
  BY DEF After, Asleep, Off, LooperState

\* A step of the looper, as far as everybody else is concerned.
LEMMA RoundType ==
    ASSUME TypeOK, NEW r \in Replica, Round(r)
    PROVE  TypeOK'
<1>1. looper[r] \in LooperState /\ looper[r].todo \in SUBSET Job /\ budget \in Budget
  BY DEF TypeOK, LooperState, Budget
<1>2. CASE Fetch(r)
  <2>. DEFINE s == [looper[r] EXCEPT !.pc = "mark", !.todo = DueJobs]
  <2>1. DueJobs \in SUBSET Job
    BY DEF DueJobs
  <2>2. s \in LooperState /\ s.pc = "mark"
    BY <1>1, <2>1 DEF LooperState
  <2>3. Loop(r, s) /\ UNCHANGED <<row, cron, proc, req, working, budget>>
    BY <1>2 DEF Fetch
  <2>. HIDE DEF s
  <2>. QED BY <1>1, <2>2, <2>3, LooperType DEF TypeOK
<1>3. CASE MarkPreempt(r)
  <2>1. PICK job \in looper[r].todo :
          /\ Loop(r, [looper[r] EXCEPT !.pc = "build", !.job = job, !.todo = looper[r].todo \ {job}])
          /\ SetStatus(job.node, "preempt")
    BY <1>3 DEF MarkPreempt
  <2>. DEFINE rest == looper[r].todo \ {job}
              s == [looper[r] EXCEPT !.pc = "build", !.job = job, !.todo = rest]
  <2>2. job \in Job /\ job.node \in Node /\ rest \in SUBSET Job
    BY <1>1 DEF Job
  <2>3. s \in LooperState /\ s.job = job
    <3>. HIDE DEF rest
    <3>. QED BY <1>1, <2>2 DEF LooperState
  <2>4. Loop(r, s)
    BY <2>1
  <2>. HIDE DEF s
  <2>. QED BY <1>3, <2>1, <2>2, <2>3, <2>4, StatusType, LooperType DEF MarkPreempt, TypeOK
<1>4. ASSUME looper[r].pc \in {"build", "store"}
      PROVE  looper[r].job \in Job /\ looper[r].job.node \in Node /\ looper[r].job.spec \in Schedule
  <2>1. looper[r].job \in Job
    BY <1>4 DEF TypeOK
  <2>. QED BY <2>1 DEF Job
<1>5. CASE StartCron(r)
  <2>. DEFINE s == [looper[r] EXCEPT !.pc = "store"]
  <2>1. s \in LooperState /\ s.job = looper[r].job
    BY <1>1 DEF LooperState
  <2>2. Loop(r, s) /\ looper[r].pc = "build" /\ SetStatus(looper[r].job.node, "doing")
    BY <1>5 DEF StartCron
  <2>. HIDE DEF s
  <2>. QED BY <1>4, <1>5, <2>1, <2>2, StatusType, LooperType DEF StartCron, TypeOK
<1>6. CASE RefuseCron(r)
  <2>. DEFINE s == After(looper[r].todo)
  <2>1. s \in LooperState /\ s.pc \notin {"build", "store"}
    BY <1>1, AfterType
  <2>2. Loop(r, s) /\ looper[r].pc = "build" /\ SetStatus(looper[r].job.node, "wait")
    BY <1>6 DEF RefuseCron, LeftAfterError
  <2>. HIDE DEF s
  <2>. QED BY <1>4, <1>6, <2>1, <2>2, StatusType, LooperType DEF RefuseCron, TypeOK
<1>7. CASE Store(r)
  <2>. DEFINE s == After(looper[r].todo)
              n == looper[r].job.node
              x == cron[r][n].strays \cup ({cron[r][n].held} \cap Schedule)
              c == [held |-> looper[r].job.spec, strays |-> x]
  <2>1. s \in LooperState /\ s.pc \notin {"build", "store"}
    BY <1>1, AfterType
  <2>2. Loop(r, s) /\ Cron(r, n, c) /\ UNCHANGED <<row, proc, req, working, budget>>
    BY <1>7 DEF Store
  <2>3. c \in CronState /\ n \in Node
    <3>1. n \in Node /\ looper[r].job.spec \in Schedule
      BY <1>4, <1>7 DEF Store
    <3>2. cron[r][n] \in CronState
      BY <3>1 DEF TypeOK
    <3>3. x \in SUBSET Schedule
      BY <3>2 DEF CronState
    <3>. HIDE DEF n, x
    <3>. QED BY <3>1, <3>3 DEF CronState
  <2>. HIDE DEF s, c
  <2>. QED BY <1>1, <2>1, <2>2, <2>3, CronType, LooperType DEF TypeOK
<1>. QED
  BY <1>2, <1>3, <1>5, <1>6, <1>7 DEF Round

\* A step of a request.
LEMMA HandlerType ==
    ASSUME TypeOK, NEW q \in Request, Handle(q) \/ Answer(q)
    PROVE  TypeOK'
<1>. DEFINE Done == [Unsent EXCEPT !.pc = "done"]
<1>1. Done \in RequestState /\ Done.pc = "done"
  BY DEF Unsent, RequestState
<1>2. ASSUME NEW s \in RequestState, req' = [req EXCEPT ![q] = s],
             s.pc \in {"stop", "write", "insert"} => s.at \in Replica /\ s.node \in Node /\ s.spec \in Schedule,
             row' \in [Node -> [Slot -> RowState]], cron' \in [Replica -> [Node -> CronState]], budget' \in Budget,
             UNCHANGED <<looper, proc, working>>
      PROVE  TypeOK'
  <2>1. \A p \in Request : req'[p] = IF p = q THEN s ELSE req[p]
    BY <1>2 DEF TypeOK
  <2>2. req' \in [Request -> RequestState]
    BY <1>2 DEF TypeOK
  <2>. QED BY <1>2, <2>1, <2>2 DEF TypeOK, Budget, Pending, Rewrites
<1>3. ASSUME Answered(q), row' \in [Node -> [Slot -> RowState]], budget' \in Budget, UNCHANGED <<cron, looper, proc, working>>
      PROVE  TypeOK'
  <2>1. req' = [req EXCEPT ![q] = Done]
    BY <1>3 DEF Answered
  <2>. HIDE DEF Done
  <2>. QED BY <1>1, <1>2, <1>3, <2>1 DEF TypeOK
<1>4. budget \in Budget /\ row \in [Node -> [Slot -> RowState]] /\ req[q] \in RequestState
  BY DEF TypeOK, Budget
<1>5. ASSUME NEW r \in Replica, NEW n \in Node, NEW typ \in {"normal", "suspended"}, NEW spec \in Schedule,
             Create(q, r, n, typ, spec) \/ UpdateRead(q, r, n, typ, spec) \/ UpdateFindsNone(q, r, n, typ, spec)
      PROVE  TypeOK'
  <2>1. CASE Create(q, r, n, typ, spec)
    <3>1. row' \in [Node -> [Slot -> RowState]] /\ budget' \in Budget
      BY <2>1, NewRowType, InsertType DEF Create
    <3>. QED BY <1>3, <2>1, <3>1 DEF Create
  <2>2. ASSUME NEW pc \in {"stop", "write", "insert"}, NEW b \in BOOLEAN, Continues(q, pc, r, n, typ, spec, b),
               budget' \in Budget, UNCHANGED <<row, cron, looper, proc, working>>
        PROVE  TypeOK'
    <3>. DEFINE s == [pc |-> pc, at |-> r, node |-> n, typ |-> typ, spec |-> spec, waits |-> b]
    <3>1. req' = [req EXCEPT ![q] = s]
      BY <2>2 DEF Continues
    <3>2. s \in RequestState /\ s.at = r /\ s.node = n /\ s.spec = spec
      BY DEF RequestState
    <3>. HIDE DEF s
    <3>. QED BY <1>2, <1>4, <2>2, <3>1, <3>2 DEF TypeOK
  <2>3. CASE UpdateRead(q, r, n, typ, spec)
    <3>1. PICK c \in Slot :
            LET b == Stops(row[n][c], typ, spec)
            IN  Continues(q, IF b THEN "stop" ELSE "write", r, n, typ, spec, b)
      BY <2>3 DEF UpdateRead
    <3>. DEFINE b == Stops(row[n][c], typ, spec)
                pc == IF b THEN "stop" ELSE "write"
    <3>2. b \in BOOLEAN /\ pc \in {"stop", "write", "insert"} /\ Continues(q, pc, r, n, typ, spec, b)
      BY <3>1 DEF Stops
    <3>. HIDE DEF b, pc
    <3>. QED BY <1>4, <2>2, <2>3, <3>2 DEF UpdateRead
  <2>4. CASE UpdateFindsNone(q, r, n, typ, spec)
    <3>1. budget' \in Budget
      BY <1>4, <2>4, SpendType DEF UpdateFindsNone
    <3>. QED BY <2>2, <2>4, <3>1 DEF UpdateFindsNone
  <2>. QED BY <1>5, <2>1, <2>3, <2>4
<1>6. ASSUME NEW r \in Replica, NEW n \in Node, Delete(q, r, n) PROVE TypeOK'
  <2>1. row' \in [Node -> [Slot -> RowState]]
    BY <1>4, <1>6, NoRowType DEF Delete
  <2>. QED BY <1>3, <1>4, <1>6, <2>1 DEF Delete
<1>7. ASSUME Pending(q) PROVE req[q].at \in Replica /\ req[q].node \in Node /\ req[q].spec \in Schedule
  BY <1>7 DEF TypeOK
<1>8. CASE UpdateStop(q)
  <2>. DEFINE s == [req[q] EXCEPT !.pc = "write"]
  <2>1. Pending(q) /\ Stop(req[q].at, req[q].node) /\ req' = [req EXCEPT ![q] = s]
    BY <1>8 DEF UpdateStop, Pending, Rewrites
  <2>2. s \in RequestState /\ s.at = req[q].at /\ s.node = req[q].node /\ s.spec = req[q].spec
    BY <1>4 DEF RequestState
  <2>3. cron' \in [Replica -> [Node -> CronState]]
    BY <1>7, <2>1, StopType
  <2>. HIDE DEF s
  <2>. QED BY <1>2, <1>4, <1>7, <1>8, <2>1, <2>2, <2>3 DEF UpdateStop
<1>9. CASE UpdateWrite(q)
  <2>. DEFINE n == req[q].node
              x == [c \in Slot |-> [exists |-> TRUE, typ |-> req[q].typ, spec |-> req[q].spec, status |-> NewStatus(q, c)]]
  <2>1. n \in Node /\ req[q].spec \in Schedule
    BY <1>7, <1>9 DEF UpdateWrite, Pending, Rewrites
  <2>2. ASSUME NEW c \in Slot
        PROVE  [exists |-> TRUE, typ |-> req[q].typ, spec |-> req[q].spec, status |-> NewStatus(q, c)] \in RowState
    <3>1. NewStatus(q, c) \in {"wait", "preempt", "doing"}
      BY <1>4, <2>1 DEF NewStatus, RowState
    <3>. QED BY <1>4, <2>1, <3>1 DEF RequestState, RowState
  <2>3. x \in [Slot -> RowState]
    BY <2>2
  <2>4. /\ \/ Update(n, x) /\ UNCHANGED budget
           \/ Spend("faults") /\ UNCHANGED row
        /\ Answered(q) /\ UNCHANGED <<cron, looper, proc, working>>
    BY <1>9 DEF UpdateWrite
  <2>. HIDE DEF n, x
  <2>5. row' \in [Node -> [Slot -> RowState]] /\ budget' \in Budget
    BY <1>4, <2>1, <2>3, <2>4, UpdateType, SpendType
  <2>. QED BY <1>3, <2>4, <2>5
<1>10. CASE UpdateInsert(q)
  <2>1. Pending(q) /\ Insert(req[q].node, NewRow(req[q].typ, req[q].spec))
    BY <1>10 DEF UpdateInsert, Pending
  <2>2. NewRow(req[q].typ, req[q].spec) \in RowState
    BY <1>4, <1>7, <2>1, NewRowType DEF RequestState
  <2>3. row' \in [Node -> [Slot -> RowState]] /\ budget' \in Budget
    BY <1>7, <2>1, <2>2, InsertType
  <2>. QED BY <1>3, <1>10, <2>3 DEF UpdateInsert
<1>. QED
  BY <1>5, <1>6, <1>8, <1>9, <1>10 DEF Handle, Answer

\* The processes, their shutdown and the election.
LEMMA ProcType ==
    ASSUME TypeOK, NEW r \in Replica, Elect(r) \/ Close(r) \/ Closing(r) \/ Crash(r) \/ Start(r)
    PROVE  TypeOK'
<1>0. /\ budget \in Budget /\ proc[r] \in ProcState /\ working \in SUBSET Replica
      /\ row \in [Node -> [Slot -> RowState]] /\ cron \in [Replica -> [Node -> CronState]]
      /\ Off \in LooperState /\ Asleep \in LooperState /\ Off.pc = "off" /\ Asleep.pc = "sleep"
  BY DEF TypeOK, Budget, Off, Asleep, LooperState
<1>1. ASSUME NEW p \in ProcState, proc' = [proc EXCEPT ![r] = p],
             row' \in [Node -> [Slot -> RowState]], cron' \in [Replica -> [Node -> CronState]], budget' \in Budget,
             working' \in SUBSET Replica, UNCHANGED <<looper, req>>
      PROVE  TypeOK'
  BY <1>1 DEF TypeOK, Budget, Pending, Rewrites
<1>2. Resigns(r) => working' \in SUBSET Replica
  BY <1>0 DEF Resigns, Election!Leave
<1>3. CASE Elect(r)
  <2>1. /\ Loop(r, Asleep) /\ working' \in SUBSET Replica
        /\ UNCHANGED <<row, cron, proc, req, budget>>
    BY <1>3 DEF Elect, Election!Take
  <2>2. /\ looper' \in [Replica -> LooperState]
        /\ \A v \in Replica : looper'[v].pc \in {"build", "store"} => looper'[v].job \in Job
    BY <1>0, <2>1 DEF Loop, TypeOK
  <2>. QED BY <2>1, <2>2 DEF TypeOK, Pending, Rewrites
<1>4. CASE Close(r)
  <2>. DEFINE f == r \notin working
              p == [pc |-> "rows", flag |-> f, left |-> Node]
  <2>1. proc' = [proc EXCEPT ![r] = p] /\ Spend("stops") /\ UNCHANGED <<row, cron, looper, req>> /\ Resigns(r)
    BY <1>4 DEF Close
  <2>2. p \in ProcState
    BY DEF ProcState
  <2>. HIDE DEF p
  <2>. QED BY <1>0, <1>1, <1>2, <2>1, <2>2, SpendType
<1>5. CASE CloseRow(r)
  <2>1. PICK n \in proc[r].left :
          SetStatus(n, "wait") /\ proc' = [proc EXCEPT ![r].pc = n, ![r].left = proc[r].left \ {n}]
    BY <1>5 DEF CloseRow
  <2>. DEFINE rest == proc[r].left \ {n}
              p == [proc[r] EXCEPT !.pc = n, !.left = rest]
  <2>2. n \in Node /\ rest \in SUBSET Node
    BY <1>0 DEF ProcState
  <2>3. proc' = [proc EXCEPT ![r] = p]
    BY <2>1 DEF TypeOK
  <2>4. p \in ProcState
    <3>. HIDE DEF rest
    <3>. QED BY <1>0, <2>2 DEF ProcState
  <2>. HIDE DEF p
  <2>. QED BY <1>0, <1>1, <1>5, <2>1, <2>2, <2>3, <2>4, StatusType DEF CloseRow
<1>6. CASE CloseStop(r)
  <2>. DEFINE p == [proc[r] EXCEPT !.pc = "rows"]
  <2>1. proc' = [proc EXCEPT ![r] = p] /\ Stop(r, proc[r].pc) /\ proc[r].pc \in Node
        /\ UNCHANGED <<row, looper, req, working, budget>>
    BY <1>6 DEF CloseStop, TypeOK
  <2>2. p \in ProcState
    BY <1>0 DEF ProcState
  <2>. HIDE DEF p
  <2>. QED BY <1>0, <1>1, <2>1, <2>2, StopType
<1>7. CASE CloseEnd(r)
  <2>. DEFINE p == [pc |-> "closed", flag |-> FALSE, left |-> {}]
  <2>1. proc' = [proc EXCEPT ![r] = p] /\ UNCHANGED <<row, cron, looper, req, working, budget>>
    BY <1>7 DEF CloseEnd
  <2>2. p \in ProcState
    BY DEF ProcState
  <2>. HIDE DEF p
  <2>. QED BY <1>0, <1>1, <2>1, <2>2
<1>8. ASSUME Ends(r), budget' \in Budget PROVE TypeOK'
  <2>. DEFINE Done == [Unsent EXCEPT !.pc = "done"]
  <2>1. Done \in RequestState /\ Done.pc = "done" /\ Dead \in ProcState
    BY DEF Unsent, RequestState, Dead, ProcState
  <2>2. req' = [q \in Request |-> IF Pending(q) /\ req[q].at = r THEN Done ELSE req[q]]
    BY <1>8 DEF Ends
  <2>. HIDE DEF Done
  <2>3. /\ req' \in [Request -> RequestState]
        /\ \A q \in Request : Pending(q)' => req'[q] = req[q] /\ Pending(q)
    BY <2>1, <2>2 DEF TypeOK, Pending, Rewrites
  <2>4. cron' \in [Replica -> [Node -> CronState]]
    <3>1. [n \in Node |-> NoCron] \in [Node -> CronState]
      BY DEF NoCron, CronState
    <3>. QED BY <1>0, <1>8, <3>1 DEF Ends
  <2>5. /\ looper' \in [Replica -> LooperState]
        /\ \A v \in Replica : looper'[v].pc \in {"build", "store"} => looper'[v].job \in Job
    BY <1>0, <1>8 DEF Ends, Loop, TypeOK
  <2>6. proc' \in [Replica -> ProcState] /\ row' = row /\ working' \in SUBSET Replica
    BY <1>2, <1>8, <2>1 DEF Ends, TypeOK
  <2>7. \A q \in Request : Pending(q)' =>
           req'[q].at \in Replica /\ req'[q].node \in Node /\ req'[q].spec \in Schedule
    BY <2>3 DEF TypeOK
  <2>. QED BY <1>0, <1>8, <2>3, <2>4, <2>5, <2>6, <2>7 DEF TypeOK, Budget
<1>9. CASE Exit(r)
  BY <1>0, <1>8, <1>9 DEF Exit
<1>10. CASE Crash(r)
  BY <1>0, <1>8, <1>10, SpendType DEF Crash
<1>11. CASE Start(r)
  <2>1. /\ proc' = [proc EXCEPT ![r] = Alive] /\ Spend("starts")
        /\ \E s \in {Off, Asleep} : Loop(r, s)
        /\ UNCHANGED <<row, cron, req, working>>
    BY <1>11 DEF Start
  <2>2. /\ looper' \in [Replica -> LooperState]
        /\ \A v \in Replica : looper'[v].pc \in {"build", "store"} => looper'[v].job \in Job
    BY <1>0, <2>1 DEF Loop, TypeOK
  <2>3. proc' \in [Replica -> ProcState]
    BY <2>1 DEF Alive, ProcState, TypeOK
  <2>4. budget' \in Budget
    BY <1>0, <2>1, SpendType
  <2>. QED BY <1>0, <2>1, <2>2, <2>3, <2>4 DEF TypeOK, Budget, Pending, Rewrites
<1>. QED
  BY <1>3, <1>4, <1>5, <1>6, <1>7, <1>9, <1>10, <1>11 DEF Closing

LEMMA TypeStep == ASSUME TypeOK, [Next]_vars PROVE TypeOK'
<1>1. CASE UNCHANGED vars
  BY <1>1 DEF vars, TypeOK, Pending, Rewrites
<1>. QED
  BY <1>1, RoundType, HandlerType, ProcType DEF Next

\* Rows, crons, loopers, processes and requests keep their shape.
THEOREM TypeCorrect == Spec => []TypeOK
<1>. QED
  BY InitType, TypeStep, PTL DEF Spec
-----------------------------------------------------------------------------
(***************************************************************************)
(* A row in doing is run.                                                  *)
(***************************************************************************)
RunsCron(n) ==
    \E r \in Replica :
        \/ cron[r][n].held \in Schedule
        \/ cron[r][n].strays # {}
        \/ looper[r].pc = "store" /\ looper[r].job.node = n

DoingRow(n) == \E c \in Slot : row[n][c].exists /\ row[n][c].status = "doing"

\* What keeps a row in doing honest: a cron, or a request that stopped the cron, or is
\* about to, and then writes that the row waits.
Kept(n) == DoingRow(n) => RunsCron(n) \/ \E q \in Request : Rewrites(q) /\ req[q].node = n /\ req[q].waits

AllUp == \A r \in Replica : proc[r].pc = "up"
StopsWait == \A q \in Request : req[q].pc = "stop" => req[q].waits
DoingInv == Untroubled => AllUp /\ StopsWait /\ \A n \in Node : Kept(n)

\* A step takes nothing from the bounds, or one thing from one of them.
LEMMA BudgetStep ==
    ASSUME TypeOK, [Next]_vars
    PROVE  budget' = budget \/ Spend("stops") \/ Spend("starts") \/ Spend("faults")
<1>1. ASSUME NEW n, NEW status, SetStatus(n, status)
      PROVE  budget' = budget \/ Spend("faults")
  BY <1>1 DEF SetStatus
<1>2. ASSUME NEW r \in Replica, Round(r)
      PROVE  budget' = budget \/ Spend("faults")
  BY <1>1, <1>2 DEF Round, Fetch, MarkPreempt, StartCron, RefuseCron, Store
<1>3. ASSUME NEW r \in Replica, Elect(r) \/ Close(r) \/ Closing(r) \/ Crash(r) \/ Start(r)
      PROVE  budget' = budget \/ Spend("stops") \/ Spend("starts") \/ Spend("faults")
  BY <1>1, <1>3 DEF Elect, Close, Closing, CloseRow, CloseStop, CloseEnd, Exit, Crash, Start
<1>4. ASSUME NEW q \in Request, Handle(q) \/ Answer(q)
      PROVE  budget' = budget \/ Spend("faults")
  <2>1. ASSUME NEW n, NEW new, Insert(n, new) PROVE budget' = budget \/ Spend("faults")
    BY <2>1 DEF Insert
  <2>2. ASSUME NEW r, NEW n, NEW typ, NEW spec, Create(q, r, n, typ, spec) PROVE budget' = budget \/ Spend("faults")
    BY <2>1, <2>2 DEF Create
  <2>3. ASSUME NEW r, NEW n, NEW typ, NEW spec, UpdateRead(q, r, n, typ, spec) \/ UpdateFindsNone(q, r, n, typ, spec)
        PROVE  budget' = budget \/ Spend("faults")
    BY <2>3 DEF UpdateRead, UpdateFindsNone
  <2>4. ASSUME NEW r, NEW n, Delete(q, r, n) PROVE budget' = budget
    BY <2>4 DEF Delete
  <2>5. CASE Answer(q)
    BY <2>1, <2>5 DEF Answer, UpdateStop, UpdateWrite, UpdateInsert
  <2>. QED BY <1>4, <2>2, <2>3, <2>4, <2>5 DEF Handle
<1>. QED
  BY <1>2, <1>3, <1>4 DEF Next, vars

\* While nothing has stopped or failed after a step, nothing had before it, and the
\* step is none of those that stop or fail.
LEMMA UntroubledStep ==
    ASSUME TypeOK, [Next]_vars, Untroubled'
    PROVE  Untroubled /\ ~Spend("stops") /\ ~Spend("faults")
<1>0. budget \in Budget
  BY DEF TypeOK, Budget
<1>1. ~Spend("stops") /\ ~Spend("faults")
  BY <1>0, SpendType, BoundsAssumption DEF Untroubled, Budget
<1>2. CASE budget' = budget
  BY <1>1, <1>2 DEF Untroubled
<1>3. CASE Spend("starts")
  <2>1. budget'["stops"] = budget["stops"] /\ budget'["faults"] = budget["faults"]
    BY <1>0, <1>3, SpendType
  <2>. QED BY <1>1, <2>1 DEF Untroubled
<1>. QED
  BY <1>1, <1>2, <1>3, BudgetStep

\* An update of the status that does not fail.
LEMMA StatusDone ==
    ASSUME TypeOK, NEW n \in Node, NEW status \in {"wait", "preempt", "doing"}, SetStatus(n, status), ~Spend("faults")
    PROVE  \A m \in Node : DoingRow(m)' => IF m = n THEN status = "doing" ELSE DoingRow(m)
  BY StatusType DEF DoingRow

LEMMA DoingRound ==
    ASSUME TypeOK, \A n \in Node : Kept(n), NEW r \in Replica, Round(r), ~Spend("faults")
    PROVE  \A n \in Node : Kept(n)'
<1>. SUFFICES ASSUME NEW n \in Node, DoingRow(n)'
              PROVE  RunsCron(n)' \/ \E q \in Request : Rewrites(q)' /\ req'[q].node = n /\ req'[q].waits
  BY DEF Kept
<1>1. req' = req /\ \A q \in Request : Rewrites(q)' <=> Rewrites(q)
  BY DEF Round, Fetch, MarkPreempt, StartCron, RefuseCron, Store, Rewrites
<1>2. \A s \in Replica : s # r => looper'[s] = looper[s]
  BY DEF Round, Fetch, MarkPreempt, StartCron, RefuseCron, Store, Loop, TypeOK
\* It is enough that the row was in doing before, or that the cron of this round runs.
<1>3. ASSUME DoingRow(n), RunsCron(n) => RunsCron(n)'
      PROVE  RunsCron(n)' \/ \E q \in Request : Rewrites(q)' /\ req'[q].node = n /\ req'[q].waits
  BY <1>1, <1>3 DEF Kept
<1>4. looper[r] \in LooperState /\ looper[r].todo \in SUBSET Job
  BY DEF TypeOK, LooperState
<1>5. ASSUME looper[r].pc \in {"build", "store"} PROVE looper[r].job.node \in Node /\ looper[r].job.spec \in Schedule
  <2>1. looper[r].job \in Job
    BY <1>5 DEF TypeOK
  <2>. QED BY <2>1 DEF Job
<1>6. ASSUME looper[r].pc # "store", cron' = cron PROVE RunsCron(n) => RunsCron(n)'
  BY <1>2, <1>6 DEF RunsCron
<1>7. CASE Fetch(r)
  BY <1>3, <1>6, <1>7 DEF Fetch, DoingRow
<1>8. CASE MarkPreempt(r)
  <2>1. PICK job \in looper[r].todo : SetStatus(job.node, "preempt")
    BY <1>8 DEF MarkPreempt
  <2>2. job.node \in Node
    BY <1>4 DEF Job
  <2>3. DoingRow(n)
    BY <2>1, <2>2, StatusDone
  <2>. QED BY <1>3, <1>6, <1>8, <2>3 DEF MarkPreempt
<1>9. CASE StartCron(r)
  <2>1. looper[r].pc = "build" /\ looper' = [looper EXCEPT ![r] = [looper[r] EXCEPT !.pc = "store"]]
        /\ SetStatus(looper[r].job.node, "doing") /\ cron' = cron
    BY <1>9 DEF StartCron, Loop
  <2>2. looper'[r].pc = "store" /\ looper'[r].job = looper[r].job
    BY <1>4, <2>1 DEF TypeOK, LooperState
  <2>3. CASE n = looper[r].job.node
    BY <2>2, <2>3 DEF RunsCron
  <2>4. CASE n # looper[r].job.node
    <3>1. DoingRow(n)
      BY <1>5, <2>1, <2>4, StatusDone
    <3>. QED BY <1>3, <1>6, <2>1, <3>1
  <2>. QED BY <2>3, <2>4
<1>10. CASE RefuseCron(r)
  <2>1. DoingRow(n)
    BY <1>5, <1>10, StatusDone DEF RefuseCron
  <2>. QED BY <1>3, <1>6, <1>10, <2>1 DEF RefuseCron
<1>11. CASE Store(r)
  <2>. DEFINE k == looper[r].job.node
              x == cron[r][k].strays \cup ({cron[r][k].held} \cap Schedule)
              c == [held |-> looper[r].job.spec, strays |-> x]
  <2>1. looper[r].pc = "store" /\ Cron(r, k, c) /\ row' = row
    BY <1>11 DEF Store
  <2>2. k \in Node /\ looper[r].job.spec \in Schedule
    BY <1>5, <2>1
  <2>3. c \in CronState /\ c.held \in Schedule
    <3>1. cron[r][k] \in CronState
      BY <2>2 DEF TypeOK
    <3>2. x \in SUBSET Schedule
      BY <3>1 DEF CronState
    <3>. HIDE DEF k, x
    <3>. QED BY <2>2, <3>2 DEF CronState
  <2>. HIDE DEF c
  <2>4. cron'[r][k] = c /\ \A s \in Replica, m \in Node : s # r \/ m # k => cron'[s][m] = cron[s][m]
    BY <2>1, <2>2, <2>3, CronType
  <2>5. CASE n = k
    BY <2>3, <2>4, <2>5 DEF RunsCron
  <2>6. CASE n # k
    <3>1. RunsCron(n) => RunsCron(n)'
      BY <1>2, <2>4, <2>6 DEF RunsCron
    <3>. QED BY <1>3, <2>1, <3>1 DEF DoingRow
  <2>. QED BY <2>5, <2>6
<1>. QED
  BY <1>7, <1>8, <1>9, <1>10, <1>11 DEF Round

LEMMA DoingHandler ==
    ASSUME TypeOK, StopsWait, \A n \in Node : Kept(n), NEW q \in Request, Handle(q) \/ Answer(q), ~Spend("faults")
    PROVE  StopsWait' /\ \A n \in Node : Kept(n)'
<1>0. /\ req \in [Request -> RequestState] /\ row \in [Node -> [Slot -> RowState]] /\ looper' = looper
      /\ [Unsent EXCEPT !.pc = "done"].pc = "done"
  BY DEF TypeOK, Handle, Answer, Create, Delete, UpdateRead, UpdateFindsNone, UpdateStop, UpdateWrite, UpdateInsert, Unsent
<1>1. ASSUME NEW s, req' = [req EXCEPT ![q] = s]
      PROVE  /\ \A p \in Request : p # q => req'[p] = req[p] /\ (Rewrites(p)' <=> Rewrites(p))
             /\ req'[q] = s /\ (Rewrites(q)' <=> s.pc \in {"stop", "write"})
  BY <1>0, <1>1 DEF Rewrites
<1>2. ASSUME Answered(q)
      PROVE  StopsWait' /\ \A p \in Request : p # q => req'[p] = req[p] /\ (Rewrites(p)' <=> Rewrites(p))
  <2>1. req' = [req EXCEPT ![q] = [Unsent EXCEPT !.pc = "done"]]
    BY <1>2 DEF Answered
  <2>. QED BY <1>0, <1>1, <2>1 DEF StopsWait
\* Rows that no request of q made doing keep what they had.
<1>3. ASSUME NEW n \in Node, cron' = cron,
             \A p \in Request : p # q => req'[p] = req[p] /\ (Rewrites(p)' <=> Rewrites(p)),
             DoingRow(n)' => DoingRow(n),
             ~(Rewrites(q) /\ req[q].node = n /\ req[q].waits)
      PROVE  Kept(n)'
  <2>. SUFFICES ASSUME DoingRow(n)'
                PROVE  RunsCron(n)' \/ \E p \in Request : Rewrites(p)' /\ req'[p].node = n /\ req'[p].waits
    BY DEF Kept
  <2>1. RunsCron(n) \/ \E p \in Request : Rewrites(p) /\ req[p].node = n /\ req[p].waits
    BY <1>3 DEF Kept
  <2>2. RunsCron(n) => RunsCron(n)'
    BY <1>0, <1>3 DEF RunsCron
  <2>. QED BY <1>3, <2>1, <2>2
\* An inserted row waits.
<1>4. ASSUME NEW n \in Node, NEW new \in RowState, new.status = "wait", Insert(n, new), Answered(q),
             ~Rewrites(q), cron' = cron
      PROVE  StopsWait' /\ \A m \in Node : Kept(m)'
  <2>1. /\ \A m \in Node : m # n => row'[m] = row[m]
        /\ \A c \in Slot : row'[n][c] \in {row[n][c], new}
    BY <1>4, InsertType
  <2>2. \A m \in Node : DoingRow(m)' => DoingRow(m)
    BY <1>4, <2>1 DEF DoingRow
  <2>. QED BY <1>2, <1>3, <1>4, <2>2
<1>5. ASSUME NEW r \in Replica, NEW n \in Node, Delete(q, r, n)
      PROVE  StopsWait' /\ \A m \in Node : Kept(m)'
  <2>1. ~Rewrites(q) /\ Answered(q) /\ cron' = cron /\ row' = [row EXCEPT ![n] = NoRows]
    BY <1>5 DEF Delete, Arrives, Rewrites
  <2>2. \A c \in Slot : ~NoRows[c].exists
    BY DEF NoRows, NoRow
  <2>3. \A m \in Node : DoingRow(m)' => DoingRow(m)
    BY <1>0, <2>1, <2>2 DEF DoingRow
  <2>. QED BY <1>2, <1>3, <2>1, <2>3
<1>6. ASSUME NEW r \in Replica, NEW n \in Node, NEW typ \in {"normal", "suspended"}, NEW spec \in Schedule,
             Create(q, r, n, typ, spec) \/ UpdateRead(q, r, n, typ, spec) \/ UpdateFindsNone(q, r, n, typ, spec)
      PROVE  StopsWait' /\ \A m \in Node : Kept(m)'
  <2>1. CASE Create(q, r, n, typ, spec)
    <3>1. ~Rewrites(q) /\ Answered(q) /\ cron' = cron /\ Insert(n, NewRow(typ, spec))
      BY <2>1 DEF Create, Arrives, Rewrites
    <3>. QED BY <1>4, <3>1, NewRowType
  <2>2. ASSUME NEW pc, NEW b, Continues(q, pc, r, n, typ, spec, b), pc = "stop" => b,
               ~Rewrites(q), cron' = cron, row' = row
        PROVE  StopsWait' /\ \A m \in Node : Kept(m)'
    <3>. DEFINE s == [pc |-> pc, at |-> r, node |-> n, typ |-> typ, spec |-> spec, waits |-> b]
    <3>1. req' = [req EXCEPT ![q] = s]
      BY <2>2 DEF Continues
    <3>2. s.pc = "stop" => s.waits
      BY <2>2
    <3>. HIDE DEF s
    <3>3. StopsWait'
      BY <1>1, <3>1, <3>2 DEF StopsWait
    <3>4. \A m \in Node : DoingRow(m)' => DoingRow(m)
      BY <2>2 DEF DoingRow
    <3>. QED BY <1>1, <1>3, <2>2, <3>1, <3>3, <3>4
  <2>3. CASE UpdateRead(q, r, n, typ, spec)
    <3>1. PICK c \in Slot :
            LET b == Stops(row[n][c], typ, spec)
            IN  Continues(q, IF b THEN "stop" ELSE "write", r, n, typ, spec, b)
      BY <2>3 DEF UpdateRead
    <3>. DEFINE b == Stops(row[n][c], typ, spec)
                pc == IF b THEN "stop" ELSE "write"
    <3>2. Continues(q, pc, r, n, typ, spec, b) /\ (pc = "stop" => b)
      BY <3>1
    <3>3. ~Rewrites(q) /\ cron' = cron /\ row' = row
      BY <2>3 DEF UpdateRead, Arrives, Rewrites
    <3>. HIDE DEF b, pc
    <3>. QED BY <2>2, <3>2, <3>3
  <2>4. CASE UpdateFindsNone(q, r, n, typ, spec)
    <3>1. ~Rewrites(q) /\ cron' = cron /\ row' = row /\ Continues(q, "insert", r, n, typ, spec, FALSE)
      BY <2>4 DEF UpdateFindsNone, Arrives, Rewrites
    <3>2. "insert" = "stop" => FALSE
      OBVIOUS
    <3>. QED BY <2>2, <3>1, <3>2
  <2>. QED BY <1>6, <2>1, <2>3, <2>4
<1>7. CASE UpdateStop(q)
  <2>. DEFINE s == [req[q] EXCEPT !.pc = "write"]
  <2>1. req[q].pc = "stop" /\ Stop(req[q].at, req[q].node) /\ req' = [req EXCEPT ![q] = s] /\ row' = row
    BY <1>7 DEF UpdateStop
  <2>2. s.pc = "write" /\ s.node = req[q].node /\ s.waits = req[q].waits
    BY <1>0 DEF RequestState
  <2>. HIDE DEF s
  <2>3. StopsWait'
    BY <1>1, <2>1, <2>2 DEF StopsWait
  <2>4. req[q].waits /\ Rewrites(q)
    BY <2>1 DEF StopsWait, Rewrites
  <2>5. req[q].at \in Replica /\ req[q].node \in Node
    BY <2>4 DEF TypeOK, Pending
  <2>6. \A v \in Replica, m \in Node : m # req[q].node => cron'[v][m] = cron[v][m]
    BY <2>1, <2>5, StopType
  <2>7. ASSUME NEW m \in Node PROVE Kept(m)'
    <3>. SUFFICES ASSUME DoingRow(m)'
                  PROVE  RunsCron(m)' \/ \E p \in Request : Rewrites(p)' /\ req'[p].node = m /\ req'[p].waits
      BY DEF Kept
    <3>1. CASE m = req[q].node
      BY <1>1, <2>1, <2>2, <2>4, <3>1
    <3>2. CASE m # req[q].node
      <4>1. RunsCron(m) => RunsCron(m)'
        BY <1>0, <2>6, <3>2 DEF RunsCron
      <4>2. RunsCron(m) \/ \E p \in Request : Rewrites(p) /\ req[p].node = m /\ req[p].waits
        BY <2>1 DEF Kept, DoingRow
      <4>. QED BY <1>1, <2>1, <3>2, <4>1, <4>2
    <3>. QED BY <3>1, <3>2
  <2>. QED BY <2>3, <2>7
<1>8. CASE UpdateWrite(q)
  <2>. DEFINE x == [c \in Slot |-> [exists |-> TRUE, typ |-> req[q].typ, spec |-> req[q].spec, status |-> NewStatus(q, c)]]
  <2>1. Rewrites(q) /\ Answered(q) /\ cron' = cron
    BY <1>8 DEF UpdateWrite, Rewrites
  <2>2. PICK k \in Node : k = req[q].node
    BY <2>1 DEF TypeOK, Pending
  <2>3. Update(k, x)
    BY <1>8, <2>2 DEF UpdateWrite
  <2>4. \A c \in Slot : x[c].status = IF req[q].waits THEN "wait" ELSE row[k][c].status
    BY <2>2 DEF NewStatus
  <2>. HIDE DEF x
  <2>5. /\ \A m \in Node : m # k => row'[m] = row[m]
        /\ \A c \in Slot : row'[k][c] = IF row[k][c].exists THEN x[c] ELSE row[k][c]
    BY <1>0, <2>3 DEF Update
  <2>6. DoingRow(k)' => DoingRow(k) /\ ~req[q].waits
    BY <2>4, <2>5 DEF DoingRow
  <2>7. \A m \in Node : m # k => (DoingRow(m)' => DoingRow(m))
    BY <2>5 DEF DoingRow
  <2>8. ASSUME NEW m \in Node PROVE Kept(m)'
    <3>1. CASE m = k /\ req[q].waits
      BY <2>6, <3>1 DEF Kept
    <3>2. CASE ~(m = k /\ req[q].waits)
      BY <1>2, <1>3, <2>1, <2>2, <2>6, <2>7, <3>2
    <3>. QED BY <3>1, <3>2
  <2>. QED BY <1>2, <2>1, <2>8
<1>9. CASE UpdateInsert(q)
  <2>1. ~Rewrites(q) /\ Pending(q) /\ Answered(q) /\ cron' = cron /\ Insert(req[q].node, NewRow(req[q].typ, req[q].spec))
    BY <1>9 DEF UpdateInsert, Pending, Rewrites
  <2>2. req[q].node \in Node /\ req[q].spec \in Schedule /\ req[q].typ \in {"normal", "suspended"}
    BY <2>1 DEF TypeOK, RequestState
  <2>. QED BY <1>4, <2>1, <2>2, NewRowType
<1>. QED
  BY <1>5, <1>6, <1>7, <1>8, <1>9 DEF Handle, Answer

LEMMA DoingStep == ASSUME TypeOK, DoingInv, [Next]_vars PROVE DoingInv'
<1>. SUFFICES ASSUME Untroubled' PROVE AllUp' /\ StopsWait' /\ \A n \in Node : Kept(n)'
  BY DEF DoingInv
<1>1. Untroubled /\ ~Spend("stops") /\ ~Spend("faults")
  BY UntroubledStep
<1>2. AllUp /\ StopsWait /\ \A n \in Node : Kept(n)
  BY <1>1 DEF DoingInv
<1>3. CASE UNCHANGED vars
  BY <1>2, <1>3 DEF vars, AllUp, StopsWait, Kept, DoingRow, RunsCron, Rewrites
<1>4. ASSUME NEW r \in Replica, Round(r) PROVE AllUp' /\ StopsWait' /\ \A n \in Node : Kept(n)'
  <2>1. proc' = proc /\ req' = req
    BY <1>4 DEF Round, Fetch, MarkPreempt, StartCron, RefuseCron, Store
  <2>. QED BY <1>1, <1>2, <1>4, <2>1, DoingRound DEF AllUp, StopsWait
<1>5. ASSUME NEW r \in Replica, Elect(r) PROVE AllUp' /\ StopsWait' /\ \A n \in Node : Kept(n)'
  <2>1. looper[r].pc = "off" /\ looper' = [looper EXCEPT ![r] = Asleep] /\ UNCHANGED <<row, cron, proc, req>>
    BY <1>5 DEF Elect, Loop
  <2>2. \A s \in Replica : looper[s].pc = "store" => looper'[s] = looper[s]
    BY <2>1 DEF TypeOK
  <2>3. \A n \in Node : RunsCron(n) => RunsCron(n)'
    BY <2>1, <2>2 DEF RunsCron
  <2>. QED BY <1>2, <2>1, <2>3 DEF AllUp, StopsWait, Kept, DoingRow, Rewrites
<1>6. ASSUME NEW r \in Replica, Close(r) \/ Closing(r) \/ Crash(r) \/ Start(r) PROVE FALSE
  BY <1>1, <1>2, <1>6, NodeAssumption
     DEF AllUp, Close, Closing, CloseRow, CloseStop, CloseEnd, Exit, Crash, Start
<1>7. ASSUME NEW q \in Request, Handle(q) \/ Answer(q) PROVE AllUp' /\ StopsWait' /\ \A n \in Node : Kept(n)'
  <2>1. proc' = proc
    BY <1>7 DEF Handle, Answer, Create, Delete, UpdateRead, UpdateFindsNone, UpdateStop, UpdateWrite, UpdateInsert
  <2>. QED BY <1>1, <1>2, <1>7, <2>1, DoingHandler DEF AllUp
<1>. QED
  BY <1>3, <1>4, <1>5, <1>6, <1>7 DEF Next

LEMMA DoingInit == Init => DoingInv
<1>. SUFFICES ASSUME Init PROVE AllUp /\ StopsWait /\ \A n \in Node : Kept(n)
  BY DEF DoingInv
<1>1. AllUp
  BY DEF Init, AllUp, Alive
<1>2. StopsWait
  BY DEF Init, StopsWait, Unsent
<1>3. \A n \in Node : Kept(n)
  BY InitRows DEF Kept, DoingRow
<1>. QED
  BY <1>1, <1>2, <1>3

\* What runs for a node is among its crons.
LEMMA RunsIsCron ==
    ASSUME TypeOK, NEW n \in Node, RunsCron(n)
    PROVE  Crons(n) # {}
<1>1. PICK r \in Replica :
        \/ cron[r][n].held \in Schedule
        \/ cron[r][n].strays # {}
        \/ looper[r].pc = "store" /\ looper[r].job.node = n
  BY DEF RunsCron
<1>2. CASE cron[r][n].held \in Schedule
  <2>1. <<r, "crones", cron[r][n].held>> \in Crons(n)
    BY <1>2 DEF Crons
  <2>. QED BY <2>1
<1>3. CASE cron[r][n].strays # {}
  <2>1. PICK s \in cron[r][n].strays : s \in Schedule
    BY <1>3 DEF TypeOK, CronState
  <2>2. <<r, "stray", s>> \in Crons(n)
    BY <2>1 DEF Crons
  <2>. QED BY <2>2
<1>4. CASE looper[r].pc = "store" /\ looper[r].job.node = n
  <2>1. looper[r].job \in Job
    BY <1>4 DEF TypeOK
  <2>2. looper[r].job.spec \in Schedule
    BY <2>1 DEF Job
  <2>3. <<r, "dispatch", looper[r].job.spec>> \in Crons(n)
    BY <1>4, <2>2 DEF Crons
  <2>. QED BY <2>3
<1>. QED
  BY <1>1, <1>2, <1>3, <1>4

\* As long as nothing stops or fails, a row that says doing has a cron, or a request
\* that is about to write it, wherever requests fall into the rounds of the loopers.
THEOREM DoingIsRun == Spec => []DoingRuns
<1>1. TypeOK /\ DoingInv => DoingRuns
  BY RunsIsCron DEF DoingInv, DoingRuns, Kept, DoingRow, Busy
<1>. QED
  BY <1>1, InitType, TypeStep, DoingInit, DoingStep, PTL DEF Spec
=============================================================================
