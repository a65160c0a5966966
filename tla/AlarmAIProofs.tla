---------------------------- MODULE AlarmAIProofs ----------------------------
(***************************************************************************)
(* Theorems about AlarmAI, for every number of replicas, requests, jobs,   *)
(* channels and attempts.                                                  *)
(***************************************************************************)
EXTENDS AlarmAI, TLAPS

\* A notification is a non-empty sequence of events.
LEMMA NoticeType == ASSUME NEW b \in Notice PROVE b \in Seq(Event) /\ b # << >>
<1>1. PICK k \in 1 .. MaxBatch : b \in [1 .. k -> Event]
  BY DEF Notice
<1>2. k \in Nat /\ k >= 1
  BY BoundsAssumption
<1>3. b \in Seq(Event)
  BY <1>1, <1>2
<1>4. Len(b) = k
  BY <1>1, <1>2
<1>. QED
  BY <1>2, <1>3, <1>4

\* Moving on to the next event keeps the request well-formed.
LEMMA NextEventType ==
    ASSUME NEW n \in Notifier, notifier[n] \in NotifierState, notifier[n].todo # << >>
    PROVE  /\ NextEvent(n) \in NotifierState
           /\ NextEvent(n).pc # "idle" => NextEvent(n).todo # << >>
<1>. DEFINE s == notifier[n].todo
<1>1. s \in Seq(Event) /\ s # << >>
  BY DEF NotifierState
<1>2. Tail(s) \in Seq(Event)
  BY <1>1
<1>. QED
  BY <1>2 DEF NextEvent, IdleNotifier, NotifierState

\* The event in hand is an event.
LEMMA HeadType ==
    ASSUME NEW n \in Notifier, notifier[n] \in NotifierState, notifier[n].todo # << >>
    PROVE  Head(notifier[n].todo) \in Event
  BY DEF NotifierState

LEMMA TimeTypes == StartTimes \subseteq Nat /\ EndTimes \subseteq Nat
  BY TimesAssumption

THEOREM InitType == Init => TypeOK
<1>. SUFFICES ASSUME Init PROVE TypeOK
  OBVIOUS
<1>. USE DEF Init
<1>1. group \in [Group -> GroupRow]
  BY DEF NewGroup, GroupRow
<1>2. job \in [JobId -> JobRow]
  BY DEF FreeJob, JobRow
<1>3. delivery \in [JobId -> [Channel -> DeliveryRow]]
  BY DEF NoDelivery, DeliveryRow
<1>4. notifier \in [Notifier -> NotifierState]
  BY DEF IdleNotifier, NotifierState
<1>5. worker \in [Worker -> WorkerState]
  BY DEF IdleWorker, WorkerState
<1>. QED
  BY <1>1, <1>2, <1>3, <1>4, <1>5, BoundsAssumption DEF TypeOK, IdleNotifier, IdleWorker

\* Counting down stays within the natural numbers.
LEMMA LessType == ASSUME NEW t \in Nat PROVE Less(t) \in Nat /\ Less(t) <= t
  BY DEF Less

\* A cancelled or re-leased row is still a row.
LEMMA JobRowType ==
    ASSUME NEW r \in JobRow, NEW s \in Claimable \cup Terminal, NEW o \in Worker \cup {Nobody},
           NEW t \in Nat, NEW a \in Nat, NEW x \in Nat
    PROVE  /\ [r EXCEPT !.status = s] \in JobRow
           /\ [r EXCEPT !.status = s, !.owner = o, !.lease = t] \in JobRow
           /\ [r EXCEPT !.owner = o, !.lease = t] \in JobRow
           /\ [r EXCEPT !.owner = o, !.lease = t, !.attempts = a, !.status = s] \in JobRow
           /\ [r EXCEPT !.status = s, !.owner = o, !.lease = t, !.next = x] \in JobRow
           /\ [r EXCEPT !.next = x, !.lease = t] \in JobRow
           /\ [r EXCEPT !.analysed = TRUE, !.status = s] \in JobRow
  BY DEF JobRow

LEMMA GroupRowType ==
    ASSUME NEW r \in GroupRow, NEW s \in StartTimes, NEW e \in EndTimes \cup {0}, NEW v \in Nat, NEW k \in Nat
    PROVE  /\ [r EXCEPT !.start = s, !.resolved = e, !.version = v] \in GroupRow
           /\ [r EXCEPT !.cool = k, !.version = v] \in GroupRow
           /\ [r EXCEPT !.cool = k] \in GroupRow
  BY DEF GroupRow

LEMMA RetriedType ==
    ASSUME NEW r \in NotifierState, NEW a \in Nat
    PROVE  /\ [r EXCEPT !.pc = "read", !.attempt = a] \in NotifierState
           /\ [r EXCEPT !.pc = "read", !.attempt = a].todo = r.todo
  BY DEF NotifierState

Budget == [notices : Nat, crashes : Nat, edits : Nat]

LEMMA BudgetType ==
    ASSUME NEW b \in Budget
    PROVE  /\ b.notices > 0 => [b EXCEPT !.notices = b.notices - 1] \in Budget
           /\ b.crashes > 0 => [b EXCEPT !.crashes = b.crashes - 1] \in Budget
           /\ b.edits > 0 => [b EXCEPT !.edits = b.edits - 1] \in Budget
<1>1. /\ b.notices > 0 => b.notices - 1 \in Nat
      /\ b.crashes > 0 => b.crashes - 1 \in Nat
      /\ b.edits > 0 => b.edits - 1 \in Nat
  BY DEF Budget
<1>2. \A k \in Nat : /\ [b EXCEPT !.notices = k] \in Budget
                      /\ [b EXCEPT !.crashes = k] \in Budget
                      /\ [b EXCEPT !.edits = k] \in Budget
  BY DEF Budget
<1>. QED
  BY <1>1, <1>2

\* Replacing one request by a well-formed one.
LEMMA NotifierUpdate ==
    ASSUME TypeOK, NEW n \in Notifier, NEW s \in NotifierState,
           s.pc # "idle" => s.todo # << >>, notifier' = [notifier EXCEPT ![n] = s]
    PROVE  /\ notifier' \in [Notifier -> NotifierState]
           /\ \A m \in Notifier : notifier'[m].pc # "idle" => notifier'[m].todo # << >>
  BY DEF TypeOK

\* What is left to show of a step of a webhook request.
LEMMA RequestStep ==
    ASSUME TypeOK,
           notifier' \in [Notifier -> NotifierState],
           \A m \in Notifier : notifier'[m].pc # "idle" => notifier'[m].todo # << >>,
           group' \in [Group -> GroupRow], job' \in [JobId -> JobRow],
           budget' \in Budget,
           UNCHANGED <<delivery, alarm, eligible, worker, sends>>
    PROVE  TypeOK'
  BY DEF TypeOK, Budget

\* A step of a webhook request keeps every row and every request well-formed.
LEMMA NotifierType ==
    ASSUME TypeOK, NEW n \in Notifier, Notify(n) \/ Enqueue(n)
    PROVE  TypeOK'
<1>. DEFINE e == Head(notifier[n].todo)
            GoodRequests == /\ notifier' \in [Notifier -> NotifierState]
                            /\ \A m \in Notifier : notifier'[m].pc # "idle" => notifier'[m].todo # << >>
<1>1. CASE Notify(n)
  <2>1. PICK b \in Notice : notifier' = [notifier EXCEPT ![n] = [IdleNotifier EXCEPT !.pc = "read", !.todo = b]]
    BY <1>1 DEF Notify
  <2>2. b \in Seq(Event) /\ b # << >>
    BY NoticeType
  <2>. DEFINE s == [IdleNotifier EXCEPT !.pc = "read", !.todo = b]
  <2>3. s \in NotifierState /\ s.todo # << >>
    BY <2>2 DEF IdleNotifier, NotifierState
  <2>4. GoodRequests
    <3>. HIDE DEF s
    <3>. QED BY <2>1, <2>3, NotifierUpdate DEF s
  <2>5. budget' \in Budget
    BY <1>1, BudgetType DEF Notify, TypeOK, Budget
  <2>6. UNCHANGED <<group, job, delivery, alarm, eligible, worker, sends>>
    BY <1>1 DEF Notify
  <2>. QED
    BY <2>4, <2>5, <2>6, RequestStep DEF TypeOK
<1>2. ASSUME notifier[n].todo # << >>, notifier' = [notifier EXCEPT ![n] = NextEvent(n)]
      PROVE  GoodRequests
  <2>1. notifier[n] \in NotifierState
    BY DEF TypeOK
  <2>2. NextEvent(n) \in NotifierState /\ (NextEvent(n).pc # "idle" => NextEvent(n).todo # << >>)
    BY <1>2, <2>1, NextEventType
  <2>. QED
    BY <1>2, <2>2, NotifierUpdate
<1>3. ASSUME notifier[n].pc # "idle" PROVE e \in Event /\ notifier[n].todo # << >>
  BY <1>3, HeadType DEF TypeOK
<1>4. CASE EnqueueRead(n)
  <2>1. e \in Event /\ notifier[n].todo # << >>
    BY <1>3, <1>4 DEF EnqueueRead
  <2>2. CASE Plan(e) = "drop"
    BY <1>2, <1>4, <2>1, <2>2 DEF EnqueueRead, TypeOK
  <2>3. CASE Plan(e) # "drop"
    <3>. DEFINE s == [notifier[n] EXCEPT !.pc = "write", !.version = group[e.group].version, !.plan = Plan(e)]
    <3>1. Plan(e) \in {"drop", "resolve", "open", "reopen"}
      BY DEF Plan
    <3>2. group[e.group].version \in Nat
      BY <2>1 DEF TypeOK, GroupRow, Event
    <3>3. s \in NotifierState /\ s.todo # << >>
      <4>. HIDE DEF e
      <4>. QED BY <2>1, <3>1, <3>2 DEF TypeOK, NotifierState
    <3>4. notifier' = [notifier EXCEPT ![n] = s]
      BY <1>4, <2>3 DEF EnqueueRead
    <3>5. GoodRequests
      <4>. HIDE DEF s
      <4>. QED BY <3>3, <3>4, NotifierUpdate
    <3>. QED
      BY <1>4, <3>5 DEF EnqueueRead, TypeOK
  <2>. QED
    BY <2>2, <2>3
<1>5. CASE EnqueueResolve(n)
  <2>1. e \in Event /\ notifier[n].todo # << >>
    BY <1>3, <1>5 DEF EnqueueResolve
  <2>. HIDE DEF e
  <2>2. group' \in [Group -> GroupRow]
    <3>. DEFINE r == [group[e.group] EXCEPT !.start = e.start, !.resolved = e.end,
                                            !.version = group[e.group].version + 1]
    <3>1. e.group \in Group /\ e.start \in StartTimes /\ e.end \in EndTimes \cup {0}
      BY <2>1 DEF Event
    <3>2. group[e.group] \in GroupRow
      BY <3>1 DEF TypeOK
    <3>3. r \in GroupRow
      <4>1. group[e.group].version + 1 \in Nat
        BY <3>2 DEF GroupRow
      <4>. QED BY <3>1, <3>2, <4>1, GroupRowType
    <3>4. group' = [group EXCEPT ![e.group] = r]
      BY <1>5 DEF EnqueueResolve, e
    <3>. HIDE DEF r
    <3>. QED BY <3>3, <3>4 DEF TypeOK
  <2>3. job' \in [JobId -> JobRow]
    <3>1. ASSUME NEW j \in JobId PROVE job[j] \in JobRow
                                      /\ [job[j] EXCEPT !.status = "cancelled", !.owner = Nobody, !.lease = 0] \in JobRow
      BY JobRowType DEF TypeOK, Terminal
    <3>2. job' = CancelledByRecovery(e)
      BY <1>5 DEF EnqueueResolve, e
    <3>. QED BY <3>1, <3>2 DEF CancelledByRecovery
  <2>4. GoodRequests
    BY <1>2, <1>5, <2>1 DEF EnqueueResolve
  <2>. QED
    BY <1>5, <2>2, <2>3, <2>4 DEF EnqueueResolve, TypeOK
<1>6. CASE EnqueueOpen(n)
  <2>. DEFINE others == IF notifier[n].plan = "open" THEN SupersededBy(e) ELSE job
  <2>1. e \in Event /\ notifier[n].todo # << >>
    BY <1>3, <1>6 DEF EnqueueOpen
  <2>2. PICK new \in Free :
           /\ job' = [others EXCEPT ![new] = NewJob(e)]
           /\ group' = [group EXCEPT ![e.group] = [version |-> group[e.group].version + 1,
                           start |-> e.start, resolved |-> 0, job |-> new, cool |-> 0]]
    BY <1>6 DEF EnqueueOpen
  <2>3. new \in JobId
    BY DEF Free
  <2>. HIDE DEF e
  <2>4. others \in [JobId -> JobRow]
    <3>1. ASSUME NEW j \in JobId PROVE job[j] \in JobRow /\ [job[j] EXCEPT !.status = "cancelled"] \in JobRow
      BY JobRowType DEF TypeOK, Terminal
    <3>. QED BY <3>1 DEF SupersededBy, TypeOK
  <2>5. NewJob(e) \in JobRow
    BY <2>1 DEF NewJob, FreeJob, JobRow, Event, Claimable, TypeOK
  <2>6. job' \in [JobId -> JobRow]
    <3>. HIDE DEF others
    <3>. QED BY <2>2, <2>3, <2>4, <2>5
  <2>7. group' \in [Group -> GroupRow]
    BY <2>1, <2>2, <2>3 DEF GroupRow, Event, TypeOK
  <2>8. GoodRequests
    BY <1>2, <1>6, <2>1 DEF EnqueueOpen
  <2>. QED
    BY <1>6, <2>6, <2>7, <2>8 DEF EnqueueOpen, TypeOK
<1>7. CASE EnqueueRetry(n)
  <2>. DEFINE s == IF notifier[n].attempt + 1 = EnqueueAttempts THEN IdleNotifier
                   ELSE [notifier[n] EXCEPT !.pc = "read", !.attempt = notifier[n].attempt + 1]
  <2>1. notifier[n].todo # << >>
    BY <1>3, <1>7 DEF EnqueueRetry
  <2>2. notifier[n] \in NotifierState
    BY DEF TypeOK
  <2>3. s \in NotifierState /\ (s.pc # "idle" => s.todo # << >>)
    <3>1. IdleNotifier \in NotifierState /\ IdleNotifier.pc = "idle"
      BY DEF NotifierState, IdleNotifier
    <3>2. notifier[n].attempt + 1 \in Nat
      BY <2>2 DEF NotifierState
    <3>3. /\ [notifier[n] EXCEPT !.pc = "read", !.attempt = notifier[n].attempt + 1] \in NotifierState
          /\ [notifier[n] EXCEPT !.pc = "read", !.attempt = notifier[n].attempt + 1].todo = notifier[n].todo
      BY <2>2, <3>2, RetriedType
    <3>. QED BY <2>1, <3>1, <3>3
  <2>4. notifier' = [notifier EXCEPT ![n] = s]
    BY <1>7 DEF EnqueueRetry
  <2>5. GoodRequests
    <3>. HIDE DEF s
    <3>. QED BY <2>3, <2>4, NotifierUpdate
  <2>6. budget' \in Budget
    <3>1. budget \in Budget
      BY DEF TypeOK, Budget
    <3>2. CASE Unmoved(n, e.group)
      <4>1. budget.crashes > 0 /\ budget' = [budget EXCEPT !.crashes = budget.crashes - 1]
        BY <1>7, <3>2 DEF EnqueueRetry
      <4>. QED BY <3>1, <4>1, BudgetType
    <3>3. CASE ~Unmoved(n, e.group)
      BY <1>7, <3>1, <3>3 DEF EnqueueRetry
    <3>. QED BY <3>2, <3>3
  <2>7. UNCHANGED <<group, job, delivery, alarm, eligible, worker, sends>>
    BY <1>7 DEF EnqueueRetry
  <2>. HIDE DEF s
  <2>. QED
    BY <2>5, <2>6, <2>7, RequestStep DEF TypeOK
<1>. QED
  BY <1>1, <1>4, <1>5, <1>6, <1>7 DEF Enqueue

GoodWorker(s) ==
    /\ s \in WorkerState
    /\ s.pc \notin {"idle", "claim"} => s.job \in JobId
    /\ s.pc \in {"grab", "send", "confirm"} => s.channel \in Channel
    /\ s.pc = "finish" => s.outcome \in Claimable \cup Terminal

\* Replacing one worker by a well-formed one.
LEMMA WorkerUpdate ==
    ASSUME TypeOK, NEW w \in Worker, NEW s \in WorkerState, GoodWorker(s), Becomes(w, s)
    PROVE  /\ worker' \in [Worker -> WorkerState]
           /\ \A v \in Worker : GoodWorker(worker'[v])
  BY DEF TypeOK, GoodWorker, Becomes

\* A worker that reads or drops candidates has no job yet.
LEMMA ClaimMoves ==
    ASSUME NEW s \in WorkerState, GoodWorker(s), s.pc \in {"idle", "claim"}, NEW cands \in SUBSET Candidate
    PROVE  /\ GoodWorker([s EXCEPT !.pc = "claim", !.cands = cands])
           /\ GoodWorker([s EXCEPT !.cands = cands])
  BY DEF GoodWorker, WorkerState

LEMMA IdleGood == GoodWorker(IdleWorker)
  BY DEF GoodWorker, IdleWorker, WorkerState

\* What is left to show of a step of a worker.
LEMMA WorkerStep ==
    ASSUME TypeOK,
           worker' \in [Worker -> WorkerState],
           \A v \in Worker : GoodWorker(worker'[v]),
           group' \in [Group -> GroupRow], job' \in [JobId -> JobRow],
           delivery' \in [JobId -> [Channel -> DeliveryRow]],
           sends' \in [JobId -> [Channel -> Nat]],
           budget' \in Budget,
           UNCHANGED <<alarm, eligible, notifier>>
    PROVE  TypeOK'
  BY DEF TypeOK, Budget, GoodWorker

\* A step that changes nothing but one worker.
LEMMA WorkerAlone ==
    ASSUME TypeOK, NEW w \in Worker, NEW s \in WorkerState, GoodWorker(s), Becomes(w, s),
           UNCHANGED <<group, job, delivery, alarm, eligible, notifier, sends, budget>>
    PROVE  TypeOK'
<1>1. /\ worker' \in [Worker -> WorkerState]
      /\ \A v \in Worker : GoodWorker(worker'[v])
  BY WorkerUpdate
<1>. QED
  BY <1>1, WorkerStep DEF TypeOK, Budget

LEMMA Returned ==
    ASSUME TypeOK, NEW w \in Worker, Return(w)
    PROVE  /\ worker' \in [Worker -> WorkerState]
           /\ \A v \in Worker : GoodWorker(worker'[v])
<1>1. IdleWorker \in WorkerState
  BY IdleGood DEF GoodWorker
<1>. QED
  BY <1>1, IdleGood, WorkerUpdate DEF Return

\* The worker that takes a step is well-formed before it.
LEMMA ActingWorker ==
    ASSUME TypeOK, NEW w \in Worker
    PROVE  /\ worker[w] \in WorkerState /\ GoodWorker(worker[w])
           /\ worker[w].pc \notin {"idle", "claim"} => worker[w].job \in JobId
           /\ worker[w].cands \in SUBSET Candidate /\ worker[w].todo \in SUBSET Channel
           /\ worker[w].tries \in [Channel -> Nat] /\ worker[w].lease \in Nat
  BY DEF TypeOK, GoodWorker, WorkerState

LEMMA Skipped ==
    ASSUME TypeOK, NEW w \in Worker, worker[w].pc = "claim", NEW r, SkipCandidate(w, r)
    PROVE  /\ worker' \in [Worker -> WorkerState]
           /\ \A v \in Worker : GoodWorker(worker'[v])
<1>1. CASE worker[w].cands = {r}
  BY <1>1, Returned DEF SkipCandidate
<1>2. CASE worker[w].cands # {r}
  <2>. DEFINE left == worker[w].cands \ {r}
              s == [worker[w] EXCEPT !.cands = left]
  <2>1. left \in SUBSET Candidate
    BY ActingWorker
  <2>2. GoodWorker(s)
    BY <2>1, ActingWorker, ClaimMoves
  <2>3. Becomes(w, s)
    BY <1>2 DEF SkipCandidate
  <2>4. s \in WorkerState
    BY <2>2 DEF GoodWorker
  <2>. HIDE DEF s
  <2>. QED BY <2>2, <2>3, <2>4, WorkerUpdate
<1>. QED
  BY <1>1, <1>2

\* Claiming a job keeps the types: the candidates were read from the table.
LEMMA ClaimType ==
    ASSUME TypeOK, NEW w \in Worker, ClaimRead(w) \/ ClaimExhausted(w) \/ ClaimGrant(w) \/ ClaimLost(w)
    PROVE  TypeOK'
<1>1. CASE ClaimRead(w)
  <2>. DEFINE due == {j \in JobId : job[j].status \in Claimable /\ job[j].next = 0 /\ job[j].lease = 0}
              read == {[id |-> j, analysed |-> job[j].analysed, attempts |-> job[j].attempts] : j \in due}
              s == [worker[w] EXCEPT !.pc = "claim", !.cands = read]
  <2>1. read \in SUBSET Candidate
    BY DEF TypeOK, JobRow, Candidate
  <2>2. GoodWorker(s)
    <3>. HIDE DEF read
    <3>. QED BY <1>1, <2>1, ActingWorker, ClaimMoves DEF ClaimRead
  <2>3. Becomes(w, s)
    BY <1>1 DEF ClaimRead
  <2>4. s \in WorkerState
    BY <2>2 DEF GoodWorker
  <2>5. UNCHANGED <<group, job, delivery, alarm, eligible, notifier, sends, budget>>
    BY <1>1 DEF ClaimRead
  <2>. HIDE DEF s
  <2>. QED BY <2>2, <2>3, <2>4, <2>5, WorkerAlone
<1>2. CASE ClaimExhausted(w)
  <2>1. PICK r \in worker[w].cands :
           /\ job' = IF job[r.id].lease = 0 /\ ~job[r.id].analysed /\ job[r.id].status \in Unfinished
                     THEN [job EXCEPT ![r.id] = [job[r.id] EXCEPT !.status = "failed"]] ELSE job
           /\ SkipCandidate(w, r)
    BY <1>2 DEF ClaimExhausted
  <2>2. r.id \in JobId
    BY ActingWorker DEF Candidate
  <2>3. [job[r.id] EXCEPT !.status = "failed"] \in JobRow
    BY <2>2, JobRowType DEF TypeOK, Terminal
  <2>4. job' \in [JobId -> JobRow]
    BY <2>1, <2>2, <2>3 DEF TypeOK
  <2>5. UNCHANGED <<group, delivery, alarm, eligible, notifier, sends, budget>> /\ worker[w].pc = "claim"
    BY <1>2 DEF ClaimExhausted
  <2>6. worker' \in [Worker -> WorkerState] /\ \A v \in Worker : GoodWorker(worker'[v])
    BY <2>1, <2>5, Skipped
  <2>. QED BY <2>4, <2>5, <2>6, WorkerStep DEF TypeOK, Budget
<1>3. CASE ClaimGrant(w)
  <2>1. PICK r \in worker[w].cands :
           /\ job' = [job EXCEPT ![r.id] = Granted(w, r)]
           /\ Becomes(w, [IdleWorker EXCEPT
                 !.pc = "check", !.job = r.id, !.analysed = r.analysed,
                 !.attempts = IF r.analysed THEN r.attempts ELSE r.attempts + 1,
                 !.lease = LeaseDuration, !.ctx = WorkTimeout])
    BY <1>3 DEF ClaimGrant
  <2>2. r \in Candidate
    BY ActingWorker
  <2>3. r.id \in JobId /\ r.analysed \in BOOLEAN /\ r.attempts \in Nat
    BY <2>2 DEF Candidate
  <2>4. Granted(w, r) \in JobRow
    <3>1. job[r.id] \in JobRow
      BY <2>3 DEF TypeOK
    <3>2. job[r.id].attempts + 1 \in Nat
      BY <3>1 DEF JobRow
    <3>3. LeaseDuration \in Nat
      BY LeaseAssumption
    <3>4. "working" \in Claimable \cup Terminal /\ w \in Worker \cup {Nobody}
      BY DEF Claimable
    <3>. QED BY <3>1, <3>2, <3>3, <3>4, JobRowType DEF Granted
  <2>5. job' \in [JobId -> JobRow]
    BY <2>1, <2>3, <2>4 DEF TypeOK
  <2>. DEFINE a == IF r.analysed THEN r.attempts ELSE r.attempts + 1
              s == [IdleWorker EXCEPT !.pc = "check", !.job = r.id, !.analysed = r.analysed,
                                      !.attempts = a, !.lease = LeaseDuration, !.ctx = WorkTimeout]
  <2>6. s \in WorkerState /\ GoodWorker(s)
    <3>1. a \in Nat /\ LeaseDuration \in Nat /\ WorkTimeout \in Nat
      BY <2>3, LeaseAssumption
    <3>. HIDE DEF a
    <3>. QED BY <2>3, <3>1 DEF IdleWorker, WorkerState, GoodWorker
  <2>7. Becomes(w, s)
    BY <2>1
  <2>. HIDE DEF s
  <2>8. worker' \in [Worker -> WorkerState] /\ \A v \in Worker : GoodWorker(worker'[v])
    BY <2>6, <2>7, WorkerUpdate
  <2>9. UNCHANGED <<group, delivery, alarm, eligible, notifier, sends, budget>>
    BY <1>3 DEF ClaimGrant
  <2>. QED BY <2>5, <2>8, <2>9, WorkerStep DEF TypeOK, Budget
<1>4. CASE ClaimLost(w)
  <2>1. PICK r \in worker[w].cands : SkipCandidate(w, r)
    BY <1>4 DEF ClaimLost
  <2>2. worker[w].pc = "claim" /\ UNCHANGED <<group, job, delivery, alarm, eligible, notifier, sends, budget>>
    BY <1>4 DEF ClaimLost
  <2>3. worker' \in [Worker -> WorkerState] /\ \A v \in Worker : GoodWorker(worker'[v])
    BY <2>1, <2>2, Skipped
  <2>. QED BY <2>2, <2>3, WorkerStep DEF TypeOK, Budget
<1>. QED
  BY <1>1, <1>2, <1>3, <1>4

LEMMA DeliveryRowType ==
    ASSUME NEW d \in DeliveryRow, NEW s \in {"pending", "sent", "failed", "cancelled"},
           NEW o \in Worker \cup {Nobody}, NEW t \in Nat, NEW a \in Nat
    PROVE  /\ [d EXCEPT !.status = s] \in DeliveryRow
           /\ [d EXCEPT !.status = s, !.owner = o] \in DeliveryRow
           /\ [d EXCEPT !.status = s, !.owner = o, !.lease = t] \in DeliveryRow
           /\ [d EXCEPT !.owner = o, !.lease = t, !.attempts = a] \in DeliveryRow
           /\ [d EXCEPT !.lease = t] \in DeliveryRow
  BY DEF DeliveryRow

\* A worker that goes on or leaves, with the rest of the step typed, keeps the types.
LEMMA WorkerGoes ==
    ASSUME TypeOK, NEW w \in Worker, worker[w].pc \notin {"idle", "claim"},
           \/ \E p \in {"check", "analyze", "commit", "sweep", "deliver", "count"} : Goto(w, p)
           \/ Return(w)
           \/ \E o \in {"queued", "delivery"} \cup Terminal : Finish(w, o),
           group' \in [Group -> GroupRow], job' \in [JobId -> JobRow],
           delivery' \in [JobId -> [Channel -> DeliveryRow]],
           UNCHANGED <<alarm, eligible, notifier, sends, budget>>
    PROVE  TypeOK'
<1>1. GoodWorker(worker[w]) /\ worker[w] \in WorkerState /\ worker[w].job \in JobId
  BY ActingWorker
<1>2. ASSUME NEW p \in {"check", "analyze", "commit", "sweep", "deliver", "count"},
             NEW o \in {"queued", "delivery"} \cup Terminal
      PROVE  GoodWorker([worker[w] EXCEPT !.pc = p]) /\ GoodWorker([worker[w] EXCEPT !.pc = "finish", !.outcome = o])
  <2>1. GoodWorker([worker[w] EXCEPT !.pc = p])
    BY <1>1 DEF GoodWorker, WorkerState
  <2>2. GoodWorker([worker[w] EXCEPT !.pc = "finish", !.outcome = o])
    BY <1>1 DEF GoodWorker, WorkerState, Claimable
  <2>. QED BY <2>1, <2>2
<1>3. worker' \in [Worker -> WorkerState] /\ \A v \in Worker : GoodWorker(worker'[v])
  <2>1. CASE Return(w)
    BY <2>1, Returned
  <2>2. ASSUME NEW p \in {"check", "analyze", "commit", "sweep", "deliver", "count"}, Goto(w, p)
        PROVE  worker' \in [Worker -> WorkerState] /\ \A v \in Worker : GoodWorker(worker'[v])
    <3>. DEFINE s == [worker[w] EXCEPT !.pc = p]
    <3>1. GoodWorker(s)
      BY <1>2 DEF Terminal
    <3>2. s \in WorkerState /\ Becomes(w, s)
      BY <2>2, <3>1 DEF Goto, GoodWorker
    <3>. HIDE DEF s
    <3>. QED BY <3>1, <3>2, WorkerUpdate
  <2>3. ASSUME NEW o \in {"queued", "delivery"} \cup Terminal, Finish(w, o)
        PROVE  worker' \in [Worker -> WorkerState] /\ \A v \in Worker : GoodWorker(worker'[v])
    <3>. DEFINE s == [worker[w] EXCEPT !.pc = "finish", !.outcome = o]
    <3>1. GoodWorker(s)
      BY <1>2
    <3>2. s \in WorkerState /\ Becomes(w, s)
      BY <2>3, <3>1 DEF Finish, GoodWorker
    <3>. HIDE DEF s
    <3>. QED BY <3>1, <3>2, WorkerUpdate
  <2>. QED BY <2>1, <2>2, <2>3
<1>. QED
  BY <1>3, WorkerStep DEF TypeOK, Budget

\* The analysis phase: check, model call, commit, finish and the ways out of it.
LEMMA AnalysisType ==
    ASSUME TypeOK, NEW w \in Worker,
           \/ Check(w) \/ AnalyzeOk(w) \/ AnalyzeFail(w) \/ CommitResult(w) \/ CommitRefused(w)
           \/ DeliverEnd(w) \/ CountPending(w) \/ FinishJob(w) \/ TimedOut(w)
    PROVE  TypeOK'
<1>. DEFINE j == worker[w].job
            Quiet == UNCHANGED <<group, job, delivery, alarm, eligible, notifier, sends, budget>>
<1>1. ASSUME worker[w].pc \notin {"idle", "claim"}, Quiet,
             \/ \E p \in {"check", "analyze", "commit", "sweep", "deliver", "count"} : Goto(w, p)
             \/ Return(w)
             \/ \E o \in {"queued", "delivery"} \cup Terminal : Finish(w, o)
      PROVE  TypeOK'
  BY <1>1, WorkerGoes DEF TypeOK
<1>2. CASE Check(w)
  BY <1>1, <1>2 DEF Check, Terminal
<1>3. CASE AnalyzeOk(w)
  BY <1>1, <1>3 DEF AnalyzeOk
<1>4. CASE AnalyzeFail(w)
  BY <1>1, <1>4 DEF AnalyzeFail, Terminal
<1>5. CASE CommitRefused(w)
  BY <1>1, <1>5 DEF CommitRefused
<1>6. CASE DeliverEnd(w)
  BY <1>1, <1>6 DEF DeliverEnd
<1>7. CASE CountPending(w)
  BY <1>1, <1>7 DEF CountPending, Terminal
<1>8. CASE TimedOut(w)
  BY <1>1, <1>8 DEF TimedOut
<1>9. CASE FinishJob(w)
  <2>1. worker[w].pc = "finish" /\ Return(w) /\ UNCHANGED <<group, delivery, alarm, eligible, notifier, sends, budget>>
    BY <1>9 DEF FinishJob
  <2>2. job' \in [JobId -> JobRow]
    <3>1. j \in JobId
      BY <2>1, ActingWorker
    <3>2. [job[j] EXCEPT !.status = worker[w].outcome, !.owner = Nobody, !.lease = 0, !.next = RetryDelay] \in JobRow
      <4>1. job[j] \in JobRow
        BY <3>1 DEF TypeOK
      <4>2. worker[w].outcome \in Claimable \cup Terminal
        BY <2>1 DEF TypeOK
      <4>3. RetryDelay \in Nat /\ 0 \in Nat /\ Nobody \in Worker \cup {Nobody}
        BY LeaseAssumption
      <4>. HIDE DEF j
      <4>. QED BY <4>1, <4>2, <4>3, JobRowType
    <3>3. \/ job' = job
          \/ job' = [job EXCEPT ![j] = [job[j] EXCEPT !.status = worker[w].outcome,
                                                !.owner = Nobody, !.lease = 0, !.next = RetryDelay]]
      BY <1>9 DEF FinishJob
    <3>. QED BY <3>1, <3>2, <3>3 DEF TypeOK
  <2>. QED BY <2>1, <2>2, WorkerGoes DEF TypeOK
<1>10. CASE CommitResult(w)
  <2>1. worker[w].pc = "commit" /\ Goto(w, "sweep") /\ UNCHANGED <<alarm, eligible, notifier, sends, budget>>
    BY <1>10 DEF CommitResult
  <2>2. j \in JobId
    BY <2>1, ActingWorker
  <2>3. job' \in [JobId -> JobRow]
    <3>1. job' = [job EXCEPT ![j] = [job[j] EXCEPT !.analysed = TRUE, !.status = "delivery"]]
      BY <1>10 DEF CommitResult
    <3>2. [job[j] EXCEPT !.analysed = TRUE, !.status = "delivery"] \in JobRow
      BY <2>2, JobRowType DEF TypeOK, Claimable
    <3>. HIDE DEF j
    <3>. QED BY <2>2, <3>1, <3>2 DEF TypeOK
  <2>4. group' \in [Group -> GroupRow]
    <3>. DEFINE g == job[j].group
                r == [group[g] EXCEPT !.cool = Cooldown, !.version = group[g].version + 1]
    <3>1. group' = group \/ group' = [group EXCEPT ![g] = r]
      BY <1>10 DEF CommitResult
    <3>2. ASSUME g \in Group PROVE r \in GroupRow
      <4>1. group[g] \in GroupRow
        BY <3>2 DEF TypeOK
      <4>2. group[g].version + 1 \in Nat /\ Cooldown \in Nat
        BY <4>1, LeaseAssumption DEF GroupRow
      <4>. QED BY <4>1, <4>2 DEF GroupRow
    <3>. HIDE DEF r, g
    <3>. QED BY <3>1, <3>2 DEF TypeOK
  <2>5. delivery' \in [JobId -> [Channel -> DeliveryRow]]
    <3>. DEFINE f == [c \in Channel |->
              IF c \in job[j].channels /\ delivery[j][c].status = "none"
              THEN [NoDelivery EXCEPT !.status = "pending"] ELSE delivery[j][c]]
    <3>1. [NoDelivery EXCEPT !.status = "pending"] \in DeliveryRow
      BY DEF NoDelivery, DeliveryRow
    <3>2. f \in [Channel -> DeliveryRow]
      BY <2>2, <3>1 DEF TypeOK
    <3>3. delivery' = [delivery EXCEPT ![j] = f]
      BY <1>10 DEF CommitResult
    <3>. HIDE DEF f, j
    <3>. QED BY <2>2, <3>2, <3>3 DEF TypeOK
  <2>. QED BY <2>1, <2>3, <2>4, <2>5, WorkerGoes
<1>. QED
  BY <1>2, <1>3, <1>4, <1>5, <1>6, <1>7, <1>8, <1>9, <1>10

\* Replacing the deliveries of a job, or one of them.
LEMMA DeliveryUpdate ==
    ASSUME TypeOK, NEW j \in JobId, NEW c \in Channel, NEW d \in DeliveryRow
    PROVE  [delivery EXCEPT ![j][c] = d] \in [JobId -> [Channel -> DeliveryRow]]
  BY DEF TypeOK

\* A worker that moves in the delivery phase, with the rest of the step typed.
LEMMA DeliveryGoes ==
    ASSUME TypeOK, NEW w \in Worker, NEW s \in WorkerState, GoodWorker(s), Becomes(w, s),
           delivery' \in [JobId -> [Channel -> DeliveryRow]],
           sends' \in [JobId -> [Channel -> Nat]],
           UNCHANGED <<group, job, alarm, eligible, notifier, budget>>
    PROVE  TypeOK'
<1>1. worker' \in [Worker -> WorkerState] /\ \A v \in Worker : GoodWorker(worker'[v])
  BY WorkerUpdate
<1>. QED
  BY <1>1, WorkerStep DEF TypeOK, Budget

\* The delivery phase: sweep, choice of a channel, grab, send and confirmation.
LEMMA DeliveryType ==
    ASSUME TypeOK, NEW w \in Worker,
           \/ Sweep(w) \/ Deliver(w) \/ GrabDelivery(w) \/ SendReaches(w) \/ SendFails(w) \/ Confirm(w)
    PROVE  TypeOK'
<1>. DEFINE j == worker[w].job
            ch == worker[w].channel
<1>1. /\ worker[w] \in WorkerState /\ GoodWorker(worker[w]) /\ worker[w].lease \in Nat
      /\ worker[w].todo \in SUBSET Channel
  BY ActingWorker
<1>2. worker[w].pc \notin {"idle", "claim"} /\ j \in JobId
  BY ActingWorker DEF Sweep, Deliver, GrabDelivery, SendReaches, SendFails, Confirm
<1>3. job[j] \in JobRow /\ delivery[j] \in [Channel -> DeliveryRow]
  BY <1>2 DEF TypeOK
<1>4. worker[w].pc \in {"grab", "send", "confirm"} => ch \in Channel
  BY <1>1 DEF GoodWorker
<1>5. delivery \in [JobId -> [Channel -> DeliveryRow]] /\ sends \in [JobId -> [Channel -> Nat]]
  BY DEF TypeOK
<1>6. CASE Sweep(w)
  <2>. DEFINE d == delivery[j]
              lost(c) == d[c].status = "pending" /\ d[c].attempts >= MaxAttempts /\ d[c].lease = 0
              f == [c \in Channel |-> IF lost(c) THEN [d[c] EXCEPT !.status = "failed", !.owner = Nobody] ELSE d[c]]
              todo == {c \in Channel : Open(d[c])}
              tries == [c \in Channel |-> d[c].attempts]
              s == [worker[w] EXCEPT !.pc = "deliver", !.todo = todo, !.tries = tries]
  <2>1. /\ delivery' = [delivery EXCEPT ![j] = f] /\ Becomes(w, s)
        /\ UNCHANGED <<group, job, alarm, eligible, notifier, sends, budget>>
    BY <1>6 DEF Sweep
  <2>2. f \in [Channel -> DeliveryRow]
    <3>1. ASSUME NEW c \in Channel
          PROVE  d[c] \in DeliveryRow /\ [d[c] EXCEPT !.status = "failed", !.owner = Nobody] \in DeliveryRow
      <4>1. d[c] \in DeliveryRow
        BY <1>3
      <4>. HIDE DEF d
      <4>. QED BY <4>1, DeliveryRowType
    <3>. HIDE DEF lost, d
    <3>. QED BY <3>1
  <2>3. todo \in SUBSET Channel /\ tries \in [Channel -> Nat]
    BY <1>3 DEF DeliveryRow
  <2>4. s \in WorkerState /\ GoodWorker(s)
    <3>. HIDE DEF todo, tries
    <3>. QED BY <1>1, <1>2, <2>3 DEF GoodWorker, WorkerState
  <2>5. delivery' \in [JobId -> [Channel -> DeliveryRow]]
    <3>. HIDE DEF f, j
    <3>. QED BY <1>5, <2>1, <2>2
  <2>. HIDE DEF s
  <2>. QED BY <1>5, <2>1, <2>4, <2>5, DeliveryGoes
<1>7. CASE Deliver(w)
  <2>1. PICK c \in worker[w].todo :
          \/ Finish(w, "cancelled") /\ UNCHANGED delivery
          \/ /\ delivery' = IF delivery[j][c].status = "pending"
                            THEN [delivery EXCEPT ![j][c] = [delivery[j][c] EXCEPT !.status = "cancelled"]]
                            ELSE delivery
             /\ Becomes(w, [worker[w] EXCEPT !.todo = worker[w].todo \ {c}])
          \/ /\ Becomes(w, [worker[w] EXCEPT !.pc = "grab", !.channel = c, !.todo = worker[w].todo \ {c}])
             /\ UNCHANGED delivery
    BY <1>7 DEF Deliver
  <2>2. c \in Channel /\ worker[w].todo \ {c} \in SUBSET Channel
    BY <1>1, <2>1
  <2>3. UNCHANGED <<group, job, alarm, eligible, notifier, sends, budget>> /\ worker[w].pc = "deliver"
    BY <1>7 DEF Deliver
  <2>4. CASE Finish(w, "cancelled") /\ UNCHANGED delivery
    BY <1>2, <1>5, <2>3, <2>4, WorkerGoes DEF Terminal, TypeOK
  <2>5. CASE /\ delivery' = IF delivery[j][c].status = "pending"
                            THEN [delivery EXCEPT ![j][c] = [delivery[j][c] EXCEPT !.status = "cancelled"]]
                            ELSE delivery
             /\ Becomes(w, [worker[w] EXCEPT !.todo = worker[w].todo \ {c}])
    <3>. DEFINE todo == worker[w].todo \ {c}
                s == [worker[w] EXCEPT !.todo = todo]
                r == [delivery[j][c] EXCEPT !.status = "cancelled"]
    <3>1. s \in WorkerState /\ GoodWorker(s)
      <4>. HIDE DEF todo
      <4>1. todo \in SUBSET Channel
        BY <2>2 DEF todo
      <4>. QED BY <1>1, <1>2, <4>1 DEF GoodWorker, WorkerState
    <3>2. r \in DeliveryRow
      <4>1. delivery[j][c] \in DeliveryRow
        BY <1>3, <2>2
      <4>. QED BY <4>1, DeliveryRowType
    <3>3. Becomes(w, s) /\ (delivery' = delivery \/ delivery' = [delivery EXCEPT ![j][c] = r])
      BY <2>5
    <3>4. delivery' \in [JobId -> [Channel -> DeliveryRow]]
      <4>. HIDE DEF r, j, s
      <4>1. [delivery EXCEPT ![j][c] = r] \in [JobId -> [Channel -> DeliveryRow]]
        BY <1>2, <2>2, <3>2, DeliveryUpdate
      <4>. QED BY <1>5, <3>3, <4>1
    <3>. HIDE DEF s
    <3>. QED BY <1>5, <2>3, <3>1, <3>3, <3>4, DeliveryGoes
  <2>6. CASE /\ Becomes(w, [worker[w] EXCEPT !.pc = "grab", !.channel = c, !.todo = worker[w].todo \ {c}])
             /\ UNCHANGED delivery
    <3>. DEFINE todo == worker[w].todo \ {c}
                s == [worker[w] EXCEPT !.pc = "grab", !.channel = c, !.todo = todo]
    <3>1. s \in WorkerState /\ GoodWorker(s)
      <4>. HIDE DEF todo
      <4>1. todo \in SUBSET Channel
        BY <2>2 DEF todo
      <4>. QED BY <1>1, <1>2, <2>2, <4>1 DEF GoodWorker, WorkerState
    <3>2. Becomes(w, s)
      BY <2>6
    <3>. HIDE DEF s
    <3>. QED BY <1>5, <2>3, <2>6, <3>1, <3>2, DeliveryGoes
  <2>. QED BY <2>1, <2>4, <2>5, <2>6
<1>8. CASE GrabDelivery(w)
  <2>1. UNCHANGED <<group, job, alarm, eligible, notifier, sends, budget>> /\ worker[w].pc = "grab" /\ ch \in Channel
    BY <1>4, <1>8 DEF GrabDelivery
  <2>2. CASE Goto(w, "deliver") /\ UNCHANGED delivery
    BY <1>2, <1>5, <2>1, <2>2, WorkerGoes DEF TypeOK
  <2>3. CASE Goto(w, "send") /\ delivery' = [delivery EXCEPT ![j][ch] = Grabbed(w, delivery[j][ch])]
    <3>. DEFINE s == [worker[w] EXCEPT !.pc = "send"]
                r == Grabbed(w, delivery[j][ch])
    <3>1. s \in WorkerState /\ GoodWorker(s)
      BY <1>1, <1>2, <2>1 DEF GoodWorker, WorkerState
    <3>2. r \in DeliveryRow
      <4>1. delivery[j][ch] \in DeliveryRow
        BY <1>3, <2>1
      <4>2. delivery[j][ch].attempts + 1 \in Nat
        BY <4>1 DEF DeliveryRow
      <4>. QED BY <1>1, <4>1, <4>2, DeliveryRowType DEF Grabbed
    <3>3. Becomes(w, s) /\ delivery' = [delivery EXCEPT ![j][ch] = r]
      BY <2>3 DEF Goto
    <3>4. delivery' \in [JobId -> [Channel -> DeliveryRow]]
      <4>. HIDE DEF r, j, ch
      <4>. QED BY <1>2, <2>1, <3>2, <3>3, DeliveryUpdate
    <3>. HIDE DEF s, r
    <3>. QED BY <1>5, <2>1, <3>1, <3>3, <3>4, DeliveryGoes
  <2>. QED BY <1>8, <2>2, <2>3 DEF GrabDelivery
<1>9. ASSUME NEW o \in {"sent", "error"}, worker[w].pc = "send",
             Becomes(w, [worker[w] EXCEPT !.pc = "confirm", !.outcome = o]),
             sends' \in [JobId -> [Channel -> Nat]],
             UNCHANGED <<group, job, delivery, alarm, eligible, notifier, budget>>
      PROVE  TypeOK'
  <2>. DEFINE s == [worker[w] EXCEPT !.pc = "confirm", !.outcome = o]
  <2>1. s \in WorkerState /\ GoodWorker(s)
    BY <1>1, <1>2, <1>4, <1>9 DEF GoodWorker, WorkerState
  <2>2. Becomes(w, s)
    BY <1>9
  <2>. HIDE DEF s
  <2>. QED BY <1>5, <1>9, <2>1, <2>2, DeliveryGoes
<1>10. CASE SendReaches(w)
  <2>1. PICK o \in {"sent", "error"} : Becomes(w, [worker[w] EXCEPT !.pc = "confirm", !.outcome = o])
    BY <1>10 DEF SendReaches
  <2>2. /\ sends' = [sends EXCEPT ![j][ch] = sends[j][ch] + 1] /\ worker[w].pc = "send"
        /\ UNCHANGED <<group, job, delivery, alarm, eligible, notifier, budget>>
    BY <1>10 DEF SendReaches
  <2>3. sends' \in [JobId -> [Channel -> Nat]]
    <3>. DEFINE k == sends[j][ch] + 1
    <3>1. ch \in Channel
      BY <1>4, <2>2
    <3>2. k \in Nat
      BY <1>2, <1>5, <3>1
    <3>3. sends' = [sends EXCEPT ![j][ch] = k]
      BY <2>2
    <3>. HIDE DEF k, j, ch
    <3>. QED BY <1>2, <1>5, <3>1, <3>2, <3>3
  <2>. QED BY <1>9, <2>1, <2>2, <2>3
<1>11. CASE SendFails(w)
  BY <1>5, <1>9, <1>11 DEF SendFails
<1>12. CASE Confirm(w)
  <2>. DEFINE s == [worker[w] EXCEPT !.pc = "deliver", !.channel = NoChannel, !.outcome = "none"]
              r == [delivery[j][ch] EXCEPT !.status = Confirmed(w), !.owner = Nobody, !.lease = 0]
  <2>1. /\ UNCHANGED <<group, job, alarm, eligible, notifier, sends, budget>>
        /\ worker[w].pc = "confirm" /\ ch \in Channel /\ Becomes(w, s)
        /\ delivery' = delivery \/ delivery' = [delivery EXCEPT ![j][ch] = r]
    BY <1>4, <1>12 DEF Confirm
  <2>2. s \in WorkerState /\ GoodWorker(s)
    BY <1>1, <1>2 DEF GoodWorker, WorkerState
  <2>3. r \in DeliveryRow
    <3>1. delivery[j][ch] \in DeliveryRow
      BY <1>3, <2>1
    <3>2. Confirmed(w) \in {"pending", "sent", "failed", "cancelled"}
      BY DEF Confirmed
    <3>. QED BY <3>1, <3>2, DeliveryRowType
  <2>4. delivery' \in [JobId -> [Channel -> DeliveryRow]]
    <3>. HIDE DEF r, j, ch, s
    <3>1. [delivery EXCEPT ![j][ch] = r] \in [JobId -> [Channel -> DeliveryRow]]
      BY <1>2, <2>1, <2>3, DeliveryUpdate
    <3>. QED BY <1>5, <2>1, <3>1
  <2>. HIDE DEF s
  <2>. QED BY <1>5, <2>1, <2>2, <2>4, DeliveryGoes
<1>. QED
  BY <1>6, <1>7, <1>8, <1>10, <1>11, <1>12

\* A worker's step keeps the types.
LEMMA ProcessOneType == ASSUME TypeOK, NEW w \in Worker, ProcessOne(w) PROVE TypeOK'
  BY ClaimType, AnalysisType, DeliveryType DEF ProcessOne

\* A crash, a shutdown or an edit keeps the types.
LEMMA EnvironmentType ==
    ASSUME TypeOK, Edit \/ \E w \in Worker : Crash(w) \/ Shutdown(w)
    PROVE  TypeOK'
<1>1. ASSUME NEW w \in Worker, Crash(w) PROVE TypeOK'
  <2>1. worker' \in [Worker -> WorkerState] /\ \A v \in Worker : GoodWorker(worker'[v])
    BY <1>1, Returned DEF Crash
  <2>2. budget' \in Budget /\ UNCHANGED <<group, job, delivery, alarm, eligible, notifier, sends>>
    BY <1>1, BudgetType DEF Crash, TypeOK, Budget
  <2>. QED BY <2>1, <2>2, WorkerStep DEF TypeOK
<1>2. ASSUME NEW w \in Worker, Shutdown(w) PROVE TypeOK'
  <2>. DEFINE s == [worker[w] EXCEPT !.ctx = 0]
  <2>1. worker[w] \in WorkerState /\ GoodWorker(worker[w])
    BY ActingWorker
  <2>2. s \in WorkerState /\ GoodWorker(s)
    BY <2>1 DEF GoodWorker, WorkerState
  <2>3. Becomes(w, s)
    BY <1>2 DEF Shutdown
  <2>4. worker' \in [Worker -> WorkerState] /\ \A v \in Worker : GoodWorker(worker'[v])
    <3>. HIDE DEF s
    <3>. QED BY <2>2, <2>3, WorkerUpdate
  <2>5. budget' \in Budget /\ UNCHANGED <<group, job, delivery, alarm, eligible, notifier, sends>>
    BY <1>2, BudgetType DEF Shutdown, TypeOK, Budget
  <2>. HIDE DEF s
  <2>. QED BY <2>4, <2>5, WorkerStep DEF TypeOK
<1>3. CASE Edit
  <2>1. budget' \in Budget
    BY <1>3, BudgetType DEF Edit, TypeOK, Budget
  <2>2. alarm' \in {"open", "closed", "deleted"} /\ eligible' \in SUBSET Channel
    BY <1>3 DEF Edit, TypeOK
  <2>3. UNCHANGED <<group, job, delivery, notifier, worker, sends>>
    BY <1>3 DEF Edit
  <2>. QED BY <2>1, <2>2, <2>3 DEF TypeOK, Budget
<1>. QED
  BY <1>1, <1>2, <1>3

\* Time keeps the types: counters stop at zero.
LEMMA TickType == ASSUME TypeOK, Tick PROVE TypeOK'
<1>1. group' \in [Group -> GroupRow]
  <2>1. ASSUME NEW g \in Group PROVE [group[g] EXCEPT !.cool = Less(group[g].cool)] \in GroupRow
    <3>1. group[g] \in GroupRow
      BY DEF TypeOK
    <3>2. Less(group[g].cool) \in Nat
      BY <3>1, LessType DEF GroupRow
    <3>. QED BY <3>1, <3>2 DEF GroupRow
  <2>2. group' = [g \in Group |-> [group[g] EXCEPT !.cool = Less(group[g].cool)]]
    BY DEF Tick
  <2>. QED BY <2>1, <2>2
<1>2. job' \in [JobId -> JobRow]
  <2>1. ASSUME NEW j \in JobId
        PROVE  [job[j] EXCEPT !.next = Less(job[j].next), !.lease = Less(job[j].lease)] \in JobRow
    <3>1. job[j] \in JobRow
      BY DEF TypeOK
    <3>2. Less(job[j].next) \in Nat /\ Less(job[j].lease) \in Nat
      BY <3>1, LessType DEF JobRow
    <3>. QED BY <3>1, <3>2 DEF JobRow
  <2>2. job' = [j \in JobId |-> [job[j] EXCEPT !.next = Less(job[j].next), !.lease = Less(job[j].lease)]]
    BY DEF Tick
  <2>. QED BY <2>1, <2>2
<1>3. delivery' \in [JobId -> [Channel -> DeliveryRow]]
  <2>1. ASSUME NEW j \in JobId, NEW c \in Channel
        PROVE  [delivery[j][c] EXCEPT !.lease = Less(delivery[j][c].lease)] \in DeliveryRow
    <3>1. delivery[j][c] \in DeliveryRow
      BY DEF TypeOK
    <3>2. Less(delivery[j][c].lease) \in Nat
      BY <3>1, LessType DEF DeliveryRow
    <3>. QED BY <3>1, <3>2 DEF DeliveryRow
  <2>2. delivery' = [j \in JobId |-> [c \in Channel |->
                        [delivery[j][c] EXCEPT !.lease = Less(delivery[j][c].lease)]]]
    BY DEF Tick
  <2>. QED BY <2>1, <2>2
<1>4. worker' \in [Worker -> WorkerState] /\ \A v \in Worker : GoodWorker(worker'[v])
  <2>1. ASSUME NEW w \in Worker
        PROVE  LET s == [worker[w] EXCEPT !.ctx = Less(worker[w].ctx), !.lease = Less(worker[w].lease)]
               IN  s \in WorkerState /\ GoodWorker(s)
    <3>1. worker[w] \in WorkerState /\ GoodWorker(worker[w])
      BY ActingWorker
    <3>2. Less(worker[w].ctx) \in Nat /\ Less(worker[w].lease) \in Nat
      BY <3>1, LessType DEF WorkerState
    <3>3. \A a, b \in Nat : LET s == [worker[w] EXCEPT !.ctx = a, !.lease = b] IN s \in WorkerState /\ GoodWorker(s)
      BY <3>1 DEF WorkerState, GoodWorker
    <3>. QED BY <3>2, <3>3
  <2>2. worker' = [w \in Worker |-> [worker[w] EXCEPT !.ctx = Less(worker[w].ctx), !.lease = Less(worker[w].lease)]]
    BY DEF Tick
  <2>. QED BY <2>1, <2>2
<1>5. UNCHANGED <<alarm, eligible, notifier, sends, budget>>
  BY DEF Tick
<1>. QED
  BY <1>1, <1>2, <1>3, <1>4, <1>5, WorkerStep DEF TypeOK, Budget

\* TypeOK is inductive.
LEMMA TypeStep == ASSUME TypeOK, [Next]_vars PROVE TypeOK'
<1>1. CASE UNCHANGED vars
  BY <1>1 DEF TypeOK, vars
<1>2. CASE Step
  BY <1>2, NotifierType, ProcessOneType, EnvironmentType DEF Step
<1>3. CASE Tick
  BY <1>3, TickType
<1>. QED
  BY <1>1, <1>2, <1>3 DEF Next

\* Type correctness: whatever webhook requests, workers, crashes, edits and time do,
\* every row of the three tables, every request and every worker keeps its shape, and
\* a worker past its claim always has a job and, while sending, a channel.
THEOREM TypeCorrect == Spec => []TypeOK
<1>. QED
  BY InitType, TypeStep, PTL DEF Spec
=============================================================================
