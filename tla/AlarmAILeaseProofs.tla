------------------------- MODULE AlarmAILeaseProofs -------------------------
(***************************************************************************)
(* Leases and attempts of AlarmAI: for every number of replicas, jobs and  *)
(* channels, and whatever the durations, as long as workCtx ends before    *)
(* the lease does (LeaseAssumption), live workers never share a job and    *)
(* neither the model calls nor the messages exceed their attempts.         *)
(* From the leases also: no message follows the end of its delivery.       *)
(***************************************************************************)
EXTENDS AlarmAIProofs

\* The parts of LeaseInv.
Unborn ==
    \A j \in JobId, c \in Channel :
        delivery[j][c].status = "none" => delivery[j][c] = NoDelivery
Holder(v) ==
    Live(v) =>
        /\ worker[v].pc \notin {"idle", "claim"}
        /\ worker[v].ctx < worker[v].lease
        /\ HoldsJob(v)
        /\ worker[v].pc = "send" => HoldsDelivery(v)
Apart == \A v, w \in Worker : v # w /\ Live(v) /\ Live(w) => worker[v].job # worker[w].job

LEMMA LeaseParts == LeaseInv <=> AttemptsCapped /\ Unborn /\ Apart /\ \A v \in Worker : Holder(v)
  BY DEF LeaseInv, Unborn, Holder, Apart

\* What a step may do to worker v that it does not grant a job to.
Stays(v) ==
    worker'[v].ctx > 0 =>
        /\ worker'[v].ctx = worker[v].ctx
        /\ worker'[v].lease = worker[v].lease
        /\ worker'[v].job = worker[v].job
        /\ worker'[v].pc \notin {"idle", "claim"}

\* What a step may do to the job of a worker that lives on.
JobSafe(v) ==
    LET j == worker[v].job
    IN  \/ /\ job'[j].owner = job[j].owner
           /\ job'[j].lease = job[j].lease
           /\ job[j].status # "none" => job'[j].status # "none"
           /\ job[j].status = "cancelled" => job'[j].status = "cancelled"
        \/ job'[j].owner = Nobody /\ job'[j].status = "cancelled"

\* A step that grants no job keeps LeaseInv if it is kind to the holders.
LEMMA LeaseFrame ==
    ASSUME LeaseInv,
           \A v \in Worker : Stays(v),
           \A v \in Worker : Live(v) /\ worker'[v].ctx > 0 => JobSafe(v),
           \A v \in Worker : worker'[v].ctx > 0 /\ worker'[v].pc = "send" => HoldsDelivery(v)',
           AttemptsCapped', Unborn'
    PROVE  LeaseInv'
<1>1. ASSUME NEW v \in Worker, worker'[v].ctx > 0
      PROVE  Live(v) /\ worker'[v].ctx < worker'[v].lease /\ worker'[v].job = worker[v].job
  BY <1>1 DEF LeaseInv, Stays, Live
<1>2. ASSUME NEW v \in Worker, worker'[v].ctx > 0
      PROVE  HoldsJob(v)'
  <2>1. HoldsJob(v) /\ JobSafe(v)
    BY <1>1, <1>2 DEF LeaseInv
  <2>. QED BY <1>1, <1>2, <2>1 DEF HoldsJob, JobSafe, Mine, Stays
<1>3. \A v \in Worker : Holder(v)'
  BY <1>1, <1>2 DEF Holder, Live, Stays
<1>4. Apart'
  BY <1>1 DEF Apart, LeaseInv, Live
<1>. QED
  BY <1>3, <1>4 DEF LeaseInv, Unborn, Holder, Apart

\* A sender keeps its delivery if nobody touches the row.
LEMMA DeliveryKept ==
    ASSUME LeaseInv, NEW v \in Worker, worker'[v].ctx > 0, worker'[v].pc = "send", Stays(v),
           worker[v].pc = "send", worker'[v].channel = worker[v].channel,
           delivery'[worker[v].job][worker[v].channel] = delivery[worker[v].job][worker[v].channel],
           sends'[worker[v].job][worker[v].channel] = sends[worker[v].job][worker[v].channel]
    PROVE  HoldsDelivery(v)'
<1>1. HoldsDelivery(v)
  BY DEF LeaseInv, Stays, Live
<1>. QED
  BY <1>1 DEF HoldsDelivery, Stays

\* The types that the lease argument needs.
LEMMA Shapes ==
    ASSUME TypeOK
    PROVE  /\ \A w \in Worker : worker[w] \in WorkerState
           /\ \A w \in Worker : Live(w) => worker[w].ctx \in Nat
           /\ \A w \in Worker : worker[w].pc \notin {"idle", "claim"} => worker[w].job \in JobId
           /\ \A w \in Worker : worker[w].pc \in {"grab", "send", "confirm"} => worker[w].channel \in Channel
  BY DEF TypeOK, WorkerState

\* Replacing worker w by s leaves the others alone.
LEMMA Others ==
    ASSUME TypeOK, NEW w \in Worker, NEW s, Becomes(w, s)
    PROVE  worker'[w] = s /\ \A v \in Worker : v # w => worker'[v] = worker[v]
  BY DEF TypeOK, Becomes

\* A step of worker w that leaves jobs, deliveries and sends alone, and does not enter "send".
LEMMA WorkerQuiet ==
    ASSUME TypeOK, LeaseInv, NEW w \in Worker, NEW s, Becomes(w, s),
           s.ctx > 0 => /\ s.ctx = worker[w].ctx /\ s.lease = worker[w].lease
                        /\ s.job = worker[w].job /\ s.pc \notin {"idle", "claim", "send"},
           UNCHANGED <<job, delivery, sends>>
    PROVE  LeaseInv'
<1>1. worker'[w] = s /\ \A v \in Worker : v # w => worker'[v] = worker[v]
  BY Others
<1>2. \A v \in Worker : Stays(v)
  BY <1>1 DEF Stays, LeaseInv, Live
<1>3. \A v \in Worker : JobSafe(v)
  BY DEF JobSafe
<1>4. ASSUME NEW v \in Worker, worker'[v].ctx > 0, worker'[v].pc = "send"
      PROVE  HoldsDelivery(v)'
  <2>1. v # w
    BY <1>1, <1>4
  <2>. QED BY <1>1, <1>2, <1>4, <2>1, DeliveryKept
<1>5. AttemptsCapped' /\ Unborn'
  BY DEF LeaseInv, AttemptsCapped, Unborn
<1>. QED
  BY <1>2, <1>3, <1>4, <1>5, LeaseFrame

\* A step that leaves the workers, deliveries and sends alone, and is kind to the jobs held.
LEMMA RowsOnly ==
    ASSUME TypeOK, LeaseInv, UNCHANGED <<worker, delivery, sends>>,
           \A v \in Worker : Live(v) => JobSafe(v),
           \A j \in JobId : job'[j].attempts <= MaxAttempts
    PROVE  LeaseInv'
<1>1. \A v \in Worker : Stays(v) \/ ~Live(v)
  BY DEF Stays, LeaseInv, Live
<1>2. \A v \in Worker : Stays(v)
  BY <1>1, Shapes DEF Stays, Live
<1>3. ASSUME NEW v \in Worker, worker'[v].ctx > 0, worker'[v].pc = "send"
      PROVE  HoldsDelivery(v)'
  BY <1>2, <1>3, DeliveryKept
<1>4. AttemptsCapped' /\ Unborn'
  BY DEF LeaseInv, AttemptsCapped, Unborn
<1>5. \A v \in Worker : worker'[v].ctx > 0 => Live(v)
  BY DEF Live
<1>. QED
  BY <1>2, <1>3, <1>4, <1>5, LeaseFrame

\* Webhook requests cancel jobs and file new ones.
LEMMA RequestLease ==
    ASSUME TypeOK, LeaseInv, NEW n \in Notifier, Notify(n) \/ Enqueue(n)
    PROVE  LeaseInv'
<1>. DEFINE e == Head(notifier[n].todo)
<1>1. UNCHANGED <<worker, delivery, sends>>
  BY DEF Notify, Enqueue, EnqueueRead, EnqueueResolve, EnqueueOpen, EnqueueRetry
<1>2. \A v \in Worker : Live(v) => worker[v].job \in JobId /\ HoldsJob(v) /\ job[worker[v].job] \in JobRow
  BY Shapes DEF LeaseInv, TypeOK
<1>3. \A j \in JobId : job[j] \in JobRow /\ job[j].attempts <= MaxAttempts
  BY DEF LeaseInv, AttemptsCapped, TypeOK
<1>4. CASE UNCHANGED job
  BY <1>1, <1>3, <1>4, RowsOnly DEF JobSafe
<1>5. CASE EnqueueResolve(n)
  <2>1. job' = CancelledByRecovery(e)
    BY <1>5 DEF EnqueueResolve
  <2>. HIDE DEF e
  <2>2. ASSUME NEW j \in JobId
        PROVE  /\ job'[j].attempts = job[j].attempts
               /\ job'[j] = job[j] \/ (job'[j].owner = Nobody /\ job'[j].status = "cancelled")
    BY <1>3, <2>1 DEF CancelledByRecovery, JobRow
  <2>3. ASSUME NEW v \in Worker, Live(v) PROVE JobSafe(v)
    BY <1>2, <2>2, <2>3 DEF JobSafe
  <2>. QED BY <1>1, <1>3, <2>2, <2>3, RowsOnly
<1>6. CASE EnqueueOpen(n)
  <2>. DEFINE others == IF notifier[n].plan = "open" THEN SupersededBy(e) ELSE job
  <2>1. PICK new \in Free : job' = [others EXCEPT ![new] = NewJob(e)]
    BY <1>6 DEF EnqueueOpen
  <2>2. new \in JobId /\ job[new].status = "none"
    BY DEF Free
  <2>. HIDE DEF e
  <2>3. others \in [JobId -> JobRow] /\ \A j \in JobId :
           /\ others[j].attempts = job[j].attempts /\ others[j].owner = job[j].owner
           /\ others[j].lease = job[j].lease
           /\ others[j].status = job[j].status \/ others[j].status = "cancelled"
    <3>1. ASSUME NEW j \in JobId PROVE [job[j] EXCEPT !.status = "cancelled"] \in JobRow
      BY <1>3, <3>1, JobRowType DEF Terminal
    <3>2. job \in [JobId -> JobRow]
      BY DEF TypeOK
    <3>. QED BY <1>3, <3>1, <3>2 DEF SupersededBy, JobRow
  <2>4. NewJob(e).attempts = 0
    BY DEF NewJob, FreeJob
  <2>5. ASSUME NEW j \in JobId PROVE job'[j] = IF j = new THEN NewJob(e) ELSE others[j]
    <3>. HIDE DEF others
    <3>. QED BY <2>1, <2>3
  <2>. HIDE DEF others
  <2>6. \A j \in JobId : job'[j].attempts <= MaxAttempts
    BY <1>3, <2>3, <2>4, <2>5, AttemptsAssumption
  <2>7. ASSUME NEW v \in Worker, Live(v) PROVE JobSafe(v)
    <3>1. worker[v].job # new
      BY <1>2, <2>2, <2>7 DEF HoldsJob, Mine
    <3>. QED BY <1>2, <2>3, <2>5, <2>7, <3>1 DEF JobSafe
  <2>. QED BY <1>1, <2>6, <2>7, RowsOnly
<1>. QED
  BY <1>4, <1>5, <1>6 DEF Notify, Enqueue, EnqueueRead, EnqueueRetry

\* The moves of a worker that touch no row.
LEMMA QuietMoves ==
    ASSUME TypeOK, LeaseInv, NEW w \in Worker, UNCHANGED <<job, delivery, sends>>,
           \/ Return(w)
           \/ \E p \in {"analyze", "commit", "sweep", "deliver", "count"} : Goto(w, p)
           \/ \E o \in Claimable \cup Terminal : Finish(w, o)
    PROVE  LeaseInv'
<1>0. worker[w] \in WorkerState
  BY Shapes
<1>1. CASE Return(w)
  <2>1. IdleWorker.ctx = 0
    BY DEF IdleWorker
  <2>. QED BY <1>1, <2>1, WorkerQuiet DEF Return
<1>2. ASSUME NEW p \in {"analyze", "commit", "sweep", "deliver", "count"}, Goto(w, p) PROVE LeaseInv'
  <2>. DEFINE s == [worker[w] EXCEPT !.pc = p]
  <2>1. /\ s.ctx = worker[w].ctx /\ s.lease = worker[w].lease
        /\ s.job = worker[w].job /\ s.pc \notin {"idle", "claim", "send"}
    BY <1>0 DEF WorkerState
  <2>2. Becomes(w, s)
    BY <1>2 DEF Goto
  <2>. HIDE DEF s
  <2>. QED BY <2>1, <2>2, WorkerQuiet
<1>3. ASSUME NEW o \in Claimable \cup Terminal, Finish(w, o) PROVE LeaseInv'
  <2>. DEFINE s == [worker[w] EXCEPT !.pc = "finish", !.outcome = o]
  <2>1. /\ s.ctx = worker[w].ctx /\ s.lease = worker[w].lease
        /\ s.job = worker[w].job /\ s.pc \notin {"idle", "claim", "send"}
    BY <1>0 DEF WorkerState
  <2>2. Becomes(w, s)
    BY <1>3 DEF Finish
  <2>. HIDE DEF s
  <2>. QED BY <2>1, <2>2, WorkerQuiet
<1>. QED
  BY <1>1, <1>2, <1>3

\* A worker that has no job yet holds nothing.
LEMMA Unclaimed ==
    ASSUME TypeOK, LeaseInv, NEW w \in Worker, worker[w].pc \in {"idle", "claim"}
    PROVE  ~Live(w) /\ ~(worker[w].ctx > 0)
  BY DEF LeaseInv, Live

\* A worker that reads, skips or drops candidates still has no job.
LEMMA SkipQuiet ==
    ASSUME TypeOK, LeaseInv, NEW w \in Worker, worker[w].pc = "claim", NEW r, SkipCandidate(w, r)
    PROVE  /\ \A v \in Worker : Stays(v)
           /\ \A v \in Worker : worker'[v].ctx > 0 => v # w /\ worker'[v] = worker[v]
<1>1. ~(worker[w].ctx > 0)
  BY Unclaimed
<1>2. IdleWorker.ctx = 0
  BY DEF IdleWorker
<1>3. PICK s : Becomes(w, s) /\ ~(s.ctx > 0)
  <2>1. CASE worker[w].cands = {r}
    BY <1>2, <2>1 DEF SkipCandidate, Return
  <2>2. CASE worker[w].cands # {r}
    <3>. DEFINE s == [worker[w] EXCEPT !.cands = worker[w].cands \ {r}]
    <3>1. s.ctx = worker[w].ctx
      BY Shapes DEF WorkerState
    <3>2. Becomes(w, s)
      BY <2>2 DEF SkipCandidate
    <3>. HIDE DEF s
    <3>. QED BY <1>1, <3>1, <3>2
  <2>. QED BY <2>1, <2>2
<1>4. worker'[w] = s /\ \A v \in Worker : v # w => worker'[v] = worker[v]
  BY <1>3, Others
<1>5. \A v \in Worker : worker'[v].ctx > 0 => v # w /\ worker'[v] = worker[v]
  BY <1>3, <1>4
<1>. QED
  BY <1>5 DEF Stays, LeaseInv, Live

\* Claiming: only a job without a lease is granted, and nobody who lives holds one.
LEMMA ClaimLease ==
    ASSUME TypeOK, LeaseInv, NEW w \in Worker,
           ClaimRead(w) \/ ClaimExhausted(w) \/ ClaimGrant(w) \/ ClaimLost(w)
    PROVE  LeaseInv'
<1>0. /\ worker[w] \in WorkerState /\ worker[w].cands \in SUBSET Candidate
      /\ ~(worker[w].ctx > 0) /\ ~Live(w)
  BY Unclaimed, ActingWorker DEF ClaimRead, ClaimExhausted, ClaimGrant, ClaimLost
<1>1. ASSUME NEW v \in Worker, Live(v)
      PROVE  /\ worker[v].job \in JobId /\ job[worker[v].job] \in JobRow
             /\ job[worker[v].job].lease > 0 \/ job[worker[v].job].status = "cancelled"
             /\ HoldsJob(v) /\ v # w /\ job[worker[v].job].status # "none"
  <2>1. worker[v].job \in JobId /\ HoldsJob(v) /\ worker[v].ctx < worker[v].lease /\ worker[v].ctx > 0
    BY <1>1, Shapes DEF LeaseInv, Live
  <2>2. worker[v].ctx \in Nat /\ worker[v].lease \in Nat
    BY Shapes DEF WorkerState
  <2>3. job[worker[v].job] \in JobRow
    BY <2>1 DEF TypeOK
  <2>4. worker[v].lease > 0
    BY <2>1, <2>2
  <2>. QED BY <1>0, <1>1, <2>1, <2>3, <2>4 DEF HoldsJob, Mine
<1>2. CASE ClaimRead(w)
  <2>. DEFINE cands == {[id |-> j, analysed |-> job[j].analysed, attempts |-> job[j].attempts] :
                  j \in {k \in JobId : job[k].status \in Claimable /\ job[k].next = 0 /\ job[k].lease = 0}}
              s == [worker[w] EXCEPT !.pc = "claim", !.cands = cands]
  <2>1. s.ctx = worker[w].ctx
    <3>. HIDE DEF cands
    <3>. QED BY <1>0 DEF WorkerState
  <2>2. Becomes(w, s) /\ UNCHANGED <<job, delivery, sends>>
    BY <1>2 DEF ClaimRead
  <2>. HIDE DEF s
  <2>. QED BY <1>0, <2>1, <2>2, WorkerQuiet
<1>3. ASSUME NEW r \in worker[w].cands, worker[w].pc = "claim", SkipCandidate(w, r),
             UNCHANGED <<delivery, sends>>,
             \A v \in Worker : Live(v) => JobSafe(v),
             \A j \in JobId : job'[j].attempts <= MaxAttempts
      PROVE  LeaseInv'
  <2>1. /\ \A v \in Worker : Stays(v)
        /\ \A v \in Worker : worker'[v].ctx > 0 => v # w /\ worker'[v] = worker[v]
    BY <1>3, SkipQuiet
  <2>2. ASSUME NEW v \in Worker, worker'[v].ctx > 0, worker'[v].pc = "send" PROVE HoldsDelivery(v)'
    BY <1>3, <2>1, <2>2, DeliveryKept
  <2>3. AttemptsCapped' /\ Unborn'
    BY <1>3 DEF LeaseInv, AttemptsCapped, Unborn
  <2>. QED BY <1>3, <2>1, <2>2, <2>3, LeaseFrame
<1>4. CASE ClaimLost(w)
  <2>1. PICK r \in worker[w].cands : SkipCandidate(w, r)
    BY <1>4 DEF ClaimLost
  <2>2. worker[w].pc = "claim" /\ UNCHANGED <<job, delivery, sends>>
    BY <1>4 DEF ClaimLost
  <2>3. (\A v \in Worker : JobSafe(v)) /\ \A j \in JobId : job'[j].attempts <= MaxAttempts
    BY <2>2 DEF JobSafe, LeaseInv, AttemptsCapped
  <2>. QED BY <1>3, <2>1, <2>2, <2>3
<1>5. CASE ClaimExhausted(w)
  <2>1. PICK r \in worker[w].cands :
           /\ job' = IF job[r.id].lease = 0 /\ ~job[r.id].analysed /\ job[r.id].status \in Unfinished
                     THEN [job EXCEPT ![r.id] = [job[r.id] EXCEPT !.status = "failed"]] ELSE job
           /\ SkipCandidate(w, r)
    BY <1>5 DEF ClaimExhausted
  <2>2. worker[w].pc = "claim" /\ UNCHANGED <<delivery, sends>>
    BY <1>5 DEF ClaimExhausted
  <2>3. r.id \in JobId /\ job[r.id] \in JobRow /\ job \in [JobId -> JobRow]
    BY <1>0 DEF Candidate, TypeOK
  <2>4. \A j \in JobId : job'[j].attempts <= MaxAttempts
    BY <2>1, <2>3 DEF LeaseInv, AttemptsCapped, JobRow
  <2>5. ASSUME NEW v \in Worker, Live(v) PROVE JobSafe(v)
    <3>1. CASE job' = job
      BY <3>1 DEF JobSafe
    <3>2. CASE job[r.id].lease = 0 /\ job[r.id].status \in Unfinished
               /\ job' = [job EXCEPT ![r.id] = [job[r.id] EXCEPT !.status = "failed"]]
      <4>1. worker[v].job # r.id
        BY <1>1, <2>3, <2>5, <3>2 DEF Unfinished, JobRow
      <4>2. job'[worker[v].job] = job[worker[v].job]
        BY <1>1, <2>3, <2>5, <3>2, <4>1
      <4>. QED BY <4>2 DEF JobSafe
    <3>. QED BY <2>1, <3>1, <3>2
  <2>. QED BY <1>3, <2>1, <2>2, <2>4, <2>5
<1>6. CASE ClaimGrant(w)
  <2>. DEFINE s(r) == [IdleWorker EXCEPT
                 !.pc = "check", !.job = r.id, !.analysed = r.analysed,
                 !.attempts = IF r.analysed THEN r.attempts ELSE r.attempts + 1,
                 !.lease = LeaseDuration, !.ctx = WorkTimeout]
  <2>1. PICK r \in worker[w].cands :
           /\ ~Exhausted(r) /\ Grantable(r)
           /\ job' = [job EXCEPT ![r.id] = Granted(w, r)]
           /\ Becomes(w, s(r))
    BY <1>6 DEF ClaimGrant
  <2>2. UNCHANGED <<delivery, sends>>
    BY <1>6 DEF ClaimGrant
  <2>3. r \in Candidate /\ r.id \in JobId /\ job[r.id] \in JobRow /\ job \in [JobId -> JobRow]
    BY <1>0 DEF Candidate, TypeOK
  <2>4. /\ s(r).pc = "check" /\ s(r).job = r.id
        /\ s(r).lease = LeaseDuration /\ s(r).ctx = WorkTimeout
    BY DEF IdleWorker
  <2>. HIDE DEF s
  <2>5. worker'[w] = s(r) /\ \A v \in Worker : v # w => worker'[v] = worker[v]
    BY <2>1, Others
  <2>6. /\ Granted(w, r).owner = w /\ Granted(w, r).lease = LeaseDuration
        /\ Granted(w, r).status # "none" /\ Granted(w, r).attempts <= MaxAttempts
    <3>1. CASE r.analysed
      BY <2>1, <2>3, <3>1 DEF Granted, Grantable, Claimable, JobRow, LeaseInv, AttemptsCapped
    <3>2. CASE ~r.analysed
      <4>1. job[r.id].attempts = r.attempts /\ job[r.id].attempts < MaxAttempts /\ job[r.id].attempts \in Nat
        BY <2>1, <2>3, <3>2, AttemptsAssumption DEF Grantable, Exhausted, JobRow
      <4>2. job[r.id].attempts + 1 <= MaxAttempts
        BY <4>1, AttemptsAssumption
      <4>. DEFINE a == job[r.id].attempts + 1
      <4>3. Granted(w, r) = [job[r.id] EXCEPT !.owner = w, !.lease = LeaseDuration, !.attempts = a, !.status = "working"]
        BY <3>2 DEF Granted
      <4>. HIDE DEF a
      <4>4. /\ Granted(w, r).owner = w /\ Granted(w, r).lease = LeaseDuration
            /\ Granted(w, r).status # "none" /\ Granted(w, r).attempts = a
        BY <2>3, <4>3 DEF JobRow
      <4>. QED BY <4>2, <4>4 DEF a
    <3>. QED BY <3>1, <3>2
  <2>7. \A j \in JobId : job'[j] = IF j = r.id THEN Granted(w, r) ELSE job[j]
    BY <2>1, <2>3
  <2>8. ASSUME NEW v \in Worker, Live(v) PROVE worker[v].job # r.id /\ HoldsJob(v) /\ worker[v].job \in JobId
    BY <1>1, <2>1, <2>3, <2>8 DEF Grantable, Claimable, JobRow
  <2>9. ASSUME NEW v \in Worker PROVE Holder(v)'
    <3>1. CASE v = w
      <4>1. HoldsJob(w)'
        BY <2>3, <2>4, <2>5, <2>6, <2>7 DEF HoldsJob, Mine
      <4>. QED BY <2>4, <2>5, <3>1, <4>1, LeaseAssumption DEF Holder
    <3>2. CASE v # w
      <4>1. Holder(v)
        BY DEF LeaseInv, Holder
      <4>2. HoldsDelivery(v)' <=> HoldsDelivery(v)
        BY <2>2, <2>5, <3>2 DEF HoldsDelivery
      <4>3. (Live(v)' <=> Live(v)) /\ worker'[v] = worker[v]
        BY <2>5, <3>2 DEF Live
      <4>4. Live(v) => HoldsJob(v)'
        BY <2>5, <2>7, <2>8, <3>2 DEF HoldsJob, Mine
      <4>. QED BY <4>1, <4>2, <4>3, <4>4 DEF Holder
    <3>. QED BY <3>1, <3>2
  <2>10. Apart'
    BY <2>4, <2>5, <2>8 DEF Apart, LeaseInv, Live
  <2>11. AttemptsCapped' /\ Unborn'
    BY <2>2, <2>6, <2>7 DEF LeaseInv, AttemptsCapped, Unborn
  <2>. QED BY <2>9, <2>10, <2>11 DEF LeaseInv, Unborn, Holder, Apart
<1>. QED
  BY <1>2, <1>4, <1>5, <1>6

\* A worker that lives has its job and, while it sends, its channel.
LEMMA LiveShapes ==
    ASSUME TypeOK, LeaseInv, NEW v \in Worker, Live(v)
    PROVE  /\ worker[v].job \in JobId /\ job[worker[v].job] \in JobRow
           /\ worker[v].lease \in Nat /\ worker[v].lease > 0
           /\ worker[v].pc = "send" => worker[v].channel \in Channel /\ HoldsDelivery(v)
           /\ HoldsJob(v)
<1>1. worker[v].job \in JobId /\ HoldsJob(v) /\ worker[v].ctx < worker[v].lease /\ worker[v].ctx > 0
  BY Shapes DEF LeaseInv, Live
<1>2. worker[v].ctx \in Nat /\ worker[v].lease \in Nat
  BY Shapes DEF WorkerState
<1>3. worker[v].pc = "send" => worker[v].channel \in Channel /\ HoldsDelivery(v)
  BY Shapes DEF LeaseInv
<1>. QED
  BY <1>1, <1>2, <1>3 DEF TypeOK

\* The analysis phase, the end of a job and the errors in between.
LEMMA AnalysisLease ==
    ASSUME TypeOK, LeaseInv, NEW w \in Worker,
           \/ Check(w) \/ AnalyzeOk(w) \/ AnalyzeFail(w) \/ CommitResult(w) \/ CommitRefused(w)
           \/ DeliverEnd(w) \/ CountPending(w) \/ FinishJob(w) \/ TimedOut(w)
    PROVE  LeaseInv'
<1>. DEFINE j == worker[w].job
<1>1. CASE Check(w)
  BY <1>1, QuietMoves DEF Check, Terminal
<1>2. CASE AnalyzeOk(w)
  BY <1>2, QuietMoves DEF AnalyzeOk
<1>3. CASE AnalyzeFail(w)
  BY <1>3, QuietMoves DEF AnalyzeFail, Terminal, Claimable
<1>4. CASE CommitRefused(w) \/ TimedOut(w)
  BY <1>4, QuietMoves DEF CommitRefused, TimedOut
<1>5. CASE DeliverEnd(w)
  BY <1>5, QuietMoves DEF DeliverEnd
<1>6. CASE CountPending(w)
  BY <1>6, QuietMoves DEF CountPending, Terminal, Claimable
<1>7. CASE FinishJob(w)
  <2>1. Becomes(w, IdleWorker) /\ UNCHANGED <<delivery, sends>> /\ worker[w].pc = "finish"
    BY <1>7 DEF FinishJob, Return
  <2>2. worker'[w] = IdleWorker /\ \A v \in Worker : v # w => worker'[v] = worker[v]
    BY <2>1, Others
  <2>3. IdleWorker.ctx = 0
    BY DEF IdleWorker
  <2>4. \A v \in Worker : Stays(v)
    BY <2>2, <2>3 DEF Stays, LeaseInv, Live
  <2>5. ASSUME NEW v \in Worker, worker'[v].ctx > 0, worker'[v].pc = "send" PROVE HoldsDelivery(v)'
    <3>1. v # w
      BY <2>2, <2>3, <2>5
    <3>. QED BY <2>1, <2>2, <2>4, <2>5, <3>1, DeliveryKept
  <2>6. j \in JobId /\ job \in [JobId -> JobRow] /\ worker[w].outcome \in Claimable \cup Terminal
    BY <2>1 DEF TypeOK
  <2>. DEFINE r == [job[j] EXCEPT !.status = worker[w].outcome, !.owner = Nobody, !.lease = 0, !.next = RetryDelay]
  <2>7. job' = job \/ (Owns(w) /\ job' = [job EXCEPT ![j] = r])
    BY <1>7 DEF FinishJob
  <2>8. r.attempts = job[j].attempts
    BY <2>6 DEF JobRow
  <2>. HIDE DEF r
  <2>9. \A k \in JobId : job'[k].attempts <= MaxAttempts
    BY <2>6, <2>7, <2>8 DEF LeaseInv, AttemptsCapped
  <2>10. ASSUME NEW v \in Worker, Live(v), worker'[v].ctx > 0 PROVE JobSafe(v)
    <3>1. v # w /\ worker[v].job \in JobId /\ HoldsJob(v)
      BY <2>2, <2>3, <2>10, LiveShapes
    <3>2. CASE job' = job
      BY <3>2 DEF JobSafe
    <3>3. CASE Owns(w) /\ job' = [job EXCEPT ![j] = r]
      <4>1. worker[v].job # j
        BY <3>1, <3>3, NamesAssumption DEF Owns, HoldsJob, Mine
      <4>2. job'[worker[v].job] = job[worker[v].job]
        BY <2>6, <3>1, <3>3, <4>1
      <4>. QED BY <4>2 DEF JobSafe
    <3>. QED BY <2>7, <3>2, <3>3
  <2>11. AttemptsCapped' /\ Unborn'
    BY <2>1, <2>9 DEF LeaseInv, AttemptsCapped, Unborn
  <2>. QED BY <2>4, <2>5, <2>10, <2>11, LeaseFrame
<1>8. CASE CommitResult(w)
  <2>. DEFINE s == [worker[w] EXCEPT !.pc = "sweep"]
              f == [c \in Channel |->
                      IF c \in job[j].channels /\ delivery[j][c].status = "none"
                      THEN [NoDelivery EXCEPT !.status = "pending"] ELSE delivery[j][c]]
              r == [job[j] EXCEPT !.analysed = TRUE, !.status = "delivery"]
  <2>1. /\ Live(w) /\ Committable(w) /\ Becomes(w, s) /\ sends' = sends
        /\ job' = [job EXCEPT ![j] = r] /\ delivery' = [delivery EXCEPT ![j] = f]
    BY <1>8 DEF CommitResult, Goto
  <2>2. j \in JobId /\ job \in [JobId -> JobRow] /\ delivery \in [JobId -> [Channel -> DeliveryRow]]
    BY <2>1, LiveShapes DEF TypeOK
  <2>3. s.ctx = worker[w].ctx /\ s.lease = worker[w].lease /\ s.job = j /\ s.pc = "sweep"
    BY Shapes DEF WorkerState
  <2>4. /\ r.attempts = job[j].attempts /\ r.owner = job[j].owner
        /\ r.lease = job[j].lease /\ r.status = "delivery"
    BY <2>2 DEF JobRow
  <2>5. f \in [Channel -> DeliveryRow] /\ \A c \in Channel :
          \/ f[c] = delivery[j][c] /\ f[c].status # "none"
          \/ f[c] = delivery[j][c] /\ f[c] = NoDelivery
          \/ delivery[j][c] = NoDelivery /\ f[c].status # "none" /\ f[c].attempts = 0
    <3>1. NoDelivery \in DeliveryRow /\ NoDelivery.status = "none" /\ NoDelivery.attempts = 0
      BY DEF NoDelivery, DeliveryRow
    <3>2. [NoDelivery EXCEPT !.status = "pending"] \in DeliveryRow
      BY DEF NoDelivery, DeliveryRow
    <3>3. [NoDelivery EXCEPT !.status = "pending"].status # "none" /\ [NoDelivery EXCEPT !.status = "pending"].attempts = 0
      BY DEF NoDelivery
    <3>4. f \in [Channel -> DeliveryRow]
      BY <2>2, <3>2
    <3>. QED BY <2>2, <3>1, <3>3, <3>4 DEF LeaseInv
  <2>. HIDE DEF s, f, r
  <2>6. worker'[w] = s /\ \A v \in Worker : v # w => worker'[v] = worker[v]
    BY <2>1, Others
  <2>7. \A v \in Worker : Stays(v)
    BY <2>3, <2>6 DEF Stays, LeaseInv, Live
  <2>8. /\ \A k \in JobId : job'[k] = IF k = j THEN r ELSE job[k]
        /\ \A k \in JobId : delivery'[k] = IF k = j THEN f ELSE delivery[k]
    <3>. HIDE DEF j
    <3>. QED BY <2>1, <2>2
  <2>9. ASSUME NEW v \in Worker, Live(v), worker'[v].ctx > 0 PROVE JobSafe(v)
    <3>1. worker[v].job \in JobId
      BY <2>9, LiveShapes
    <3>2. job[j].status # "cancelled"
      BY <2>1 DEF Committable, Mine
    <3>. QED BY <2>4, <2>8, <3>1, <3>2 DEF JobSafe
  <2>10. ASSUME NEW v \in Worker, worker'[v].ctx > 0, worker'[v].pc = "send" PROVE HoldsDelivery(v)'
    <3>1. v # w /\ Live(v)
      BY <2>3, <2>6, <2>10 DEF Live
    <3>2. worker[v].job # j /\ worker[v].job \in JobId
      BY <2>1, <3>1, LiveShapes DEF LeaseInv
    <3>. QED BY <2>1, <2>6, <2>7, <2>8, <2>10, <3>1, <3>2, DeliveryKept
  <2>11. AttemptsCapped'
    <3>1. \A k \in JobId : job'[k].attempts <= MaxAttempts
      BY <2>2, <2>4, <2>8 DEF LeaseInv, AttemptsCapped
    <3>2. ASSUME NEW k \in JobId, NEW c \in Channel
          PROVE  sends'[k][c] <= delivery'[k][c].attempts /\ delivery'[k][c].attempts <= MaxAttempts
      <4>1. sends[k][c] <= delivery[k][c].attempts /\ delivery[k][c].attempts <= MaxAttempts
        BY DEF LeaseInv, AttemptsCapped
      <4>2. delivery'[k][c].attempts = delivery[k][c].attempts
        BY <2>2, <2>5, <2>8 DEF NoDelivery
      <4>. QED BY <2>1, <4>1, <4>2
    <3>. QED BY <3>1, <3>2 DEF AttemptsCapped
  <2>12. Unborn'
    BY <2>5, <2>8 DEF LeaseInv, Unborn
  <2>. QED BY <2>7, <2>9, <2>10, <2>11, <2>12, LeaseFrame
<1>. QED
  BY <1>1, <1>2, <1>3, <1>4, <1>5, <1>6, <1>7, <1>8

\* A step of worker w on the deliveries that spares the rows of the other senders.
LEMMA DeliveryFrame ==
    ASSUME TypeOK, LeaseInv, NEW w \in Worker, NEW s, Becomes(w, s), UNCHANGED job,
           s.ctx > 0 => /\ s.ctx = worker[w].ctx /\ s.lease = worker[w].lease
                        /\ s.job = worker[w].job /\ s.pc \notin {"idle", "claim"},
           s.ctx > 0 /\ s.pc = "send" => HoldsDelivery(w)',
           \A v \in Worker : v # w /\ Live(v) /\ worker[v].pc = "send" =>
               /\ delivery'[worker[v].job][worker[v].channel] = delivery[worker[v].job][worker[v].channel]
               /\ sends'[worker[v].job][worker[v].channel] = sends[worker[v].job][worker[v].channel],
           \A k \in JobId, c \in Channel :
               /\ sends'[k][c] <= delivery'[k][c].attempts /\ delivery'[k][c].attempts <= MaxAttempts
               /\ delivery'[k][c].status = "none" => delivery'[k][c] = NoDelivery
    PROVE  LeaseInv'
<1>1. worker'[w] = s /\ \A v \in Worker : v # w => worker'[v] = worker[v]
  BY Others
<1>2. \A v \in Worker : Stays(v)
  BY <1>1 DEF Stays, LeaseInv, Live
<1>3. \A v \in Worker : JobSafe(v)
  BY DEF JobSafe
<1>4. ASSUME NEW v \in Worker, worker'[v].ctx > 0, worker'[v].pc = "send"
      PROVE  HoldsDelivery(v)'
  <2>1. CASE v = w
    BY <1>1, <1>4, <2>1
  <2>2. CASE v # w
    <3>1. worker'[v] = worker[v] /\ Live(v)
      BY <1>1, <1>4, <2>2 DEF Live
    <3>. QED BY <1>2, <1>4, <2>2, <3>1, DeliveryKept
  <2>. QED BY <2>1, <2>2
<1>5. AttemptsCapped' /\ Unborn'
  BY DEF LeaseInv, AttemptsCapped, Unborn
<1>. QED
  BY <1>2, <1>3, <1>4, <1>5, LeaseFrame

\* The same when every row of w's own job may change: a live worker shares it with no other.
LEMMA OwnRows ==
    ASSUME TypeOK, LeaseInv, NEW w \in Worker, Live(w), NEW s, Becomes(w, s), UNCHANGED job,
           s.ctx > 0 => /\ s.ctx = worker[w].ctx /\ s.lease = worker[w].lease
                        /\ s.job = worker[w].job /\ s.pc \notin {"idle", "claim"},
           s.ctx > 0 /\ s.pc = "send" => HoldsDelivery(w)',
           \A k \in JobId : k # worker[w].job => delivery'[k] = delivery[k] /\ sends'[k] = sends[k],
           \A c \in Channel :
               LET d == delivery'[worker[w].job][c]
               IN  /\ sends'[worker[w].job][c] <= d.attempts /\ d.attempts <= MaxAttempts
                   /\ d.status = "none" => d = NoDelivery
    PROVE  LeaseInv'
<1>1. \A v \in Worker : v # w /\ Live(v) => worker[v].job # worker[w].job /\ worker[v].job \in JobId
  BY LiveShapes DEF LeaseInv
<1>2. ASSUME NEW k \in JobId, NEW c \in Channel
      PROVE  /\ sends'[k][c] <= delivery'[k][c].attempts /\ delivery'[k][c].attempts <= MaxAttempts
             /\ delivery'[k][c].status = "none" => delivery'[k][c] = NoDelivery
  <2>1. CASE k = worker[w].job
    BY <2>1
  <2>2. CASE k # worker[w].job
    BY <2>2 DEF LeaseInv, AttemptsCapped
  <2>. QED BY <2>1, <2>2
<1>. QED
  BY <1>1, <1>2, DeliveryFrame

\* The delivery phase.
LEMMA DeliveryLease ==
    ASSUME TypeOK, LeaseInv, NEW w \in Worker,
           \/ Sweep(w) \/ Deliver(w) \/ GrabDelivery(w) \/ SendReaches(w) \/ SendFails(w) \/ Confirm(w)
    PROVE  LeaseInv'
<1>. DEFINE j == worker[w].job
            ch == worker[w].channel
<1>1. /\ worker[w] \in WorkerState /\ j \in JobId
      /\ worker[w].todo \in SUBSET Channel
      /\ worker[w].pc \in {"grab", "send", "confirm"} => ch \in Channel
  <2>1. worker[w].pc \notin {"idle", "claim"}
    BY DEF Sweep, Deliver, GrabDelivery, SendReaches, SendFails, Confirm
  <2>. QED BY <2>1, ActingWorker DEF GoodWorker
<1>2. delivery \in [JobId -> [Channel -> DeliveryRow]] /\ sends \in [JobId -> [Channel -> Nat]]
  BY DEF TypeOK
<1>3. \A k \in JobId, c \in Channel :
         /\ delivery[k][c] \in DeliveryRow
         /\ sends[k][c] <= delivery[k][c].attempts /\ delivery[k][c].attempts <= MaxAttempts
         /\ delivery[k][c].status = "none" => delivery[k][c] = NoDelivery
  BY <1>2 DEF LeaseInv, AttemptsCapped
<1>4. CASE Sweep(w)
  <2>. DEFINE d == delivery[j]
              lost(c) == d[c].status = "pending" /\ d[c].attempts >= MaxAttempts /\ d[c].lease = 0
              f == [c \in Channel |-> IF lost(c) THEN [d[c] EXCEPT !.status = "failed", !.owner = Nobody] ELSE d[c]]
              s == [worker[w] EXCEPT !.pc = "deliver", !.todo = {c \in Channel : Open(d[c])},
                                     !.tries = [c \in Channel |-> d[c].attempts]]
  <2>1. delivery' = [delivery EXCEPT ![j] = f] /\ Becomes(w, s) /\ UNCHANGED <<job, sends>> /\ Live(w)
    BY <1>4 DEF Sweep
  <2>2. s.ctx = worker[w].ctx /\ s.lease = worker[w].lease /\ s.job = j /\ s.pc = "deliver"
    BY <1>1 DEF WorkerState
  <2>3. ASSUME NEW c \in Channel
        PROVE  /\ f[c].attempts = delivery[j][c].attempts
               /\ f[c].status = "none" => f[c] = delivery[j][c]
    <3>. HIDE DEF j
    <3>. QED BY <1>1, <1>3 DEF DeliveryRow
  <2>. HIDE DEF f, s
  <2>4. \A k \in JobId : delivery'[k] = IF k = j THEN f ELSE delivery[k]
    <3>. HIDE DEF j
    <3>. QED BY <1>2, <2>1
  <2>. QED BY <1>1, <1>3, <2>1, <2>2, <2>3, <2>4, OwnRows
<1>5. CASE Deliver(w)
  <2>1. PICK c \in worker[w].todo :
          \/ Finish(w, "cancelled") /\ UNCHANGED delivery
          \/ /\ delivery' = IF delivery[j][c].status = "pending"
                            THEN [delivery EXCEPT ![j][c] = [delivery[j][c] EXCEPT !.status = "cancelled"]]
                            ELSE delivery
             /\ Becomes(w, [worker[w] EXCEPT !.todo = worker[w].todo \ {c}])
          \/ /\ Becomes(w, [worker[w] EXCEPT !.pc = "grab", !.channel = c, !.todo = worker[w].todo \ {c}])
             /\ UNCHANGED delivery
    BY <1>5 DEF Deliver
  <2>2. c \in Channel /\ UNCHANGED <<job, sends>> /\ worker[w].pc = "deliver" /\ Live(w)
    BY <1>1, <1>5, <2>1 DEF Deliver
  <2>3. CASE Finish(w, "cancelled") /\ UNCHANGED delivery
    BY <2>2, <2>3, QuietMoves DEF Terminal
  <2>4. CASE /\ delivery' = IF delivery[j][c].status = "pending"
                            THEN [delivery EXCEPT ![j][c] = [delivery[j][c] EXCEPT !.status = "cancelled"]]
                            ELSE delivery
             /\ Becomes(w, [worker[w] EXCEPT !.todo = worker[w].todo \ {c}])
    <3>. DEFINE todo == worker[w].todo \ {c}
                s == [worker[w] EXCEPT !.todo = todo]
                r == [delivery[j][c] EXCEPT !.status = "cancelled"]
    <3>1. s.ctx = worker[w].ctx /\ s.lease = worker[w].lease /\ s.job = j /\ s.pc = "deliver"
      <4>. HIDE DEF todo
      <4>. QED BY <1>1, <2>2 DEF WorkerState
    <3>2. r.attempts = delivery[j][c].attempts /\ r.status # "none"
      <4>. HIDE DEF j
      <4>. QED BY <1>1, <1>3, <2>2 DEF DeliveryRow
    <3>3. Becomes(w, s) /\ (delivery' = delivery \/ delivery' = [delivery EXCEPT ![j][c] = r])
      BY <2>4
    <3>. HIDE DEF r, s
    <3>4. /\ \A k \in JobId : k # j => delivery'[k] = delivery[k]
          /\ \A b \in Channel : delivery'[j][b] = delivery[j][b] \/ (delivery'[j][b] = r /\ b = c)
      <4>. HIDE DEF j
      <4>1. CASE delivery' = delivery
        BY <4>1
      <4>2. CASE delivery' = [delivery EXCEPT ![j][c] = r]
        BY <1>1, <1>2, <2>2, <4>2
      <4>. QED BY <3>3, <4>1, <4>2
    <3>5. \A b \in Channel :
             LET d == delivery'[j][b]
             IN  /\ sends'[j][b] <= d.attempts /\ d.attempts <= MaxAttempts
                 /\ d.status = "none" => d = NoDelivery
      BY <1>1, <1>3, <2>2, <3>2, <3>4
    <3>. QED BY <2>2, <3>1, <3>3, <3>4, <3>5, OwnRows
  <2>5. CASE /\ Becomes(w, [worker[w] EXCEPT !.pc = "grab", !.channel = c, !.todo = worker[w].todo \ {c}])
             /\ UNCHANGED delivery
    <3>. DEFINE todo == worker[w].todo \ {c}
                s == [worker[w] EXCEPT !.pc = "grab", !.channel = c, !.todo = todo]
    <3>1. s.ctx = worker[w].ctx /\ s.lease = worker[w].lease /\ s.job = j /\ s.pc = "grab"
      <4>. HIDE DEF todo
      <4>. QED BY <1>1, <2>2 DEF WorkerState
    <3>2. Becomes(w, s)
      BY <2>5
    <3>. HIDE DEF s
    <3>. QED BY <2>2, <2>5, <3>1, <3>2, WorkerQuiet
  <2>. QED BY <2>1, <2>3, <2>4, <2>5
<1>6. CASE GrabDelivery(w)
  <2>1. UNCHANGED <<job, sends>> /\ Live(w) /\ ch \in Channel /\ worker[w].pc = "grab"
    BY <1>1, <1>6 DEF GrabDelivery
  <2>2. CASE Goto(w, "deliver") /\ UNCHANGED delivery
    BY <2>1, <2>2, QuietMoves
  <2>3. CASE /\ Grabbable(delivery[j][ch]) /\ Goto(w, "send")
             /\ delivery' = [delivery EXCEPT ![j][ch] = Grabbed(w, delivery[j][ch])]
    <3>. DEFINE s == [worker[w] EXCEPT !.pc = "send"]
                r == Grabbed(w, delivery[j][ch])
                a == delivery[j][ch].attempts + 1
    <3>1. s.ctx = worker[w].ctx /\ s.lease = worker[w].lease /\ s.job = j /\ s.pc = "send" /\ s.channel = ch
      BY <1>1 DEF WorkerState
    <3>2. a \in Nat /\ a <= MaxAttempts /\ sends[j][ch] < a
      <4>1. delivery[j][ch].attempts \in Nat /\ delivery[j][ch].attempts < MaxAttempts
        BY <1>1, <1>3, <2>1, <2>3 DEF DeliveryRow, Grabbable, Open
      <4>2. sends[j][ch] \in Nat /\ sends[j][ch] <= delivery[j][ch].attempts
        BY <1>1, <1>2, <1>3, <2>1
      <4>. QED BY <4>1, <4>2, AttemptsAssumption
    <3>3. r.owner = w /\ r.lease = worker[w].lease /\ r.attempts = a /\ r.status # "none"
      <4>1. delivery[j][ch] \in DeliveryRow /\ delivery[j][ch].status = "pending"
        BY <1>1, <1>3, <2>1, <2>3 DEF Grabbable, Open
      <4>2. r = [delivery[j][ch] EXCEPT !.owner = w, !.lease = worker[w].lease, !.attempts = a]
        BY DEF Grabbed
      <4>. HIDE DEF a, r
      <4>. QED BY <4>1, <4>2 DEF DeliveryRow
    <3>4. Becomes(w, s) /\ delivery' = [delivery EXCEPT ![j][ch] = r]
      BY <2>3 DEF Goto
    <3>. HIDE DEF s, r
    <3>5. /\ \A k \in JobId : k # j => delivery'[k] = delivery[k]
          /\ \A b \in Channel : delivery'[j][b] = IF b = ch THEN r ELSE delivery[j][b]
      <4>. HIDE DEF j, ch
      <4>. QED BY <1>1, <1>2, <2>1, <3>4
    <3>6. worker'[w] = s
      BY <3>4, Others
    <3>. HIDE DEF a
    <3>7. HoldsDelivery(w)'
      BY <2>1, <3>1, <3>2, <3>3, <3>5, <3>6 DEF HoldsDelivery
    <3>8. \A b \in Channel :
             LET d == delivery'[j][b]
             IN  /\ sends'[j][b] <= d.attempts /\ d.attempts <= MaxAttempts
                 /\ d.status = "none" => d = NoDelivery
      <4>1. sends[j][ch] <= a
        BY <1>1, <1>2, <2>1, <3>2
      <4>. QED BY <1>1, <1>3, <2>1, <3>2, <3>3, <3>5, <4>1
    <3>. QED BY <2>1, <3>1, <3>4, <3>5, <3>7, <3>8, OwnRows
  <2>. QED BY <1>6, <2>2, <2>3 DEF GrabDelivery
<1>7. CASE SendReaches(w)
  <2>1. PICK o \in {"sent", "error"} : Becomes(w, [worker[w] EXCEPT !.pc = "confirm", !.outcome = o])
    BY <1>7 DEF SendReaches
  <2>. DEFINE s == [worker[w] EXCEPT !.pc = "confirm", !.outcome = o]
              n == sends[j][ch] + 1
  <2>2. /\ sends' = [sends EXCEPT ![j][ch] = n] /\ UNCHANGED <<job, delivery>>
        /\ Live(w) /\ ch \in Channel /\ worker[w].pc = "send"
    BY <1>1, <1>7 DEF SendReaches
  <2>3. s.ctx = worker[w].ctx /\ s.lease = worker[w].lease /\ s.job = j /\ s.pc = "confirm"
    BY <1>1 DEF WorkerState
  <2>4. n <= delivery[j][ch].attempts
    <3>1. sends[j][ch] < delivery[j][ch].attempts
      BY <2>2, LiveShapes DEF HoldsDelivery
    <3>2. sends[j][ch] \in Nat /\ delivery[j][ch].attempts \in Nat
      BY <1>1, <1>2, <1>3, <2>2 DEF DeliveryRow
    <3>. QED BY <3>1, <3>2
  <2>5. Becomes(w, s)
    BY <2>1
  <2>. HIDE DEF s, n
  <2>6. /\ \A k \in JobId : k # j => sends'[k] = sends[k]
        /\ \A b \in Channel : sends'[j][b] = IF b = ch THEN n ELSE sends[j][b]
    <3>. HIDE DEF j, ch
    <3>. QED BY <1>1, <1>2, <2>2
  <2>7. \A b \in Channel :
           LET d == delivery'[j][b]
           IN  /\ sends'[j][b] <= d.attempts /\ d.attempts <= MaxAttempts
               /\ d.status = "none" => d = NoDelivery
    BY <1>1, <1>3, <2>2, <2>4, <2>6
  <2>. QED BY <2>2, <2>3, <2>5, <2>6, <2>7, OwnRows
<1>8. CASE SendFails(w)
  <2>. DEFINE s == [worker[w] EXCEPT !.pc = "confirm", !.outcome = "error"]
  <2>1. Becomes(w, s) /\ UNCHANGED <<job, delivery, sends>>
    BY <1>8 DEF SendFails
  <2>2. s.ctx = worker[w].ctx /\ s.lease = worker[w].lease /\ s.job = j /\ s.pc = "confirm"
    BY <1>1 DEF WorkerState
  <2>. HIDE DEF s
  <2>. QED BY <2>1, <2>2, WorkerQuiet
<1>9. CASE Confirm(w)
  <2>. DEFINE s == [worker[w] EXCEPT !.pc = "deliver", !.channel = NoChannel, !.outcome = "none"]
              r == [delivery[j][ch] EXCEPT !.status = Confirmed(w), !.owner = Nobody, !.lease = 0]
  <2>1. /\ UNCHANGED <<job, sends>> /\ ch \in Channel /\ Becomes(w, s)
        /\ \/ delivery' = delivery
           \/ delivery[j][ch].owner = w /\ delivery' = [delivery EXCEPT ![j][ch] = r]
    BY <1>1, <1>9 DEF Confirm, OwnsDelivery
  <2>2. s.ctx = worker[w].ctx /\ s.lease = worker[w].lease /\ s.job = j /\ s.pc = "deliver"
    BY <1>1 DEF WorkerState
  <2>3. r.attempts = delivery[j][ch].attempts /\ r.status # "none"
    <3>1. delivery[j][ch] \in DeliveryRow
      BY <1>1, <1>3, <2>1
    <3>2. Confirmed(w) # "none"
      BY DEF Confirmed
    <3>. QED BY <3>1, <3>2 DEF DeliveryRow
  <2>. HIDE DEF s, r
  <2>4. \A k \in JobId, c \in Channel :
           \/ delivery'[k][c] = delivery[k][c]
           \/ k = j /\ c = ch /\ delivery[k][c].owner = w /\ delivery'[k][c] = r
    <3>. HIDE DEF j, ch
    <3>1. CASE delivery' = delivery
      BY <3>1
    <3>2. CASE delivery[j][ch].owner = w /\ delivery' = [delivery EXCEPT ![j][ch] = r]
      BY <1>1, <1>2, <2>1, <3>2
    <3>. QED BY <2>1, <3>1, <3>2
  <2>5. ASSUME NEW v \in Worker, v # w, Live(v), worker[v].pc = "send"
        PROVE  delivery'[worker[v].job][worker[v].channel] = delivery[worker[v].job][worker[v].channel]
    BY <2>4, <2>5, LiveShapes DEF HoldsDelivery
  <2>6. ASSUME NEW k \in JobId, NEW c \in Channel
        PROVE  /\ sends'[k][c] <= delivery'[k][c].attempts /\ delivery'[k][c].attempts <= MaxAttempts
               /\ delivery'[k][c].status = "none" => delivery'[k][c] = NoDelivery
    BY <1>3, <2>1, <2>3, <2>4
  <2>. QED BY <2>1, <2>2, <2>5, <2>6, DeliveryFrame
<1>. QED
  BY <1>4, <1>5, <1>6, <1>7, <1>8, <1>9

\* A worker's step keeps the leases.
LEMMA ProcessOneLease == ASSUME TypeOK, LeaseInv, NEW w \in Worker, ProcessOne(w) PROVE LeaseInv'
  BY ClaimLease, AnalysisLease, DeliveryLease DEF ProcessOne

\* A crash and a shutdown take no lease from another worker, an edit none at all.
LEMMA EnvironmentLease ==
    ASSUME TypeOK, LeaseInv, Edit \/ \E w \in Worker : Crash(w) \/ Shutdown(w)
    PROVE  LeaseInv'
<1>1. ASSUME NEW w \in Worker, Crash(w) PROVE LeaseInv'
  BY <1>1, QuietMoves DEF Crash
<1>2. ASSUME NEW w \in Worker, Shutdown(w) PROVE LeaseInv'
  <2>. DEFINE s == [worker[w] EXCEPT !.ctx = 0]
  <2>1. Becomes(w, s) /\ UNCHANGED <<job, delivery, sends>>
    BY <1>2 DEF Shutdown
  <2>2. s.ctx = 0
    BY Shapes DEF WorkerState
  <2>. HIDE DEF s
  <2>. QED BY <2>1, <2>2, WorkerQuiet
<1>3. CASE Edit
  BY <1>3, RowsOnly DEF Edit, JobSafe, LeaseInv, AttemptsCapped
<1>. QED
  BY <1>1, <1>2, <1>3

\* Counting down keeps the order of what has not run out.
LEMMA LessOrder ==
    ASSUME NEW a \in Nat, NEW b \in Nat, Less(a) > 0, a < b
    PROVE  a > 0 /\ Less(a) < Less(b)
  BY DEF Less

\* Time passes for the leases in the rows and for what their holders know of them alike.
LEMMA TickLease == ASSUME TypeOK, LeaseInv, Tick PROVE LeaseInv'
<1>1. ASSUME NEW w \in Worker
      PROVE  /\ worker'[w].pc = worker[w].pc /\ worker'[w].job = worker[w].job
             /\ worker'[w].channel = worker[w].channel
             /\ worker'[w].ctx = Less(worker[w].ctx) /\ worker'[w].lease = Less(worker[w].lease)
             /\ worker[w].ctx \in Nat /\ worker[w].lease \in Nat
  <2>1. worker[w] \in WorkerState
    BY Shapes
  <2>2. worker'[w] = [worker[w] EXCEPT !.ctx = Less(worker[w].ctx), !.lease = Less(worker[w].lease)]
    BY DEF Tick
  <2>. QED BY <2>1, <2>2 DEF WorkerState
<1>2. ASSUME NEW j \in JobId
      PROVE  /\ job'[j].owner = job[j].owner /\ job'[j].status = job[j].status
             /\ job'[j].attempts = job[j].attempts /\ job'[j].lease = Less(job[j].lease)
  <2>1. job[j] \in JobRow
    BY DEF TypeOK
  <2>2. job'[j] = [job[j] EXCEPT !.next = Less(job[j].next), !.lease = Less(job[j].lease)]
    BY DEF Tick
  <2>. QED BY <2>1, <2>2 DEF JobRow
<1>3. ASSUME NEW j \in JobId, NEW c \in Channel
      PROVE  /\ delivery'[j][c].owner = delivery[j][c].owner
             /\ delivery'[j][c].status = delivery[j][c].status
             /\ delivery'[j][c].attempts = delivery[j][c].attempts
             /\ delivery'[j][c].lease = Less(delivery[j][c].lease)
             /\ delivery[j][c] = NoDelivery => delivery'[j][c] = NoDelivery
  <2>1. delivery[j][c] \in DeliveryRow
    BY DEF TypeOK
  <2>2. delivery'[j][c] = [delivery[j][c] EXCEPT !.lease = Less(delivery[j][c].lease)]
    BY DEF Tick
  <2>3. delivery[j][c] = NoDelivery => delivery'[j][c] = NoDelivery
    <3>1. Less(0) = 0
      BY DEF Less
    <3>. QED BY <2>2, <3>1 DEF NoDelivery
  <2>. QED BY <2>1, <2>2, <2>3 DEF DeliveryRow
<1>4. sends' = sends
  BY DEF Tick
<1>5. ASSUME NEW w \in Worker, worker'[w].ctx > 0
      PROVE  Live(w) /\ worker'[w].ctx < worker'[w].lease
  <2>1. Live(w)
    BY <1>1, <1>5 DEF Live, Less
  <2>2. worker[w].ctx < worker[w].lease
    BY <2>1 DEF LeaseInv
  <2>. QED BY <1>1, <1>5, <2>1, <2>2, LessOrder
<1>6. ASSUME NEW w \in Worker, worker'[w].ctx > 0
      PROVE  Holder(w)'
  <2>1. Live(w) /\ Holder(w) /\ worker[w].job \in JobId
    BY <1>5, <1>6, LiveShapes DEF LeaseInv, Holder
  <2>2. HoldsJob(w)'
    BY <1>1, <1>2, <2>1 DEF HoldsJob, Holder, Mine
  <2>3. worker[w].pc = "send" => HoldsDelivery(w)'
    <3>1. ASSUME worker[w].pc = "send" PROVE worker[w].channel \in Channel /\ HoldsDelivery(w)
      BY <2>1, <3>1, LiveShapes
    <3>. DEFINE j == worker[w].job
                c == worker[w].channel
    <3>2. worker'[w].job = j /\ worker'[w].channel = c /\ worker'[w].lease = Less(worker[w].lease) /\ j \in JobId
      BY <1>1, <2>1
    <3>3. ASSUME worker[w].pc = "send"
          PROVE  /\ delivery'[j][c].owner = w /\ delivery'[j][c].lease = Less(worker[w].lease)
                 /\ delivery'[j][c].status # "none" /\ sends[j][c] < delivery'[j][c].attempts
      <4>1. c \in Channel /\ HoldsDelivery(w)
        BY <3>1, <3>3
      <4>2. /\ delivery'[j][c].owner = delivery[j][c].owner
            /\ delivery'[j][c].lease = Less(delivery[j][c].lease)
            /\ delivery'[j][c].status = delivery[j][c].status
            /\ delivery'[j][c].attempts = delivery[j][c].attempts
        BY <1>3, <3>2, <4>1
      <4>. QED BY <4>1, <4>2 DEF HoldsDelivery
    <3>. HIDE DEF j, c
    <3>. QED BY <1>4, <3>2, <3>3 DEF HoldsDelivery
  <2>. QED BY <1>1, <1>5, <1>6, <2>1, <2>2, <2>3 DEF Holder
<1>7. \A w \in Worker : Holder(w)'
  BY <1>6 DEF Holder, Live
<1>8. Apart'
  BY <1>1, <1>5 DEF Apart, LeaseInv, Live
<1>9. AttemptsCapped' /\ Unborn'
  BY <1>2, <1>3, <1>4 DEF AttemptsCapped, Unborn, LeaseInv
<1>. QED
  BY <1>7, <1>8, <1>9 DEF LeaseInv, Unborn, Holder, Apart

\* At the start nobody holds anything.
LEMMA LeaseInit == Init => LeaseInv
<1>. SUFFICES ASSUME Init PROVE LeaseInv
  OBVIOUS
<1>1. \A j \in JobId : job[j].attempts = 0
  BY DEF Init, FreeJob
<1>2. \A j \in JobId, c \in Channel : delivery[j][c] = NoDelivery /\ sends[j][c] = 0
  BY DEF Init
<1>3. \A w \in Worker : ~Live(w)
  BY DEF Init, IdleWorker, Live
<1>4. NoDelivery.attempts = 0
  BY DEF NoDelivery
<1>. QED
  BY <1>1, <1>2, <1>3, <1>4, AttemptsAssumption DEF LeaseInv, AttemptsCapped

\* LeaseInv is inductive.
LEMMA LeaseStep == ASSUME TypeOK, LeaseInv, [Next]_vars PROVE LeaseInv'
<1>1. CASE UNCHANGED vars
  BY <1>1 DEF vars, LeaseInv, AttemptsCapped, Live, HoldsJob, HoldsDelivery, Mine
<1>2. CASE Step
  BY <1>2, RequestLease, ProcessOneLease, EnvironmentLease DEF Step
<1>3. CASE Tick
  BY <1>3, TickLease
<1>. QED
  BY <1>1, <1>2, <1>3 DEF Next

\* Whoever may still call the model or a channel holds what it works on: its context
\* ends before its lease, the job is its own or was cancelled by a recovery, and the
\* delivery it sends has its attempt counted.
THEOREM LeasesHold == Spec => []LeaseInv
<1>. QED
  BY InitType, TypeStep, LeaseInit, LeaseStep, PTL DEF Spec

\* No crash, lost lease, resurrected job or lost answer buys a fourth model call or a
\* message beyond the counted attempts.
THEOREM AttemptsAreCapped == Spec => []AttemptsCapped
<1>1. LeaseInv => AttemptsCapped
  BY DEF LeaseInv
<1>. QED
  BY LeasesHold, <1>1, PTL

\* Two workers whose contexts live are never busy with the same job: the lease of
\* claim together with the timeout of workCtx excludes it, however slow they are.
THEOREM OneWorkerPerJob == Spec => []OneBusyWorker
<1>1. LeaseInv => OneBusyWorker
  BY DEF LeaseInv, OneBusyWorker, Busy
<1>. QED
  BY LeasesHold, <1>1, PTL

-----------------------------------------------------------------------------
(***************************************************************************)
(* What ends a delivery.  The effect of a step on the row of a delivery is *)
(* stated once; only the worker that holds the row changes it while a      *)
(* message of it may be under way.                                         *)
(***************************************************************************)
RowKept(j, c) ==
    delivery'[j][c].status = delivery[j][c].status /\ delivery'[j][c].owner = delivery[j][c].owner
Filed(j, c) ==
    delivery[j][c].status = "none" /\ delivery'[j][c].status = "pending" /\ delivery'[j][c].owner = Nobody
\* A live worker of the job gives up what a crash left, or what has lost its channel.
Ended(w, j, c) ==
    /\ Live(w) /\ worker[w].pc \in {"sweep", "deliver"} /\ worker[w].job = j
    /\ delivery[j][c].status = "pending" /\ delivery'[j][c].status \in {"failed", "cancelled"}
Leased(w, j, c) ==
    /\ Live(w) /\ worker[w].pc = "grab" /\ worker[w].job = j
    /\ delivery[j][c].status = "pending" /\ delivery'[j][c].status = "pending"
Recorded(w, j, c) ==
    /\ worker[w].pc = "confirm" /\ delivery[j][c].owner = w /\ delivery'[j][c].owner = Nobody

\* Whoever sends works on a pending delivery, and a confirmed one has no owner left to
\* record anything else.
SendInv ==
    /\ \A j \in JobId, c \in Channel : delivery[j][c].status = "sent" => delivery[j][c].owner = Nobody
    /\ \A w \in Worker : Live(w) /\ worker[w].pc = "send" =>
          delivery[worker[w].job][worker[w].channel].status = "pending"

\* The steps of the delivery phase, row by row.
LEMMA DeliveryEffects ==
    ASSUME TypeOK, NEW w \in Worker,
           Sweep(w) \/ Deliver(w) \/ GrabDelivery(w) \/ Confirm(w) \/ CommitResult(w),
           NEW j \in JobId, NEW c \in Channel
    PROVE  RowKept(j, c) \/ Filed(j, c) \/ Ended(w, j, c) \/ Leased(w, j, c) \/ Recorded(w, j, c)
<1>. DEFINE k == worker[w].job
            ch == worker[w].channel
<1>1. /\ worker[w] \in WorkerState /\ k \in JobId
      /\ worker[w].todo \in SUBSET Channel
      /\ worker[w].pc \in {"grab", "confirm"} => ch \in Channel
  <2>1. worker[w].pc \notin {"idle", "claim"}
    BY DEF Sweep, Deliver, GrabDelivery, Confirm, CommitResult
  <2>. QED BY <2>1, ActingWorker DEF GoodWorker
<1>2. delivery \in [JobId -> [Channel -> DeliveryRow]]
  BY DEF TypeOK
<1>3. ASSUME NEW f, delivery' = [delivery EXCEPT ![k] = f]
      PROVE  delivery'[j] = IF j = k THEN f ELSE delivery[j]
  <2>. HIDE DEF k
  <2>. QED BY <1>1, <1>2, <1>3
<1>4. ASSUME NEW b \in Channel, NEW r, delivery' = [delivery EXCEPT ![k][b] = r]
      PROVE  delivery'[j][c] = IF j = k /\ c = b THEN r ELSE delivery[j][c]
  <2>. HIDE DEF k
  <2>. QED BY <1>1, <1>2, <1>4
<1>5. delivery[j][c] \in DeliveryRow
  BY <1>2
<1>6. CASE Sweep(w)
  <2>. DEFINE d == delivery[k]
              lost(b) == d[b].status = "pending" /\ d[b].attempts >= MaxAttempts /\ d[b].lease = 0
              f == [b \in Channel |-> IF lost(b) THEN [d[b] EXCEPT !.status = "failed", !.owner = Nobody] ELSE d[b]]
              x == [delivery[j][c] EXCEPT !.status = "failed", !.owner = Nobody]
  <2>1. delivery' = [delivery EXCEPT ![k] = f] /\ Live(w) /\ worker[w].pc = "sweep"
    BY <1>6 DEF Sweep
  <2>2. delivery'[j] = IF j = k THEN f ELSE delivery[j]
    BY <1>3, <2>1
  <2>3. j = k => \/ f[c] = delivery[j][c]
                 \/ delivery[j][c].status = "pending" /\ f[c] = x
    OBVIOUS
  <2>4. x.status = "failed"
    BY <1>5 DEF DeliveryRow
  <2>. HIDE DEF f, x
  <2>. QED BY <2>1, <2>2, <2>3, <2>4 DEF RowKept, Ended
<1>7. CASE Deliver(w)
  <2>1. PICK b \in worker[w].todo :
           \/ delivery' = delivery
           \/ /\ delivery[k][b].status = "pending"
              /\ delivery' = [delivery EXCEPT ![k][b] = [delivery[k][b] EXCEPT !.status = "cancelled"]]
    BY <1>7 DEF Deliver
  <2>2. Live(w) /\ worker[w].pc = "deliver" /\ b \in Channel
    BY <1>1, <1>7 DEF Deliver
  <2>. DEFINE x == [delivery[k][b] EXCEPT !.status = "cancelled"]
  <2>3. x.status = "cancelled"
    <3>1. delivery[k][b] \in DeliveryRow
      BY <1>1, <1>2, <2>2
    <3>. HIDE DEF k
    <3>. QED BY <3>1 DEF DeliveryRow
  <2>4. CASE delivery' = [delivery EXCEPT ![k][b] = x] /\ delivery[k][b].status = "pending"
    <3>. HIDE DEF x
    <3>1. delivery'[j][c] = IF j = k /\ c = b THEN x ELSE delivery[j][c]
      BY <1>4, <2>2, <2>4
    <3>. QED BY <2>2, <2>3, <2>4, <3>1 DEF RowKept, Ended
  <2>. QED BY <2>1, <2>4 DEF RowKept
<1>8. CASE GrabDelivery(w)
  <2>. DEFINE x == Grabbed(w, delivery[k][ch])
  <2>1. /\ Live(w) /\ worker[w].pc = "grab" /\ ch \in Channel
        /\ \/ delivery' = delivery
           \/ Grabbable(delivery[k][ch]) /\ delivery' = [delivery EXCEPT ![k][ch] = x]
    BY <1>1, <1>8 DEF GrabDelivery
  <2>2. ASSUME Grabbable(delivery[k][ch]) PROVE delivery[k][ch].status = "pending" /\ x.status = "pending"
    <3>1. delivery[k][ch].status = "pending" /\ delivery[k][ch] \in DeliveryRow
      BY <1>1, <1>2, <2>1, <2>2 DEF Grabbable, Open
    <3>. HIDE DEF k, ch
    <3>. QED BY <3>1 DEF Grabbed, DeliveryRow
  <2>3. CASE Grabbable(delivery[k][ch]) /\ delivery' = [delivery EXCEPT ![k][ch] = x]
    <3>. HIDE DEF x
    <3>1. delivery'[j][c] = IF j = k /\ c = ch THEN x ELSE delivery[j][c]
      BY <1>4, <2>1, <2>3
    <3>. QED BY <2>1, <2>2, <2>3, <3>1 DEF RowKept, Leased
  <2>. QED BY <2>1, <2>3 DEF RowKept
<1>9. CASE Confirm(w)
  <2>. DEFINE x == [delivery[k][ch] EXCEPT !.status = Confirmed(w), !.owner = Nobody, !.lease = 0]
  <2>1. /\ worker[w].pc = "confirm" /\ ch \in Channel
        /\ \/ delivery' = delivery
           \/ delivery[k][ch].owner = w /\ delivery' = [delivery EXCEPT ![k][ch] = x]
    BY <1>1, <1>9 DEF Confirm, OwnsDelivery
  <2>2. x.owner = Nobody
    <3>1. delivery[k][ch] \in DeliveryRow
      BY <1>1, <1>2, <2>1
    <3>. QED BY <3>1 DEF DeliveryRow
  <2>3. CASE delivery[k][ch].owner = w /\ delivery' = [delivery EXCEPT ![k][ch] = x]
    <3>. HIDE DEF x
    <3>1. delivery'[j][c] = IF j = k /\ c = ch THEN x ELSE delivery[j][c]
      BY <1>4, <2>1, <2>3
    <3>. QED BY <2>1, <2>2, <2>3, <3>1 DEF RowKept, Recorded
  <2>. QED BY <2>1, <2>3 DEF RowKept
<1>10. CASE CommitResult(w)
  <2>. DEFINE p == [NoDelivery EXCEPT !.status = "pending"]
              f == [b \in Channel |-> IF b \in job[k].channels /\ delivery[k][b].status = "none"
                                      THEN p ELSE delivery[k][b]]
  <2>1. delivery' = [delivery EXCEPT ![k] = f]
    BY <1>10 DEF CommitResult
  <2>2. delivery'[j] = IF j = k THEN f ELSE delivery[j]
    BY <1>3, <2>1
  <2>3. j = k => \/ f[c] = delivery[j][c]
                 \/ delivery[j][c].status = "none" /\ f[c] = p
    OBVIOUS
  <2>4. p.status = "pending" /\ p.owner = Nobody
    BY DEF NoDelivery
  <2>. HIDE DEF f, p
  <2>. QED BY <2>2, <2>3, <2>4 DEF RowKept, Filed
<1>. QED
  BY <1>6, <1>7, <1>8, <1>9, <1>10

\* All other steps leave the status and the owner of every delivery alone.
LEMMA DeliverySteps ==
    ASSUME TypeOK, [Next]_vars, NEW j \in JobId, NEW c \in Channel
    PROVE  \/ RowKept(j, c) \/ Filed(j, c)
           \/ \E w \in Worker : Ended(w, j, c) \/ Leased(w, j, c) \/ Recorded(w, j, c)
<1>1. CASE UNCHANGED delivery
  BY <1>1 DEF RowKept
<1>2. CASE Tick
  <2>1. delivery[j][c] \in DeliveryRow /\ delivery'[j][c] = [delivery[j][c] EXCEPT !.lease = Less(delivery[j][c].lease)]
    BY <1>2 DEF TypeOK, Tick
  <2>. QED BY <2>1 DEF RowKept, DeliveryRow
<1>3. ASSUME NEW n \in Notifier, Notify(n) \/ Enqueue(n) PROVE UNCHANGED delivery
  BY <1>3 DEF Notify, Enqueue, EnqueueRead, EnqueueResolve, EnqueueOpen, EnqueueRetry
<1>4. ASSUME NEW w \in Worker, ProcessOne(w)
      PROVE  \/ UNCHANGED delivery
             \/ Sweep(w) \/ Deliver(w) \/ GrabDelivery(w) \/ Confirm(w) \/ CommitResult(w)
  <2>1. CASE ClaimRead(w) \/ ClaimExhausted(w) \/ ClaimGrant(w) \/ ClaimLost(w)
    BY <2>1 DEF ClaimRead, ClaimExhausted, ClaimGrant, ClaimLost
  <2>2. CASE Check(w) \/ AnalyzeOk(w) \/ AnalyzeFail(w) \/ CommitRefused(w) \/ DeliverEnd(w)
    BY <2>2 DEF Check, AnalyzeOk, AnalyzeFail, CommitRefused, DeliverEnd
  <2>3. CASE SendReaches(w) \/ SendFails(w) \/ CountPending(w) \/ FinishJob(w) \/ TimedOut(w)
    BY <2>3 DEF SendReaches, SendFails, CountPending, FinishJob, TimedOut
  <2>. QED BY <1>4, <2>1, <2>2, <2>3 DEF ProcessOne
<1>5. ASSUME Edit \/ \E w \in Worker : Crash(w) \/ Shutdown(w) PROVE UNCHANGED delivery
  BY <1>5 DEF Edit, Crash, Shutdown
<1>6. ASSUME NEW w \in Worker, Sweep(w) \/ Deliver(w) \/ GrabDelivery(w) \/ Confirm(w) \/ CommitResult(w)
      PROVE  RowKept(j, c) \/ Filed(j, c) \/ Ended(w, j, c) \/ Leased(w, j, c) \/ Recorded(w, j, c)
  BY <1>6, DeliveryEffects
<1>. QED
  BY <1>1, <1>2, <1>3, <1>4, <1>5, <1>6 DEF Next, Step, vars

\* A worker starts to send with the delivery it was granted.
LEMMA SenderSteps ==
    ASSUME TypeOK, [Next]_vars, NEW v \in Worker, worker'[v].ctx > 0, worker'[v].pc = "send"
    PROVE  \/ /\ Live(v) /\ worker[v].pc = "send"
              /\ worker'[v].job = worker[v].job /\ worker'[v].channel = worker[v].channel
           \/ delivery'[worker'[v].job][worker'[v].channel].status = "pending"
<1>. DEFINE Goal == \/ /\ Live(v) /\ worker[v].pc = "send"
                       /\ worker'[v].job = worker[v].job /\ worker'[v].channel = worker[v].channel
                    \/ delivery'[worker'[v].job][worker'[v].channel].status = "pending"
<1>0. \A w \in Worker : worker[w] \in WorkerState
  BY Shapes
<1>1. ASSUME worker'[v] = worker[v] PROVE Goal
  BY <1>1 DEF Live
<1>2. ASSUME NEW w \in Worker, NEW s, Becomes(w, s), s.pc # "send" PROVE Goal
  <2>1. v # w /\ worker'[v] = worker[v]
    BY <1>2, Others
  <2>. QED BY <1>1, <2>1
<1>3. ASSUME NEW w \in Worker, \/ Return(w)
                               \/ \E o : Finish(w, o)
                               \/ \E p : p # "send" /\ Goto(w, p)
      PROVE  Goal
  <2>1. IdleWorker.pc # "send"
    BY DEF IdleWorker
  <2>2. \A o : [worker[w] EXCEPT !.pc = "finish", !.outcome = o].pc = "finish"
    BY <1>0 DEF WorkerState
  <2>3. \A p : [worker[w] EXCEPT !.pc = p].pc = p
    BY <1>0 DEF WorkerState
  <2>. HIDE DEF Goal
  <2>4. CASE Return(w)
    BY <1>2, <2>1, <2>4 DEF Return
  <2>5. ASSUME NEW o, Finish(w, o) PROVE Goal
    <3>. DEFINE s == [worker[w] EXCEPT !.pc = "finish", !.outcome = o]
    <3>1. Becomes(w, s) /\ s.pc # "send"
      BY <2>2, <2>5 DEF Finish
    <3>. HIDE DEF s
    <3>. QED BY <1>2, <3>1
  <2>6. ASSUME NEW p, p # "send", Goto(w, p) PROVE Goal
    <3>. DEFINE s == [worker[w] EXCEPT !.pc = p]
    <3>1. Becomes(w, s) /\ s.pc # "send"
      BY <2>3, <2>6 DEF Goto
    <3>. HIDE DEF s
    <3>. QED BY <1>2, <3>1
  <2>. QED BY <1>3, <2>4, <2>5, <2>6
<1>4. ASSUME NEW n \in Notifier, Notify(n) \/ Enqueue(n) PROVE Goal
  <2>1. worker' = worker
    BY <1>4 DEF Notify, Enqueue, EnqueueRead, EnqueueResolve, EnqueueOpen, EnqueueRetry
  <2>. HIDE DEF Goal
  <2>. QED BY <1>1, <2>1
<1>5. ASSUME Edit \/ UNCHANGED vars PROVE Goal
  <2>1. worker' = worker
    BY <1>5 DEF Edit, vars
  <2>. HIDE DEF Goal
  <2>. QED BY <1>1, <2>1
<1>6. ASSUME Tick PROVE Goal
  <2>1. worker'[v] = [worker[v] EXCEPT !.ctx = Less(worker[v].ctx), !.lease = Less(worker[v].lease)]
    BY <1>6 DEF Tick
  <2>2. /\ worker'[v].pc = worker[v].pc /\ worker'[v].job = worker[v].job
        /\ worker'[v].channel = worker[v].channel /\ worker'[v].ctx = Less(worker[v].ctx)
        /\ worker[v].ctx \in Nat
    BY <1>0, <2>1 DEF WorkerState
  <2>. QED BY <2>2 DEF Live, Less
<1>7. ASSUME NEW w \in Worker, ProcessOne(w) \/ Crash(w) \/ Shutdown(w) PROVE Goal
  <2>0. /\ worker[w].pc \notin {"idle", "claim"} => worker[w].job \in JobId
        /\ worker[w].pc = "grab" => worker[w].channel \in Channel
        /\ worker[w] \in WorkerState
    BY Shapes
  <2>1. CASE ClaimRead(w)
    <3>1. PICK cands : Becomes(w, [worker[w] EXCEPT !.pc = "claim", !.cands = cands])
      BY <2>1 DEF ClaimRead
    <3>. DEFINE s == [worker[w] EXCEPT !.pc = "claim", !.cands = cands]
    <3>2. s.pc = "claim"
      BY <2>0 DEF WorkerState
    <3>. HIDE DEF s, Goal
    <3>3. Becomes(w, s)
      BY <3>1 DEF s
    <3>. QED BY <1>2, <3>2, <3>3
  <2>2. ASSUME NEW r, worker[w].pc = "claim", SkipCandidate(w, r) PROVE Goal
    <3>. DEFINE left == worker[w].cands \ {r}
                s == [worker[w] EXCEPT !.cands = left]
    <3>1. s.pc = "claim"
      <4>. HIDE DEF left
      <4>. QED BY <2>0, <2>2 DEF WorkerState
    <3>2. Return(w) \/ Becomes(w, s)
      BY <2>2 DEF SkipCandidate
    <3>. HIDE DEF s, Goal
    <3>. QED BY <1>2, <1>3, <3>1, <3>2
  <2>3. CASE ClaimExhausted(w) \/ ClaimLost(w)
    <3>. HIDE DEF Goal
    <3>. QED BY <2>2, <2>3 DEF ClaimExhausted, ClaimLost
  <2>4. CASE ClaimGrant(w)
    <3>1. PICK k, a, t : Becomes(w, [IdleWorker EXCEPT !.pc = "check", !.job = k, !.analysed = a,
                                        !.attempts = t, !.lease = LeaseDuration, !.ctx = WorkTimeout])
      BY <2>4 DEF ClaimGrant
    <3>. DEFINE s == [IdleWorker EXCEPT !.pc = "check", !.job = k, !.analysed = a,
                                        !.attempts = t, !.lease = LeaseDuration, !.ctx = WorkTimeout]
    <3>2. s.pc = "check" /\ Becomes(w, s)
      BY <3>1 DEF IdleWorker
    <3>. HIDE DEF s, Goal
    <3>. QED BY <1>2, <3>2
  <2>5. CASE Check(w) \/ AnalyzeOk(w) \/ AnalyzeFail(w) \/ CommitResult(w) \/ CommitRefused(w)
    <3>. HIDE DEF Goal
    <3>. QED BY <1>3, <2>5 DEF Check, AnalyzeOk, AnalyzeFail, CommitResult, CommitRefused
  <2>6. CASE DeliverEnd(w) \/ CountPending(w) \/ FinishJob(w) \/ TimedOut(w) \/ Crash(w)
    <3>. HIDE DEF Goal
    <3>. QED BY <1>3, <2>6 DEF DeliverEnd, CountPending, FinishJob, TimedOut, Crash
  <2>7. CASE Sweep(w)
    <3>1. PICK t, u : Becomes(w, [worker[w] EXCEPT !.pc = "deliver", !.todo = t, !.tries = u])
      BY <2>7 DEF Sweep
    <3>. DEFINE s == [worker[w] EXCEPT !.pc = "deliver", !.todo = t, !.tries = u]
    <3>2. s.pc = "deliver" /\ Becomes(w, s)
      BY <2>0, <3>1 DEF WorkerState
    <3>. HIDE DEF s, Goal
    <3>. QED BY <1>2, <3>2
  <2>8. CASE Deliver(w)
    <3>1. PICK t, c : \/ Finish(w, "cancelled")
                      \/ Becomes(w, [worker[w] EXCEPT !.todo = t])
                      \/ Becomes(w, [worker[w] EXCEPT !.pc = "grab", !.channel = c, !.todo = t])
      BY <2>8 DEF Deliver
    <3>. DEFINE s == [worker[w] EXCEPT !.todo = t]
                u == [worker[w] EXCEPT !.pc = "grab", !.channel = c, !.todo = t]
    <3>2. s.pc = "deliver" /\ u.pc = "grab"
      BY <2>0, <2>8 DEF WorkerState, Deliver
    <3>3. Finish(w, "cancelled") \/ Becomes(w, s) \/ Becomes(w, u)
      BY <3>1
    <3>. HIDE DEF s, u, Goal
    <3>. QED BY <1>2, <1>3, <3>2, <3>3
  <2>9. CASE GrabDelivery(w)
    <3>. DEFINE k == worker[w].job
                c == worker[w].channel
                x == Grabbed(w, delivery[k][c])
                s == [worker[w] EXCEPT !.pc = "send"]
    <3>1. CASE Goto(w, "deliver")
      <4>. HIDE DEF Goal
      <4>. QED BY <1>3, <3>1
    <3>2. CASE Grabbable(delivery[k][c]) /\ Becomes(w, s) /\ delivery' = [delivery EXCEPT ![k][c] = x]
      <4>1. k \in JobId /\ c \in Channel /\ delivery[k][c] \in DeliveryRow
        BY <2>0, <2>9 DEF GrabDelivery, TypeOK
      <4>2. x.status = "pending"
        <5>1. delivery[k][c].status = "pending"
          BY <3>2 DEF Grabbable, Open
        <5>. HIDE DEF k, c
        <5>. QED BY <4>1, <5>1 DEF Grabbed, DeliveryRow
      <4>3. delivery'[k][c] = x
        <5>. HIDE DEF k, c, x
        <5>. QED BY <3>2, <4>1 DEF TypeOK
      <4>4. s.job = k /\ s.channel = c
        BY <2>0 DEF WorkerState
      <4>5. worker'[w] = s /\ (v # w => worker'[v] = worker[v])
        <5>. HIDE DEF s
        <5>. QED BY <3>2, Others
      <4>6. CASE v = w
        <5>1. delivery'[worker'[v].job][worker'[v].channel].status = "pending"
          <6>. HIDE DEF x, s, k, c
          <6>. QED BY <4>2, <4>3, <4>4, <4>5, <4>6
        <5>. QED BY <5>1
      <4>. HIDE DEF Goal
      <4>. QED BY <1>1, <4>5, <4>6
    <3>. HIDE DEF Goal
    <3>. QED BY <2>9, <3>1, <3>2 DEF GrabDelivery, Goto
  <2>10. CASE SendReaches(w) \/ SendFails(w)
    <3>1. PICK o : Becomes(w, [worker[w] EXCEPT !.pc = "confirm", !.outcome = o])
      BY <2>10 DEF SendReaches, SendFails
    <3>. DEFINE s == [worker[w] EXCEPT !.pc = "confirm", !.outcome = o]
    <3>2. s.pc = "confirm" /\ Becomes(w, s)
      BY <2>0, <3>1 DEF WorkerState
    <3>. HIDE DEF s, Goal
    <3>. QED BY <1>2, <3>2
  <2>11. CASE Confirm(w)
    <3>. DEFINE s == [worker[w] EXCEPT !.pc = "deliver", !.channel = NoChannel, !.outcome = "none"]
    <3>1. s.pc = "deliver" /\ Becomes(w, s)
      BY <2>0, <2>11 DEF WorkerState, Confirm
    <3>. HIDE DEF s, Goal
    <3>. QED BY <1>2, <3>1
  <2>12. CASE Shutdown(w)
    <3>. DEFINE s == [worker[w] EXCEPT !.ctx = 0]
    <3>1. s.ctx = 0 /\ Becomes(w, s)
      BY <2>0, <2>12 DEF WorkerState, Shutdown
    <3>. HIDE DEF s
    <3>2. v # w /\ worker'[v] = worker[v]
      BY <3>1, Others
    <3>. HIDE DEF Goal
    <3>. QED BY <1>1, <3>2
  <2>. HIDE DEF Goal
  <2>. QED BY <1>7, <2>1, <2>3, <2>4, <2>5, <2>6, <2>7, <2>8, <2>9, <2>10, <2>11, <2>12 DEF ProcessOne
<1>. HIDE DEF Goal
<1>8. Goal
  BY <1>4, <1>5, <1>6, <1>7 DEF Next, Step
<1>. QED
  BY <1>8 DEF Goal

\* A message goes out for the delivery in the hands of a live sender.
LEMMA SendSteps ==
    ASSUME TypeOK, [Next]_vars, NEW j \in JobId, NEW c \in Channel, sends'[j][c] # sends[j][c]
    PROVE  \E w \in Worker : Live(w) /\ worker[w].pc = "send" /\ worker[w].job = j /\ worker[w].channel = c
<1>1. ASSUME NEW n \in Notifier, Notify(n) \/ Enqueue(n) PROVE UNCHANGED sends
  BY <1>1 DEF Notify, Enqueue, EnqueueRead, EnqueueResolve, EnqueueOpen, EnqueueRetry
<1>2. CASE Edit \/ Tick \/ UNCHANGED vars \/ \E w \in Worker : Crash(w) \/ Shutdown(w)
  BY <1>2 DEF Edit, Tick, vars, Crash, Shutdown
<1>3. ASSUME NEW w \in Worker, ProcessOne(w) PROVE SendReaches(w) \/ UNCHANGED sends
  <2>1. CASE ClaimRead(w) \/ ClaimExhausted(w) \/ ClaimGrant(w) \/ ClaimLost(w)
    BY <2>1 DEF ClaimRead, ClaimExhausted, ClaimGrant, ClaimLost
  <2>2. CASE Check(w) \/ AnalyzeOk(w) \/ AnalyzeFail(w) \/ CommitResult(w) \/ CommitRefused(w)
    BY <2>2 DEF Check, AnalyzeOk, AnalyzeFail, CommitResult, CommitRefused
  <2>3. CASE Sweep(w) \/ Deliver(w) \/ DeliverEnd(w) \/ GrabDelivery(w)
    BY <2>3 DEF Sweep, Deliver, DeliverEnd, GrabDelivery
  <2>4. CASE SendFails(w) \/ Confirm(w) \/ CountPending(w) \/ FinishJob(w) \/ TimedOut(w)
    BY <2>4 DEF SendFails, Confirm, CountPending, FinishJob, TimedOut
  <2>. QED BY <1>3, <2>1, <2>2, <2>3, <2>4 DEF ProcessOne
<1>4. ASSUME NEW w \in Worker, SendReaches(w)
      PROVE  Live(w) /\ worker[w].pc = "send" /\ worker[w].job = j /\ worker[w].channel = c
  <2>. DEFINE k == worker[w].job
              ch == worker[w].channel
              n == sends[k][ch] + 1
  <2>1. Live(w) /\ worker[w].pc = "send" /\ sends' = [sends EXCEPT ![k][ch] = n]
    BY <1>4 DEF SendReaches
  <2>2. k \in JobId /\ ch \in Channel /\ sends \in [JobId -> [Channel -> Nat]]
    BY <2>1, Shapes DEF TypeOK
  <2>3. k = j /\ ch = c
    <3>. HIDE DEF k, ch, n
    <3>. QED BY <2>1, <2>2
  <2>. QED BY <2>1, <2>3
<1>. QED
  BY <1>1, <1>2, <1>3, <1>4 DEF Next, Step

LEMMA SendInit == Init => SendInv
<1>. SUFFICES ASSUME Init PROVE SendInv
  OBVIOUS
<1>1. \A j \in JobId, c \in Channel : delivery[j][c] = NoDelivery
  BY DEF Init
<1>2. NoDelivery.status = "none"
  BY DEF NoDelivery
<1>3. \A w \in Worker : worker[w].pc = "idle"
  BY DEF Init, IdleWorker
<1>. QED
  BY <1>1, <1>2, <1>3 DEF SendInv

\* SendInv is inductive: while a message may be under way nobody but its sender touches
\* the delivery, and a confirmed delivery belongs to nobody.
LEMMA SendStep == ASSUME TypeOK, LeaseInv, SendInv, [Next]_vars PROVE SendInv'
<1>1. ASSUME NEW j \in JobId, NEW c \in Channel, delivery'[j][c].status = "sent"
      PROVE  delivery'[j][c].owner = Nobody
  <2>1. delivery[j][c].status = "sent" => delivery[j][c].owner = Nobody
    BY DEF SendInv
  <2>. QED BY <1>1, <2>1, DeliverySteps DEF RowKept, Filed, Ended, Leased, Recorded
<1>2. ASSUME NEW v \in Worker, worker'[v].ctx > 0, worker'[v].pc = "send",
             Live(v), worker[v].pc = "send",
             worker'[v].job = worker[v].job, worker'[v].channel = worker[v].channel
      PROVE  delivery'[worker'[v].job][worker'[v].channel].status = "pending"
  <2>. DEFINE j == worker[v].job
              c == worker[v].channel
  <2>1. j \in JobId /\ c \in Channel /\ delivery[j][c].owner = v /\ delivery[j][c].status = "pending"
    BY <1>2, LiveShapes DEF HoldsDelivery, SendInv
  <2>2. \A w \in Worker : Live(w) /\ worker[w].job = j => w = v
    BY <1>2 DEF LeaseInv
  <2>. HIDE DEF j, c
  <2>3. delivery'[j][c].status = "pending"
    <3>1. ~Filed(j, c) /\ \A w \in Worker : ~Recorded(w, j, c) /\ ~Ended(w, j, c)
      BY <1>2, <2>1, <2>2 DEF Filed, Recorded, Ended
    <3>. QED BY <2>1, <3>1, DeliverySteps DEF RowKept, Leased
  <2>. QED BY <1>2, <2>3 DEF j, c
<1>. QED
  BY <1>1, <1>2, SenderSteps DEF SendInv, Live

\* Only a pending delivery is ever sent, and nobody else ends it while it may be under way.
THEOREM SendsArePending == Spec => []SendInv
<1>. QED
  BY InitType, TypeStep, LeaseInit, LeaseStep, SendInit, SendStep, PTL DEF Spec

\* Whatever ended a delivery (a confirmation, the last attempt, a crash after it, the
\* switch of its channel), no message of it follows: nobody with a living context is
\* still about to send it.
THEOREM NothingFollowsTheEnd == Spec => NoSendAfterEnd
<1>1. ASSUME TypeOK, SendInv, [Next]_vars
      PROVE  [\A j \in JobId, c \in Channel :
          delivery[j][c].status \in {"sent", "failed", "cancelled"} => sends'[j][c] = sends[j][c]]_vars
  BY <1>1, SendSteps DEF SendInv
<1>. QED
  BY <1>1, SendsArePending, InitType, TypeStep, PTL DEF Spec, NoSendAfterEnd

\* A delivery that is recorded as sent stays sent, against every late answer of another
\* worker, and its channel never hears of the job again.
THEOREM SentStaysSent == Spec => SentIsFinal
<1>1. ASSUME TypeOK, SendInv, [Next]_vars
      PROVE  [\A j \in JobId, c \in Channel : delivery[j][c].status = "sent" =>
          delivery'[j][c].status = "sent" /\ sends'[j][c] = sends[j][c]]_vars
  <2>1. ASSUME NEW j \in JobId, NEW c \in Channel, delivery[j][c].status = "sent"
        PROVE  delivery'[j][c].status = "sent"
    <3>1. delivery[j][c].owner = Nobody /\ Nobody \notin Worker
      BY <1>1, <2>1, NamesAssumption DEF SendInv
    <3>. QED BY <1>1, <2>1, <3>1, DeliverySteps DEF RowKept, Filed, Ended, Leased, Recorded
  <2>2. ASSUME NEW j \in JobId, NEW c \in Channel, delivery[j][c].status = "sent"
        PROVE  sends'[j][c] = sends[j][c]
    BY <1>1, <2>2, SendSteps DEF SendInv
  <2>. QED BY <2>1, <2>2
<1>. QED
  BY <1>1, SendsArePending, InitType, TypeStep, PTL DEF Spec, SentIsFinal
=============================================================================
