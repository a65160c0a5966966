------------------------------- MODULE AlarmAI -------------------------------
(***************************************************************************)
(* The queue behind AI alert analysis: alert events of one alarm rule open *)
(* or close incidents (Enqueue), every incident gets an analysis job, and  *)
(* the workers of all replicas claim jobs under a lease, call the model    *)
(* and send the result to the channels of the rule.  All state is in the   *)
(* metadata database; a step is one statement or one transaction of it.    *)
(* Timestamps are only ever compared with "now", so a row keeps how long   *)
(* it is until the timestamp passes and Tick counts everything down.       *)
(***************************************************************************)
EXTENDS Naturals, Sequences, FiniteSets

CONSTANTS
    Worker,         \* one ProcessOne loop per replica
    Notifier,       \* webhook requests being handled at a time
    Group,          \* fingerprints: label sets of the rule
    Channel,        \* alarm channels
    StartTimes,     \* StartsAt of the incidents Alertmanager reports
    EndTimes,       \* EndsAt of the recoveries it reports
    MaxAttempts,    \* maxAttempts
    LeaseDuration,  \* leaseDuration, in ticks
    WorkTimeout,    \* timeout of workCtx, in ticks
    RetryDelay,     \* finish's delay of the next attempt, in ticks
    Cooldown,       \* CooldownSeconds of the jobs, in ticks
    MaxBatch,       \* bound: events in a notification
    MaxNotices,     \* bound: notifications
    MaxJobs,        \* bound: analysis jobs
    MaxCrashes,     \* bound: crashes, lost connections and shutdowns
    MaxEdits        \* bound: changes to the rule or its channels

\* What a row or a worker holds when it refers to nobody and nothing.
NoJob == 0
Nobody == "nobody"
NoGroup == "no group"
NoChannel == "no channel"

ASSUME NamesAssumption == Nobody \notin Worker /\ NoGroup \notin Group /\ NoChannel \notin Channel
ASSUME AttemptsAssumption == MaxAttempts \in Nat \ {0}
ASSUME TimesAssumption == StartTimes \subseteq Nat \ {0} /\ EndTimes \subseteq Nat \ {0}
ASSUME LeaseAssumption ==
    /\ LeaseDuration \in Nat /\ WorkTimeout \in Nat
    /\ RetryDelay \in Nat /\ Cooldown \in Nat
    /\ 0 < WorkTimeout /\ WorkTimeout < LeaseDuration
ASSUME BoundsAssumption ==
    /\ MaxBatch \in Nat /\ MaxNotices \in Nat /\ MaxJobs \in Nat
    /\ MaxCrashes \in Nat /\ MaxEdits \in Nat

VARIABLES
    group,      \* cv_alarm_ai_group, by fingerprint
    job,        \* cv_alarm_ai_analysis, by id
    delivery,   \* cv_alarm_ai_delivery, by job and channel
    alarm,      \* is the rule open, closed or deleted
    eligible,   \* channels of the rule whose AI switch is on
    notifier,   \* the webhook requests in Enqueue
    worker,     \* the workers in ProcessOne
    sends,      \* history: messages that reached a channel
    budget      \* what is left of the bounds

vars == <<group, job, delivery, alarm, eligible, notifier, worker, sends, budget>>

JobId == 1 .. MaxJobs
EnqueueAttempts == 3

Unfinished == {"queued", "working"}           \* the statuses a cancellation looks for
ClaimableBeforeDelivery == {"queued", "working"}  \* mutant: forgets jobs that crashed while sending
Claimable  == {"queued", "working", "delivery"}
Terminal   == {"done", "failed", "cancelled"}

Event == [group : Group, start : StartTimes, end : EndTimes \cup {0}]
Notice == UNION {[1 .. k -> Event] : k \in 1 .. MaxBatch}

NewGroup == [version |-> 0, start |-> 0, resolved |-> 0, job |-> NoJob, cool |-> 0]
NoDelivery == [status |-> "none", attempts |-> 0, owner |-> Nobody, lease |-> 0]
FreeJob == [group |-> NoGroup, start |-> 0, status |-> "none", analysed |-> FALSE,
            attempts |-> 0, next |-> 0, owner |-> Nobody, lease |-> 0, channels |-> {}]
IdleNotifier == [pc |-> "idle", todo |-> << >>, attempt |-> 0, version |-> 0, plan |-> "drop"]
IdleWorker == [pc |-> "idle", cands |-> {}, job |-> NoJob, analysed |-> FALSE, attempts |-> 0,
               lease |-> 0, ctx |-> 0, todo |-> {}, tries |-> [c \in Channel |-> 0],
               channel |-> NoChannel, outcome |-> "none"]

Init ==
    /\ group = [g \in Group |-> NewGroup]
    /\ job = [j \in JobId |-> FreeJob]
    /\ delivery = [j \in JobId |-> [c \in Channel |-> NoDelivery]]
    /\ alarm = "open"
    /\ eligible = Channel
    /\ notifier = [n \in Notifier |-> IdleNotifier]
    /\ worker = [w \in Worker |-> IdleWorker]
    /\ sends = [j \in JobId |-> [c \in Channel |-> 0]]
    /\ budget = [notices |-> MaxNotices, crashes |-> MaxCrashes, edits |-> MaxEdits]

-----------------------------------------------------------------------------
(***************************************************************************)
(* Enqueue: the webhook side                                               *)
(***************************************************************************)
Free == {j \in JobId : job[j].status = "none"}

\* What enqueueEvent decides for event e from the rows it reads.
Plan(e) ==
    LET g == group[e.group]
        same == e.start = g.start
        prev == job[g.job]
        merged == /\ same /\ g.job # NoJob
                  /\ \/ prev.status \in Unfinished \cup {"failed"}
                     \/ prev.analysed /\ g.cool > 0
        late == e.start < g.start
    IN  IF e.end # 0
        THEN IF late \/ e.end < e.start \/ (same /\ e.end <= g.resolved) THEN "drop" ELSE "resolve"
        ELSE IF \/ late \/ (g.resolved > 0 /\ e.start <= g.resolved)
                \/ eligible = {} \/ merged
             THEN "drop" ELSE IF same THEN "reopen" ELSE "open"

\* A webhook request arrives, and the rule is open when it is read; Alertmanager
\* repeats and reorders events as it likes.
Notify(n) ==
    /\ notifier[n].pc = "idle" /\ budget.notices > 0 /\ alarm = "open"
    /\ \E b \in Notice : notifier' = [notifier EXCEPT ![n] = [IdleNotifier EXCEPT !.pc = "read", !.todo = b]]
    /\ budget' = [budget EXCEPT !.notices = @ - 1]
    /\ UNCHANGED <<group, job, delivery, alarm, eligible, worker, sends>>

NextEvent(n) ==
    LET rest == Tail(notifier[n].todo)
    IN  IF rest = << >> THEN IdleNotifier ELSE [IdleNotifier EXCEPT !.pc = "read", !.todo = rest]

\* The reads of enqueueEvent; a dropped or merged event ends the transaction here.
EnqueueRead(n) ==
    /\ notifier[n].pc = "read"
    /\ LET e == Head(notifier[n].todo)
       IN  notifier' = [notifier EXCEPT ![n] =
               IF Plan(e) = "drop" THEN NextEvent(n)
               ELSE [notifier[n] EXCEPT !.pc = "write", !.version = group[e.group].version, !.plan = Plan(e)]]
    /\ UNCHANGED <<group, job, delivery, alarm, eligible, worker, sends, budget>>

\* mutant: the update of the group does not look at its version
UnmovedAlways(n, g) == TRUE
\* The compare-and-set of enqueueEvent: the group is still the row that was read.
Unmoved(n, g) == group[g].version = notifier[n].version

\* A job of g that waits for its analysis or is in it: what cancellations look for.
Hit(g, j) == job[j].group = g /\ ~job[j].analysed /\ job[j].status \in Unfinished

\* mutant: the recovery cancels the job but leaves its lease to the worker
CancelledByRecoveryLeased(e) ==
    [j \in JobId |-> IF Hit(e.group, j) /\ job[j].start <= e.start
                     THEN [job[j] EXCEPT !.status = "cancelled"] ELSE job[j]]
CancelledByRecovery(e) ==
    [j \in JobId |-> IF Hit(e.group, j) /\ job[j].start <= e.start
                     THEN [job[j] EXCEPT !.status = "cancelled", !.owner = Nobody, !.lease = 0]
                     ELSE job[j]]

\* The new incident keeps its own job; the others lose their status but not their lease.
SupersededBy(e) ==
    [j \in JobId |-> IF Hit(e.group, j)
                     THEN [job[j] EXCEPT !.status = "cancelled"] ELSE job[j]]

\* mutant: the job is filed under the incident the group was in before
NewJobOfOldIncident(e) == [FreeJob EXCEPT !.group = e.group, !.start = group[e.group].start,
                                          !.status = "queued", !.channels = eligible]
NewJob(e) == [FreeJob EXCEPT !.group = e.group, !.start = e.start, !.status = "queued",
                                 !.channels = eligible]

EnqueueResolve(n) ==
    LET e == Head(notifier[n].todo)
    IN  /\ notifier[n].pc = "write" /\ notifier[n].plan = "resolve"
        /\ Unmoved(n, e.group)
        /\ group' = [group EXCEPT ![e.group] = [group[e.group] EXCEPT
                        !.start = e.start, !.resolved = e.end, !.version = group[e.group].version + 1]]
        /\ job' = CancelledByRecovery(e)
        /\ notifier' = [notifier EXCEPT ![n] = NextEvent(n)]
        /\ UNCHANGED <<delivery, alarm, eligible, worker, sends, budget>>

EnqueueOpen(n) ==
    LET e == Head(notifier[n].todo)
        others == IF notifier[n].plan = "open" THEN SupersededBy(e) ELSE job
    IN  /\ notifier[n].pc = "write" /\ notifier[n].plan \in {"open", "reopen"}
        /\ Unmoved(n, e.group)
        /\ \E new \in Free :
              /\ \A k \in Free : new <= k
              /\ job' = [others EXCEPT ![new] = NewJob(e)]
              /\ group' = [group EXCEPT ![e.group] = [version |-> group[e.group].version + 1,
                              start |-> e.start, resolved |-> 0, job |-> new, cool |-> 0]]
        /\ notifier' = [notifier EXCEPT ![n] = NextEvent(n)]
        /\ UNCHANGED <<delivery, alarm, eligible, worker, sends, budget>>

\* The version has moved, or the database refused: roll back and try again;
\* the last failure gives up the rest of the notification.
EnqueueRetry(n) ==
    /\ notifier[n].pc = "write"
    /\ LET moved == ~Unmoved(n, Head(notifier[n].todo).group)
       IN  /\ moved \/ budget.crashes > 0
           /\ budget' = IF moved THEN budget ELSE [budget EXCEPT !.crashes = @ - 1]
    /\ notifier' = [notifier EXCEPT ![n] =
           IF notifier[n].attempt + 1 = EnqueueAttempts THEN IdleNotifier
           ELSE [notifier[n] EXCEPT !.pc = "read", !.attempt = notifier[n].attempt + 1]]
    /\ UNCHANGED <<group, job, delivery, alarm, eligible, worker, sends>>

-----------------------------------------------------------------------------
(***************************************************************************)
(* ProcessOne: the worker side                                             *)
(***************************************************************************)
Mine(w) == job[worker[w].job]
Live(w) == worker[w].ctx > 0
Becomes(w, state) == worker' = [worker EXCEPT ![w] = state]
Goto(w, pc) == Becomes(w, [worker[w] EXCEPT !.pc = pc])
Return(w) == Becomes(w, IdleWorker)
Finish(w, status) == Becomes(w, [worker[w] EXCEPT !.pc = "finish", !.outcome = status])

\* claim selects what is due; the rows it read decide its updates.
ClaimRead(w) ==
    /\ worker[w].pc = "idle"
    /\ LET due == {j \in JobId : job[j].status \in Claimable /\ job[j].next = 0 /\ job[j].lease = 0}
       IN  /\ due # {}
           /\ Becomes(w, [worker[w] EXCEPT !.pc = "claim", !.cands =
                 {[id |-> j, analysed |-> job[j].analysed, attempts |-> job[j].attempts] : j \in due}])
    /\ UNCHANGED <<group, job, delivery, alarm, eligible, notifier, sends, budget>>

First(w, r) == r \in worker[w].cands /\ \A q \in worker[w].cands : r.id <= q.id
Exhausted(r) == ~r.analysed /\ r.attempts >= MaxAttempts

SkipCandidate(w, r) ==
    IF worker[w].cands = {r} THEN Return(w)
    ELSE Becomes(w, [worker[w] EXCEPT !.cands = worker[w].cands \ {r}])

\* A job that crashed its last attempt fails when its lease is over.
ClaimExhausted(w) ==
    /\ worker[w].pc = "claim"
    /\ \E r \in worker[w].cands :
           /\ First(w, r) /\ Exhausted(r)
           /\ job' = IF job[r.id].lease = 0 /\ ~job[r.id].analysed /\ job[r.id].status \in Unfinished
                     THEN [job EXCEPT ![r.id] = [job[r.id] EXCEPT !.status = "failed"]] ELSE job
           /\ SkipCandidate(w, r)
    /\ UNCHANGED <<group, delivery, alarm, eligible, notifier, sends, budget>>

\* mutant: the claim does not repeat the test of the lease
GrantableUnleased(r) ==
    job[r.id].status \in Claimable /\ job[r.id].analysed = r.analysed
Grantable(r) ==
    /\ job[r.id].lease = 0 /\ job[r.id].status \in Claimable
    /\ job[r.id].analysed = r.analysed /\ job[r.id].attempts = r.attempts

Granted(w, r) ==
    IF r.analysed THEN [job[r.id] EXCEPT !.owner = w, !.lease = LeaseDuration]
    ELSE [job[r.id] EXCEPT !.owner = w, !.lease = LeaseDuration,
                           !.attempts = job[r.id].attempts + 1, !.status = "working"]

ClaimGrant(w) ==
    /\ worker[w].pc = "claim"
    /\ \E r \in worker[w].cands :
           /\ First(w, r) /\ ~Exhausted(r) /\ Grantable(r)
           /\ job' = [job EXCEPT ![r.id] = Granted(w, r)]
           /\ Becomes(w, [IdleWorker EXCEPT
                 !.pc = "check", !.job = r.id, !.analysed = r.analysed,
                 !.attempts = IF r.analysed THEN r.attempts ELSE r.attempts + 1,
                 !.lease = LeaseDuration, !.ctx = WorkTimeout])
    /\ UNCHANGED <<group, delivery, alarm, eligible, notifier, sends, budget>>

ClaimLost(w) ==
    /\ worker[w].pc = "claim"
    /\ \E r \in worker[w].cands :
           First(w, r) /\ ~Exhausted(r) /\ ~Grantable(r) /\ SkipCandidate(w, r)
    /\ UNCHANGED <<group, job, delivery, alarm, eligible, notifier, sends, budget>>

\* The rule must still be open and, before a model call, one of the job's channels eligible.
Check(w) ==
    /\ worker[w].pc = "check" /\ Live(w)
    /\ IF alarm # "open" \/ (~worker[w].analysed /\ Mine(w).channels \cap eligible = {})
       THEN Finish(w, "cancelled")
       ELSE Goto(w, IF worker[w].analysed THEN "sweep" ELSE "analyze")
    /\ UNCHANGED <<group, job, delivery, alarm, eligible, notifier, sends, budget>>

AnalyzeOk(w) ==
    /\ worker[w].pc = "analyze" /\ Live(w)
    /\ Goto(w, "commit")
    /\ UNCHANGED <<group, job, delivery, alarm, eligible, notifier, sends, budget>>

\* The model failed, found nothing, or ran into the timeout.
AnalyzeFail(w) ==
    /\ worker[w].pc = "analyze"
    /\ Finish(w, IF worker[w].attempts >= MaxAttempts THEN "failed" ELSE "queued")
    /\ UNCHANGED <<group, job, delivery, alarm, eligible, notifier, sends, budget>>

\* mutant: finish updates the job by id alone
OwnsAlways(w) == TRUE
Owns(w) == Mine(w).owner = w

\* mutant: the commit only makes sure that it is the first
CommittableOnce(w) == ~Mine(w).analysed
Committable(w) ==
    Owns(w) /\ Mine(w).lease > 0 /\ Mine(w).status = "working" /\ ~Mine(w).analysed

\* mutant: any result starts the cooldown of its group
CurrentAlways(j) == TRUE
\* The job is the one its group points at, of the incident the group is in.
Current(j) == LET g == job[j].group IN group[g].job = j /\ group[g].start = job[j].start

\* One transaction: snapshot, cooldown of the current incident, pending deliveries.
CommitResult(w) ==
    LET j == worker[w].job  g == job[j].group
    IN  /\ worker[w].pc = "commit" /\ Live(w) /\ Committable(w)
        /\ job' = [job EXCEPT ![j] = [job[j] EXCEPT !.analysed = TRUE, !.status = "delivery"]]
        /\ group' = IF Current(j)
                    THEN [group EXCEPT ![g] = [group[g] EXCEPT !.cool = Cooldown, !.version = group[g].version + 1]]
                    ELSE group
        /\ delivery' = [delivery EXCEPT ![j] = [c \in Channel |->
              IF c \in job[j].channels /\ delivery[j][c].status = "none"
              THEN [NoDelivery EXCEPT !.status = "pending"] ELSE delivery[j][c]]]
        /\ Goto(w, "sweep")
        /\ UNCHANGED <<alarm, eligible, notifier, sends, budget>>

\* errConcurrent: the lease or the job is gone, the result is dropped.
CommitRefused(w) ==
    /\ worker[w].pc = "commit" /\ ~Committable(w)
    /\ Return(w)
    /\ UNCHANGED <<group, job, delivery, alarm, eligible, notifier, sends, budget>>

\* mutant: everything that was not confirmed is tried again
OpenUnlessSent(d) == d.status \notin {"none", "sent"} /\ d.attempts < MaxAttempts
Open(d) == d.status = "pending" /\ d.attempts < MaxAttempts

\* "A crashed final send has an unknown remote outcome and must not be sent again."
Sweep(w) ==
    LET j == worker[w].job
        d == delivery[j]
        lost(c) == d[c].status = "pending" /\ d[c].attempts >= MaxAttempts /\ d[c].lease = 0
    IN  /\ worker[w].pc = "sweep" /\ Live(w)
        /\ delivery' = [delivery EXCEPT ![j] = [c \in Channel |->
              IF lost(c) THEN [d[c] EXCEPT !.status = "failed", !.owner = Nobody] ELSE d[c]]]
        /\ Becomes(w, [worker[w] EXCEPT !.pc = "deliver",
              !.todo = {c \in Channel : Open(d[c])},
              !.tries = [c \in Channel |-> d[c].attempts]])
        /\ UNCHANGED <<group, job, alarm, eligible, notifier, sends, budget>>

\* Take up the next delivery: the rule, the channel and the owner's permission are checked anew.
Deliver(w) ==
    /\ worker[w].pc = "deliver" /\ Live(w)
    /\ \E c \in worker[w].todo :
          \/ /\ alarm # "open"
             /\ Finish(w, "cancelled") /\ UNCHANGED delivery
          \/ /\ alarm = "open" /\ c \notin eligible
             /\ delivery' = IF delivery[worker[w].job][c].status = "pending"
                            THEN [delivery EXCEPT ![worker[w].job][c] =
                                    [delivery[worker[w].job][c] EXCEPT !.status = "cancelled"]]
                            ELSE delivery
             /\ Becomes(w, [worker[w] EXCEPT !.todo = worker[w].todo \ {c}])
          \/ /\ alarm = "open" /\ c \in eligible
             /\ \/ Finish(w, "cancelled")                       \* checkAccess refuses
                \/ Becomes(w, [worker[w] EXCEPT !.pc = "grab", !.channel = c,
                                                !.todo = worker[w].todo \ {c}])
             /\ UNCHANGED delivery
    /\ UNCHANGED <<group, job, alarm, eligible, notifier, sends, budget>>

\* The loop is over: nothing is left, or workCtx has ended.
DeliverEnd(w) ==
    /\ worker[w].pc = "deliver" /\ (worker[w].todo = {} \/ ~Live(w))
    /\ Goto(w, "count")
    /\ UNCHANGED <<group, job, delivery, alarm, eligible, notifier, sends, budget>>

Grabbable(d) == Open(d) /\ d.lease = 0
\* mutant: the attempt is not counted before the message is sent
GrabbedUncounted(w, d) == [d EXCEPT !.owner = w, !.lease = worker[w].lease]
Grabbed(w, d) == [d EXCEPT !.owner = w, !.lease = worker[w].lease, !.attempts = d.attempts + 1]

\* The conditional update that grants the delivery; losing it skips the channel.
GrabDelivery(w) ==
    LET j == worker[w].job  c == worker[w].channel
    IN  /\ worker[w].pc = "grab" /\ Live(w)
        /\ IF Grabbable(delivery[j][c])
           THEN /\ delivery' = [delivery EXCEPT ![j][c] = Grabbed(w, delivery[j][c])]
                /\ Goto(w, "send")
           ELSE Goto(w, "deliver") /\ UNCHANGED delivery
        /\ UNCHANGED <<group, job, alarm, eligible, notifier, sends, budget>>

\* The message reaches the channel, and the answer may still be lost.
SendReaches(w) ==
    LET j == worker[w].job  c == worker[w].channel
    IN  /\ worker[w].pc = "send" /\ Live(w)
        /\ sends' = [sends EXCEPT ![j][c] = @ + 1]
        /\ \E result \in {"sent", "error"} :
              Becomes(w, [worker[w] EXCEPT !.pc = "confirm", !.outcome = result])
        /\ UNCHANGED <<group, job, delivery, alarm, eligible, notifier, budget>>

SendFails(w) ==
    /\ worker[w].pc = "send"
    /\ Becomes(w, [worker[w] EXCEPT !.pc = "confirm", !.outcome = "error"])
    /\ UNCHANGED <<group, job, delivery, alarm, eligible, notifier, sends, budget>>

Confirmed(w) ==
    LET tried == worker[w].tries[worker[w].channel] + 1
    IN  IF worker[w].outcome = "sent" THEN "sent"
        ELSE IF tried >= MaxAttempts THEN "failed" ELSE "pending"

\* mutant: the outcome is recorded by id alone
OwnsDeliveryAlways(w) == TRUE
\* Only the lease owner of the delivery may record the outcome.
OwnsDelivery(w) == delivery[worker[w].job][worker[w].channel].owner = w

Confirm(w) ==
    LET j == worker[w].job  c == worker[w].channel
    IN  /\ worker[w].pc = "confirm"
        /\ delivery' = IF OwnsDelivery(w)
                       THEN [delivery EXCEPT ![j][c] = [delivery[j][c] EXCEPT
                               !.status = Confirmed(w), !.owner = Nobody, !.lease = 0]]
                       ELSE delivery
        /\ Becomes(w, [worker[w] EXCEPT !.pc = "deliver", !.channel = NoChannel, !.outcome = "none"])
        /\ UNCHANGED <<group, job, alarm, eligible, notifier, sends, budget>>

CountPending(w) ==
    /\ worker[w].pc = "count"
    /\ Finish(w, IF \E c \in Channel : delivery[worker[w].job][c].status = "pending"
                 THEN "delivery" ELSE "done")
    /\ UNCHANGED <<group, job, delivery, alarm, eligible, notifier, sends, budget>>

FinishJob(w) ==
    LET j == worker[w].job
    IN  /\ worker[w].pc = "finish"
        /\ job' = IF Owns(w)
                  THEN [job EXCEPT ![j] = [job[j] EXCEPT !.status = worker[w].outcome,
                          !.owner = Nobody, !.lease = 0, !.next = RetryDelay]]
                  ELSE job
        /\ Return(w)
        /\ UNCHANGED <<group, delivery, alarm, eligible, notifier, sends, budget>>

\* workCtx has ended: the statements that carry it fail and ProcessOne returns the error.
TimedOut(w) ==
    /\ worker[w].pc \in {"check", "commit", "sweep", "grab"} /\ ~Live(w)
    /\ Return(w)
    /\ UNCHANGED <<group, job, delivery, alarm, eligible, notifier, sends, budget>>

-----------------------------------------------------------------------------
(***************************************************************************)
(* The environment                                                         *)
(***************************************************************************)
\* The process dies, or a statement fails and ProcessOne returns its error:
\* what the worker knew is gone, its leases stay.
Crash(w) ==
    /\ worker[w].pc # "idle" /\ budget.crashes > 0
    /\ Return(w)
    /\ budget' = [budget EXCEPT !.crashes = @ - 1]
    /\ UNCHANGED <<group, job, delivery, alarm, eligible, notifier, sends>>

\* Close cancels the context of the worker.
Shutdown(w) ==
    /\ Live(w) /\ budget.crashes > 0
    /\ Becomes(w, [worker[w] EXCEPT !.ctx = 0])
    /\ budget' = [budget EXCEPT !.crashes = @ - 1]
    /\ UNCHANGED <<group, job, delivery, alarm, eligible, notifier, sends>>

\* Someone edits the rule or switches a channel.
Edit ==
    /\ budget.edits > 0
    /\ budget' = [budget EXCEPT !.edits = @ - 1]
    /\ \/ \E a \in {"open", "closed", "deleted"} :
             alarm # "deleted" /\ alarm' = a /\ UNCHANGED eligible
       \/ \E c \in Channel :
             /\ eligible' = IF c \in eligible THEN eligible \ {c} ELSE eligible \cup {c}
             /\ UNCHANGED alarm
    /\ UNCHANGED <<group, job, delivery, notifier, worker, sends>>

\* mutant: counts on below zero
LessUnchecked(t) == t - 1
Less(t) == IF t > 0 THEN t - 1 ELSE 0

\* Time passes: a tick is about 90 seconds, longer than the statements of one claim take.
Tick ==
    /\ \A w \in Worker : worker[w].pc # "claim"
    /\ group' = [g \in Group |-> [group[g] EXCEPT !.cool = Less(@)]]
    /\ job' = [j \in JobId |-> [job[j] EXCEPT !.next = Less(@), !.lease = Less(@)]]
    /\ delivery' = [j \in JobId |-> [c \in Channel |-> [delivery[j][c] EXCEPT !.lease = Less(@)]]]
    /\ worker' = [w \in Worker |-> [worker[w] EXCEPT !.ctx = Less(@), !.lease = Less(@)]]
    /\ UNCHANGED <<alarm, eligible, notifier, sends, budget>>

-----------------------------------------------------------------------------
Enqueue(n) == EnqueueRead(n) \/ EnqueueResolve(n) \/ EnqueueOpen(n) \/ EnqueueRetry(n)

ProcessOne(w) ==
    \/ ClaimRead(w) \/ ClaimExhausted(w) \/ ClaimGrant(w) \/ ClaimLost(w)
    \/ Check(w) \/ AnalyzeOk(w) \/ AnalyzeFail(w) \/ CommitResult(w) \/ CommitRefused(w)
    \/ Sweep(w) \/ Deliver(w) \/ DeliverEnd(w) \/ GrabDelivery(w)
    \/ SendReaches(w) \/ SendFails(w) \/ Confirm(w) \/ CountPending(w)
    \/ FinishJob(w) \/ TimedOut(w)

Step ==
    \/ \E n \in Notifier : Notify(n) \/ Enqueue(n)
    \/ \E w \in Worker : ProcessOne(w) \/ Crash(w) \/ Shutdown(w)
    \/ Edit

Next == Step \/ Tick

Spec == Init /\ [][Next]_vars

\* The model and the channels take their time, the statements of the metadata database
\* do not.  Without this two replicas that always outlive their leases can take a job
\* from each other for ever: a delivery is claimed again without counting an attempt.
PromptTick == (\A w \in Worker : worker[w].pc \in {"idle", "analyze", "send"}) /\ Tick

Fairness ==
    /\ WF_vars(PromptTick)
    /\ \A n \in Notifier : WF_vars(Enqueue(n))
    /\ \A w \in Worker : WF_vars(ProcessOne(w))

FairSpec == Init /\ [][Step \/ PromptTick]_vars /\ Fairness
-----------------------------------------------------------------------------
(***************************************************************************)
(* What the queue promises                                                 *)
(***************************************************************************)
GroupRow == [version : Nat, start : StartTimes \cup {0}, resolved : EndTimes \cup {0},
             job : JobId \cup {NoJob}, cool : Nat]
JobRow == [group : Group \cup {NoGroup}, start : StartTimes \cup {0},
           status : Claimable \cup Terminal \cup {"none"}, analysed : BOOLEAN,
           attempts : Nat, next : Nat, owner : Worker \cup {Nobody}, lease : Nat,
           channels : SUBSET Channel]
DeliveryRow == [status : {"none", "pending", "sent", "failed", "cancelled"},
                attempts : Nat, owner : Worker \cup {Nobody}, lease : Nat]
NotifierState == [pc : {"idle", "read", "write"}, todo : Seq(Event), attempt : Nat,
                  version : Nat, plan : {"drop", "resolve", "open", "reopen"}]
Candidate == [id : JobId, analysed : BOOLEAN, attempts : Nat]
WorkerState == [pc : {"idle", "claim", "check", "analyze", "commit", "sweep", "deliver",
                      "grab", "send", "confirm", "count", "finish"},
                cands : SUBSET Candidate, job : JobId \cup {NoJob}, analysed : BOOLEAN,
                attempts : Nat, lease : Nat, ctx : Nat, todo : SUBSET Channel,
                tries : [Channel -> Nat], channel : Channel \cup {NoChannel},
                outcome : {"none", "sent", "error", "queued", "delivery"} \cup Terminal]

\* Every row and every worker keeps its shape.
TypeOK ==
    /\ group \in [Group -> GroupRow]
    /\ job \in [JobId -> JobRow]
    /\ delivery \in [JobId -> [Channel -> DeliveryRow]]
    /\ alarm \in {"open", "closed", "deleted"}
    /\ eligible \in SUBSET Channel
    /\ notifier \in [Notifier -> NotifierState]
    /\ worker \in [Worker -> WorkerState]
    /\ sends \in [JobId -> [Channel -> Nat]]
    /\ budget \in [notices : Nat, crashes : Nat, edits : Nat]
    /\ \A n \in Notifier : notifier[n].pc # "idle" => notifier[n].todo # << >>
    /\ \A w \in Worker :
          /\ worker[w].pc \notin {"idle", "claim"} => worker[w].job \in JobId
          /\ worker[w].pc \in {"grab", "send", "confirm"} => worker[w].channel \in Channel
          /\ worker[w].pc = "finish" => worker[w].outcome \in Claimable \cup Terminal

\* "Failed analysis and individual channel deliveries have at most three attempts
\* each": no crash, lost lease or resurrected job buys a fourth model call, and no
\* channel gets more messages than attempts, whoever crashed in between.
AttemptsCapped ==
    /\ \A j \in JobId : job[j].attempts <= MaxAttempts
    /\ \A j \in JobId, c \in Channel :
          sends[j][c] <= delivery[j][c].attempts /\ delivery[j][c].attempts <= MaxAttempts

\* The lease keeps replicas apart: while its context lives, a worker that may call
\* the model or a channel is the only such worker of its job.
Busy(w) == worker[w].pc \in {"check", "analyze", "commit", "sweep", "deliver", "grab", "send"} /\ Live(w)
OneBusyWorker ==
    \A v, w \in Worker : v # w /\ Busy(v) /\ Busy(w) => worker[v].job # worker[w].job

\* Why the two hold: a worker whose context lives outlives neither its lease on the job
\* nor, while it sends, its lease on the delivery; the only thing that can take the job
\* from under it is a recovery, and nobody claims a cancelled job.
HoldsJob(w) ==
    \/ Mine(w).owner = w /\ Mine(w).lease = worker[w].lease /\ Mine(w).status # "none"
    \/ Mine(w).owner = Nobody /\ Mine(w).status = "cancelled"

HoldsDelivery(w) ==
    LET d == delivery[worker[w].job][worker[w].channel]
    IN  /\ d.owner = w /\ d.lease = worker[w].lease /\ d.status # "none"
        /\ sends[worker[w].job][worker[w].channel] < d.attempts

LeaseInv ==
    /\ AttemptsCapped
    /\ \A j \in JobId, c \in Channel :
          delivery[j][c].status = "none" => delivery[j][c] = NoDelivery
    /\ \A w \in Worker : Live(w) =>
          /\ worker[w].pc \notin {"idle", "claim"}
          /\ worker[w].ctx < worker[w].lease
          /\ HoldsJob(w)
          /\ worker[w].pc = "send" => HoldsDelivery(w)
    /\ \A v, w \in Worker : v # w /\ Live(v) /\ Live(w) => worker[v].job # worker[w].job

\* "Confirmed successful channels are skipped on retries": once a delivery is
\* recorded as sent it stays sent and its channel never hears of the job again.
SentIsFinal ==
    [][\A j \in JobId, c \in Channel : delivery[j][c].status = "sent" =>
          delivery'[j][c].status = "sent" /\ sends'[j][c] = sends[j][c]]_vars

\* "A crashed final send ... must not be sent again", and the same goes for a delivery
\* that was cancelled because its channel was switched off or removed: whatever ended
\* a delivery, no message follows.
NoSendAfterEnd ==
    [][\A j \in JobId, c \in Channel :
          delivery[j][c].status \in {"sent", "failed", "cancelled"} => sends'[j][c] = sends[j][c]]_vars

\* The replay watermark (start of the newest incident, then its recovery) never
\* moves back, whatever order concurrent webhook requests read and write it in.
WatermarkMonotone ==
    [][\A g \in Group :
          \/ group'[g].start > group[g].start
          \/ group'[g].start = group[g].start /\ group'[g].resolved >= group[g].resolved]_vars

\* A group that counts as firing points at a job of that very incident.
CurrentJobMatches ==
    \A g \in Group : group[g].job # NoJob /\ group[g].resolved = 0 =>
        job[group[g].job].group = g /\ job[group[g].job].start = group[g].start

\* After the recovery of an incident its own job is no longer waiting for, or in,
\* analysis, and whoever was working on it cannot put it back.
RecoveredJobIsQuiet ==
    \A g \in Group : group[g].job # NoJob /\ group[g].resolved > 0 =>
        ~Hit(g, group[g].job)

\* A finished job stays finished, and one that used up its attempts never runs again.
SettledJobsRest ==
    [][\A j \in JobId :
          /\ job[j].status = "done" => job'[j].status = "done"
          /\ job[j].status = "failed" => job'[j].status \in {"failed", "cancelled"}]_vars

\* The cooldown of a group belongs to an analysed job of its incident.
CooldownIsEarned ==
    \A g \in Group : group[g].cool > 0 => group[g].job # NoJob /\ job[group[g].job].analysed

\* worker_test.go:338 "recovered incident delivered stale analysis": the result of an
\* analysis is never accepted for an incident that the group knows to be over.
RecoveryStopsAnalysis ==
    [][\A j \in JobId : ~job[j].analysed /\ job'[j].analysed =>
          \/ group[job[j].group].resolved = 0
          \/ job[j].start > group[job[j].group].start]_vars

\* Every job comes to an end: analysed and delivered, failed, or cancelled.
JobsSettle ==
    \A j \in JobId : job[j].status # "none" ~> job[j].status \in Terminal
=============================================================================
