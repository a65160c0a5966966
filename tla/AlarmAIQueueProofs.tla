--------------------------- MODULE AlarmAIQueueProofs ---------------------------
(***************************************************************************)
(* The groups and the jobs of AlarmAI, for every number of concurrent      *)
(* requests, replicas, groups and incidents.  The replay watermark never   *)
(* moves back: a decision taken on a stale row is refused by the           *)
(* compare-and-set on the group's version, and a decision on the current   *)
(* row only ever advances it (PlanInv).  The group points at a job of its  *)
(* incident, a recovery quiets that job for good, a cooldown was earned by *)
(* it, and a job that has ended stays so (JobInv).                         *)
(***************************************************************************)
EXTENDS AlarmAIProofs

\* The group that the event in hand of request n is about.
Target(n) == group[Head(notifier[n].todo).group]

\* What the plan of a request rests on, as long as the row is the one it read.
Founded(n) ==
    LET e == Head(notifier[n].todo)
        g == Target(n)
    IN  /\ notifier[n].plan \in {"resolve", "open", "reopen"}
        /\ notifier[n].plan = "resolve" =>
              e.start >= g.start /\ e.end >= e.start /\ (e.start = g.start => e.end > g.resolved)
        /\ notifier[n].plan = "open" => e.start > g.start
        /\ notifier[n].plan = "reopen" => e.start = g.start /\ (g.resolved > 0 => e.start > g.resolved)

\* A recovery is never earlier than its incident, and a request that is about to write
\* either holds a version that is gone or decided on the row that is there.
PlanInv ==
    /\ \A g \in Group : group[g].resolved > 0 => group[g].resolved >= group[g].start
    /\ \A n \in Notifier : notifier[n].pc = "write" =>
          /\ notifier[n].version <= Target(n).version
          /\ notifier[n].version = Target(n).version => Founded(n)

Advance(old, new) ==
    \/ new.start > old.start
    \/ new.start = old.start /\ new.resolved >= old.resolved

\* The numbers a waiting request compares.
LEMMA Decided ==
    ASSUME TypeOK, NEW n \in Notifier, notifier[n].pc # "idle"
    PROVE  /\ notifier[n] \in NotifierState /\ notifier[n].version \in Nat
           /\ Head(notifier[n].todo) \in Event
           /\ Head(notifier[n].todo).group \in Group
           /\ Head(notifier[n].todo).start \in Nat /\ Head(notifier[n].todo).end \in Nat
           /\ Target(n).version \in Nat /\ Target(n).start \in Nat /\ Target(n).resolved \in Nat
<1>1. notifier[n] \in NotifierState /\ notifier[n].todo # << >>
  BY DEF TypeOK
<1>2. Head(notifier[n].todo) \in Event
  BY <1>1, HeadType
<1>3. Head(notifier[n].todo).group \in Group
  BY <1>2 DEF Event
<1>4. Target(n) \in GroupRow
  BY <1>3 DEF Target, TypeOK
<1>5. /\ Head(notifier[n].todo).start \in StartTimes /\ Head(notifier[n].todo).end \in EndTimes \cup {0}
      /\ Target(n).version \in Nat /\ Target(n).start \in StartTimes \cup {0}
      /\ Target(n).resolved \in EndTimes \cup {0} /\ notifier[n].version \in Nat
  BY <1>1, <1>2, <1>4 DEF Event, GroupRow, NotifierState
<1>6. (\A t \in StartTimes \cup {0} : t \in Nat) /\ (\A t \in EndTimes \cup {0} : t \in Nat)
  BY TimesAssumption
<1>7. /\ Head(notifier[n].todo).start \in Nat /\ Head(notifier[n].todo).end \in Nat
      /\ Target(n).start \in Nat /\ Target(n).resolved \in Nat
  <2>. DEFINE e == Head(notifier[n].todo)
              g == Target(n)
  <2>1. e.start \in StartTimes \cup {0} /\ e.end \in EndTimes \cup {0}
        /\ g.start \in StartTimes \cup {0} /\ g.resolved \in EndTimes \cup {0}
    BY <1>5
  <2>. HIDE DEF e, g
  <2>2. e.start \in Nat /\ e.end \in Nat /\ g.start \in Nat /\ g.resolved \in Nat
    BY <1>6, <2>1
  <2>. QED BY <2>2 DEF e, g
<1>. QED
  BY <1>1, <1>2, <1>3, <1>5, <1>7

LEMMA GroupNumbers ==
    ASSUME TypeOK, NEW g \in Group
    PROVE  group[g].version \in Nat /\ group[g].start \in Nat /\ group[g].resolved \in Nat
<1>1. group[g] \in GroupRow
  BY DEF TypeOK
<1>2. /\ group[g].version \in Nat /\ group[g].start \in StartTimes \cup {0}
      /\ group[g].resolved \in EndTimes \cup {0}
  BY <1>1 DEF GroupRow
<1>3. (\A t \in StartTimes \cup {0} : t \in Nat) /\ (\A t \in EndTimes \cup {0} : t \in Nat)
  BY TimeTypes
<1>. QED
  BY <1>2, <1>3

\* What a step does to a group row: nothing a request looks at, or a new version.
Kept(g) ==
    /\ group'[g].version = group[g].version
    /\ group'[g].start = group[g].start /\ group'[g].resolved = group[g].resolved
Bumped(g) ==
    /\ group'[g].version = group[g].version + 1
    /\ group'[g].resolved > 0 => group'[g].resolved >= group'[g].start

\* Requests that wait for their write notice every new version.
LEMMA GroupFrame ==
    ASSUME TypeOK, PlanInv,
           \A g \in Group : Kept(g) \/ Bumped(g),
           \A m \in Notifier : notifier'[m].pc = "write" => notifier'[m] = notifier[m]
    PROVE  PlanInv'
<1>1. ASSUME NEW g \in Group, group'[g].resolved > 0
      PROVE  group'[g].resolved >= group'[g].start
  BY <1>1 DEF PlanInv, Kept, Bumped
<1>2. ASSUME NEW m \in Notifier, notifier'[m].pc = "write"
      PROVE  /\ notifier'[m].version <= Target(m)'.version
             /\ notifier'[m].version = Target(m)'.version => Founded(m)'
  <2>. DEFINE g == Head(notifier[m].todo).group
  <2>1. notifier'[m] = notifier[m] /\ notifier[m].pc = "write"
    BY <1>2
  <2>2. g \in Group /\ notifier[m].version \in Nat /\ group[g].version \in Nat
    BY <2>1, Decided DEF Target
  <2>3. Target(m)' = group'[g] /\ Target(m) = group[g]
    BY <2>1 DEF Target
  <2>4. notifier[m].version <= group[g].version
    BY <2>1, <2>3 DEF PlanInv
  <2>5. CASE Kept(g)
    <3>1. notifier[m].version = group[g].version => Founded(m)
      BY <2>1, <2>3 DEF PlanInv
    <3>2. Founded(m) => Founded(m)'
      <4>. HIDE DEF g
      <4>. QED BY <2>1, <2>3, <2>5 DEF Founded, Kept
    <3>. QED BY <2>1, <2>3, <2>4, <2>5, <3>1, <3>2 DEF Kept
  <2>6. CASE Bumped(g)
    <3>1. notifier[m].version < group'[g].version
      BY <2>2, <2>4, <2>6 DEF Bumped
    <3>2. group'[g].version \in Nat
      BY <2>2, <2>6 DEF Bumped
    <3>. QED BY <2>1, <2>2, <2>3, <3>1, <3>2
  <2>. QED BY <2>2, <2>5, <2>6
<1>. QED
  BY <1>1, <1>2 DEF PlanInv

\* A request that reads decides on the row that is there.
LEMMA ReadDecides ==
    ASSUME TypeOK, NEW n \in Notifier, EnqueueRead(n), notifier'[n].pc = "write"
    PROVE  notifier'[n].version = Target(n)'.version /\ Founded(n)' /\ Target(n)'.version \in Nat
<1>. DEFINE e == Head(notifier[n].todo)
<1>1. notifier[n].pc = "read" /\ group' = group /\ notifier[n] \in NotifierState
  BY DEF EnqueueRead, TypeOK
<1>2. notifier'[n] = IF Plan(e) = "drop" THEN NextEvent(n)
                     ELSE [notifier[n] EXCEPT !.pc = "write", !.version = group[e.group].version, !.plan = Plan(e)]
  BY DEF EnqueueRead, TypeOK
<1>3. NextEvent(n).pc # "write"
  BY DEF NextEvent, IdleNotifier
<1>4. notifier'[n] = [notifier[n] EXCEPT !.pc = "write", !.version = group[e.group].version, !.plan = Plan(e)]
      /\ Plan(e) # "drop"
  BY <1>2, <1>3
<1>5. /\ notifier'[n].todo = notifier[n].todo /\ notifier'[n].version = group[e.group].version
      /\ notifier'[n].plan = Plan(e)
  <2>. HIDE DEF e
  <2>. QED BY <1>1, <1>4 DEF NotifierState
<1>6. Target(n)' = group[e.group] /\ Target(n) = group[e.group]
  BY <1>1, <1>5 DEF Target
<1>7. /\ e.start \in Nat /\ e.end \in Nat
      /\ group[e.group].start \in Nat /\ group[e.group].resolved \in Nat /\ group[e.group].version \in Nat
  BY <1>1, Decided DEF Target
<1>8. /\ Plan(e) \in {"resolve", "open", "reopen"}
      /\ Plan(e) = "resolve" =>
            /\ e.start >= group[e.group].start /\ e.end >= e.start
            /\ e.start = group[e.group].start => e.end > group[e.group].resolved
      /\ Plan(e) = "open" => e.start > group[e.group].start
      /\ Plan(e) = "reopen" => /\ e.start = group[e.group].start
                               /\ group[e.group].resolved > 0 => e.start > group[e.group].resolved
  <2>. HIDE DEF e
  <2>1. CASE e.end # 0
    BY <1>4, <1>7, <2>1 DEF Plan
  <2>2. CASE e.end = 0
    BY <1>4, <1>7, <2>2 DEF Plan
  <2>. QED BY <2>1, <2>2
<1>. QED
  BY <1>5, <1>6, <1>7, <1>8 DEF Founded

\* The writes of a request, on the row it read.
LEMMA WriteAdvances ==
    ASSUME TypeOK, PlanInv, NEW n \in Notifier, EnqueueResolve(n) \/ EnqueueOpen(n)
    PROVE  /\ \A g \in Group : Kept(g) \/ Bumped(g)
           /\ \A g \in Group : Advance(group[g], group'[g])
           /\ \A m \in Notifier : notifier'[m].pc = "write" => notifier'[m] = notifier[m]
<1>. DEFINE e == Head(notifier[n].todo)
            k == e.group
<1>1. notifier[n].pc = "write" /\ notifier[n].version = group[k].version
  BY DEF EnqueueResolve, EnqueueOpen, Unmoved
<1>2. /\ k \in Group /\ e.start \in Nat /\ e.end \in Nat /\ group[k].version \in Nat
      /\ group[k].start \in Nat /\ group[k].resolved \in Nat
  BY <1>1, Decided, GroupNumbers
<1>3. Founded(n) /\ Target(n) = group[k]
  BY <1>1 DEF PlanInv, Target
<1>4. NextEvent(n).pc # "write"
  BY DEF NextEvent, IdleNotifier
<1>5. notifier' = [notifier EXCEPT ![n] = NextEvent(n)]
  BY DEF EnqueueResolve, EnqueueOpen
<1>6. \A m \in Notifier : notifier'[m].pc = "write" => notifier'[m] = notifier[m]
  BY <1>4, <1>5 DEF TypeOK
<1>7. group \in [Group -> GroupRow] /\ \A g \in Group : group[g].resolved > 0 => group[g].resolved >= group[g].start
  BY DEF TypeOK, PlanInv
<1>8. ASSUME NEW r, group' = [group EXCEPT ![k] = r], r.version = group[k].version + 1,
             r.resolved > 0 => r.resolved >= r.start, Advance(group[k], r)
      PROVE  \A g \in Group : (Kept(g) \/ Bumped(g)) /\ Advance(group[g], group'[g])
  <2>. HIDE DEF k
  <2>1. ASSUME NEW g \in Group, g # k PROVE Kept(g) /\ Advance(group[g], group'[g])
    BY <1>7, <1>8, <2>1, GroupNumbers DEF Kept, Advance
  <2>2. Bumped(k) /\ Advance(group[k], group'[k])
    BY <1>2, <1>7, <1>8 DEF Bumped
  <2>. QED BY <2>1, <2>2
<1>9. CASE EnqueueResolve(n)
  <2>. DEFINE v == group[k].version + 1
              r == [group[k] EXCEPT !.start = e.start, !.resolved = e.end, !.version = v]
  <2>1. group' = [group EXCEPT ![k] = r] /\ notifier[n].plan = "resolve"
    BY <1>9 DEF EnqueueResolve
  <2>2. r.version = v /\ r.start = e.start /\ r.resolved = e.end
    <3>1. group[k] \in GroupRow
      BY <1>2, <1>7
    <3>. HIDE DEF e, k, v
    <3>. QED BY <3>1 DEF GroupRow
  <2>3. e.start >= group[k].start /\ e.end >= e.start /\ (e.start = group[k].start => e.end > group[k].resolved)
    BY <1>3, <2>1 DEF Founded
  <2>4. Advance(group[k], r)
    <3>. HIDE DEF r, k, e
    <3>. QED BY <1>2, <2>2, <2>3 DEF Advance
  <2>5. r.version = group[k].version + 1 /\ (r.resolved > 0 => r.resolved >= r.start)
    BY <2>2, <2>3
  <2>. HIDE DEF r
  <2>. QED BY <1>6, <1>8, <2>1, <2>4, <2>5
<1>10. CASE EnqueueOpen(n)
  <2>. DEFINE r(new) == [version |-> group[k].version + 1, start |-> e.start, resolved |-> 0, job |-> new, cool |-> 0]
  <2>1. PICK new \in Free : group' = [group EXCEPT ![k] = r(new)]
    BY <1>10 DEF EnqueueOpen
  <2>2. notifier[n].plan \in {"open", "reopen"}
    BY <1>10 DEF EnqueueOpen
  <2>3. r(new).version = group[k].version + 1 /\ r(new).start = e.start /\ r(new).resolved = 0
    OBVIOUS
  <2>4. e.start > group[k].start \/ (e.start = group[k].start /\ (group[k].resolved > 0 => e.start > group[k].resolved))
    BY <1>3, <2>2 DEF Founded
  <2>5. Advance(group[k], r(new))
    <3>1. group[k].resolved > 0 => group[k].resolved >= group[k].start
      BY <1>2, <1>7
    <3>. HIDE DEF r, k, e
    <3>. QED BY <1>2, <2>3, <2>4, <3>1 DEF Advance
  <2>. DEFINE row == r(new)
  <2>6. /\ group' = [group EXCEPT ![k] = row] /\ row.version = group[k].version + 1
        /\ row.resolved > 0 => row.resolved >= row.start
        /\ Advance(group[k], row)
    <3>. HIDE DEF r
    <3>. QED BY <2>1, <2>3, <2>5
  <2>. HIDE DEF row, e
  <2>7. \A g \in Group : (Kept(g) \/ Bumped(g)) /\ Advance(group[g], group'[g])
    BY <1>8, <2>6
  <2>. QED BY <1>6, <2>7
<1>. QED
  BY <1>9, <1>10

\* Steps that leave the watermarks alone; a commit only gives the group a new version.
LEMMA OthersKeep ==
    ASSUME TypeOK, PlanInv,
           \/ \E n \in Notifier : Notify(n) \/ EnqueueRetry(n)
           \/ \E w \in Worker : ProcessOne(w) \/ Crash(w) \/ Shutdown(w)
           \/ Edit \/ Tick
    PROVE  /\ \A g \in Group : Kept(g) \/ Bumped(g)
           /\ \A g \in Group : group'[g].start = group[g].start /\ group'[g].resolved = group[g].resolved
           /\ \A m \in Notifier : notifier'[m].pc = "write" => notifier'[m] = notifier[m]
<1>1. ASSUME NEW n \in Notifier, Notify(n) PROVE group' = group
                /\ \A m \in Notifier : notifier'[m].pc = "write" => notifier'[m] = notifier[m]
  <2>1. PICK b \in Notice : notifier' = [notifier EXCEPT ![n] = [IdleNotifier EXCEPT !.pc = "read", !.todo = b]]
    BY <1>1 DEF Notify
  <2>2. [IdleNotifier EXCEPT !.pc = "read", !.todo = b].pc = "read"
    BY DEF IdleNotifier
  <2>. QED BY <1>1, <2>1, <2>2 DEF Notify, TypeOK
<1>2. ASSUME NEW n \in Notifier, EnqueueRetry(n) PROVE group' = group
                /\ \A m \in Notifier : notifier'[m].pc = "write" => notifier'[m] = notifier[m]
  <2>. DEFINE s == IF notifier[n].attempt + 1 = EnqueueAttempts THEN IdleNotifier
                   ELSE [notifier[n] EXCEPT !.pc = "read", !.attempt = notifier[n].attempt + 1]
  <2>1. group' = group /\ notifier' = [notifier EXCEPT ![n] = s]
    BY <1>2 DEF EnqueueRetry
  <2>2. s.pc # "write"
    <3>1. notifier[n] \in NotifierState
      BY DEF TypeOK
    <3>2. \A a : [notifier[n] EXCEPT !.pc = "read", !.attempt = a].pc = "read"
      BY <3>1 DEF NotifierState
    <3>. QED BY <3>2 DEF IdleNotifier
  <2>. HIDE DEF s
  <2>. QED BY <2>1, <2>2 DEF TypeOK
<1>3. CASE UNCHANGED <<group, notifier>>
  BY <1>3 DEF Kept
<1>4. ASSUME NEW w \in Worker, CommitResult(w), group' # group
      PROVE  /\ notifier' = notifier
             /\ \A g \in Group : /\ Kept(g) \/ Bumped(g)
                                 /\ group'[g].start = group[g].start /\ group'[g].resolved = group[g].resolved
  <2>. DEFINE h == job[worker[w].job].group
              v == group[h].version + 1
              r == [group[h] EXCEPT !.cool = Cooldown, !.version = v]
  <2>1. notifier' = notifier /\ group' = [group EXCEPT ![h] = r]
    BY <1>4 DEF CommitResult
  <2>2. ASSUME NEW g \in Group PROVE group[g] \in GroupRow /\ (group[g].resolved > 0 => group[g].resolved >= group[g].start)
    BY DEF TypeOK, PlanInv
  <2>3. ASSUME NEW g \in Group PROVE group'[g] = IF g = h THEN r ELSE group[g]
    <3>. HIDE DEF r, h
    <3>. QED BY <2>1 DEF TypeOK
  <2>4. h \in Group => r.version = v /\ r.start = group[h].start /\ r.resolved = group[h].resolved
    <3>. HIDE DEF v, h
    <3>. QED BY <2>2 DEF GroupRow
  <2>. HIDE DEF r, h
  <2>. QED BY <2>1, <2>2, <2>3, <2>4 DEF Kept, Bumped
<1>5. ASSUME Tick
      PROVE  notifier' = notifier /\ \A g \in Group : Kept(g)
  <2>1. ASSUME NEW g \in Group PROVE Kept(g)
    <3>1. group'[g] = [group[g] EXCEPT !.cool = Less(group[g].cool)]
      BY <1>5 DEF Tick
    <3>2. group[g] \in GroupRow
      BY DEF TypeOK
    <3>. QED BY <3>1, <3>2 DEF Kept, GroupRow
  <2>. QED BY <1>5, <2>1 DEF Tick
<1>6. ASSUME NEW w \in Worker, ProcessOne(w), ~CommitResult(w) PROVE UNCHANGED <<group, notifier>>
  <2>1. CASE ClaimRead(w) \/ ClaimExhausted(w) \/ ClaimGrant(w) \/ ClaimLost(w)
    BY <2>1 DEF ClaimRead, ClaimExhausted, ClaimGrant, ClaimLost
  <2>2. CASE Check(w) \/ AnalyzeOk(w) \/ AnalyzeFail(w) \/ CommitRefused(w) \/ DeliverEnd(w)
    BY <2>2 DEF Check, AnalyzeOk, AnalyzeFail, CommitRefused, DeliverEnd
  <2>3. CASE Sweep(w) \/ Deliver(w) \/ GrabDelivery(w)
    BY <2>3 DEF Sweep, Deliver, GrabDelivery
  <2>4. CASE SendReaches(w) \/ SendFails(w) \/ Confirm(w)
    BY <2>4 DEF SendReaches, SendFails, Confirm
  <2>5. CASE CountPending(w) \/ FinishJob(w) \/ TimedOut(w)
    BY <2>5 DEF CountPending, FinishJob, TimedOut
  <2>. QED BY <1>6, <2>1, <2>2, <2>3, <2>4, <2>5 DEF ProcessOne
<1>7. ASSUME NEW w \in Worker, CommitResult(w) PROVE notifier' = notifier
  BY <1>7 DEF CommitResult
<1>8. ASSUME Edit \/ \E w \in Worker : Crash(w) \/ Shutdown(w) PROVE UNCHANGED <<group, notifier>>
  BY <1>8 DEF Edit, Crash, Shutdown
<1>. QED
  BY <1>1, <1>2, <1>3, <1>4, <1>5, <1>6, <1>7, <1>8 DEF Kept

\* PlanInv holds at the start, is kept, and makes every step an advance.
LEMMA PlanInit == Init => PlanInv
  BY DEF Init, PlanInv, NewGroup, IdleNotifier

LEMMA PlanStep ==
    ASSUME TypeOK, PlanInv, [Next]_vars
    PROVE  PlanInv' /\ \A g \in Group : Advance(group[g], group'[g])
<1>1. CASE UNCHANGED vars
  BY <1>1, GroupNumbers DEF vars, PlanInv, Founded, Target, Advance
<1>2. CASE \E n \in Notifier : EnqueueResolve(n) \/ EnqueueOpen(n)
  BY <1>2, WriteAdvances, GroupFrame
<1>3. ASSUME NEW n \in Notifier, EnqueueRead(n)
      PROVE  PlanInv' /\ \A g \in Group : Advance(group[g], group'[g])
  <2>1. group' = group /\ \A m \in Notifier : m # n => notifier'[m] = notifier[m]
    BY <1>3 DEF EnqueueRead, TypeOK
  <2>2. ASSUME NEW m \in Notifier, notifier'[m].pc = "write"
        PROVE  /\ notifier'[m].version <= Target(m)'.version
               /\ notifier'[m].version = Target(m)'.version => Founded(m)'
    <3>1. CASE m # n
      <4>1. notifier'[m] = notifier[m]
        BY <2>1, <3>1
      <4>. QED BY <2>1, <2>2, <4>1 DEF PlanInv, Founded, Target
    <3>2. CASE m = n
      <4>1. notifier'[m].version = Target(m)'.version /\ Founded(m)' /\ Target(m)'.version \in Nat
        BY <1>3, <2>2, <3>2, ReadDecides
      <4>. QED BY <4>1
    <3>. QED BY <3>1, <3>2
  <2>. QED BY <2>1, <2>2, GroupNumbers DEF PlanInv, Advance
<1>4. CASE \/ \E n \in Notifier : Notify(n) \/ EnqueueRetry(n)
           \/ \E w \in Worker : ProcessOne(w) \/ Crash(w) \/ Shutdown(w)
           \/ Edit \/ Tick
  BY <1>4, OthersKeep, GroupFrame, GroupNumbers DEF Advance
<1>. QED
  BY <1>1, <1>2, <1>3, <1>4 DEF Next, Step, Enqueue

\* Whatever order concurrent webhook requests read and write the group rows in, and
\* however Alertmanager repeats and reorders events, the replay watermark never moves back.
THEOREM WatermarkAdvances == Spec => WatermarkMonotone
<1>1. ASSUME TypeOK, PlanInv, [Next]_vars
      PROVE  [\A g \in Group :
          \/ group'[g].start > group[g].start
          \/ group'[g].start = group[g].start /\ group'[g].resolved >= group[g].resolved]_vars
  BY <1>1, PlanStep DEF Advance
<1>. QED
  BY <1>1, InitType, TypeStep, PlanInit, PlanStep, PTL DEF Spec, WatermarkMonotone

-----------------------------------------------------------------------------
(***************************************************************************)
(* The jobs and the groups that point at them.  The effect of a step on a  *)
(* job is stated once, by the fields the invariants read; each invariant   *)
(* is then shown from the effects.                                         *)
(***************************************************************************)

\* The part of the workers in the queue that have the result of their job.
HasResult == {"sweep", "deliver", "grab", "send", "confirm", "count"}

\* What worker w in state s knows of the jobs: its candidates are no younger than their rows,
\* only an analysed job is delivered, and while it owns its job it has counted its attempts.
Knows(w, s) ==
    /\ \A r \in s.cands : r.attempts <= job[r.id].attempts /\ job[r.id].status # "none"
    /\ s.pc \notin {"idle", "claim"} =>
          /\ job[s.job].status # "none"
          /\ job[s.job].owner = w => s.attempts = job[s.job].attempts
    /\ s.pc \in HasResult \/ (s.pc = "check" /\ s.analysed) => job[s.job].analysed
    /\ s.pc = "finish" =>
          /\ s.outcome \in {"delivery", "done"} => job[s.job].analysed
          /\ s.outcome = "queued" => s.attempts < MaxAttempts

\* What the status of a job says of its other fields: a job that has ended has no owner who
\* could put it back, unless it failed for its attempts.
RowOf(j) ==
    /\ job[j].status = "none" => ~job[j].analysed /\ job[j].owner = Nobody
    /\ job[j].status \in {"delivery", "done"} => job[j].analysed
    /\ job[j].status = "done" => job[j].owner = Nobody
    /\ job[j].status = "failed" /\ job[j].owner # Nobody =>
          ~job[j].analysed /\ job[j].attempts >= MaxAttempts

\* The job a group points at is of the group's incident, or of one it has left by a recovery,
\* which has cancelled it for good; nothing else but its own worker cancels it.
CurrentOf(g) ==
    LET k == group[g].job
    IN  /\ group[g].cool > 0 => k # NoJob
        /\ k # NoJob =>
              /\ job[k].status # "none" /\ job[k].group = g
              /\ job[k].start <= group[g].start
              /\ group[g].resolved = 0 => job[k].start = group[g].start
              /\ group[g].resolved > 0 => ~Hit(g, k)
              /\ job[k].status = "cancelled" => job[k].owner = Nobody
              /\ group[g].cool > 0 => job[k].analysed

JobInv ==
    /\ \A w \in Worker : Knows(w, worker[w])
    /\ \A j \in JobId : RowOf(j)
    /\ \A g \in Group : CurrentOf(g)

\* The effects of a step on the row of job j.
SameJob(j) == /\ job'[j].group = job[j].group /\ job'[j].start = job[j].start
Same(j) ==
    /\ SameJob(j)
    /\ job'[j].status = job[j].status /\ job'[j].analysed = job[j].analysed
    /\ job'[j].attempts = job[j].attempts /\ job'[j].owner = job[j].owner
Born(j) ==
    /\ job[j].status = "none"
    /\ job'[j].status = "queued" /\ ~job'[j].analysed /\ job'[j].attempts = 0 /\ job'[j].owner = Nobody
Cancelled(j) ==
    /\ SameJob(j) /\ job'[j].analysed = job[j].analysed /\ job'[j].attempts = job[j].attempts
    /\ ~job[j].analysed /\ job[j].status \in Unfinished
    /\ job'[j].status = "cancelled" /\ job'[j].owner \in {job[j].owner, Nobody}
UsedUp(j) ==
    /\ SameJob(j) /\ job'[j].analysed = job[j].analysed /\ job'[j].attempts = job[j].attempts
    /\ ~job[j].analysed /\ job[j].status \in Unfinished /\ job[j].attempts >= MaxAttempts
    /\ job'[j].status = "failed" /\ job'[j].owner = job[j].owner
Taken(w, j) ==
    /\ SameJob(j) /\ job'[j].analysed = job[j].analysed
    /\ job[j].status \in Claimable /\ job'[j].owner = w
    /\ IF job[j].analysed
       THEN job'[j].status = job[j].status /\ job'[j].attempts = job[j].attempts
       ELSE job'[j].status = "working" /\ job'[j].attempts = job[j].attempts + 1
    /\ worker'[w].job = j /\ worker'[w].attempts = job'[j].attempts
Committed(j) ==
    /\ SameJob(j) /\ job'[j].attempts = job[j].attempts /\ job'[j].owner = job[j].owner
    /\ job[j].status = "working" /\ ~job[j].analysed
    /\ job'[j].status = "delivery" /\ job'[j].analysed
Finished(w, j) ==
    /\ SameJob(j) /\ job'[j].analysed = job[j].analysed /\ job'[j].attempts = job[j].attempts
    /\ worker[w].pc = "finish" /\ worker[w].job = j /\ job[j].owner = w
    /\ job'[j].status = worker[w].outcome /\ job'[j].owner = Nobody

ByRequest(j) == Same(j) \/ Born(j) \/ Cancelled(j)
ByWorker(j) == Same(j) \/ UsedUp(j) \/ Committed(j) \/ \E w \in Worker : Taken(w, j) \/ Finished(w, j)
ByAny(j) == ByRequest(j) \/ ByWorker(j)

\* What every step keeps of a job.
Grows(j) ==
    /\ job[j].status # "none" => job'[j].status # "none" /\ SameJob(j)
    /\ job[j].status # "none" => job[j].attempts <= job'[j].attempts
    /\ job[j].analysed => job'[j].analysed
    /\ \A w \in Worker : job'[j].owner = w =>
          \/ job[j].owner = w /\ job'[j].attempts = job[j].attempts
          \/ worker'[w].job = j /\ worker'[w].attempts = job'[j].attempts

LEMMA JobShape ==
    ASSUME TypeOK, NEW j \in JobId
    PROVE  /\ job[j] \in JobRow /\ job[j].attempts \in Nat /\ job[j].analysed \in BOOLEAN
           /\ job[j].status \in Claimable \cup Terminal \cup {"none"}
           /\ job[j].start \in Nat
           /\ job[j].owner \in Worker \cup {Nobody}
<1>1. job[j] \in JobRow
  BY DEF TypeOK
<1>2. job[j].start \in StartTimes \cup {0}
  BY <1>1 DEF JobRow
<1>3. job[j].start \in Nat
  BY <1>2, TimeTypes
<1>. QED
  BY <1>1, <1>3 DEF JobRow

\* A worker that finishes a job it owns: the outcome fits the row.
LEMMA OutcomeFits ==
    ASSUME TypeOK, JobInv, NEW j \in JobId, NEW w \in Worker, Finished(w, j)
    PROVE  /\ worker[w].outcome \in {"queued", "delivery", "done", "failed", "cancelled"}
           /\ worker[w].outcome \in {"delivery", "done"} => job[j].analysed
           /\ worker[w].outcome = "queued" => job[j].attempts < MaxAttempts
           /\ job[j].status # "none" /\ w # Nobody
<1>1. Knows(w, worker[w]) /\ worker[w].pc = "finish" /\ worker[w].job = j /\ job[j].owner = w
  BY DEF JobInv, Finished
<1>2. worker[w].outcome \in Claimable \cup Terminal /\ worker[w] \in WorkerState
  BY <1>1 DEF TypeOK
<1>3. worker[w].outcome # "working"
  BY <1>2 DEF WorkerState, Terminal
<1>. QED
  BY <1>1, <1>2, <1>3, NamesAssumption DEF Knows, Claimable, Terminal

LEMMA RowGrows ==
    ASSUME TypeOK, JobInv, NEW j \in JobId, ByAny(j)
    PROVE  Grows(j) /\ RowOf(j)'
<1>1. /\ RowOf(j) /\ job[j].attempts \in Nat /\ job[j].analysed \in BOOLEAN
      /\ job[j].owner \in Worker \cup {Nobody} /\ Nobody \notin Worker
  BY JobShape, NamesAssumption DEF JobInv
<1>2. CASE Same(j)
  BY <1>1, <1>2 DEF Same, Grows, RowOf
<1>3. CASE Born(j)
  BY <1>1, <1>3 DEF Born, Grows, RowOf
<1>4. CASE Cancelled(j)
  BY <1>1, <1>4 DEF Cancelled, Grows, RowOf, Unfinished
<1>5. CASE UsedUp(j)
  BY <1>1, <1>5 DEF UsedUp, Grows, RowOf, Unfinished
<1>6. CASE Committed(j)
  BY <1>1, <1>6 DEF Committed, Grows, RowOf
<1>7. ASSUME NEW w \in Worker, Taken(w, j) PROVE Grows(j) /\ RowOf(j)'
  <2>1. job[j].status \in {"queued", "working", "delivery"} /\ job'[j].owner = w /\ SameJob(j)
        /\ job'[j].analysed = job[j].analysed
    BY <1>7 DEF Taken, Claimable
  <2>2. CASE job[j].analysed
    BY <1>1, <1>7, <2>1, <2>2 DEF Taken, Grows, RowOf
  <2>3. CASE ~job[j].analysed
    BY <1>1, <1>7, <2>1, <2>3 DEF Taken, Grows, RowOf
  <2>. QED BY <2>2, <2>3
<1>8. ASSUME NEW w \in Worker, Finished(w, j) PROVE Grows(j) /\ RowOf(j)'
  BY <1>1, <1>8, OutcomeFits DEF Finished, Grows, RowOf
<1>. QED
  BY <1>2, <1>3, <1>4, <1>5, <1>6, <1>7, <1>8 DEF ByAny, ByRequest, ByWorker

\* What a worker knows stays true while the jobs grow, unless it is the one that acts.
LEMMA KnowsOn ==
    ASSUME TypeOK, TypeOK', JobInv, NEW w \in Worker,
           worker'[w] = worker[w], \A j \in JobId : Grows(j)
    PROVE  Knows(w, worker[w])'
<1>. DEFINE s == worker[w]
<1>1. Knows(w, s) /\ s \in WorkerState /\ (s.pc \notin {"idle", "claim"} => s.job \in JobId)
  BY DEF JobInv, TypeOK
<1>2. ASSUME NEW r \in s.cands PROVE r.attempts <= job'[r.id].attempts /\ job'[r.id].status # "none"
  <2>1. r.id \in JobId /\ r.attempts \in Nat
    BY <1>1 DEF WorkerState, Candidate
  <2>2. job[r.id].attempts \in Nat /\ job'[r.id].attempts \in Nat /\ Grows(r.id)
    BY <2>1 DEF TypeOK, JobRow
  <2>3. r.attempts <= job[r.id].attempts /\ job[r.id].status # "none"
    BY <1>1 DEF Knows
  <2>. QED BY <2>1, <2>2, <2>3 DEF Grows
<1>3. s.pc \notin {"idle", "claim"} => Grows(s.job)
  BY <1>1
<1>. HIDE DEF s
<1>4. worker'[w] = s
  BY DEF s
<1>5. Knows(w, s)
  BY <1>1
<1>6. ASSUME s.pc \notin {"idle", "claim"}
      PROVE  /\ job'[s.job].status # "none"
             /\ job'[s.job].owner = w => s.attempts = job'[s.job].attempts
             /\ job[s.job].analysed => job'[s.job].analysed
  BY <1>3, <1>4, <1>5, <1>6 DEF Knows, Grows
<1>. QED
  BY <1>2, <1>4, <1>5, <1>6 DEF Knows, HasResult

\* Requests create jobs and cancel those that wait for their analysis or are in it.
LEMMA RequestRows ==
    ASSUME TypeOK, NEW n \in Notifier, Notify(n) \/ Enqueue(n), NEW j \in JobId
    PROVE  ByRequest(j) /\ worker' = worker
<1>. DEFINE e == Head(notifier[n].todo)
<1>1. job[j] \in JobRow /\ job \in [JobId -> JobRow]
  BY DEF TypeOK
<1>2. CASE Notify(n) \/ EnqueueRead(n) \/ EnqueueRetry(n)
  BY <1>2 DEF Notify, EnqueueRead, EnqueueRetry, ByRequest, Same, SameJob
<1>3. CASE EnqueueResolve(n)
  <2>1. job' = CancelledByRecovery(e) /\ worker' = worker
    BY <1>3 DEF EnqueueResolve
  <2>. DEFINE x == [job[j] EXCEPT !.status = "cancelled", !.owner = Nobody, !.lease = 0]
  <2>2. job'[j] = IF Hit(e.group, j) /\ job[j].start <= e.start THEN x ELSE job[j]
    <3>. HIDE DEF e
    <3>. QED BY <2>1 DEF CancelledByRecovery
  <2>3. /\ x.group = job[j].group /\ x.start = job[j].start /\ x.analysed = job[j].analysed
        /\ x.attempts = job[j].attempts /\ x.status = "cancelled" /\ x.owner = Nobody
    BY <1>1 DEF JobRow
  <2>. HIDE DEF e, x
  <2>. QED BY <2>1, <2>2, <2>3 DEF ByRequest, Same, SameJob, Cancelled, Hit
<1>4. CASE EnqueueOpen(n)
  <2>. DEFINE others == IF notifier[n].plan = "open" THEN SupersededBy(e) ELSE job
              x == [job[j] EXCEPT !.status = "cancelled"]
  <2>1. PICK new \in Free : job' = [others EXCEPT ![new] = NewJob(e)]
    BY <1>4 DEF EnqueueOpen
  <2>2. worker' = worker /\ new \in JobId /\ job[new].status = "none"
    BY <1>4 DEF EnqueueOpen, Free
  <2>3. others \in [JobId -> {job[k] : k \in JobId} \cup {[job[k] EXCEPT !.status = "cancelled"] : k \in JobId}]
    BY <1>1 DEF SupersededBy
  <2>4. others[j] = job[j] \/ (Hit(e.group, j) /\ others[j] = x)
    <3>. HIDE DEF e
    <3>. QED BY DEF SupersededBy
  <2>5. job'[j] = IF j = new THEN NewJob(e) ELSE others[j]
    <3>. HIDE DEF others, e
    <3>. QED BY <2>1, <2>3
  <2>6. /\ x.group = job[j].group /\ x.start = job[j].start /\ x.analysed = job[j].analysed
        /\ x.attempts = job[j].attempts /\ x.status = "cancelled" /\ x.owner = job[j].owner
    BY <1>1 DEF JobRow
  <2>7. /\ NewJob(e).status = "queued" /\ ~NewJob(e).analysed /\ NewJob(e).attempts = 0
        /\ NewJob(e).owner = Nobody
    BY DEF NewJob, FreeJob
  <2>. HIDE DEF e, x, others
  <2>. QED BY <2>2, <2>4, <2>5, <2>6, <2>7 DEF ByRequest, Same, SameJob, Born, Cancelled, Hit
<1>. QED
  BY <1>2, <1>3, <1>4 DEF Enqueue

\* Replacing the row of one job.
LEMMA OneRow ==
    ASSUME TypeOK, NEW k \in JobId, NEW x, job' = [job EXCEPT ![k] = x]
    PROVE  job'[k] = x /\ \A j \in JobId : j # k => Same(j)
  BY DEF TypeOK, Same, SameJob

\* The claim: the candidates of the worker are no younger than the rows.
LEMMA ClaimRows ==
    ASSUME TypeOK, JobInv, NEW w \in Worker,
           ClaimRead(w) \/ ClaimExhausted(w) \/ ClaimGrant(w) \/ ClaimLost(w), NEW j \in JobId
    PROVE  ByWorker(j)
<1>0. /\ \A r \in worker[w].cands : /\ r \in Candidate /\ r.id \in JobId /\ r.attempts \in Nat
                                    /\ r.attempts <= job[r.id].attempts /\ job[r.id].status # "none"
      /\ job \in [JobId -> JobRow]
  <2>1. \A r \in worker[w].cands : r \in Candidate
    BY ActingWorker
  <2>. QED BY <2>1 DEF JobInv, Knows, Candidate, TypeOK
<1>1. CASE ClaimRead(w) \/ ClaimLost(w)
  BY <1>1 DEF ClaimRead, ClaimLost, ByWorker, Same, SameJob
<1>2. CASE ClaimExhausted(w)
  <2>1. PICK r \in worker[w].cands :
           /\ Exhausted(r)
           /\ job' = IF job[r.id].lease = 0 /\ ~job[r.id].analysed /\ job[r.id].status \in Unfinished
                     THEN [job EXCEPT ![r.id] = [job[r.id] EXCEPT !.status = "failed"]] ELSE job
    BY <1>2 DEF ClaimExhausted
  <2>. DEFINE k == r.id
              x == [job[k] EXCEPT !.status = "failed"]
  <2>2. k \in JobId /\ job[k] \in JobRow /\ r.attempts \in Nat /\ r.attempts <= job[k].attempts
    BY <1>0
  <2>3. /\ x.group = job[k].group /\ x.start = job[k].start /\ x.analysed = job[k].analysed
        /\ x.attempts = job[k].attempts /\ x.status = "failed" /\ x.owner = job[k].owner
    BY <2>2 DEF JobRow
  <2>4. r.attempts >= MaxAttempts
    BY <2>1 DEF Exhausted
  <2>5. job[k].attempts >= MaxAttempts
    BY <2>2, <2>4, AttemptsAssumption DEF JobRow
  <2>6. CASE job' = job
    BY <2>6 DEF ByWorker, Same, SameJob
  <2>7. CASE job' # job
    <3>1. job' = [job EXCEPT ![k] = x] /\ ~job[k].analysed /\ job[k].status \in Unfinished
      BY <2>1, <2>7
    <3>. HIDE DEF x, k
    <3>2. job'[k] = x /\ \A i \in JobId : i # k => Same(i)
      BY <2>2, <3>1, OneRow
    <3>. QED BY <2>3, <2>5, <3>1, <3>2 DEF ByWorker, UsedUp, SameJob
  <2>. QED BY <2>6, <2>7
<1>3. CASE ClaimGrant(w)
  <2>1. PICK r \in worker[w].cands :
           /\ Grantable(r)
           /\ job' = [job EXCEPT ![r.id] = Granted(w, r)]
           /\ Becomes(w, [IdleWorker EXCEPT
                 !.pc = "check", !.job = r.id, !.analysed = r.analysed,
                 !.attempts = IF r.analysed THEN r.attempts ELSE r.attempts + 1,
                 !.lease = LeaseDuration, !.ctx = WorkTimeout])
    BY <1>3 DEF ClaimGrant
  <2>. DEFINE k == r.id
              x == Granted(w, r)
  <2>2. /\ k \in JobId /\ job[k] \in JobRow /\ job[k].status \in Claimable
        /\ job[k].analysed = r.analysed /\ job[k].attempts = r.attempts
    BY <1>0, <2>1 DEF Grantable
  <2>3. /\ x.group = job[k].group /\ x.start = job[k].start /\ x.analysed = job[k].analysed
        /\ x.owner = w
        /\ job[k].analysed => x.status = job[k].status /\ x.attempts = job[k].attempts
        /\ ~job[k].analysed => x.status = "working" /\ x.attempts = job[k].attempts + 1
    BY <2>2 DEF Granted, JobRow
  <2>4. /\ worker'[w].job = k
        /\ worker'[w].attempts = IF r.analysed THEN r.attempts ELSE r.attempts + 1
    BY <2>1 DEF Becomes, IdleWorker, TypeOK
  <2>5. job' = [job EXCEPT ![k] = x]
    BY <2>1
  <2>. HIDE DEF x, k
  <2>6. job'[k] = x /\ \A i \in JobId : i # k => Same(i)
    BY <2>2, <2>5, OneRow
  <2>7. Taken(w, k)
    BY <2>2, <2>3, <2>4, <2>6 DEF Taken, SameJob
  <2>. QED BY <2>6, <2>7 DEF ByWorker
<1>. QED
  BY <1>1, <1>2, <1>3

\* All other steps of a worker: only the commit and the end of the work touch the jobs.
LEMMA WorkRows ==
    ASSUME TypeOK, JobInv, NEW w \in Worker, ProcessOne(w) \/ Crash(w) \/ Shutdown(w), NEW j \in JobId
    PROVE  ByWorker(j)
<1>. DEFINE k == worker[w].job
<1>1. ASSUME job' = job PROVE ByWorker(j)
  BY <1>1 DEF ByWorker, Same, SameJob
<1>2. ASSUME worker[w].pc \notin {"idle", "claim"} PROVE k \in JobId /\ job[k] \in JobRow
  BY <1>2 DEF TypeOK
<1>3. CASE CommitResult(w)
  <2>. DEFINE x == [job[k] EXCEPT !.analysed = TRUE, !.status = "delivery"]
  <2>1. job' = [job EXCEPT ![k] = x] /\ worker[w].pc = "commit"
    BY <1>3 DEF CommitResult
  <2>2. k \in JobId /\ job[k] \in JobRow
    BY <1>2, <2>1
  <2>3. job[k].status = "working" /\ ~job[k].analysed
    BY <1>3 DEF CommitResult, Committable, Mine
  <2>4. /\ x.group = job[k].group /\ x.start = job[k].start /\ x.analysed
        /\ x.attempts = job[k].attempts /\ x.status = "delivery" /\ x.owner = job[k].owner
    BY <2>2 DEF JobRow
  <2>. HIDE DEF x, k
  <2>5. job'[k] = x /\ \A i \in JobId : i # k => Same(i)
    BY <2>1, <2>2, OneRow
  <2>. QED BY <2>3, <2>4, <2>5 DEF ByWorker, Committed, SameJob
<1>4. CASE FinishJob(w)
  <2>. DEFINE x == [job[k] EXCEPT !.status = worker[w].outcome, !.owner = Nobody, !.lease = 0, !.next = RetryDelay]
  <2>1. job' = (IF Owns(w) THEN [job EXCEPT ![k] = x] ELSE job) /\ worker[w].pc = "finish"
    BY <1>4 DEF FinishJob
  <2>2. k \in JobId /\ job[k] \in JobRow
    BY <1>2, <2>1
  <2>3. /\ x.group = job[k].group /\ x.start = job[k].start /\ x.analysed = job[k].analysed
        /\ x.attempts = job[k].attempts /\ x.status = worker[w].outcome /\ x.owner = Nobody
    BY <2>2 DEF JobRow
  <2>4. CASE ~Owns(w)
    BY <1>1, <2>1, <2>4
  <2>5. CASE Owns(w)
    <3>1. job[k].owner = w /\ job' = [job EXCEPT ![k] = x]
      BY <2>1, <2>5 DEF Owns, Mine
    <3>2. worker[w].job = k
      OBVIOUS
    <3>. HIDE DEF x, k
    <3>3. job'[k] = x /\ \A i \in JobId : i # k => Same(i)
      BY <2>2, <3>1, OneRow
    <3>. QED BY <2>1, <2>3, <3>1, <3>2, <3>3 DEF ByWorker, Finished, SameJob
  <2>. QED BY <2>4, <2>5
<1>5. CASE ClaimRead(w) \/ ClaimExhausted(w) \/ ClaimGrant(w) \/ ClaimLost(w)
  BY <1>5, ClaimRows
<1>6. CASE Check(w) \/ AnalyzeOk(w) \/ AnalyzeFail(w) \/ CommitRefused(w) \/ Sweep(w)
  BY <1>1, <1>6 DEF Check, AnalyzeOk, AnalyzeFail, CommitRefused, Sweep
<1>7. CASE Deliver(w) \/ DeliverEnd(w) \/ GrabDelivery(w) \/ SendReaches(w) \/ SendFails(w)
  BY <1>1, <1>7 DEF Deliver, DeliverEnd, GrabDelivery, SendReaches, SendFails
<1>8. CASE Confirm(w) \/ CountPending(w) \/ TimedOut(w) \/ Crash(w) \/ Shutdown(w)
  BY <1>1, <1>8 DEF Confirm, CountPending, TimedOut, Crash, Shutdown
<1>. QED
  BY <1>3, <1>4, <1>5, <1>6, <1>7, <1>8 DEF ProcessOne

\* A worker that keeps its job, drops candidates or comes to know an outcome.
LEMMA KnowsMoves ==
    ASSUME TypeOK, TypeOK', JobInv, NEW w \in Worker, NEW x, worker'[w] = x,
           \A j \in JobId : Grows(j),
           x.cands \subseteq worker[w].cands,
           x.pc \notin {"idle", "claim"} =>
              /\ worker[w].pc \notin {"idle", "claim"}
              /\ x.job = worker[w].job /\ x.attempts = worker[w].attempts,
           x.pc \in HasResult \/ (x.pc = "check" /\ x.analysed) => job'[x.job].analysed,
           x.pc = "finish" => /\ x.outcome \in {"delivery", "done"} => job'[x.job].analysed
                              /\ x.outcome = "queued" => x.attempts < MaxAttempts
    PROVE  Knows(w, worker[w])'
<1>. DEFINE s == worker[w]
<1>1. Knows(w, s) /\ s \in WorkerState /\ (s.pc \notin {"idle", "claim"} => s.job \in JobId)
  BY DEF JobInv, TypeOK
<1>2. ASSUME NEW r \in x.cands PROVE r.attempts <= job'[r.id].attempts /\ job'[r.id].status # "none"
  <2>1. r \in s.cands /\ r.id \in JobId /\ r.attempts \in Nat
    BY <1>1 DEF WorkerState, Candidate
  <2>2. job[r.id].attempts \in Nat /\ job'[r.id].attempts \in Nat /\ Grows(r.id)
    BY <2>1 DEF TypeOK, JobRow
  <2>3. r.attempts <= job[r.id].attempts /\ job[r.id].status # "none"
    BY <1>1, <2>1 DEF Knows
  <2>. QED BY <2>1, <2>2, <2>3 DEF Grows
<1>3. ASSUME x.pc \notin {"idle", "claim"}
      PROVE  /\ job'[x.job].status # "none"
             /\ job'[x.job].owner = w => x.attempts = job'[x.job].attempts
  <2>1. s.job \in JobId /\ x.job = s.job /\ x.attempts = s.attempts /\ Grows(s.job)
    BY <1>1, <1>3
  <2>2. job[s.job].status # "none" /\ (job[s.job].owner = w => s.attempts = job[s.job].attempts)
    BY <1>1, <1>3 DEF Knows
  <2>. HIDE DEF s
  <2>. QED BY <2>1, <2>2 DEF Grows
<1>. HIDE DEF s
<1>. QED
  BY <1>2, <1>3 DEF Knows

\* The acting worker: it reads candidates with their rows, is granted a job with its
\* attempts, and takes an outcome only on what it knows.
LEMMA ClaimKnows ==
    ASSUME TypeOK, TypeOK', JobInv, NEW w \in Worker, \A j \in JobId : Grows(j),
           ClaimRead(w) \/ ClaimExhausted(w) \/ ClaimGrant(w) \/ ClaimLost(w)
    PROVE  Knows(w, worker[w])'
<1>0. /\ worker[w] \in WorkerState /\ worker \in [Worker -> WorkerState]
      /\ worker[w].cands \in SUBSET Candidate
      /\ \A r \in worker[w].cands : r.id \in JobId
  BY ActingWorker DEF TypeOK, Candidate
<1>1. CASE ClaimRead(w)
  <2>. DEFINE due == {j \in JobId : job[j].status \in Claimable /\ job[j].next = 0 /\ job[j].lease = 0}
              cands == {[id |-> j, analysed |-> job[j].analysed, attempts |-> job[j].attempts] : j \in due}
              x == [worker[w] EXCEPT !.pc = "claim", !.cands = cands]
  <2>1. Becomes(w, x) /\ job' = job
    BY <1>1 DEF ClaimRead
  <2>2. x.pc = "claim" /\ x.cands = cands
    <3>. HIDE DEF cands
    <3>. QED BY <1>0 DEF WorkerState
  <2>3. \A r \in cands : r.attempts <= job[r.id].attempts /\ job[r.id].status # "none"
    <3>1. ASSUME NEW j \in JobId, job[j].status \in Claimable
          PROVE  job[j].attempts <= job[j].attempts /\ job[j].status # "none"
      BY <3>1, JobShape DEF Claimable
    <3>. QED BY <3>1
  <2>. HIDE DEF cands, x
  <2>4. worker'[w] = x
    BY <1>0, <2>1 DEF Becomes
  <2>. QED BY <2>1, <2>2, <2>3, <2>4 DEF Knows, HasResult
<1>2. ASSUME NEW r \in worker[w].cands, worker[w].pc = "claim", SkipCandidate(w, r)
      PROVE  Knows(w, worker[w])'
  <2>. DEFINE y == [worker[w] EXCEPT !.cands = worker[w].cands \ {r}]
  <2>1. y.pc = "claim" /\ y.cands \subseteq worker[w].cands
    BY <1>0, <1>2 DEF WorkerState
  <2>2. IdleWorker.pc = "idle" /\ IdleWorker.cands = {}
    BY DEF IdleWorker
  <2>3. worker'[w] = y \/ worker'[w] = IdleWorker
    BY <1>0, <1>2 DEF SkipCandidate, Return, Becomes
  <2>. HIDE DEF y
  <2>. QED BY <2>1, <2>2, <2>3, KnowsMoves DEF HasResult
<1>3. CASE ClaimExhausted(w) \/ ClaimLost(w)
  BY <1>2, <1>3 DEF ClaimExhausted, ClaimLost
<1>4. CASE ClaimGrant(w)
  <2>1. PICK r \in worker[w].cands :
           /\ Grantable(r)
           /\ job' = [job EXCEPT ![r.id] = Granted(w, r)]
           /\ Becomes(w, [IdleWorker EXCEPT
                 !.pc = "check", !.job = r.id, !.analysed = r.analysed,
                 !.attempts = IF r.analysed THEN r.attempts ELSE r.attempts + 1,
                 !.lease = LeaseDuration, !.ctx = WorkTimeout])
    BY <1>4 DEF ClaimGrant
  <2>. DEFINE k == r.id
              a == IF r.analysed THEN r.attempts ELSE r.attempts + 1
              x == [IdleWorker EXCEPT !.pc = "check", !.job = k, !.analysed = r.analysed,
                       !.attempts = a, !.lease = LeaseDuration, !.ctx = WorkTimeout]
              y == Granted(w, r)
  <2>2. worker'[w] = x
    BY <1>0, <2>1 DEF Becomes
  <2>3. /\ x.cands = {} /\ x.pc = "check" /\ x.job = k /\ x.analysed = r.analysed /\ x.attempts = a
    BY DEF IdleWorker
  <2>4. /\ k \in JobId /\ job[k] \in JobRow /\ job[k].status \in Claimable
        /\ job[k].analysed = r.analysed /\ job[k].attempts = r.attempts
    BY <1>0, <2>1 DEF Grantable, TypeOK
  <2>5. y.status # "none" /\ y.attempts = a /\ y.analysed = r.analysed
    BY <2>4 DEF Granted, JobRow, Claimable
  <2>6. job' = [job EXCEPT ![k] = y]
    BY <2>1
  <2>. HIDE DEF k, a, x, y
  <2>7. job'[k] = y
    BY <2>4, <2>6, OneRow
  <2>. QED BY <2>2, <2>3, <2>5, <2>7 DEF Knows, HasResult
<1>. QED
  BY <1>1, <1>3, <1>4

LEMMA WorkKnows ==
    ASSUME TypeOK, TypeOK', JobInv, NEW w \in Worker, \A j \in JobId : Grows(j),
           ProcessOne(w) \/ Crash(w) \/ Shutdown(w)
    PROVE  Knows(w, worker[w])'
<1>. DEFINE s == worker[w]
<1>0. /\ s \in WorkerState /\ worker \in [Worker -> WorkerState] /\ Knows(w, s)
      /\ s.pc \notin {"idle", "claim"} => s.job \in JobId
  BY DEF TypeOK, JobInv
<1>1. s.pc \notin {"idle", "claim"} /\ job[s.job].analysed => job'[s.job].analysed
  BY <1>0 DEF Grows
<1>2. CASE Return(w)
  <2>1. worker'[w] = IdleWorker
    BY <1>0, <1>2 DEF Return, Becomes
  <2>2. IdleWorker.pc = "idle" /\ IdleWorker.cands = {}
    BY DEF IdleWorker
  <2>. QED BY <2>1, <2>2, KnowsMoves DEF HasResult
\* The other steps change neither job nor candidates.
<1>3. ASSUME NEW x, Becomes(w, x), x.cands = s.cands, x.job = s.job, x.attempts = s.attempts,
             s.pc \notin {"idle", "claim"},
             x.pc \in HasResult \/ (x.pc = "check" /\ x.analysed) => job'[s.job].analysed,
             x.pc = "finish" => /\ x.outcome \in {"delivery", "done"} => job'[s.job].analysed
                                /\ x.outcome = "queued" => s.attempts < MaxAttempts
      PROVE  Knows(w, worker[w])'
  <2>1. worker'[w] = x
    BY <1>0, <1>3 DEF Becomes
  <2>. QED BY <1>3, <2>1, KnowsMoves
<1>4. ASSUME NEW p, Goto(w, p), s.pc \notin {"idle", "claim"},
             p \in HasResult => job'[s.job].analysed, p \in HasResult \cup {"analyze", "commit"}
      PROVE  Knows(w, worker[w])'
  <2>. DEFINE x == [s EXCEPT !.pc = p]
  <2>1. Becomes(w, x)
    BY <1>4 DEF Goto
  <2>2. x.cands = s.cands /\ x.job = s.job /\ x.attempts = s.attempts /\ x.pc = p
    BY <1>0 DEF WorkerState
  <2>. HIDE DEF x, s
  <2>3. p # "finish" /\ p # "check"
    BY <1>4 DEF HasResult
  <2>. QED BY <1>3, <1>4, <2>1, <2>2, <2>3
<1>5. ASSUME NEW o, Finish(w, o), s.pc \notin {"idle", "claim"},
             o \in {"delivery", "done"} => job'[s.job].analysed,
             o = "queued" => s.attempts < MaxAttempts
      PROVE  Knows(w, worker[w])'
  <2>. DEFINE x == [s EXCEPT !.pc = "finish", !.outcome = o]
  <2>1. Becomes(w, x)
    BY <1>5 DEF Finish
  <2>2. x.cands = s.cands /\ x.job = s.job /\ x.attempts = s.attempts /\ x.pc = "finish" /\ x.outcome = o
    BY <1>0 DEF WorkerState
  <2>. HIDE DEF x, s
  <2>. QED BY <1>3, <1>5, <2>1, <2>2 DEF HasResult
<1>6. CASE Check(w)
  <2>1. s.pc = "check" /\ (s.analysed => job'[s.job].analysed)
    BY <1>0, <1>1, <1>6 DEF Check, Knows
  <2>2. CASE Finish(w, "cancelled")
    BY <1>5, <2>1, <2>2
  <2>3. CASE Goto(w, IF s.analysed THEN "sweep" ELSE "analyze")
    BY <1>4, <2>1, <2>3 DEF HasResult
  <2>. QED BY <1>6, <2>2, <2>3 DEF Check
<1>7. CASE AnalyzeOk(w)
  BY <1>4, <1>7 DEF AnalyzeOk, HasResult
<1>8. CASE AnalyzeFail(w)
  <2>1. s.attempts \in Nat
    BY <1>0 DEF WorkerState
  <2>2. s.attempts >= MaxAttempts \/ s.attempts < MaxAttempts
    BY <2>1, AttemptsAssumption
  <2>. QED BY <1>5, <1>8, <2>2 DEF AnalyzeFail
<1>9. CASE CommitResult(w)
  <2>1. s.pc = "commit" /\ Goto(w, "sweep") /\ s.job \in JobId
    BY <1>0, <1>9 DEF CommitResult
  <2>2. job'[s.job].analysed
    <3>. DEFINE k == s.job
                x == [job[k] EXCEPT !.analysed = TRUE, !.status = "delivery"]
    <3>1. job' = [job EXCEPT ![k] = x]
      BY <1>9 DEF CommitResult
    <3>2. k \in JobId /\ job[k] \in JobRow
      BY <2>1 DEF TypeOK
    <3>3. x.analysed
      BY <3>2 DEF JobRow
    <3>. HIDE DEF x, k
    <3>4. job'[k].analysed
      BY <3>1, <3>2, <3>3, OneRow
    <3>. QED BY <3>4 DEF k
  <2>. QED BY <1>4, <2>1, <2>2 DEF HasResult
<1>10. ASSUME s.pc \in HasResult PROVE s.pc \notin {"idle", "claim"} /\ job'[s.job].analysed
  BY <1>0, <1>1, <1>10 DEF Knows, HasResult
<1>11. ASSUME NEW x, Becomes(w, x), s.pc \in HasResult, x.cands = s.cands, x.job = s.job,
              x.attempts = s.attempts, x.pc \in HasResult
       PROVE  Knows(w, worker[w])'
  <2>1. x.pc # "finish"
    BY <1>11 DEF HasResult
  <2>. QED BY <1>3, <1>10, <1>11, <2>1
<1>12. CASE Sweep(w)
  <2>. DEFINE todo == {c \in Channel : Open(delivery[s.job][c])}
              tries == [c \in Channel |-> delivery[s.job][c].attempts]
              x == [s EXCEPT !.pc = "deliver", !.todo = todo, !.tries = tries]
  <2>1. Becomes(w, x) /\ s.pc = "sweep"
    BY <1>12 DEF Sweep
  <2>2. x.cands = s.cands /\ x.job = s.job /\ x.attempts = s.attempts /\ x.pc = "deliver"
    <3>. HIDE DEF todo, tries
    <3>. QED BY <1>0 DEF WorkerState
  <2>. HIDE DEF x, s
  <2>. QED BY <1>11, <2>1, <2>2 DEF HasResult
<1>13. CASE Deliver(w)
  <2>1. PICK c \in s.todo :
          \/ Finish(w, "cancelled")
          \/ Becomes(w, [s EXCEPT !.todo = s.todo \ {c}])
          \/ Becomes(w, [s EXCEPT !.pc = "grab", !.channel = c, !.todo = s.todo \ {c}])
    BY <1>13 DEF Deliver
  <2>2. s.pc = "deliver"
    BY <1>13 DEF Deliver
  <2>3. CASE Finish(w, "cancelled")
    BY <1>5, <2>2, <2>3
  <2>. DEFINE todo == s.todo \ {c}
              x == [s EXCEPT !.todo = todo]
              y == [s EXCEPT !.pc = "grab", !.channel = c, !.todo = todo]
  <2>4. /\ x.cands = s.cands /\ x.job = s.job /\ x.attempts = s.attempts /\ x.pc = "deliver"
        /\ y.cands = s.cands /\ y.job = s.job /\ y.attempts = s.attempts /\ y.pc = "grab"
    <3>. HIDE DEF todo
    <3>. QED BY <1>0, <2>2 DEF WorkerState
  <2>5. Finish(w, "cancelled") \/ Becomes(w, x) \/ Becomes(w, y)
    BY <2>1
  <2>. HIDE DEF x, y, s
  <2>. QED BY <1>11, <2>2, <2>3, <2>4, <2>5 DEF HasResult
<1>14. CASE DeliverEnd(w) \/ GrabDelivery(w)
  BY <1>4, <1>10, <1>14 DEF DeliverEnd, GrabDelivery, HasResult
<1>15. CASE SendReaches(w) \/ SendFails(w)
  <2>1. PICK o \in {"sent", "error"} : Becomes(w, [s EXCEPT !.pc = "confirm", !.outcome = o])
    BY <1>15 DEF SendReaches, SendFails
  <2>2. s.pc = "send"
    BY <1>15 DEF SendReaches, SendFails
  <2>. DEFINE x == [s EXCEPT !.pc = "confirm", !.outcome = o]
  <2>3. x.cands = s.cands /\ x.job = s.job /\ x.attempts = s.attempts /\ x.pc = "confirm"
    BY <1>0 DEF WorkerState
  <2>4. Becomes(w, x)
    BY <2>1
  <2>. HIDE DEF x, s
  <2>. QED BY <1>11, <2>2, <2>3, <2>4 DEF HasResult
<1>16. CASE Confirm(w)
  <2>. DEFINE x == [s EXCEPT !.pc = "deliver", !.channel = NoChannel, !.outcome = "none"]
  <2>1. Becomes(w, x) /\ s.pc = "confirm"
    BY <1>16 DEF Confirm
  <2>2. x.cands = s.cands /\ x.job = s.job /\ x.attempts = s.attempts /\ x.pc = "deliver"
    BY <1>0 DEF WorkerState
  <2>. HIDE DEF x, s
  <2>. QED BY <1>11, <2>1, <2>2 DEF HasResult
<1>17. CASE CountPending(w)
  <2>1. PICK o \in {"delivery", "done"} : Finish(w, o)
    BY <1>17 DEF CountPending
  <2>2. s.pc = "count"
    BY <1>17 DEF CountPending
  <2>. QED BY <1>5, <1>10, <2>1, <2>2 DEF HasResult
<1>18. CASE Shutdown(w)
  <2>. DEFINE x == [s EXCEPT !.ctx = 0]
  <2>1. worker'[w] = x
    BY <1>0, <1>18 DEF Shutdown, Becomes
  <2>2. /\ x.cands = s.cands /\ x.job = s.job /\ x.attempts = s.attempts /\ x.pc = s.pc
        /\ x.analysed = s.analysed /\ x.outcome = s.outcome
    BY <1>0 DEF WorkerState
  <2>3. job' = job
    BY <1>18 DEF Shutdown
  <2>. HIDE DEF x
  <2>. QED BY <1>0, <2>1, <2>2, <2>3 DEF Knows
<1>19. CASE CommitRefused(w) \/ FinishJob(w) \/ TimedOut(w) \/ Crash(w)
  BY <1>2, <1>19 DEF CommitRefused, FinishJob, TimedOut, Crash
<1>20. CASE ClaimRead(w) \/ ClaimExhausted(w) \/ ClaimGrant(w) \/ ClaimLost(w)
  BY <1>20, ClaimKnows
<1>. QED
  BY <1>6, <1>7, <1>8, <1>9, <1>12, <1>13, <1>14, <1>15, <1>16, <1>17, <1>18, <1>19, <1>20 DEF ProcessOne

\* Time passes, and what the jobs and their workers are about stays.
LEMMA TickRows ==
    ASSUME TypeOK, JobInv, Tick
    PROVE  /\ \A j \in JobId : Same(j)
           /\ \A w \in Worker : Knows(w, worker[w])'
           /\ \A g \in Group : /\ group'[g].start = group[g].start
                               /\ group'[g].resolved = group[g].resolved
                               /\ group'[g].job = group[g].job
                               /\ group'[g].cool > 0 => group[g].cool > 0
<1>1. ASSUME NEW j \in JobId PROVE Same(j)
  <2>1. job[j] \in JobRow /\ job'[j] = [job[j] EXCEPT !.next = Less(job[j].next), !.lease = Less(job[j].lease)]
    BY <1>1 DEF TypeOK, Tick
  <2>. QED BY <2>1 DEF Same, SameJob, JobRow
<1>2. ASSUME NEW w \in Worker PROVE Knows(w, worker[w])'
  <2>. DEFINE x == [worker[w] EXCEPT !.ctx = Less(worker[w].ctx), !.lease = Less(worker[w].lease)]
  <2>1. worker[w] \in WorkerState /\ worker'[w] = x /\ Knows(w, worker[w])
    BY DEF TypeOK, Tick, JobInv
  <2>2. /\ x.cands = worker[w].cands /\ x.job = worker[w].job /\ x.attempts = worker[w].attempts
        /\ x.pc = worker[w].pc /\ x.analysed = worker[w].analysed /\ x.outcome = worker[w].outcome
    BY <2>1 DEF WorkerState
  <2>3. \A r \in worker[w].cands : r.id \in JobId
    BY ActingWorker DEF Candidate
  <2>4. worker[w].pc \notin {"idle", "claim"} => worker[w].job \in JobId
    BY DEF TypeOK
  <2>. HIDE DEF x
  <2>. QED BY <1>1, <2>1, <2>2, <2>3, <2>4 DEF Knows, HasResult, Same
<1>3. ASSUME NEW g \in Group
      PROVE  /\ group'[g].start = group[g].start /\ group'[g].resolved = group[g].resolved
             /\ group'[g].job = group[g].job /\ (group'[g].cool > 0 => group[g].cool > 0)
  <2>1. group[g] \in GroupRow /\ group'[g] = [group[g] EXCEPT !.cool = Less(group[g].cool)]
    BY DEF TypeOK, Tick
  <2>2. Less(group[g].cool) > 0 => group[g].cool > 0
    BY <2>1 DEF Less, GroupRow
  <2>. QED BY <2>1, <2>2 DEF GroupRow
<1>. QED
  BY <1>1, <1>2, <1>3

\* A worker does not bring the job of a recovered incident back, and nobody but its own
\* worker cancels the job of a group that fires.
LEMMA CurrentKept ==
    ASSUME TypeOK, JobInv, NEW g \in Group,
           group'[g].start = group[g].start, group'[g].resolved = group[g].resolved,
           group'[g].job = group[g].job,
           group[g].job # NoJob => ByWorker(group[g].job),
           group'[g].cool > 0 =>
              \/ group[g].cool > 0
              \/ group[g].job # NoJob /\ job'[group[g].job].analysed
    PROVE  CurrentOf(g)'
<1>. DEFINE k == group[g].job
<1>1. CurrentOf(g) /\ (k # NoJob => k \in JobId)
  BY DEF JobInv, TypeOK, GroupRow
<1>2. CASE k = NoJob
  BY <1>1, <1>2 DEF CurrentOf
<1>3. CASE k # NoJob
  <2>1. k \in JobId /\ ByWorker(k) /\ RowOf(k) /\ job[k].attempts \in Nat /\ Nobody \notin Worker
    BY <1>1, <1>3, JobShape, NamesAssumption DEF JobInv
  <2>2. /\ job[k].status # "none" /\ job[k].group = g /\ job[k].start <= group[g].start
        /\ group[g].resolved = 0 => job[k].start = group[g].start
        /\ group[g].resolved > 0 => ~Hit(g, k)
        /\ job[k].status = "cancelled" => job[k].owner = Nobody
        /\ group[g].cool > 0 => job[k].analysed
    BY <1>1, <1>3 DEF CurrentOf
  <2>3. Grows(k) /\ RowOf(k)'
    BY <2>1, RowGrows DEF ByAny
  <2>4. SameJob(k) /\ job'[k].status # "none" /\ (job[k].analysed => job'[k].analysed)
    BY <2>2, <2>3 DEF Grows
  <2>5. job'[k].status = "cancelled" => job'[k].owner = Nobody
    BY <2>1, <2>2 DEF ByWorker, Same, UsedUp, Committed, Taken, Finished, Claimable
  <2>6. ASSUME ~Hit(g, k) PROVE ~(job'[k].group = g /\ ~job'[k].analysed /\ job'[k].status \in Unfinished)
    <3>1. job[k].analysed \/ job[k].status \notin {"queued", "working"}
      BY <2>2, <2>6 DEF Hit, Unfinished
    <3>2. CASE Same(k)
      BY <2>2, <2>6, <3>2 DEF Hit, Same, SameJob
    <3>3. CASE UsedUp(k)
      BY <3>3 DEF Hit, UsedUp, Unfinished
    <3>4. CASE Committed(k)
      BY <3>4 DEF Hit, Committed
    <3>5. ASSUME NEW w \in Worker, Taken(w, k) PROVE ~(job'[k].group = g /\ ~job'[k].analysed /\ job'[k].status \in Unfinished)
      <4>1. job[k].analysed
        BY <2>1, <3>1, <3>5 DEF Taken, RowOf, Claimable
      <4>. QED BY <2>4, <4>1 DEF Hit
    <3>6. ASSUME NEW w \in Worker, Finished(w, k) PROVE ~(job'[k].group = g /\ ~job'[k].analysed /\ job'[k].status \in Unfinished)
      <4>1. CASE job[k].analysed
        BY <2>4, <4>1 DEF Hit
      <4>2. CASE ~job[k].analysed
        <5>1. job[k].owner = w /\ w # Nobody
          BY <2>1, <3>6 DEF Finished
        <5>2. job[k].status \in Claimable \cup Terminal
          BY <2>1, <2>2, JobShape
        <5>3. job[k].attempts >= MaxAttempts
          BY <2>1, <2>2, <3>1, <4>2, <5>1, <5>2 DEF RowOf, Claimable, Terminal
        <5>4. worker[w].outcome # "queued" /\ worker[w].outcome # "working"
          BY <2>1, <3>6, <5>3, OutcomeFits, AttemptsAssumption
        <5>. QED BY <3>6, <5>4 DEF Hit, Unfinished, Finished
      <4>. QED BY <4>1, <4>2
    <3>. QED BY <2>1, <3>2, <3>3, <3>4, <3>5, <3>6 DEF ByWorker
  <2>7. group'[g].job = k
    OBVIOUS
  <2>8. group'[g].cool > 0 => job'[k].analysed
    BY <2>2, <2>4
  <2>. HIDE DEF k
  <2>. QED BY <1>3, <2>2, <2>4, <2>5, <2>6, <2>7, <2>8 DEF CurrentOf, SameJob, Hit
<1>. QED
  BY <1>2, <1>3

\* The writes of a request on jobs of other groups, and on the job of its own.
LEMMA ResolveRows ==
    ASSUME TypeOK, NEW n \in Notifier, EnqueueResolve(n), NEW j \in JobId
    PROVE  LET e == Head(notifier[n].todo)
           IN  \/ job'[j] = job[j] /\ (Hit(e.group, j) => job[j].start > e.start)
               \/ Hit(e.group, j) /\ Cancelled(j) /\ job'[j].owner = Nobody
<1>. DEFINE e == Head(notifier[n].todo)
            x == [job[j] EXCEPT !.status = "cancelled", !.owner = Nobody, !.lease = 0]
<1>1. job[j] \in JobRow
  BY DEF TypeOK
<1>2. job'[j] = IF Hit(e.group, j) /\ job[j].start <= e.start THEN x ELSE job[j]
  <2>1. job' = CancelledByRecovery(e)
    BY DEF EnqueueResolve
  <2>. HIDE DEF e
  <2>. QED BY <2>1 DEF CancelledByRecovery
<1>3. /\ x.group = job[j].group /\ x.start = job[j].start /\ x.analysed = job[j].analysed
      /\ x.attempts = job[j].attempts /\ x.status = "cancelled" /\ x.owner = Nobody
  BY <1>1 DEF JobRow
<1>4. job[j].start \in Nat /\ e.start \in Nat
  BY JobShape, Decided DEF EnqueueResolve
<1>. HIDE DEF e, x
<1>5. ASSUME Hit(e.group, j) /\ job[j].start <= e.start
      PROVE  Cancelled(j) /\ job'[j].owner = Nobody
  BY <1>2, <1>3, <1>5 DEF Cancelled, SameJob, Hit
<1>6. ASSUME ~(Hit(e.group, j) /\ job[j].start <= e.start)
      PROVE  job'[j] = job[j] /\ (Hit(e.group, j) => job[j].start > e.start)
  BY <1>2, <1>4, <1>6
<1>7. \/ job'[j] = job[j] /\ (Hit(e.group, j) => job[j].start > e.start)
      \/ Hit(e.group, j) /\ Cancelled(j) /\ job'[j].owner = Nobody
  BY <1>5, <1>6
<1>. QED
  BY <1>7 DEF e

LEMMA OpenRows ==
    ASSUME TypeOK, NEW n \in Notifier, EnqueueOpen(n)
    PROVE  LET e == Head(notifier[n].todo)
           IN  \E new \in JobId :
                  /\ group' = [group EXCEPT ![e.group] = [version |-> group[e.group].version + 1,
                                  start |-> e.start, resolved |-> 0, job |-> new, cool |-> 0]]
                  /\ job[new].status = "none"
                  /\ job'[new] = NewJob(e)
                  /\ \A j \in JobId : j # new /\ job[j].group # e.group => job'[j] = job[j]
<1>. DEFINE e == Head(notifier[n].todo)
            others == IF notifier[n].plan = "open" THEN SupersededBy(e) ELSE job
<1>1. PICK new \in Free :
         /\ job' = [others EXCEPT ![new] = NewJob(e)]
         /\ group' = [group EXCEPT ![e.group] = [version |-> group[e.group].version + 1,
                         start |-> e.start, resolved |-> 0, job |-> new, cool |-> 0]]
  BY DEF EnqueueOpen
<1>2. new \in JobId /\ job[new].status = "none" /\ job \in [JobId -> JobRow]
  BY DEF Free, TypeOK
<1>. HIDE DEF e
<1>3. DOMAIN others = JobId /\ \A j \in JobId : job[j].group # e.group => others[j] = job[j]
  BY <1>2 DEF SupersededBy, Hit
<1>4. /\ job'[new] = NewJob(e)
      /\ \A j \in JobId : j # new => job'[j] = others[j]
  <2>. DEFINE x == NewJob(e)
  <2>. HIDE DEF others, x
  <2>1. job' = [others EXCEPT ![new] = x]
    BY <1>1 DEF x
  <2>2. job'[new] = x /\ \A j \in JobId : j # new => job'[j] = others[j]
    BY <1>2, <1>3, <2>1
  <2>. QED BY <2>2 DEF x
<1>. HIDE DEF others
<1>5. \A j \in JobId : j # new /\ job[j].group # e.group => job'[j] = job[j]
  BY <1>3, <1>4
<1>6. /\ group' = [group EXCEPT ![e.group] = [version |-> group[e.group].version + 1,
                         start |-> e.start, resolved |-> 0, job |-> new, cool |-> 0]]
  BY <1>1
<1>7. e = Head(notifier[n].todo)
  BY DEF e
<1>. QED
  BY <1>2, <1>4, <1>5, <1>6, <1>7

\* A group whose row and whose job stay as they are.
LEMMA CurrentAlone ==
    ASSUME TypeOK, JobInv, NEW g \in Group, group'[g] = group[g],
           group[g].job # NoJob => job'[group[g].job] = job[group[g].job]
    PROVE  CurrentOf(g)'
  BY DEF JobInv, CurrentOf, Hit

LEMMA ResolveCurrent ==
    ASSUME TypeOK, PlanInv, JobInv, NEW n \in Notifier, EnqueueResolve(n), NEW g \in Group
    PROVE  CurrentOf(g)'
<1>. DEFINE e == Head(notifier[n].todo)
            h == e.group
            k == group[g].job
<1>1. /\ notifier[n].pc = "write" /\ notifier[n].plan = "resolve" /\ notifier[n].version = group[h].version
      /\ group' = [group EXCEPT ![h] = [group[h] EXCEPT
                        !.start = e.start, !.resolved = e.end, !.version = group[h].version + 1]]
  BY DEF EnqueueResolve, Unmoved
<1>2. h \in Group /\ e.start \in Nat /\ e.end \in Nat /\ e.start > 0
  <2>1. h \in Group /\ e.start \in Nat /\ e.end \in Nat /\ e \in Event
    BY <1>1, Decided
  <2>2. e.start \in StartTimes
    <3>. HIDE DEF e
    <3>. QED BY <2>1 DEF Event
  <2>3. \A t \in StartTimes : t # 0
    BY TimesAssumption
  <2>. HIDE DEF e
  <2>. QED BY <2>1, <2>2, <2>3 DEF h
<1>3. e.start >= group[h].start /\ e.end >= e.start
  BY <1>1 DEF PlanInv, Founded, Target
<1>4. /\ CurrentOf(g) /\ (k # NoJob => k \in JobId) /\ group \in [Group -> GroupRow]
      /\ group[g].start \in Nat
  BY GroupNumbers DEF JobInv, TypeOK, GroupRow
<1>5. CASE g # h
  <2>1. group'[g] = group[g]
    <3>. DEFINE r == [group[h] EXCEPT !.start = e.start, !.resolved = e.end, !.version = group[h].version + 1]
    <3>1. group' = [group EXCEPT ![h] = r]
      BY <1>1
    <3>. HIDE DEF r, h
    <3>. QED BY <1>2, <1>4, <1>5, <3>1
  <2>2. ASSUME k # NoJob PROVE job'[k] = job[k]
    <3>1. k \in JobId /\ job[k].group = g
      BY <1>4, <2>2 DEF CurrentOf
    <3>. QED BY <1>5, <3>1, ResolveRows DEF Hit
  <2>. QED BY <2>1, <2>2, CurrentAlone
<1>6. CASE g = h
  <2>. DEFINE v == group[h].version + 1
              r == [group[h] EXCEPT !.start = e.start, !.resolved = e.end, !.version = v]
  <2>1. group'[g] = r
    <3>1. group' = [group EXCEPT ![h] = r]
      BY <1>1
    <3>. HIDE DEF r, h
    <3>. QED BY <1>2, <1>4, <1>6, <3>1
  <2>2. /\ r.start = e.start /\ r.resolved = e.end /\ r.job = group[h].job /\ r.cool = group[h].cool
    <3>1. group[h] \in GroupRow
      BY <1>2, <1>4
    <3>. HIDE DEF e, h, v
    <3>. QED BY <3>1 DEF GroupRow
  <2>3. /\ group'[g].start = e.start /\ group'[g].resolved = e.end /\ group'[g].job = k
        /\ group'[g].cool = group[g].cool /\ e.end > 0
    BY <1>2, <1>3, <1>6, <2>1, <2>2
  <2>4. CASE k = NoJob
    BY <1>4, <2>3, <2>4 DEF CurrentOf
  <2>5. CASE k # NoJob
    <3>1. /\ k \in JobId /\ job[k].status # "none" /\ job[k].group = g /\ job[k].start <= group[g].start
          /\ job[k].status = "cancelled" => job[k].owner = Nobody
          /\ group[g].cool > 0 => job[k].analysed
          /\ job[k].start \in Nat
      BY <1>4, <2>5, JobShape DEF CurrentOf
    <3>2. job[k].start <= e.start
      <4>1. job[k].start <= group[g].start /\ group[g].start <= e.start /\ e.start \in Nat
        BY <1>2, <1>3, <1>6, <3>1
      <4>. HIDE DEF e, k
      <4>. QED BY <1>4, <3>1, <4>1
    <3>3. \/ job'[k] = job[k] /\ ~Hit(g, k)
          \/ Cancelled(k) /\ job'[k].owner = Nobody
      <4>1. \/ job'[k] = job[k] /\ (Hit(g, k) => job[k].start > e.start)
            \/ Cancelled(k) /\ job'[k].owner = Nobody
        BY <1>6, <3>1, ResolveRows
      <4>. QED BY <1>2, <3>1, <3>2, <4>1
    <3>4. /\ job'[k].status # "none" /\ job'[k].group = g /\ job'[k].start = job[k].start
          /\ job'[k].status = "cancelled" => job'[k].owner = Nobody
          /\ group[g].cool > 0 => job'[k].analysed
          /\ ~(job'[k].status \in Unfinished /\ ~job'[k].analysed /\ job'[k].group = g)
      BY <3>1, <3>3 DEF Cancelled, SameJob, Hit, Unfinished
    <3>. HIDE DEF k, e
    <3>. QED BY <1>2, <2>3, <2>5, <3>2, <3>4 DEF CurrentOf, Hit
  <2>. QED BY <2>4, <2>5
<1>. QED
  BY <1>5, <1>6

LEMMA OpenCurrent ==
    ASSUME TypeOK, JobInv, NEW n \in Notifier, EnqueueOpen(n), NEW g \in Group
    PROVE  CurrentOf(g)'
<1>. DEFINE e == Head(notifier[n].todo)
            h == e.group
            k == group[g].job
<1>1. PICK new \in JobId :
         /\ group' = [group EXCEPT ![h] = [version |-> group[h].version + 1,
                         start |-> e.start, resolved |-> 0, job |-> new, cool |-> 0]]
         /\ job[new].status = "none"
         /\ job'[new] = NewJob(e)
         /\ \A j \in JobId : j # new /\ job[j].group # h => job'[j] = job[j]
  BY OpenRows
<1>2. h \in Group /\ e.start \in Nat
  BY Decided DEF EnqueueOpen
<1>3. CurrentOf(g) /\ (k # NoJob => k \in JobId) /\ group \in [Group -> GroupRow]
  BY DEF JobInv, TypeOK, GroupRow
<1>. DEFINE r == [version |-> group[h].version + 1, start |-> e.start, resolved |-> 0, job |-> new, cool |-> 0]
<1>4. \A i \in Group : group'[i] = IF i = h THEN r ELSE group[i]
  <2>1. group' = [group EXCEPT ![h] = r]
    BY <1>1
  <2>. HIDE DEF r, h
  <2>. QED BY <1>2, <1>3, <2>1
<1>5. CASE g # h
  <2>1. group'[g] = group[g]
    BY <1>4, <1>5
  <2>2. ASSUME k # NoJob PROVE job'[k] = job[k]
    <3>1. k \in JobId /\ job[k].group = g /\ job[k].status # "none"
      BY <1>3, <2>2 DEF CurrentOf
    <3>. QED BY <1>1, <1>5, <3>1
  <2>. QED BY <2>1, <2>2, CurrentAlone
<1>6. CASE g = h
  <2>1. /\ group'[g].start = e.start /\ group'[g].resolved = 0 /\ group'[g].job = new /\ group'[g].cool = 0
    <3>1. group'[g] = r
      BY <1>4, <1>6
    <3>. QED BY <3>1
  <2>2. new # NoJob
    BY BoundsAssumption DEF JobId, NoJob
  <2>3. /\ job'[new].group = g /\ job'[new].start = e.start /\ job'[new].status = "queued"
    <3>1. job'[new] = NewJob(e)
      BY <1>1
    <3>. HIDE DEF e
    <3>. QED BY <1>6, <3>1 DEF NewJob, FreeJob, h
  <2>. HIDE DEF e, k
  <2>. QED BY <1>2, <2>1, <2>2, <2>3 DEF CurrentOf
<1>. QED
  BY <1>5, <1>6

\* A worker changes a group row only with the result of the group's own job.
LEMMA WorkGroups ==
    ASSUME TypeOK, NEW w \in Worker, ProcessOne(w) \/ Crash(w) \/ Shutdown(w), NEW g \in Group
    PROVE  /\ group'[g].start = group[g].start /\ group'[g].resolved = group[g].resolved
           /\ group'[g].job = group[g].job
           /\ group'[g].cool > 0 =>
                 \/ group[g].cool > 0
                 \/ group[g].job # NoJob /\ job'[group[g].job].analysed
<1>1. CASE group' = group
  BY <1>1
<1>2. CASE CommitResult(w) /\ group' # group
  <2>. DEFINE k == worker[w].job
              h == job[k].group
              v == group[h].version + 1
              r == [group[h] EXCEPT !.cool = Cooldown, !.version = v]
              x == [job[k] EXCEPT !.analysed = TRUE, !.status = "delivery"]
  <2>1. /\ job' = [job EXCEPT ![k] = x] /\ group' = [group EXCEPT ![h] = r]
        /\ group[h].job = k /\ worker[w].pc = "commit"
    BY <1>2 DEF CommitResult, Current
  <2>2. k \in JobId /\ job[k] \in JobRow /\ k # NoJob
    <3>1. k \in JobId /\ job[k] \in JobRow
      BY <2>1 DEF TypeOK
    <3>. HIDE DEF k
    <3>. QED BY <3>1, BoundsAssumption DEF JobId, NoJob
  <2>3. job'[k].analysed
    <3>1. x.analysed
      BY <2>2 DEF JobRow
    <3>2. job' = [job EXCEPT ![k] = x]
      BY <2>1
    <3>. HIDE DEF x, k
    <3>. QED BY <2>2, <3>1, <3>2, OneRow
  <2>4. CASE g # h
    <3>1. group'[g] = group[g]
      <4>. HIDE DEF r, h
      <4>. QED BY <2>1, <2>4 DEF TypeOK
    <3>. QED BY <3>1
  <2>5. CASE g = h
    <3>1. group'[g] = r /\ group[h] \in GroupRow
      <4>. HIDE DEF r, h
      <4>. QED BY <2>1, <2>5 DEF TypeOK
    <3>2. r.start = group[h].start /\ r.resolved = group[h].resolved /\ r.job = group[h].job
      <4>. HIDE DEF v, h
      <4>. QED BY <3>1 DEF GroupRow
    <3>. HIDE DEF r, h, k
    <3>. QED BY <2>1, <2>2, <2>3, <2>5, <3>1, <3>2
  <2>. QED BY <2>4, <2>5
<1>3. ASSUME ~CommitResult(w) PROVE group' = group
  <2>1. CASE ClaimRead(w) \/ ClaimExhausted(w) \/ ClaimGrant(w) \/ ClaimLost(w)
    BY <2>1 DEF ClaimRead, ClaimExhausted, ClaimGrant, ClaimLost
  <2>2. CASE Check(w) \/ AnalyzeOk(w) \/ AnalyzeFail(w) \/ CommitRefused(w) \/ DeliverEnd(w)
    BY <2>2 DEF Check, AnalyzeOk, AnalyzeFail, CommitRefused, DeliverEnd
  <2>3. CASE Sweep(w) \/ Deliver(w) \/ GrabDelivery(w)
    BY <2>3 DEF Sweep, Deliver, GrabDelivery
  <2>4. CASE SendReaches(w) \/ SendFails(w) \/ Confirm(w)
    BY <2>4 DEF SendReaches, SendFails, Confirm
  <2>5. CASE CountPending(w) \/ FinishJob(w) \/ TimedOut(w) \/ Crash(w) \/ Shutdown(w)
    BY <2>5 DEF CountPending, FinishJob, TimedOut, Crash, Shutdown
  <2>. QED BY <1>3, <2>1, <2>2, <2>3, <2>4, <2>5 DEF ProcessOne
<1>. QED
  BY <1>1, <1>2, <1>3

\* A step of a worker changes no other worker.
LEMMA WorkAlone ==
    ASSUME TypeOK, NEW w \in Worker, ProcessOne(w) \/ Crash(w) \/ Shutdown(w), NEW v \in Worker, v # w
    PROVE  worker'[v] = worker[v]
<1>1. ASSUME NEW x, Becomes(w, x) PROVE worker'[v] = worker[v]
  BY <1>1 DEF Becomes, TypeOK
<1>2. ASSUME NEW x, Finish(w, x) \/ Goto(w, x) \/ Return(w) \/ SkipCandidate(w, x)
      PROVE  worker'[v] = worker[v]
  BY <1>1, <1>2 DEF Finish, Goto, Return, SkipCandidate
<1>3. CASE ClaimRead(w) \/ ClaimExhausted(w) \/ ClaimGrant(w) \/ ClaimLost(w)
  BY <1>1, <1>2, <1>3 DEF ClaimRead, ClaimExhausted, ClaimGrant, ClaimLost
<1>4. CASE Check(w) \/ AnalyzeOk(w) \/ AnalyzeFail(w) \/ CommitResult(w) \/ CommitRefused(w)
  BY <1>2, <1>4 DEF Check, AnalyzeOk, AnalyzeFail, CommitResult, CommitRefused
<1>5. CASE Sweep(w) \/ SendReaches(w) \/ SendFails(w) \/ Confirm(w)
  BY <1>1, <1>5 DEF Sweep, SendReaches, SendFails, Confirm
<1>6. CASE Deliver(w)
  BY <1>1, <1>2, <1>6 DEF Deliver
<1>7. CASE DeliverEnd(w) \/ GrabDelivery(w) \/ CountPending(w) \/ FinishJob(w) \/ TimedOut(w)
  BY <1>2, <1>7 DEF DeliverEnd, GrabDelivery, CountPending, FinishJob, TimedOut
<1>8. CASE Crash(w) \/ Shutdown(w)
  BY <1>1, <1>2, <1>8 DEF Crash, Shutdown
<1>. QED
  BY <1>3, <1>4, <1>5, <1>6, <1>7, <1>8 DEF ProcessOne

LEMMA JobInit == Init => JobInv
<1>. SUFFICES ASSUME Init PROVE JobInv
  OBVIOUS
<1>1. \A w \in Worker : Knows(w, worker[w])
  BY DEF Init, Knows, IdleWorker, HasResult
<1>2. \A j \in JobId : RowOf(j)
  BY DEF Init, RowOf, FreeJob
<1>3. \A g \in Group : CurrentOf(g)
  BY DEF Init, CurrentOf, NewGroup
<1>. QED
  BY <1>1, <1>2, <1>3 DEF JobInv

\* What every step does to a job.
LEMMA StepRows ==
    ASSUME TypeOK, JobInv, [Next]_vars, NEW j \in JobId
    PROVE  ByAny(j)
<1>1. CASE UNCHANGED vars \/ Edit
  BY <1>1 DEF vars, Edit, ByAny, ByRequest, Same, SameJob
<1>2. CASE \E n \in Notifier : Notify(n) \/ Enqueue(n)
  BY <1>2, RequestRows DEF ByAny
<1>3. CASE \E w \in Worker : ProcessOne(w) \/ Crash(w) \/ Shutdown(w)
  BY <1>3, WorkRows DEF ByAny
<1>4. CASE Tick
  BY <1>4, TickRows DEF ByAny, ByRequest
<1>. QED
  BY <1>1, <1>2, <1>3, <1>4 DEF Next, Step

\* JobInv is inductive.
LEMMA JobStep == ASSUME TypeOK, TypeOK', PlanInv, JobInv, [Next]_vars PROVE JobInv'
<1>1. \A j \in JobId : ByAny(j) /\ Grows(j) /\ RowOf(j)'
  BY StepRows, RowGrows
<1>2. ASSUME worker' = worker PROVE \A w \in Worker : Knows(w, worker[w])'
  BY <1>1, <1>2, KnowsOn
<1>3. ASSUME UNCHANGED <<group, job>> PROVE \A g \in Group : CurrentOf(g)'
  BY <1>3, CurrentAlone
<1>4. CASE UNCHANGED vars \/ Edit
  BY <1>1, <1>2, <1>3, <1>4 DEF vars, Edit, JobInv
<1>5. ASSUME NEW n \in Notifier, Notify(n) \/ Enqueue(n) PROVE JobInv'
  <2>1. \A w \in Worker : Knows(w, worker[w])'
    <3>1. worker' = worker
      BY <1>5 DEF Notify, Enqueue, EnqueueRead, EnqueueResolve, EnqueueOpen, EnqueueRetry
    <3>. QED BY <1>2, <3>1
  <2>2. \A g \in Group : CurrentOf(g)'
    <3>1. CASE EnqueueResolve(n) \/ EnqueueOpen(n)
      BY <3>1, ResolveCurrent, OpenCurrent
    <3>2. CASE Notify(n) \/ EnqueueRead(n) \/ EnqueueRetry(n)
      BY <1>3, <3>2 DEF Notify, EnqueueRead, EnqueueRetry
    <3>. QED BY <1>5, <3>1, <3>2 DEF Enqueue
  <2>. QED BY <1>1, <2>1, <2>2 DEF JobInv
<1>6. ASSUME NEW w \in Worker, ProcessOne(w) \/ Crash(w) \/ Shutdown(w) PROVE JobInv'
  <2>1. ASSUME NEW v \in Worker PROVE Knows(v, worker[v])'
    <3>1. CASE v = w
      BY <1>1, <1>6, <3>1, WorkKnows
    <3>2. CASE v # w
      BY <1>1, <1>6, <3>2, WorkAlone, KnowsOn
    <3>. QED BY <3>1, <3>2
  <2>2. ASSUME NEW g \in Group PROVE CurrentOf(g)'
    <3>1. group[g].job # NoJob => group[g].job \in JobId
      BY DEF TypeOK, GroupRow
    <3>2. group[g].job # NoJob => ByWorker(group[g].job)
      BY <1>6, <3>1, WorkRows
    <3>. QED BY <1>6, <3>2, WorkGroups, CurrentKept
  <2>. QED BY <1>1, <2>1, <2>2 DEF JobInv
<1>7. CASE Tick
  <2>1. ASSUME NEW g \in Group PROVE CurrentOf(g)'
    <3>1. group[g].job # NoJob => group[g].job \in JobId
      BY DEF TypeOK, GroupRow
    <3>2. group[g].job # NoJob => ByWorker(group[g].job)
      BY <1>7, <3>1, TickRows DEF ByWorker
    <3>3. /\ group'[g].start = group[g].start /\ group'[g].resolved = group[g].resolved
          /\ group'[g].job = group[g].job
          /\ group'[g].cool > 0 => group[g].cool > 0
      BY <1>7, TickRows
    <3>. QED BY <3>2, <3>3, CurrentKept
  <2>2. \A w \in Worker : Knows(w, worker[w])'
    BY <1>7, TickRows
  <2>. QED BY <1>1, <2>1, <2>2 DEF JobInv
<1>. QED
  BY <1>4, <1>5, <1>6, <1>7 DEF Next, Step

\* What the queue knows of its jobs is true of every reachable state.
THEOREM JobsKnown == Spec => []JobInv
<1>. QED
  BY InitType, TypeStep, PlanInit, PlanStep, JobInit, JobStep, PTL DEF Spec

\* A group that counts as firing points at a job of that very incident, whichever
\* requests and workers write the two rows.
THEOREM CurrentJobIsOfIncident == Spec => []CurrentJobMatches
<1>1. JobInv => CurrentJobMatches
  BY DEF JobInv, CurrentOf, CurrentJobMatches
<1>. QED
  BY JobsKnown, <1>1, PTL

\* After a recovery the job of the incident is never again waiting for, or in, analysis:
\* nobody who worked on it, claimed it or still runs past its lease puts it back.
THEOREM RecoveryQuietsItsJob == Spec => []RecoveredJobIsQuiet
<1>1. JobInv => RecoveredJobIsQuiet
  BY DEF JobInv, CurrentOf, RecoveredJobIsQuiet
<1>. QED
  BY JobsKnown, <1>1, PTL

\* The cooldown of a group was started by the result of the job it points at.
THEOREM CooldownsAreEarned == Spec => []CooldownIsEarned
<1>1. TypeOK /\ JobInv => CooldownIsEarned
  BY DEF JobInv, CurrentOf, CooldownIsEarned
<1>. QED
  BY JobsKnown, <1>1, InitType, TypeStep, PTL DEF Spec

\* No step takes a job out of "done", and none out of "failed" but a cancellation: the
\* worker that lost such a job no longer owns it or has no attempt left to give back.
THEOREM SettledJobsStay == Spec => SettledJobsRest
<1>1. ASSUME TypeOK, JobInv, [Next]_vars
      PROVE  [\A j \in JobId :
          /\ job[j].status = "done" => job'[j].status = "done"
          /\ job[j].status = "failed" => job'[j].status \in {"failed", "cancelled"}]_vars
  <2>1. ASSUME NEW j \in JobId, job[j].status \in {"done", "failed"}, job'[j].status # job[j].status
        PROVE  job[j].status = "failed" /\ job'[j].status \in {"failed", "cancelled"}
    <3>1. ByAny(j) /\ RowOf(j) /\ Nobody \notin Worker /\ job[j].attempts \in Nat
      BY <1>1, StepRows, JobShape, NamesAssumption DEF JobInv
    <3>2. PICK w \in Worker : Finished(w, j)
      BY <2>1, <3>1 DEF ByAny, ByRequest, ByWorker, Same, Born, Cancelled, UsedUp, Taken, Committed,
                        Unfinished, Claimable
    <3>3. /\ job[j].owner = w /\ w # Nobody /\ job'[j].status = worker[w].outcome
          /\ worker[w].outcome \in {"queued", "delivery", "done", "failed", "cancelled"}
          /\ worker[w].outcome \in {"delivery", "done"} => job[j].analysed
          /\ worker[w].outcome = "queued" => job[j].attempts < MaxAttempts
      BY <1>1, <3>2, OutcomeFits DEF Finished
    <3>4. job[j].status = "failed" /\ ~job[j].analysed /\ job[j].attempts >= MaxAttempts
      BY <2>1, <3>1, <3>3 DEF RowOf
    <3>. QED BY <3>1, <3>3, <3>4, AttemptsAssumption
  <2>. QED BY <2>1
<1>. QED
  BY <1>1, JobsKnown, InitType, TypeStep, PTL DEF Spec, SettledJobsRest
=============================================================================
