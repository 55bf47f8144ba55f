-------------------------- MODULE FeedClaimsProofs --------------------------
(* Theorems about FeedClaims, for every number of feeds, workers,           *)
(* schedulers, manual checks, attempts, retained failures and faults: fresh *)
(* error counts, one fetch per feed, and dormant feeds.                     *)
EXTENDS FeedClaims, TLAPS

\* A busy slot runs a job of the queue, and only a busy slot holds a lock.
BusySlots ==
    \A w \in Workers : /\ worker[w].phase # "idle" => worker[w].job \in JobIds
                       /\ worker[w].owns => worker[w].phase # "idle"

\* A locked job is the active job of the queue, and is locked by one slot.
OneOwnerPerJob ==
    \A w \in Workers : worker[w].owns =>
        /\ worker[w].job \in JobIds
        /\ jobs[worker[w].job].state = "active"
        /\ \A v \in Workers \ {w} : ~(worker[v].owns /\ worker[v].job = worker[w].job)

\* The retained list names the failed jobs, each once.
RetentionAgrees ==
    /\ \A i, k \in DOMAIN failed : i # k => failed[i] # failed[k]
    /\ \A j \in JobIds : jobs[j].state = "failed" <=> \E i \in DOMAIN failed : failed[i] = j

\* The inductive invariant: an owned job is active and owned once, so neither
\* a stall, an eviction nor an enqueue can touch it; an eviction takes a
\* failed job only because the retained list names failed jobs only.
IInv == TypeOK /\ BusySlots /\ RetentionAgrees /\ OneOwnerPerJob

USE ConstantsAssumption

\* A job id names its feed.
LEMMA JobIdsPairs == \A j \in JobIds : j[1] \in Feeds
  BY DEF JobIds

\* A job id that is not in Redis.
LEMMA AbsentType == Absent \in JobState /\ Absent.state = "absent"
  BY DEF Absent, JobState

\* A job as BullMQ adds it.
LEMMA QueuedType == Queued \in JobState /\ Queued.state = "waiting"
  BY DEF Queued, JobState

\* A free slot holds no lock.
LEMMA IdleSlotType == /\ IdleSlot \in Execution /\ IdleSlot.phase = "idle"
                      /\ ~IdleSlot.owns
  BY DEF IdleSlot, Execution

\* A scheduler between two ticks.
LEMMA IdleTickType == IdleTick \in Tick
  BY DEF IdleTick, Tick

\* Updating columns of a row keeps its type.
LEMMA RowUpdates ==
  ASSUME NEW r \in FeedRow
  PROVE  /\ \A d \in BOOLEAN : [r EXCEPT !.due = d] \in FeedRow
         /\ \A c \in {"none", "fresh", "stale"} : [r EXCEPT !.claim = c] \in FeedRow
         /\ \A st \in Statuses : [r EXCEPT !.status = st] \in FeedRow
  BY DEF FeedRow

\* Updating fields of a tick keeps its type.
LEMMA TickUpdates ==
  ASSUME NEW t \in Tick
  PROVE  /\ \A pc \in {"idle", "claim", "enqueue"} : [t EXCEPT !.pc = pc] \in Tick
         /\ \A F \in SUBSET Feeds : [t EXCEPT !.lookups = F] \in Tick
         /\ \A F \in SUBSET Feeds : [t EXCEPT !.adds = F] \in Tick
  BY DEF Tick

\* Init satisfies the invariant.
LEMMA InitIInv == Init => IInv
  <1> SUFFICES ASSUME Init PROVE IInv
    OBVIOUS
  <1>1. TypeOK
    <2>1. feeds \in [Feeds -> FeedRow]
      BY DEF Init, FeedRow, Statuses
    <2>2. jobs \in [JobIds -> JobState]
      BY AbsentType DEF Init
    <2>3. failed \in Seq(JobIds)
      BY DEF Init
    <2>4. sched \in [Schedulers -> Tick] /\ worker \in [Workers -> Execution]
      BY IdleTickType, IdleSlotType DEF Init
    <2> QED
      BY <2>1, <2>2, <2>3, <2>4 DEF Init, TypeOK
  <1>2. BusySlots /\ OneOwnerPerJob
    BY IdleSlotType DEF Init, BusySlots, OneOwnerPerJob
  <1>3. RetentionAgrees
    BY AbsentType DEF Init, RetentionAgrees
  <1> QED
    BY <1>1, <1>2, <1>3 DEF IInv

\* A step that leaves the queue, the retained failures and the slots alone
\* keeps everything but the type of what it changes.
LEMMA QueueUntouched ==
  ASSUME IInv, UNCHANGED <<jobs, failed, worker>>
  PROVE  BusySlots' /\ RetentionAgrees' /\ OneOwnerPerJob'
  BY DEF IInv, BusySlots, RetentionAgrees, OneOwnerPerJob

\* A feed comes due, or its claim grows old.
LEMMA TimeStep ==
  ASSUME IInv, NEW f \in Feeds, BecomeDue(f) \/ ClaimAges(f)
  PROVE  IInv'
  <1>1. feeds' \in [Feeds -> FeedRow]
    <2>1. CASE BecomeDue(f)
      BY <2>1, RowUpdates DEF IInv, TypeOK, BecomeDue
    <2>2. CASE ClaimAges(f)
      BY <2>2, RowUpdates DEF IInv, TypeOK, ClaimAges
    <2> QED
      BY <2>1, <2>2
  <1>2. TypeOK'
    BY <1>1 DEF IInv, TypeOK, BecomeDue, ClaimAges
  <1>3. UNCHANGED <<jobs, failed, worker>>
    BY DEF BecomeDue, ClaimAges
  <1> QED
    BY <1>2, <1>3, QueueUntouched DEF IInv

\* Faults stay within their bound.
LEMMA FaultType ==
  ASSUME TypeOK, NEW kind, Fault(kind)
  PROVE  faults' \in 0 .. MaxFaults
  BY DEF TypeOK, Fault

\* Requests stay within their bound.
LEMMA RequestType ==
  ASSUME TypeOK, Request
  PROVE  requests' \in 0 .. MaxRequests
  BY DEF TypeOK, Request

\* The sweep frees stale claims, or fails.
LEMMA SweepStep ==
  ASSUME IInv, NEW s \in Schedulers, Sweep(s)
  PROVE  IInv'
  <1>1. feeds' \in [Feeds -> FeedRow]
    <2>1. \A f \in Feeds : ReleaseStuck(feeds[f]) \in FeedRow
      BY RowUpdates DEF IInv, TypeOK, ReleaseStuck
    <2> QED
      BY <2>1 DEF IInv, TypeOK, Sweep
  <1>2. sched' \in [Schedulers -> Tick]
    BY TickUpdates DEF IInv, TypeOK, Sweep
  <1>3. faults' \in 0 .. MaxFaults
    BY FaultType DEF IInv, TypeOK, Sweep
  <1>4. TypeOK'
    BY <1>1, <1>2, <1>3 DEF IInv, TypeOK, Sweep
  <1>5. UNCHANGED <<jobs, failed, worker>>
    BY DEF Sweep
  <1> QED
    BY <1>4, <1>5, QueueUntouched DEF IInv

\* One UPDATE claims a batch.
LEMMA ClaimStep ==
  ASSUME IInv, NEW s \in Schedulers, ClaimDueFeeds(s)
  PROVE  IInv'
  <1> PICK batch \in SUBSET Claimable :
        /\ feeds' = [f \in Feeds |-> IF f \in batch
                                     THEN [feeds[f] EXCEPT !.claim = "fresh", !.due = FALSE]
                                     ELSE feeds[f]]
        /\ sched' = [sched EXCEPT ![s].pc = "enqueue",
                                  ![s].lookups = sched[s].lookups \cup batch]
    BY DEF ClaimDueFeeds
  <1>1. batch \subseteq Feeds
    BY DEF Claimable
  <1>2. feeds' \in [Feeds -> FeedRow]
    BY RowUpdates DEF IInv, TypeOK
  <1>3. sched' \in [Schedulers -> Tick]
    BY <1>1 DEF IInv, TypeOK, Tick
  <1>4. TypeOK'
    BY <1>2, <1>3 DEF IInv, TypeOK, ClaimDueFeeds
  <1>5. UNCHANGED <<jobs, failed, worker>>
    BY DEF ClaimDueFeeds
  <1> QED
    BY <1>4, <1>5, QueueUntouched DEF IInv

\* The scheduler's steps that leave the feeds table and the queue alone.
LEMMA TickStep ==
  ASSUME IInv, NEW s \in Schedulers,
         \/ ClaimFails(s) \/ TickEnds(s) \/ SchedulerCrash(s)
         \/ \E f \in Feeds : LookUpJob(s, f) \/ EnqueueFails(s, f)
  PROVE  IInv'
  <1>1. sched' \in [Schedulers -> Tick]
    <2>1. CASE ClaimFails(s)
      BY <2>1, TickUpdates DEF IInv, TypeOK, ClaimFails
    <2>2. CASE TickEnds(s)
      BY <2>2, TickUpdates DEF IInv, TypeOK, TickEnds
    <2>3. CASE SchedulerCrash(s)
      BY <2>3, IdleTickType DEF IInv, TypeOK, SchedulerCrash
    <2>4. CASE \E f \in Feeds : LookUpJob(s, f)
      <3> PICK f \in Feeds : LookUpJob(s, f)
        BY <2>4
      <3> DEFINE A == IF jobs[<<f, "scheduler">>].state = "absent"
                      THEN sched[s].adds \cup {f} ELSE sched[s].adds
                 L == sched[s].lookups \ {f}
      <3>1. L \in SUBSET Feeds /\ A \in SUBSET Feeds /\ sched[s] \in Tick
        BY DEF IInv, TypeOK, Tick
      <3>2. sched' = [sched EXCEPT ![s].lookups = L, ![s].adds = A]
        BY DEF LookUpJob
      <3> HIDE DEF A, L
      <3> QED
        BY <3>1, <3>2 DEF IInv, TypeOK, Tick
    <2>5. CASE \E f \in Feeds : EnqueueFails(s, f)
      <3> PICK f \in Feeds : EnqueueFails(s, f)
        BY <2>5
      <3> QED
        BY DEF IInv, TypeOK, EnqueueFails, Tick
    <2> QED
      BY <2>1, <2>2, <2>3, <2>4, <2>5
  <1>2. faults' \in 0 .. MaxFaults
    BY FaultType DEF IInv, TypeOK, ClaimFails, TickEnds, SchedulerCrash, LookUpJob, EnqueueFails
  <1>3. UNCHANGED <<feeds, jobs, failed, worker, updates, checks, requests>>
    BY DEF ClaimFails, TickEnds, SchedulerCrash, LookUpJob, EnqueueFails
  <1>4. TypeOK'
    BY <1>1, <1>2, <1>3 DEF IInv, TypeOK
  <1> QED
    BY <1>3, <1>4, QueueUntouched DEF IInv

\* BullMQ's add touches an absent id only.
LEMMA AddKeeps ==
  ASSUME IInv, NEW j \in JobIds, QueueAdd(j), UNCHANGED <<failed, worker>>
  PROVE  /\ jobs' \in [JobIds -> JobState]
         /\ BusySlots' /\ RetentionAgrees' /\ OneOwnerPerJob'
  <1>1. jobs' \in [JobIds -> JobState]
    BY QueuedType DEF IInv, TypeOK, QueueAdd
  <1>2. \A i \in JobIds : \/ jobs'[i] = jobs[i]
                          \/ jobs[i].state = "absent" /\ jobs'[i].state = "waiting"
    BY QueuedType DEF IInv, TypeOK, QueueAdd
  <1>3. RetentionAgrees'
    <2>1. \A i \in JobIds : jobs'[i].state = "failed" <=> jobs[i].state = "failed"
      BY <1>2
    <2> QED
      BY <2>1 DEF IInv, RetentionAgrees
  <1>4. BusySlots' /\ OneOwnerPerJob'
    BY <1>2 DEF IInv, BusySlots, OneOwnerPerJob
  <1> QED
    BY <1>1, <1>3, <1>4

\* The second half of an enqueue.
LEMMA AddStep ==
  ASSUME IInv, NEW s \in Schedulers, NEW f \in Feeds, AddJob(s, f)
  PROVE  IInv'
  <1>1. <<f, "scheduler">> \in JobIds
    BY DEF JobIds, Slots
  <1>2. sched' \in [Schedulers -> Tick]
    BY DEF IInv, TypeOK, Tick, AddJob
  <1>3. /\ jobs' \in [JobIds -> JobState]
        /\ BusySlots' /\ RetentionAgrees' /\ OneOwnerPerJob'
    BY <1>1, AddKeeps DEF AddJob
  <1>4. TypeOK'
    BY <1>2, <1>3 DEF IInv, TypeOK, AddJob
  <1> QED
    BY <1>3, <1>4 DEF IInv

\* PATCH and DELETE read and write the row, and check-now passes its test.
LEMMA ApiRowStep ==
  ASSUME IInv,
         \/ \E f \in Feeds, st \in Statuses \cup {"keep"}, p \in BOOLEAN : ReadForUpdate(f, st, p)
         \/ \E u \in updates : WriteUpdate(u)
         \/ \E f \in Feeds : AdmitCheck(f)
  PROVE  IInv'
  <1>1. CASE \E f \in Feeds, st \in Statuses \cup {"keep"}, p \in BOOLEAN : ReadForUpdate(f, st, p)
    <2> PICK f \in Feeds, st \in Statuses \cup {"keep"}, p \in BOOLEAN : ReadForUpdate(f, st, p)
      BY <1>1
    <2>1. feeds[f].status \in Statuses /\ feeds[f].due \in BOOLEAN
      BY DEF IInv, TypeOK, FeedRow
    <2> DEFINE next == IF st = "keep" THEN feeds[f].status ELSE st
               due  == \/ next = "active" /\ feeds[f].status # "active"
                       \/ ~(next = "active" /\ p) /\ feeds[f].due
    <2>a. next \in Statuses
      BY <2>1
    <2>b. due \in BOOLEAN
      BY <2>1, Zenon
    <2>c. [feed |-> f, status |-> next, due |-> due] \in Update
      BY <2>a, <2>b DEF Update
    <2>2. updates' \subseteq Update
      BY <2>c, Zenon DEF IInv, TypeOK, ReadForUpdate
    <2>3. requests' \in 0 .. MaxRequests
      BY RequestType DEF IInv, ReadForUpdate
    <2>4. TypeOK'
      BY <2>2, <2>3 DEF IInv, TypeOK, ReadForUpdate
    <2> QED
      BY <2>4, QueueUntouched DEF IInv, ReadForUpdate
  <1>2. CASE \E u \in updates : WriteUpdate(u)
    <2> PICK u \in updates : WriteUpdate(u)
      BY <1>2
    <2> DEFINE row == [feeds[u.feed] EXCEPT !.status = u.status, !.due = u.due]
    <2>a. u.feed \in Feeds /\ u.status \in Statuses /\ u.due \in BOOLEAN /\ feeds \in [Feeds -> FeedRow]
      BY DEF IInv, TypeOK, Update
    <2>b. row \in FeedRow
      <3>1. [feeds[u.feed] EXCEPT !.status = u.status] \in FeedRow
        BY <2>a, RowUpdates
      <3>2. row = [[feeds[u.feed] EXCEPT !.status = u.status] EXCEPT !.due = u.due]
        BY <2>a DEF FeedRow
      <3> QED
        BY <2>a, <3>1, <3>2, RowUpdates
    <2>c. feeds' = [feeds EXCEPT ![u.feed] = row]
      BY <2>a DEF WriteUpdate, FeedRow
    <2> HIDE DEF row
    <2>1. feeds' \in [Feeds -> FeedRow]
      BY <2>a, <2>b, <2>c
    <2>2. TypeOK'
      BY <2>1 DEF IInv, TypeOK, WriteUpdate
    <2> QED
      BY <2>2, QueueUntouched DEF IInv, WriteUpdate
  <1>3. CASE \E f \in Feeds : AdmitCheck(f)
    <2> PICK f \in Feeds : AdmitCheck(f)
      BY <1>3
    <2>1. requests' \in 0 .. MaxRequests
      BY RequestType DEF IInv, AdmitCheck
    <2>2. TypeOK'
      BY <2>1 DEF IInv, TypeOK, AdmitCheck
    <2> QED
      BY <2>2, QueueUntouched DEF IInv, AdmitCheck
  <1> QED
    BY <1>1, <1>2, <1>3

\* check-now adds a job under an id of its own.
LEMMA EnqueueCheckStep ==
  ASSUME IInv, NEW f \in Feeds, EnqueueCheck(f)
  PROVE  IInv'
  <1> PICK m \in ManualIds : QueueAdd(<<f, m>>)
    BY DEF EnqueueCheck
  <1>1. <<f, m>> \in JobIds
    BY DEF JobIds, Slots
  <1>2. /\ jobs' \in [JobIds -> JobState]
        /\ BusySlots' /\ RetentionAgrees' /\ OneOwnerPerJob'
    BY <1>1, AddKeeps DEF EnqueueCheck
  <1>3. TypeOK'
    BY <1>2 DEF IInv, TypeOK, EnqueueCheck
  <1> QED
    BY <1>2, <1>3 DEF IInv

\* What a report changes in its slot.
LEMMA ReportMoves ==
  ASSUME worker \in [Workers -> Execution], NEW w \in Workers,
         NEW ph \in {"completed", "failed", "unanswered"},
         Reported(w, ph) \/ worker' = [worker EXCEPT ![w].phase = ph]
  PROVE  /\ worker' \in [Workers -> Execution]
         /\ worker'[w].phase = ph /\ worker'[w].job = worker[w].job /\ worker'[w].owns = worker[w].owns
         /\ Reported(w, ph) => ~worker'[w].alone
         /\ \A v \in Workers \ {w} : worker'[v] = worker[v]
  <1> DEFINE e == [worker[w] EXCEPT !.phase = ph, !.errorCount = 0, !.alone = FALSE]
             d == [worker[w] EXCEPT !.phase = ph]
  <1>a. worker[w] \in Execution
    OBVIOUS
  <1>b. 0 \in 0 .. MaxErrors
    OBVIOUS
  <1>c. e.phase = ph /\ e.job = worker[w].job /\ e.owns = worker[w].owns /\ e.alone = FALSE
    BY <1>a DEF Execution
  <1>d. e \in Execution
    BY <1>a, <1>b DEF Execution
  <1>1. /\ e \in Execution /\ e.phase = ph /\ e.job = worker[w].job /\ e.owns = worker[w].owns
        /\ ~e.alone
    BY <1>c, <1>d
  <1>2. d \in Execution /\ d.phase = ph /\ d.job = worker[w].job /\ d.owns = worker[w].owns
    BY DEF Execution
  <1>3. (Reported(w, ph) /\ worker' = [worker EXCEPT ![w] = e])
          \/ (~Reported(w, ph) /\ worker' = [worker EXCEPT ![w] = d])
    BY DEF Reported
  <1> HIDE DEF e, d
  <1> QED
    BY <1>1, <1>2, <1>3

\* A slot that reports goes on holding its job and its lock.
LEMMA ReportKeeps ==
  ASSUME IInv, NEW w \in Workers, worker[w].phase \in {"fetching", "unanswered"},
         NEW ph \in {"completed", "failed", "unanswered"},
         Reported(w, ph) \/ worker' = [worker EXCEPT ![w].phase = ph],
         UNCHANGED <<jobs, failed>>
  PROVE  /\ worker' \in [Workers -> Execution]
         /\ BusySlots' /\ RetentionAgrees' /\ OneOwnerPerJob'
  <1>1. worker' \in [Workers -> Execution]
    BY ReportMoves DEF IInv, TypeOK
  <1>2. \A v \in Workers : /\ worker'[v].job = worker[v].job
                            /\ worker'[v].owns = worker[v].owns
                            /\ worker'[v].phase = IF v = w THEN ph ELSE worker[v].phase
    BY ReportMoves DEF IInv, TypeOK
  <1>3. BusySlots'
    BY <1>2 DEF IInv, BusySlots
  <1>4. OneOwnerPerJob'
    BY <1>2 DEF IInv, OneOwnerPerJob
  <1>5. RetentionAgrees'
    BY DEF IInv, RetentionAgrees
  <1> QED
    BY <1>1, <1>3, <1>4, <1>5

\* updateAfterFetch, or a report that is lost.
LEMMA ReportStep ==
  ASSUME IInv, NEW w \in Workers,
         \/ ReportSuccess(w) \/ SuccessUnanswered(w) \/ ReportLost(w)
         \/ \E kind \in FailureKinds : ReportFailure(w, kind)
  PROVE  IInv'
  <1>1. CASE ReportSuccess(w) \/ SuccessUnanswered(w)
    <2>1. feeds' \in [Feeds -> FeedRow]
      <3> DEFINE row == [status |-> "active", auto |-> FALSE, due |-> FALSE, errorCount |-> 0,
                         claim |-> "none"]
      <3>1. row \in FeedRow
        BY DEF FeedRow, Statuses
      <3>2. feeds' = [feeds EXCEPT ![worker[w].job[1]] = row]
        BY <1>1 DEF ReportSuccess, SuccessUnanswered, UpdateAfterFetch
      <3> HIDE DEF row
      <3> QED
        BY <3>1, <3>2 DEF IInv, TypeOK
    <2>2. /\ worker' \in [Workers -> Execution]
          /\ BusySlots' /\ RetentionAgrees' /\ OneOwnerPerJob'
      BY <1>1, ReportKeeps DEF ReportSuccess, SuccessUnanswered
    <2>3. faults' \in 0 .. MaxFaults
      BY <1>1, FaultType DEF IInv, TypeOK, ReportSuccess, SuccessUnanswered
    <2> QED
      BY <1>1, <2>1, <2>2, <2>3 DEF IInv, TypeOK, ReportSuccess, SuccessUnanswered
  <1>2. CASE ReportLost(w)
    <2>1. faults' \in 0 .. MaxFaults
      BY <1>2, FaultType DEF IInv, ReportLost
    <2>2. /\ worker' \in [Workers -> Execution]
          /\ BusySlots' /\ RetentionAgrees' /\ OneOwnerPerJob'
      BY <1>2, ReportKeeps DEF ReportLost
    <2> QED
      BY <1>2, <2>1, <2>2 DEF IInv, TypeOK, ReportLost
  <1>3. CASE \E kind \in FailureKinds : ReportFailure(w, kind)
    <2> PICK kind \in FailureKinds : ReportFailure(w, kind)
      BY <1>3
    <2> DEFINE n == NextErrorCount(worker[w].errorCount)
               auto == AutoPauses(kind, n)
               rethrow == kind # "terminal" /\ ~auto
    <2>1. n \in 0 .. MaxErrors
      BY DEF IInv, TypeOK, Execution, NextErrorCount
    <2>2. auto \in BOOLEAN /\ rethrow \in BOOLEAN
      BY Zenon DEF AutoPauses
    <2>3. /\ worker[w].phase \in {"fetching", "unanswered"}
          /\ UpdateAfterFetch(worker[w].job[1], IF rethrow THEN "error" ELSE "paused", n, auto)
          /\ \E ph \in {"completed", "failed"} : Reported(w, ph)
          /\ UNCHANGED <<jobs, failed, sched, updates, checks, requests>>
      BY DEF ReportFailure
    <2>f. faults' \in 0 .. MaxFaults
      BY FaultType DEF IInv, TypeOK, ReportFailure
    <2> HIDE DEF n, auto, rethrow
    <2>4. feeds' \in [Feeds -> FeedRow]
      <3> DEFINE row == [status |-> IF rethrow THEN "error" ELSE "paused", auto |-> auto,
                         due |-> FALSE, errorCount |-> n, claim |-> "none"]
      <3>1. row \in FeedRow
        BY <2>1, <2>2 DEF FeedRow, Statuses
      <3>2. feeds' = [feeds EXCEPT ![worker[w].job[1]] = row]
        BY <2>3 DEF UpdateAfterFetch
      <3> HIDE DEF row
      <3> QED
        BY <3>1, <3>2 DEF IInv, TypeOK
    <2>5. /\ worker' \in [Workers -> Execution]
          /\ BusySlots' /\ RetentionAgrees' /\ OneOwnerPerJob'
      BY <2>2, <2>3, ReportKeeps
    <2> QED
      BY <2>3, <2>4, <2>5, <2>f DEF IInv, TypeOK
  <1> QED
    BY <1>1, <1>2, <1>3

\* Lists without duplicates: adding a new element, and dropping the first one.
Distinct(q) == \A i, k \in 1 .. Len(q) : i # k => q[i] # q[k]
Members(q) == {q[i] : i \in 1 .. Len(q)}

\* Appending a new element to a sequence without repetitions.
LEMMA AppendDistinct ==
  ASSUME NEW S, NEW q \in Seq(S), NEW x \in S, Distinct(q), x \notin Members(q)
  PROVE  /\ Append(q, x) \in Seq(S) /\ Distinct(Append(q, x))
         /\ Members(Append(q, x)) = Members(q) \cup {x}
  <1> DEFINE r == Append(q, x)
  <1>1. r \in Seq(S) /\ Len(r) = Len(q) + 1 /\ Len(q) \in Nat
    OBVIOUS
  <1>2. \A k \in 1 .. Len(q) : r[k] = q[k]
    OBVIOUS
  <1>3. r[Len(q) + 1] = x
    OBVIOUS
  <1> HIDE DEF r
  <1>4. Distinct(r)
    BY <1>1, <1>2, <1>3 DEF Distinct, Members
  <1>5. Members(r) = Members(q) \cup {x}
    <2>1. \A i \in 1 .. Len(r) : r[i] \in Members(q) \cup {x}
      BY <1>1, <1>2, <1>3 DEF Members
    <2>2. \A i \in 1 .. Len(q) : q[i] \in Members(r)
      BY <1>1, <1>2 DEF Members
    <2>3. x \in Members(r)
      BY <1>1, <1>3 DEF Members
    <2> QED
      BY <2>1, <2>2, <2>3 DEF Members
  <1> QED
    BY <1>1, <1>4, <1>5 DEF r

\* The tail of a sequence without repetitions names all but its head.
LEMMA TailDistinct ==
  ASSUME NEW S, NEW q \in Seq(S), Distinct(q), Len(q) >= 1
  PROVE  /\ Tail(q) \in Seq(S) /\ Distinct(Tail(q)) /\ Head(q) \in Members(q)
         /\ Members(Tail(q)) = Members(q) \ {Head(q)}
  <1> DEFINE r == Tail(q)
  <1>1. r \in Seq(S) /\ Len(r) = Len(q) - 1 /\ Len(q) \in Nat
    OBVIOUS
  <1>2. \A k \in 1 .. Len(r) : r[k] = q[k + 1]
    OBVIOUS
  <1>3. Head(q) = q[1]
    OBVIOUS
  <1> HIDE DEF r
  <1>4. Distinct(r)
    <2> SUFFICES ASSUME NEW i \in 1 .. Len(r), NEW k \in 1 .. Len(r), i # k
                 PROVE  r[i] # r[k]
      BY DEF Distinct
    <2>1. i + 1 \in 1 .. Len(q) /\ k + 1 \in 1 .. Len(q) /\ i + 1 # k + 1
      BY <1>1
    <2>2. q[i + 1] # q[k + 1]
      BY <2>1 DEF Distinct
    <2> QED
      BY <1>2, <2>2
  <1>5. Members(r) = Members(q) \ {q[1]}
    <2>1. \A i \in 1 .. Len(r) : r[i] \in Members(q) \ {q[1]}
      BY <1>1, <1>2 DEF Members, Distinct
    <2>2. ASSUME NEW i \in 1 .. Len(q), q[i] # q[1] PROVE q[i] \in Members(r)
      <3>1. i - 1 \in 1 .. Len(r) /\ r[i - 1] = q[i]
        BY <1>1, <1>2, <2>2
      <3> QED
        BY <3>1 DEF Members
    <2> QED
      BY <2>1, <2>2 DEF Members
  <1>6. q[1] \in Members(q)
    BY <1>1 DEF Members
  <1> QED
    BY <1>1, <1>3, <1>4, <1>5, <1>6 DEF r

\* The retained failures in the words of the two lemmas.
LEMMA RetentionWords ==
  ASSUME failed \in Seq(JobIds)
  PROVE  RetentionAgrees <=> /\ Distinct(failed)
                             /\ \A j \in JobIds : jobs[j].state = "failed" <=> j \in Members(failed)
  BY DEF RetentionAgrees, Distinct, Members

\* The same after a step.
LEMMA RetentionWordsPrime ==
  ASSUME failed' \in Seq(JobIds)
  PROVE  RetentionAgrees' <=> /\ Distinct(failed')
                              /\ \A j \in JobIds : jobs'[j].state = "failed" <=> j \in Members(failed')
  BY DEF RetentionAgrees, Distinct, Members

\* A job that fails for good joins the retained failures; the job it evicts,
\* if any, is a failed one.
LEMMA FailForGoodKeeps ==
  ASSUME IInv, NEW j \in JobIds, jobs[j].state = "active", NEW made \in 0 .. Attempts,
         FailForGood(j, made)
  PROVE  /\ jobs' \in [JobIds -> JobState] /\ failed' \in Seq(JobIds)
         /\ RetentionAgrees'
         /\ \A i \in JobIds \ {j} : jobs[i].state = "active" => jobs'[i] = jobs[i]
  <1>0. /\ failed \in Seq(JobIds) /\ jobs \in [JobIds -> JobState] /\ Distinct(failed)
        /\ \A i \in JobIds : jobs[i].state = "failed" <=> i \in Members(failed)
    BY RetentionWords DEF IInv, TypeOK
  <1>1. jobs' \in [JobIds -> JobState]
    BY <1>0, AbsentType DEF FailForGood, JobState
  <1>2. /\ jobs'[j].state = "failed"
        /\ \A i \in JobIds \ {j} : jobs'[i] = IF i \in Evicted THEN Absent ELSE jobs[i]
    BY DEF FailForGood
  <1>3. j \notin Members(failed)
    BY <1>0
  <1>4. /\ failed' \in Seq(JobIds) /\ Distinct(failed')
        /\ Members(failed') = (Members(failed) \ Evicted) \cup {j}
        /\ Evicted \subseteq Members(failed)
    <2>1. CASE Len(failed) < RetainFailed
      <3>1. failed' = Append(failed, j) /\ Evicted = {}
        BY <2>1 DEF FailForGood, Retained, Evicted
      <3> QED
        BY <3>1, <1>0, <1>3, AppendDistinct
    <2>2. CASE ~(Len(failed) < RetainFailed)
      <3>1. failed' = Append(Tail(failed), j) /\ Evicted = {Head(failed)}
        BY <2>2 DEF FailForGood, Retained, Evicted
      <3>2. Len(failed) >= 1
        BY <1>0, <2>2
      <3>3. /\ Tail(failed) \in Seq(JobIds) /\ Distinct(Tail(failed))
            /\ Head(failed) \in Members(failed)
            /\ Members(Tail(failed)) = Members(failed) \ {Head(failed)}
        BY <1>0, <3>2, TailDistinct
      <3>4. j \notin Members(Tail(failed))
        BY <1>3, <3>3
      <3>5. /\ Append(Tail(failed), j) \in Seq(JobIds) /\ Distinct(Append(Tail(failed), j))
            /\ Members(Append(Tail(failed), j)) = Members(Tail(failed)) \cup {j}
        BY <3>3, <3>4, AppendDistinct
      <3> QED
        BY <3>1, <3>3, <3>5
    <2> QED
      BY <2>1, <2>2
  <1>5. \A i \in JobIds : jobs'[i].state = "failed" <=> i \in Members(failed')
    BY <1>0, <1>2, <1>4, AbsentType
  <1>6. \A i \in JobIds \ {j} : jobs[i].state = "active" => jobs'[i] = jobs[i]
    BY <1>0, <1>2, <1>4
  <1> QED
    BY <1>1, <1>4, <1>5, <1>6, RetentionWordsPrime

\* A slot goes on running what it ran, alone or not.
SameRun(e, d) ==
    d.phase = e.phase /\ d.job = e.job /\ d.owns = e.owns /\ d.errorCount = e.errorCount

\* ... and stays alone unless the slot that begins runs its feed f.
Passed(e, d, f) ==
    SameRun(e, d) /\ (d.alone => e.alone /\ e.job[1] # f) /\ (e.alone /\ e.job[1] # f => d.alone)

\* Slot w begins `run`, on feed f.
Starts(w, run, f) ==
    worker' = [v \in Workers |-> IF v = w THEN run
                                 ELSE [worker[v] EXCEPT !.alone = @ /\ worker[v].job[1] # f]]

\* Starting a job changes `alone` only in the other slots, and never sets it.
LEMMA StartsOthers ==
  ASSUME worker \in [Workers -> Execution], NEW w \in Workers, NEW run \in Execution, NEW f,
         Starts(w, run, f)
  PROVE  /\ worker' \in [Workers -> Execution] /\ worker'[w] = run
         /\ \A v \in Workers \ {w} : Passed(worker[v], worker'[v], f)
  <1>1. worker'[w] = run
    BY DEF Starts
  <1>2. ASSUME NEW v \in Workers \ {w}
        PROVE  worker'[v] \in Execution /\ Passed(worker[v], worker'[v], f)
    <2> DEFINE a == worker[v].alone /\ worker[v].job[1] # f
    <2>1. a \in BOOLEAN
      BY Zenon
    <2>2. worker'[v] = [worker[v] EXCEPT !.alone = a] /\ worker[v] \in Execution
      BY DEF Starts
    <2>a. a <=> worker[v].alone /\ worker[v].job[1] # f
      OBVIOUS
    <2> HIDE DEF a
    <2>3. worker'[v] \in Execution /\ SameRun(worker[v], worker'[v]) /\ worker'[v].alone = a
      BY <2>1, <2>2 DEF Execution, SameRun
    <2> QED
      BY <2>3, <2>a DEF Passed
  <1>3. worker' \in [Workers -> Execution]
    <2>1. worker' = [v \in Workers |-> worker'[v]]
      BY DEF Starts
    <2> QED
      BY <1>1, <1>2, <2>1
  <1> QED
    BY <1>1, <1>2, <1>3

\* A free slot takes a waiting job and its lock.
LEMMA StartStep ==
  ASSUME IInv, NEW w \in Workers, NEW j \in JobIds, StartJob(w, j)
  PROVE  IInv'
  <1> DEFINE run == [phase |-> "fetching", job |-> j, owns |-> TRUE, alone |-> ~Running(j[1]),
                     errorCount |-> feeds[j[1]].errorCount]
  <1>1. run \in Execution /\ run.owns /\ run.job = j /\ run.phase = "fetching"
    <2>1. feeds[j[1]].errorCount \in 0 .. MaxErrors
      BY JobIdsPairs DEF IInv, TypeOK, FeedRow
    <2>2. (~Running(j[1])) \in BOOLEAN
      BY Zenon
    <2> HIDE DEF Running
    <2> QED
      BY <2>1, <2>2 DEF Execution
  <1>2. Starts(w, run, j[1])
    BY DEF StartJob, Starts
  <1> HIDE DEF run
  <1>6. /\ worker' \in [Workers -> Execution] /\ worker'[w] = run
        /\ \A v \in Workers \ {w} : Passed(worker[v], worker'[v], j[1])
    <2>1. worker \in [Workers -> Execution]
      BY DEF IInv, TypeOK
    <2> QED
      BY <1>1, <1>2, <2>1, StartsOthers
  <1>3. jobs' \in [JobIds -> JobState]
    BY DEF IInv, TypeOK, StartJob, JobState
  <1>4. /\ jobs[j].state = "waiting" /\ jobs'[j].state = "active"
        /\ \A i \in JobIds \ {j} : jobs'[i] = jobs[i]
    BY DEF IInv, TypeOK, StartJob, JobState
  <1>b. UNCHANGED <<feeds, failed, sched, updates, checks, faults, requests>>
    BY DEF StartJob
  <1>5. TypeOK'
    BY <1>b, <1>3, <1>6 DEF IInv, TypeOK
  <1>7. BusySlots'
    BY <1>1, <1>6 DEF IInv, BusySlots, Passed, SameRun
  <1>8. \A v \in Workers : worker[v].owns => worker[v].job # j
    BY <1>4 DEF IInv, OneOwnerPerJob
  <1>9. OneOwnerPerJob'
    BY <1>1, <1>4, <1>6, <1>8 DEF IInv, OneOwnerPerJob, Passed, SameRun
  <1>10. RetentionAgrees'
    <2>1. \A i \in JobIds : jobs'[i].state = "failed" <=> jobs[i].state = "failed"
      BY <1>4
    <2> QED
      BY <2>1 DEF IInv, RetentionAgrees, StartJob
  <1> QED
    BY <1>5, <1>7, <1>9, <1>10 DEF IInv

\* A slot goes idle: the others keep their jobs and their locks.
LEMMA IdleKeeps ==
  ASSUME IInv, NEW w \in Workers, worker' = [worker EXCEPT ![w] = IdleSlot],
         \A i \in JobIds : jobs[i].state = "active" =>
            jobs'[i] = jobs[i] \/ (worker[w].owns /\ worker[w].job = i)
  PROVE  worker' \in [Workers -> Execution] /\ BusySlots' /\ OneOwnerPerJob'
  <1>1. worker' \in [Workers -> Execution]
    BY IdleSlotType DEF IInv, TypeOK
  <1>2. /\ worker'[w] = IdleSlot
        /\ \A v \in Workers \ {w} : worker'[v] = worker[v]
    BY DEF IInv, TypeOK
  <1>3. BusySlots'
    BY <1>2, IdleSlotType DEF IInv, BusySlots
  <1>4. OneOwnerPerJob'
    BY <1>2, IdleSlotType DEF IInv, OneOwnerPerJob
  <1> QED
    BY <1>1, <1>3, <1>4

\* removeOnComplete drops a job its slot still owns.
LEMMA CompleteStep ==
  ASSUME IInv, NEW w \in Workers, CompleteJob(w)
  PROVE  IInv'
  <1>1. worker[w].job \in JobIds
    BY DEF IInv, BusySlots, CompleteJob
  <1>2. jobs' \in [JobIds -> JobState]
    BY AbsentType DEF IInv, TypeOK, CompleteJob
  <1>3. \A i \in JobIds : jobs'[i] = IF worker[w].owns /\ i = worker[w].job THEN Absent ELSE jobs[i]
    BY <1>1 DEF IInv, TypeOK, CompleteJob
  <1>4. worker' \in [Workers -> Execution] /\ BusySlots' /\ OneOwnerPerJob'
    <2>1. \A i \in JobIds : jobs[i].state = "active" =>
              jobs'[i] = jobs[i] \/ (worker[w].owns /\ worker[w].job = i)
      BY <1>3
    <2>2. worker' = [worker EXCEPT ![w] = IdleSlot]
      BY DEF CompleteJob
    <2> QED
      BY <2>1, <2>2, IdleKeeps
  <1>5. RetentionAgrees'
    <2>1. worker[w].owns => jobs[worker[w].job].state = "active"
      BY DEF IInv, OneOwnerPerJob
    <2>2. \A i \in JobIds : jobs'[i].state = "failed" <=> jobs[i].state = "failed"
      BY <1>3, <2>1, AbsentType
    <2> QED
      BY <2>2 DEF IInv, RetentionAgrees, CompleteJob
  <1>6. TypeOK'
    BY <1>2, <1>4 DEF IInv, TypeOK, CompleteJob
  <1> QED
    BY <1>4, <1>5, <1>6 DEF IInv

\* A failed attempt is delayed, retained or ignored.
LEMMA FailStep ==
  ASSUME IInv, NEW w \in Workers, FailAttempt(w)
  PROVE  IInv'
  <1> DEFINE j == worker[w].job
             made == jobs[j].made + 1
  <1>1. j \in JobIds
    BY DEF IInv, BusySlots, FailAttempt
  <1>2. worker[w].owns => jobs[j].state = "active"
    BY DEF IInv, OneOwnerPerJob
  <1>3. jobs[j] \in JobState
    BY <1>1 DEF IInv, TypeOK
  <1>4. worker' = [worker EXCEPT ![w] = IdleSlot]
    BY DEF FailAttempt
  <1>5. UNCHANGED <<feeds, sched, updates, checks, faults, requests>>
    BY DEF FailAttempt
  <1>6. /\ jobs' \in [JobIds -> JobState] /\ failed' \in Seq(JobIds) /\ RetentionAgrees'
        /\ \A i \in JobIds : jobs[i].state = "active" =>
              jobs'[i] = jobs[i] \/ (worker[w].owns /\ j = i)
    <2>1. CASE /\ worker[w].owns /\ made < Attempts
               /\ jobs' = [jobs EXCEPT ![j].state = "delayed", ![j].made = made]
               /\ UNCHANGED failed
      <3>1. made \in 0 .. Attempts
        BY <1>3, <2>1 DEF JobState
      <3>2. /\ jobs'[j] \in JobState /\ jobs'[j].state = "delayed"
            /\ \A i \in JobIds \ {j} : jobs'[i] = jobs[i]
        BY <1>1, <1>3, <2>1, <3>1 DEF IInv, TypeOK, JobState
      <3>3. jobs' \in [JobIds -> JobState]
        BY <1>1, <2>1, <3>2 DEF IInv, TypeOK
      <3>4. \A i \in JobIds : jobs'[i].state = "failed" <=> jobs[i].state = "failed"
        BY <1>2, <2>1, <3>2
      <3>5. RetentionAgrees' /\ failed' \in Seq(JobIds)
        BY <2>1, <3>4 DEF IInv, TypeOK, RetentionAgrees
      <3> QED
        BY <2>1, <3>2, <3>3, <3>5
    <2>2. CASE worker[w].owns /\ FailForGood(j, Attempts)
      <3>1. Attempts \in 0 .. Attempts
        OBVIOUS
      <3> QED
        BY <1>1, <1>2, <2>2, <3>1, FailForGoodKeeps
    <2>3. CASE UNCHANGED <<jobs, failed>>
      BY <2>3 DEF IInv, TypeOK, RetentionAgrees
    <2> QED
      BY <2>1, <2>2, <2>3 DEF FailAttempt
  <1>7. worker' \in [Workers -> Execution] /\ BusySlots' /\ OneOwnerPerJob'
    BY <1>4, <1>6, IdleKeeps
  <1>8. TypeOK'
    BY <1>5, <1>6, <1>7 DEF IInv, TypeOK
  <1> QED
    BY <1>6, <1>7, <1>8 DEF IInv

\* A slot that dies, or that loses its lock, only gives up what it holds.
LEMMA CrashStep ==
  ASSUME IInv, NEW w \in Workers, WorkerCrash(w) \/ LoseLock(w)
  PROVE  IInv'
  <1>1. faults' \in 0 .. MaxFaults
    BY FaultType DEF IInv, WorkerCrash, LoseLock
  <1>2. UNCHANGED <<feeds, jobs, failed, sched, updates, checks, requests>>
    BY DEF WorkerCrash, LoseLock
  <1>3. worker' \in [Workers -> Execution] /\ BusySlots' /\ OneOwnerPerJob'
    <2>1. CASE WorkerCrash(w)
      <3>1. worker' = [worker EXCEPT ![w] = IdleSlot]
        BY <2>1 DEF WorkerCrash
      <3>2. \A i \in JobIds : jobs[i].state = "active" =>
                jobs'[i] = jobs[i] \/ (worker[w].owns /\ worker[w].job = i)
        BY <1>2
      <3> QED
        BY <3>1, <3>2, IdleKeeps
    <2>2. CASE LoseLock(w)
      <3>1. worker' = [worker EXCEPT ![w].owns = FALSE]
        BY <2>2 DEF LoseLock
      <3>2. worker' \in [Workers -> Execution]
        BY <3>1 DEF IInv, TypeOK, Execution
      <3>3. /\ worker'[w].job = worker[w].job /\ worker'[w].phase = worker[w].phase
            /\ ~worker'[w].owns
            /\ \A v \in Workers \ {w} : worker'[v] = worker[v]
        BY <3>1 DEF IInv, TypeOK, Execution
      <3>4. BusySlots'
        BY <3>3 DEF IInv, BusySlots
      <3>5. OneOwnerPerJob'
        BY <1>2, <3>3 DEF IInv, OneOwnerPerJob
      <3> QED
        BY <3>2, <3>4, <3>5
    <2> QED
      BY <2>1, <2>2
  <1>4. TypeOK'
    BY <1>1, <1>2, <1>3 DEF IInv, TypeOK
  <1>5. RetentionAgrees'
    BY <1>2 DEF IInv, RetentionAgrees
  <1> QED
    BY <1>3, <1>4, <1>5 DEF IInv

\* The backoff of a retry is over.
LEMMA PromoteStep ==
  ASSUME IInv, NEW j \in JobIds, PromoteDelayed(j)
  PROVE  IInv'
  <1>1. jobs' \in [JobIds -> JobState]
    BY DEF IInv, TypeOK, PromoteDelayed, JobState
  <1>2. /\ jobs[j].state = "delayed" /\ jobs'[j].state = "waiting"
        /\ \A i \in JobIds \ {j} : jobs'[i] = jobs[i]
    BY DEF IInv, TypeOK, PromoteDelayed, JobState
  <1>3. UNCHANGED <<feeds, failed, sched, worker, updates, checks, faults, requests>>
    BY DEF PromoteDelayed
  <1>4. TypeOK'
    BY <1>1, <1>3 DEF IInv, TypeOK
  <1>5. BusySlots' /\ OneOwnerPerJob'
    BY <1>2, <1>3 DEF IInv, BusySlots, OneOwnerPerJob
  <1>6. RetentionAgrees'
    <2>1. \A i \in JobIds : jobs'[i].state = "failed" <=> jobs[i].state = "failed"
      BY <1>2
    <2> QED
      BY <2>1, <1>3 DEF IInv, RetentionAgrees
  <1> QED
    BY <1>4, <1>5, <1>6 DEF IInv

\* The stalled check requeues or fails an unowned job.
LEMMA StallStep ==
  ASSUME IInv, NEW j \in JobIds, Stall(j)
  PROVE  IInv'
  <1>1. /\ jobs[j].state = "active"
        /\ \A w \in Workers : ~(worker[w].job = j /\ worker[w].owns)
        /\ UNCHANGED <<feeds, sched, worker, updates, checks, faults, requests>>
    BY DEF Stall
  <1>2. jobs[j] \in JobState
    BY DEF IInv, TypeOK
  <1>3. /\ jobs' \in [JobIds -> JobState] /\ failed' \in Seq(JobIds) /\ RetentionAgrees'
        /\ \A i \in JobIds \ {j} : jobs[i].state = "active" => jobs'[i] = jobs[i]
    <2>1. CASE /\ jobs[j].stalls < MaxStalls
               /\ jobs' = [jobs EXCEPT ![j].state = "waiting", ![j].stalls = jobs[j].stalls + 1]
               /\ UNCHANGED failed
      <3>1. jobs[j].stalls + 1 \in 0 .. MaxStalls
        BY <1>2, <2>1 DEF JobState
      <3>2. /\ jobs'[j] \in JobState /\ jobs'[j].state = "waiting"
            /\ \A i \in JobIds \ {j} : jobs'[i] = jobs[i]
        BY <1>2, <2>1, <3>1 DEF IInv, TypeOK, JobState
      <3>3. jobs' \in [JobIds -> JobState]
        BY <2>1, <3>2 DEF IInv, TypeOK
      <3>4. \A i \in JobIds : jobs'[i].state = "failed" <=> jobs[i].state = "failed"
        BY <1>1, <3>2
      <3>5. RetentionAgrees' /\ failed' \in Seq(JobIds)
        BY <2>1, <3>4 DEF IInv, TypeOK, RetentionAgrees
      <3> QED
        BY <3>2, <3>3, <3>5
    <2>2. CASE FailForGood(j, jobs[j].made)
      <3>1. jobs[j].made \in 0 .. Attempts
        BY <1>2 DEF JobState
      <3> QED
        BY <1>1, <2>2, <3>1, FailForGoodKeeps
    <2> QED
      BY <2>1, <2>2 DEF Stall
  <1>4. BusySlots' /\ OneOwnerPerJob'
    BY <1>1, <1>3 DEF IInv, BusySlots, OneOwnerPerJob
  <1>5. TypeOK'
    BY <1>1, <1>3 DEF IInv, TypeOK
  <1> QED
    BY <1>3, <1>4, <1>5 DEF IInv

\* Redis loses jobs and locks together.
LEMMA FlushStep ==
  ASSUME IInv, RedisFlush
  PROVE  IInv'
  <1>1. faults' \in 0 .. MaxFaults
    BY FaultType DEF IInv, RedisFlush
  <1>2. jobs' \in [JobIds -> JobState] /\ failed' \in Seq(JobIds)
    BY AbsentType DEF RedisFlush
  <1>3. worker' \in [Workers -> Execution]
    BY DEF IInv, TypeOK, RedisFlush, Execution
  <1>4. \A w \in Workers : /\ worker'[w].phase = worker[w].phase /\ worker'[w].job = worker[w].job
                            /\ ~worker'[w].owns
    BY DEF IInv, TypeOK, RedisFlush, Execution
  <1>5. BusySlots' /\ OneOwnerPerJob'
    BY <1>4 DEF IInv, BusySlots, OneOwnerPerJob
  <1>6. RetentionAgrees'
    BY AbsentType DEF RedisFlush, RetentionAgrees
  <1>7. TypeOK'
    BY <1>1, <1>2, <1>3 DEF IInv, TypeOK, RedisFlush
  <1> QED
    BY <1>5, <1>6, <1>7 DEF IInv

\* Every step keeps the invariant.
LEMMA NextIInv == IInv /\ [Next]_vars => IInv'
  <1> SUFFICES ASSUME IInv, [Next]_vars PROVE IInv'
    OBVIOUS
  <1>1. CASE \E f \in Feeds : BecomeDue(f) \/ ClaimAges(f)
    BY <1>1, TimeStep
  <1>2. CASE \E s \in Schedulers : SchedulerStep(s)
    <2> PICK s \in Schedulers : SchedulerStep(s)
      BY <1>2
    <2> QED
      BY SweepStep, ClaimStep, TickStep, AddStep DEF SchedulerStep
  <1>3. CASE \E j \in JobIds : PromoteDelayed(j) \/ Stall(j)
    BY <1>3, PromoteStep, StallStep
  <1>4. CASE RedisFlush
    BY <1>4, FlushStep
  <1>5. CASE \E w \in Workers : WorkerStep(w)
    <2> PICK w \in Workers : WorkerStep(w)
      BY <1>5
    <2> QED
      BY StartStep, ReportStep, CompleteStep, FailStep, CrashStep DEF WorkerStep
  <1>6. CASE ApiStep
    BY <1>6, ApiRowStep, EnqueueCheckStep DEF ApiStep
  <1>7. CASE UNCHANGED vars
    BY <1>7 DEF vars, IInv, TypeOK, BusySlots, RetentionAgrees, OneOwnerPerJob
  <1> QED
    BY <1>1, <1>2, <1>3, <1>4, <1>5, <1>6, <1>7 DEF Next

\* The variables keep their types, in any deployment.
THEOREM TypeCorrect == Spec => []TypeOK
  <1>1. IInv => TypeOK
    BY DEF IInv
  <1> QED
    BY <1>1, InitIInv, NextIInv, PTL DEF Spec

-----------------------------------------------------------------------------
(* Error counts. A slot that is alone on its feed since it began is the     *)
(* only one that can write the feed's error_count before its own report:    *)
(* a slot writes only the row of the feed it runs.                          *)

\* A slot that is alone has not reported, and no other busy slot runs its feed.
AloneSlots ==
    \A w \in Workers : worker[w].alone =>
        /\ worker[w].phase \in {"fetching", "unanswered"}
        /\ \A v \in Workers \ {w} : worker[v].phase # "idle" => worker[v].job[1] # worker[w].job[1]

CountInv == IInv /\ AloneSlots /\ FreshErrorCount

\* Steps that leave the slots and the counts alone.
LEMMA CountUntouched ==
  ASSUME CountInv, UNCHANGED worker, \A f \in Feeds : feeds'[f].errorCount = feeds[f].errorCount
  PROVE  AloneSlots' /\ FreshErrorCount'
  <1>1. \A w \in Workers : worker[w].alone => worker[w].job[1] \in Feeds
    BY JobIdsPairs DEF CountInv, IInv, BusySlots, AloneSlots
  <1> QED
    BY <1>1 DEF CountInv, AloneSlots, FreshErrorCount

\* A slot's row: no other slot that is alone looks at it.
LEMMA AloneElsewhere ==
  ASSUME CountInv, NEW w \in Workers, NEW v \in Workers, v # w, worker[v].alone,
         worker[w].phase # "idle"
  PROVE  /\ worker[v].job[1] \in Feeds /\ worker[v].job[1] # worker[w].job[1]
         /\ worker[v].phase \in {"fetching", "unanswered"}
  BY JobIdsPairs DEF CountInv, IInv, BusySlots, AloneSlots

\* A report writes the row of its own feed; only an unanswered one goes on.
LEMMA CountReported ==
  ASSUME CountInv, NEW w \in Workers, worker[w].phase \in {"fetching", "unanswered"},
         NEW ph \in {"completed", "failed", "unanswered"},
         \/ Reported(w, ph)
         \/ worker' = [worker EXCEPT ![w].phase = ph] /\ ph = "unanswered"
                /\ feeds'[worker[w].job[1]].errorCount = 0,
         \A f \in Feeds : f # worker[w].job[1] => feeds'[f] = feeds[f]
  PROVE  AloneSlots' /\ FreshErrorCount'
  <1>0. worker \in [Workers -> Execution]
    BY DEF CountInv, IInv, TypeOK
  <1>1. /\ worker'[w].phase = ph /\ worker'[w].job = worker[w].job
        /\ \A v \in Workers \ {w} : worker'[v] = worker[v]
        /\ Reported(w, ph) => ~worker'[w].alone
    BY <1>0, ReportMoves
  <1>2. worker'[w].alone =>
          worker[w].alone /\ ph = "unanswered" /\ feeds'[worker'[w].job[1]].errorCount = 0
    <2>1. CASE Reported(w, ph)
      BY <1>1, <2>1
    <2>2. CASE /\ worker' = [worker EXCEPT ![w].phase = ph] /\ ph = "unanswered"
               /\ feeds'[worker[w].job[1]].errorCount = 0
      <3>1. worker'[w].alone = worker[w].alone
        BY <1>0, <2>2 DEF Execution
      <3> QED
        BY <1>1, <2>2, <3>1
    <2> QED
      BY <2>1, <2>2
  <1>3. AloneSlots'
    <2> SUFFICES ASSUME NEW v \in Workers, worker'[v].alone
                 PROVE  /\ worker'[v].phase \in {"fetching", "unanswered"}
                        /\ \A u \in Workers \ {v} : worker'[u].phase # "idle" =>
                               worker'[u].job[1] # worker'[v].job[1]
      BY DEF AloneSlots
    <2>1. worker[v].alone /\ worker'[v].job = worker[v].job
      BY <1>1, <1>2
    <2>2. \A u \in Workers : /\ worker'[u].job = worker[u].job
                             /\ worker'[u].phase # "idle" => worker[u].phase # "idle"
      BY <1>1
    <2>3. worker'[v].phase \in {"fetching", "unanswered"}
      BY <1>1, <1>2, <2>1 DEF CountInv, AloneSlots
    <2> QED
      BY <2>1, <2>2, <2>3 DEF CountInv, AloneSlots
  <1>4. FreshErrorCount'
    <2> SUFFICES ASSUME NEW v \in Workers, worker'[v].alone
                 PROVE  /\ worker'[v].phase = "fetching" =>
                              worker'[v].errorCount = feeds'[worker'[v].job[1]].errorCount
                        /\ worker'[v].phase = "unanswered" =>
                              feeds'[worker'[v].job[1]].errorCount = 0
      BY DEF FreshErrorCount
    <2>1. CASE v = w
      BY <1>1, <1>2, <2>1
    <2>2. CASE v # w
      <3>1. worker'[v] = worker[v] /\ worker[v].alone
        BY <1>1, <2>2
      <3>2. feeds'[worker[v].job[1]] = feeds[worker[v].job[1]]
        BY <2>2, <3>1, AloneElsewhere
      <3> QED
        BY <3>1, <3>2 DEF CountInv, FreshErrorCount
    <2> QED
      BY <2>1, <2>2
  <1> QED
    BY <1>3, <1>4

\* A slot that begins is alone if no slot runs the feed, and ends the others' solitude.
LEMMA CountStarted ==
  ASSUME CountInv, NEW w \in Workers, NEW j \in JobIds, StartJob(w, j)
  PROVE  AloneSlots' /\ FreshErrorCount'
  <1> DEFINE run == [phase |-> "fetching", job |-> j, owns |-> TRUE, alone |-> ~Running(j[1]),
                     errorCount |-> feeds[j[1]].errorCount]
  <1>0. worker \in [Workers -> Execution] /\ feeds' = feeds
    BY DEF CountInv, IInv, TypeOK, StartJob
  <1>1. run.job = j /\ run.phase = "fetching" /\ run.errorCount = feeds[j[1]].errorCount
    OBVIOUS
  <1>2. run.alone <=> ~Running(j[1])
    BY Zenon
  <1>3. run \in Execution
    <2>1. feeds[j[1]].errorCount \in 0 .. MaxErrors
      BY JobIdsPairs DEF CountInv, IInv, TypeOK, FeedRow
    <2>2. (~Running(j[1])) \in BOOLEAN
      BY Zenon
    <2> HIDE DEF Running
    <2> QED
      BY <2>1, <2>2 DEF Execution
  <1>4. Starts(w, run, j[1])
    BY DEF StartJob, Starts
  <1> HIDE DEF run
  <1>5. /\ worker'[w] = run
        /\ \A v \in Workers \ {w} : Passed(worker[v], worker'[v], j[1])
    BY <1>0, <1>3, <1>4, StartsOthers
  <1>6. worker'[w].alone => \A v \in Workers : worker[v].phase # "idle" => worker[v].job[1] # j[1]
    BY <1>2, <1>5 DEF Running
  <1>7. AloneSlots'
    <2>1. ASSUME NEW v \in Workers \ {w}, worker'[v].alone
          PROVE  /\ worker'[v].phase \in {"fetching", "unanswered"}
                 /\ \A u \in Workers \ {v} : worker'[u].phase # "idle" =>
                        worker'[u].job[1] # worker'[v].job[1]
      BY <1>1, <1>5, <2>1 DEF CountInv, AloneSlots, Passed, SameRun
    <2>2. worker'[w].alone =>
            /\ worker'[w].phase \in {"fetching", "unanswered"}
            /\ \A u \in Workers \ {w} : worker'[u].phase # "idle" =>
                   worker'[u].job[1] # worker'[w].job[1]
      BY <1>1, <1>5, <1>6 DEF Passed, SameRun
    <2> QED
      BY <2>1, <2>2 DEF AloneSlots
  <1>8. FreshErrorCount'
    BY <1>0, <1>1, <1>5 DEF CountInv, FreshErrorCount, Passed, SameRun
  <1> QED
    BY <1>7, <1>8

\* A slot goes idle, or loses its lock.
LEMMA CountLeft ==
  ASSUME CountInv, UNCHANGED feeds,
         \A v \in Workers : \/ worker'[v] = IdleSlot
                            \/ /\ worker'[v].phase = worker[v].phase /\ worker'[v].job = worker[v].job
                               /\ worker'[v].errorCount = worker[v].errorCount
                               /\ worker'[v].alone = worker[v].alone
  PROVE  AloneSlots' /\ FreshErrorCount'
  <1>1. ~IdleSlot.alone /\ IdleSlot.phase = "idle"
    BY DEF IdleSlot
  <1> QED
    BY <1>1 DEF CountInv, AloneSlots, FreshErrorCount

\* The steps of a slot.
LEMMA CountWorker ==
  ASSUME CountInv, NEW w \in Workers, WorkerStep(w)
  PROVE  AloneSlots' /\ FreshErrorCount'
  <1>0. /\ feeds \in [Feeds -> FeedRow] /\ worker \in [Workers -> Execution]
        /\ worker[w].phase # "idle" => worker[w].job[1] \in Feeds
    BY JobIdsPairs DEF CountInv, IInv, TypeOK, BusySlots
  <1>1. CASE \E j \in JobIds : StartJob(w, j)
    BY <1>1, CountStarted
  <1>2. CASE ReportSuccess(w) \/ SuccessUnanswered(w)
    <2>1. \A f \in Feeds : f # worker[w].job[1] => feeds'[f] = feeds[f]
      BY <1>0, <1>2 DEF ReportSuccess, SuccessUnanswered, UpdateAfterFetch
    <2>2. worker[w].phase = "fetching" /\ feeds'[worker[w].job[1]].errorCount = 0
      BY <1>0, <1>2 DEF ReportSuccess, SuccessUnanswered, UpdateAfterFetch
    <2> QED
      BY <1>2, <2>1, <2>2, CountReported DEF ReportSuccess, SuccessUnanswered
  <1>3. CASE ReportLost(w)
    BY <1>3, CountReported DEF ReportLost
  <1>4. CASE \E kind \in FailureKinds : ReportFailure(w, kind)
    <2> PICK kind \in FailureKinds : ReportFailure(w, kind)
      BY <1>4
    <2>1. \A f \in Feeds : f # worker[w].job[1] => feeds'[f] = feeds[f]
      BY <1>0 DEF ReportFailure, UpdateAfterFetch
    <2>2. worker[w].phase \in {"fetching", "unanswered"} /\ \E ph \in {"completed", "failed"} : Reported(w, ph)
      BY DEF ReportFailure
    <2> QED
      BY <2>1, <2>2, CountReported
  <1>5. CASE CompleteJob(w) \/ FailAttempt(w) \/ WorkerCrash(w)
    <2>1. worker' = [worker EXCEPT ![w] = IdleSlot] /\ UNCHANGED feeds
      BY <1>5 DEF CompleteJob, FailAttempt, WorkerCrash
    <2>2. \A v \in Workers : worker'[v] = IdleSlot \/ worker'[v] = worker[v]
      BY <1>0, <2>1
    <2> QED
      BY <2>1, <2>2, CountLeft
  <1>6. CASE LoseLock(w)
    <2>1. \A v \in Workers : /\ worker'[v].phase = worker[v].phase /\ worker'[v].job = worker[v].job
                             /\ worker'[v].errorCount = worker[v].errorCount
                             /\ worker'[v].alone = worker[v].alone
      BY <1>0, <1>6 DEF LoseLock, Execution
    <2> QED
      BY <1>6, <2>1, CountLeft DEF LoseLock
  <1> QED
    BY <1>1, <1>2, <1>3, <1>4, <1>5, <1>6 DEF WorkerStep

\* Every step keeps the error counts of running fetches fresh.
LEMMA NextCount ==
  ASSUME CountInv, [Next]_vars
  PROVE  AloneSlots' /\ FreshErrorCount'
  <1>0. feeds \in [Feeds -> FeedRow] /\ worker \in [Workers -> Execution]
    BY DEF CountInv, IInv, TypeOK
  <1>4. CASE \E f \in Feeds : BecomeDue(f) \/ ClaimAges(f)
    <2> PICK g \in Feeds : BecomeDue(g) \/ ClaimAges(g)
      BY <1>4
    <2>1. \A f \in Feeds : feeds'[f].errorCount = feeds[f].errorCount
      BY <1>0 DEF BecomeDue, ClaimAges, FeedRow
    <2> QED
      BY CountUntouched, <2>1 DEF BecomeDue, ClaimAges
  <1>5. CASE \E s \in Schedulers : SchedulerStep(s)
    <2> PICK s \in Schedulers : SchedulerStep(s)
      BY <1>5
    <2>1. CASE Sweep(s)
      <3>1. \A f \in Feeds : ReleaseStuck(feeds[f]).errorCount = feeds[f].errorCount
        BY <1>0 DEF ReleaseStuck, FeedRow
      <3>2. \A f \in Feeds : feeds'[f].errorCount = feeds[f].errorCount
        BY <2>1, <3>1 DEF Sweep
      <3> QED
        BY CountUntouched, <2>1, <3>2 DEF Sweep
    <2>2. CASE ClaimDueFeeds(s)
      <3> PICK batch \in SUBSET Claimable :
            feeds' = [f \in Feeds |-> IF f \in batch
                                      THEN [feeds[f] EXCEPT !.claim = "fresh", !.due = FALSE]
                                      ELSE feeds[f]]
        BY <2>2 DEF ClaimDueFeeds
      <3>1. \A f \in Feeds : feeds'[f].errorCount = feeds[f].errorCount
        BY <1>0 DEF FeedRow
      <3> QED
        BY CountUntouched, <2>2, <3>1 DEF ClaimDueFeeds
    <2>3. CASE UNCHANGED <<feeds, worker>>
      BY CountUntouched, <2>3
    <2>4. Sweep(s) \/ ClaimDueFeeds(s) \/ UNCHANGED <<feeds, worker>>
      BY DEF SchedulerStep, ClaimFails, TickEnds, SchedulerCrash, LookUpJob, AddJob, EnqueueFails
    <2> QED
      BY <2>1, <2>2, <2>3, <2>4
  <1>6. CASE \E j \in JobIds : PromoteDelayed(j) \/ Stall(j)
    <2>1. UNCHANGED <<feeds, worker>>
      BY <1>6 DEF PromoteDelayed, Stall
    <2> QED
      BY CountUntouched, <2>1
  <1>7. CASE RedisFlush
    <2>1. \A v \in Workers : /\ worker'[v].phase = worker[v].phase /\ worker'[v].job = worker[v].job
                             /\ worker'[v].errorCount = worker[v].errorCount
                             /\ worker'[v].alone = worker[v].alone
      BY <1>0, <1>7 DEF RedisFlush, Execution
    <2> QED
      BY <1>7, <2>1, CountLeft DEF RedisFlush
  <1>8. CASE \E w \in Workers : WorkerStep(w)
    BY <1>8, CountWorker
  <1>9. CASE ApiStep
    <2>1. CASE \E u \in updates : WriteUpdate(u)
      <3> PICK u \in updates : WriteUpdate(u)
        BY <2>1
      <3>1. \A f \in Feeds : feeds'[f].errorCount = feeds[f].errorCount
        BY <1>0 DEF WriteUpdate, FeedRow
      <3> QED
        BY CountUntouched, <3>1 DEF WriteUpdate
    <2>2. CASE UNCHANGED <<feeds, worker>>
      BY CountUntouched, <2>2
    <2>3. (\E u \in updates : WriteUpdate(u)) \/ UNCHANGED <<feeds, worker>>
      BY <1>9 DEF ApiStep, ReadForUpdate, AdmitCheck, EnqueueCheck
    <2> QED
      BY <2>1, <2>2, <2>3
  <1>10. CASE UNCHANGED vars
    BY CountUntouched, <1>10 DEF vars
  <1> QED
    BY <1>4, <1>5, <1>6, <1>7, <1>8, <1>9, <1>10 DEF Next

\* Init is a state in which no slot runs.
LEMMA InitCount == Init => CountInv
  <1>1. ~IdleSlot.alone
    BY DEF IdleSlot
  <1>2. Init => AloneSlots /\ FreshErrorCount
    BY <1>1 DEF Init, AloneSlots, FreshErrorCount
  <1> QED
    BY <1>2, InitIInv DEF CountInv

\* For any number of feeds, slots, schedulers, manual checks, requests and faults:
\* as long as no other slot has run the feed, a fetch counts its failure on top of
\* the error_count in the row, unless its own success was written unknown to it.
THEOREM ErrorCountsAreFresh == Spec => []FreshErrorCount
  <1>1. CountInv /\ [Next]_vars => CountInv'
    BY NextIInv, NextCount DEF CountInv
  <1>2. CountInv => FreshErrorCount
    BY DEF CountInv
  <1> QED
    BY InitCount, <1>1, <1>2, PTL DEF Spec

-----------------------------------------------------------------------------
(* One fetch per feed. Without manual checks and lost locks the slot that   *)
(* runs a feed owns `feed-<id>`, so that the first exception of             *)
(* FreshErrorCount does not occur.                                          *)

Undisturbed == ManualIds = {} /\ "lock_lost" \notin Faults /\ "redis_flush" \notin Faults

AllOwn == \A w \in Workers : worker[w].phase # "idle" => worker[w].owns

\* A slot that has not reported is alone on its feed.
FetchesAlone ==
    \A w \in Workers : worker[w].phase \in {"fetching", "unanswered"} => worker[w].alone

AloneInv == IInv /\ AllOwn /\ FetchesAlone

\* The steps of a slot under Undisturbed.
LEMMA WorkerAlone ==
  ASSUME Undisturbed, AloneInv, NEW w \in Workers, WorkerStep(w)
  PROVE  AllOwn' /\ FetchesAlone'
  <1>0. /\ feeds \in [Feeds -> FeedRow] /\ worker \in [Workers -> Execution]
        /\ \A v \in Workers : worker[v].phase # "idle" => worker[v].job \in JobIds /\ worker[v].owns
    BY DEF AloneInv, IInv, TypeOK, BusySlots, AllOwn
  <1>1. ASSUME NEW j \in JobIds, StartJob(w, j) PROVE AllOwn' /\ FetchesAlone'
    <2> DEFINE run == [phase |-> "fetching", job |-> j, owns |-> TRUE, alone |-> ~Running(j[1]),
                       errorCount |-> feeds[j[1]].errorCount]
    <2>1. \A v \in Workers : worker[v].phase # "idle" => worker[v].job[1] # j[1]
      <3>1. \A v \in Workers : worker[v].phase # "idle" => worker[v].job # j
        BY <1>0, <1>1 DEF StartJob, AloneInv, IInv, OneOwnerPerJob
      <3>2. \A i, k \in JobIds : i[1] = k[1] => i = k
        BY DEF JobIds, Slots, Undisturbed
      <3> QED
        BY <1>0, <3>1, <3>2
    <2>2. ~Running(j[1])
      BY <2>1 DEF Running
    <2>3. run.owns /\ run.alone
      BY <2>2
    <2>4. run \in Execution
      <3>1. feeds[j[1]].errorCount \in 0 .. MaxErrors
        BY <1>0, JobIdsPairs DEF FeedRow
      <3>2. (~Running(j[1])) \in BOOLEAN
        BY Zenon
      <3> HIDE DEF Running
      <3> QED
        BY <3>1, <3>2 DEF Execution
    <2>5. Starts(w, run, j[1])
      BY <1>1 DEF StartJob, Starts
    <2> HIDE DEF run
    <2>6. /\ worker'[w] = run
          /\ \A v \in Workers \ {w} : Passed(worker[v], worker'[v], j[1])
      BY <1>0, <2>4, <2>5, StartsOthers
    <2> QED
      BY <2>1, <2>3, <2>6 DEF Passed, SameRun, AloneInv, AllOwn, FetchesAlone
  <1>2. ASSUME NEW ph \in {"completed", "failed"}, Reported(w, ph), worker[w].phase # "idle"
        PROVE  AllOwn' /\ FetchesAlone'
    <2>1. /\ worker'[w].phase = ph /\ worker'[w].owns = worker[w].owns
          /\ \A v \in Workers \ {w} : worker'[v] = worker[v]
      BY <1>0, <1>2, ReportMoves
    <2> QED
      BY <1>2, <2>1 DEF AloneInv, AllOwn, FetchesAlone
  <1>3. CASE ReportSuccess(w) \/ ReportLost(w)
    BY <1>2, <1>3 DEF ReportSuccess, ReportLost
  <1>4. CASE \E kind \in FailureKinds : ReportFailure(w, kind)
    <2>1. worker[w].phase # "idle" /\ \E ph \in {"completed", "failed"} : Reported(w, ph)
      BY <1>4 DEF ReportFailure
    <2> QED
      BY <1>2, <2>1
  <1>5. CASE SuccessUnanswered(w)
    <2>1. /\ worker'[w].alone = worker[w].alone /\ worker'[w].owns = worker[w].owns
          /\ worker[w].phase = "fetching"
          /\ \A v \in Workers \ {w} : worker'[v] = worker[v]
      BY <1>0, <1>5 DEF SuccessUnanswered, Execution
    <2> QED
      BY <2>1 DEF AloneInv, AllOwn, FetchesAlone
  <1>6. CASE CompleteJob(w) \/ FailAttempt(w) \/ WorkerCrash(w)
    <2>1. worker' = [worker EXCEPT ![w] = IdleSlot]
      BY <1>6 DEF CompleteJob, FailAttempt, WorkerCrash
    <2>2. \A v \in Workers : worker'[v] = IdleSlot \/ worker'[v] = worker[v]
      BY <1>0, <2>1
    <2> QED
      BY <2>2, IdleSlotType DEF AloneInv, AllOwn, FetchesAlone
  <1>7. CASE LoseLock(w)
    BY <1>7 DEF LoseLock, Fault, Undisturbed
  <1> QED
    BY <1>1, <1>3, <1>4, <1>5, <1>6, <1>7 DEF WorkerStep

\* Scheduled fetches with locks that hold never run a feed twice at a time, for any
\* number of feeds, slots, schedulers, crashes and lost answers: a stale error_count
\* takes a manual check, a worker that runs on without its lock, or a lost answer.
THEOREM FetchesRunAlone ==
  ASSUME Undisturbed
  PROVE  Spec => []FetchesAlone
  <1>1. Init => AloneInv
    <2>1. Init => AllOwn /\ FetchesAlone
      BY IdleSlotType DEF Init, AllOwn, FetchesAlone
    <2> QED
      BY <2>1, InitIInv DEF AloneInv
  <1>2. AloneInv /\ [Next]_vars => AloneInv'
    <2> SUFFICES ASSUME AloneInv, [Next]_vars PROVE AllOwn' /\ FetchesAlone'
      BY NextIInv DEF AloneInv
    <2>1. CASE UNCHANGED worker
      BY <2>1 DEF AloneInv, AllOwn, FetchesAlone
    <2>2. CASE \E w \in Workers : WorkerStep(w)
      BY <2>2, WorkerAlone
    <2>3. ~RedisFlush
      BY DEF RedisFlush, Fault, Undisturbed
    <2>4. (\E w \in Workers : WorkerStep(w)) \/ UNCHANGED worker
      <3>1. CASE \E s \in Schedulers : SchedulerStep(s)
        BY <3>1 DEF SchedulerStep, Sweep, ClaimDueFeeds, ClaimFails, TickEnds, SchedulerCrash, LookUpJob, AddJob, EnqueueFails
      <3>2. CASE ApiStep \/ \E f \in Feeds : BecomeDue(f) \/ ClaimAges(f)
        BY <3>2 DEF ApiStep, ReadForUpdate, WriteUpdate, AdmitCheck, EnqueueCheck, BecomeDue, ClaimAges
      <3>3. CASE \E j \in JobIds : PromoteDelayed(j) \/ Stall(j)
        BY <3>3 DEF PromoteDelayed, Stall
      <3>4. CASE UNCHANGED vars
        BY <3>4 DEF vars
      <3> QED
        BY <2>3, <3>1, <3>2, <3>3, <3>4 DEF Next
    <2> QED
      BY <2>1, <2>2, <2>4
  <1>3. AloneInv => FetchesAlone
    BY DEF AloneInv
  <1> QED
    BY <1>1, <1>2, <1>3, PTL DEF Spec

-----------------------------------------------------------------------------
(* Dormant feeds. What rests is not in the batch of a claim, has no job a   *)
(* slot could take and no slot that could report on it; a late enqueue or a *)
(* retry would need one of those.                                           *)

PausedByUser(f) == feeds[f].status = "paused" /\ ~feeds[f].auto

JobsAtRest(f) == \A j \in JobIds : j[1] = f => jobs[j].state \in {"absent", "failed"}

SlotsElsewhere(f) == \A w \in Workers : worker[w].phase # "idle" => worker[w].job[1] # f

Unlisted(f) == \A s \in Schedulers : f \notin sched[s].lookups /\ f \notin sched[s].adds

AtRest(f) == PausedByUser(f) /\ JobsAtRest(f) /\ SlotsElsewhere(f) /\ Unlisted(f)

\* A dormant feed is at rest and nobody asks for it.
LEMMA DormantWords ==
  ASSUME TypeOK, NEW f \in Feeds
  PROVE  Dormant(f) <=> AtRest(f) /\ ~Requested(f)
  <1>1. \A j \in JobIds : jobs[j].state \in {"absent", "waiting", "delayed", "active", "failed"}
    BY DEF TypeOK, JobState
  <1>2. ~InQueue(f) <=> JobsAtRest(f)
    BY <1>1 DEF InQueue, JobsAtRest
  <1>3. ~Running(f) <=> SlotsElsewhere(f)
    BY DEF Running, SlotsElsewhere
  <1> QED
    BY <1>2, <1>3 DEF Dormant, AtRest, PausedByUser, Unlisted

\* Failing another feed's job for good evicts a job or leaves it, and queues none.
LEMMA FailForGoodRests ==
  ASSUME NEW f \in Feeds, AtRest(f), NEW j \in JobIds, NEW made, FailForGood(j, made)
  PROVE  JobsAtRest(f)'
  <1>1. \A i \in JobIds : jobs'[i].state = "failed" \/ jobs'[i] = Absent \/ jobs'[i] = jobs[i]
    BY DEF FailForGood
  <1> QED
    BY <1>1, AbsentType DEF AtRest, JobsAtRest

\* Adding or moving the job of another feed leaves the jobs of f at rest.
LEMMA OtherJobRests ==
  ASSUME TypeOK, NEW f \in Feeds, AtRest(f), NEW j \in JobIds, j[1] # f \/ UNCHANGED jobs,
         \A i \in JobIds : i # j => jobs'[i] = jobs[i]
  PROVE  JobsAtRest(f)'
  BY DEF AtRest, JobsAtRest

\* Time passes, a claim ages, and the sweep or a claim rewrites rows.
LEMMA SchedulerRests ==
  ASSUME IInv, NEW f \in Feeds, AtRest(f), NEW s \in Schedulers, SchedulerStep(s)
  PROVE  AtRest(f)'
  <1>0. /\ feeds \in [Feeds -> FeedRow] /\ jobs \in [JobIds -> JobState]
        /\ sched \in [Schedulers -> Tick] /\ f \notin sched[s].lookups /\ f \notin sched[s].adds
    BY DEF IInv, TypeOK, AtRest, Unlisted
  <1>1. UNCHANGED worker
    BY DEF SchedulerStep, Sweep, ClaimDueFeeds, ClaimFails, TickEnds, SchedulerCrash, LookUpJob, AddJob, EnqueueFails
  <1>2. SlotsElsewhere(f)'
    BY <1>1 DEF AtRest, SlotsElsewhere
  <1>3. CASE Sweep(s)
    <2>1. feeds'[f].status = feeds[f].status /\ feeds'[f].auto = feeds[f].auto
      <3>1. feeds'[f] = feeds[f] \/ feeds'[f] = ReleaseStuck(feeds[f])
        BY <1>3 DEF Sweep
      <3>2. ReleaseStuck(feeds[f]).status = feeds[f].status /\ ReleaseStuck(feeds[f]).auto = feeds[f].auto
        BY <1>0 DEF ReleaseStuck, FeedRow
      <3> QED
        BY <3>1, <3>2
    <2>2. sched' = [sched EXCEPT ![s].pc = "claim"] /\ UNCHANGED jobs
      BY <1>3 DEF Sweep
    <2>3. Unlisted(f)'
      BY <1>0, <2>2 DEF AtRest, Unlisted, Tick
    <2> QED
      BY <1>2, <2>1, <2>2, <2>3 DEF AtRest, PausedByUser, JobsAtRest
  <1>4. CASE ClaimDueFeeds(s)
    <2>1. PICK batch \in SUBSET Claimable :
            /\ feeds' = [g \in Feeds |-> IF g \in batch
                                         THEN [feeds[g] EXCEPT !.claim = "fresh", !.due = FALSE]
                                         ELSE feeds[g]]
            /\ sched' = [sched EXCEPT ![s].pc = "enqueue", ![s].lookups = sched[s].lookups \cup batch]
      BY <1>4 DEF ClaimDueFeeds
    <2>2. f \notin batch
      BY <2>1 DEF Claimable, Pollable, AtRest, PausedByUser
    <2>3. feeds'[f] = feeds[f] /\ UNCHANGED jobs
      BY <1>4, <2>1, <2>2 DEF ClaimDueFeeds
    <2>4. Unlisted(f)'
      BY <1>0, <2>1, <2>2 DEF AtRest, Unlisted, Tick
    <2> QED
      BY <1>2, <2>3, <2>4 DEF AtRest, PausedByUser, JobsAtRest
  <1>5. CASE ClaimFails(s) \/ TickEnds(s)
    <2>1. sched' = [sched EXCEPT ![s].pc = "idle"] /\ UNCHANGED <<feeds, jobs>>
      BY <1>5 DEF ClaimFails, TickEnds
    <2>2. Unlisted(f)'
      BY <1>0, <2>1 DEF AtRest, Unlisted, Tick
    <2> QED
      BY <1>2, <2>1, <2>2 DEF AtRest, PausedByUser, JobsAtRest
  <1>6. CASE SchedulerCrash(s)
    <2>1. sched' = [sched EXCEPT ![s] = IdleTick] /\ UNCHANGED <<feeds, jobs>>
      BY <1>6 DEF SchedulerCrash
    <2>2. Unlisted(f)'
      BY <1>0, <2>1 DEF AtRest, Unlisted, IdleTick
    <2> QED
      BY <1>2, <2>1, <2>2 DEF AtRest, PausedByUser, JobsAtRest
  <1>7. ASSUME NEW g \in Feeds, LookUpJob(s, g) PROVE AtRest(f)'
    <2>1. g # f /\ UNCHANGED <<feeds, jobs>>
      BY <1>0, <1>7 DEF LookUpJob
    <2>2. Unlisted(f)'
      BY <1>0, <1>7, <2>1 DEF LookUpJob, AtRest, Unlisted, Tick
    <2> QED
      BY <1>2, <2>1, <2>2 DEF AtRest, PausedByUser, JobsAtRest
  <1>8. ASSUME NEW g \in Feeds, AddJob(s, g) PROVE AtRest(f)'
    <2> DEFINE j == <<g, "scheduler">>
    <2>1. g # f /\ UNCHANGED feeds /\ sched' = [sched EXCEPT ![s].adds = sched[s].adds \ {g}]
      BY <1>0, <1>8 DEF AddJob
    <2>2. Unlisted(f)'
      BY <1>0, <2>1 DEF AtRest, Unlisted, Tick
    <2>3. j \in JobIds /\ j[1] = g
      BY DEF JobIds, Slots
    <2>4. \A i \in JobIds : i # j => jobs'[i] = jobs[i]
      BY <1>0, <1>8 DEF AddJob, QueueAdd
    <2>5. JobsAtRest(f)'
      BY <2>1, <2>3, <2>4, OtherJobRests DEF IInv
    <2> QED
      BY <1>2, <2>1, <2>2, <2>5 DEF AtRest, PausedByUser
  <1>9. ASSUME NEW g \in Feeds, EnqueueFails(s, g) PROVE AtRest(f)'
    <2>1. UNCHANGED <<feeds, jobs>>
      BY <1>9 DEF EnqueueFails
    <2>2. Unlisted(f)'
      BY <1>0, <1>9 DEF EnqueueFails, AtRest, Unlisted, Tick
    <2> QED
      BY <1>2, <2>1, <2>2 DEF AtRest, PausedByUser, JobsAtRest
  <1> QED
    BY <1>3, <1>4, <1>5, <1>6, <1>7, <1>8, <1>9 DEF SchedulerStep

\* The queue promotes, requeues or forgets jobs of other feeds only.
LEMMA QueueRests ==
  ASSUME IInv, NEW f \in Feeds, AtRest(f),
         RedisFlush \/ \E j \in JobIds : PromoteDelayed(j) \/ Stall(j)
  PROVE  AtRest(f)'
  <1>0. jobs \in [JobIds -> JobState] /\ worker \in [Workers -> Execution]
    BY DEF IInv, TypeOK
  <1>1. UNCHANGED <<feeds, sched>>
    BY DEF RedisFlush, PromoteDelayed, Stall
  <1>2. PausedByUser(f)' /\ Unlisted(f)'
    BY <1>1 DEF AtRest, PausedByUser, Unlisted
  <1>3. CASE RedisFlush
    <2>1. \A j \in JobIds : jobs'[j] = Absent
      BY <1>3 DEF RedisFlush
    <2>2. \A w \in Workers : worker'[w].phase = worker[w].phase /\ worker'[w].job = worker[w].job
      BY <1>0, <1>3 DEF RedisFlush, Execution
    <2> QED
      BY <1>2, <2>1, <2>2, AbsentType DEF AtRest, JobsAtRest, SlotsElsewhere
  <1>4. ASSUME NEW j \in JobIds, PromoteDelayed(j) \/ Stall(j) PROVE AtRest(f)'
    <2>1. UNCHANGED worker /\ jobs[j].state \in {"delayed", "active"}
      BY <1>4 DEF PromoteDelayed, Stall
    <2>2. j[1] # f
      BY <2>1 DEF AtRest, JobsAtRest
    <2>3. JobsAtRest(f)'
      <3>1. CASE \A i \in JobIds : i # j => jobs'[i] = jobs[i]
        BY <2>2, <3>1, OtherJobRests DEF IInv
      <3>2. CASE \E made : FailForGood(j, made)
        BY <3>2, FailForGoodRests
      <3> QED
        BY <1>0, <1>4, <3>1, <3>2 DEF PromoteDelayed, Stall
    <2> QED
      BY <1>2, <2>1, <2>3 DEF AtRest, SlotsElsewhere
  <1> QED
    BY <1>3, <1>4

\* A slot takes, reports on and ends jobs of other feeds only.
LEMMA WorkerRests ==
  ASSUME IInv, NEW f \in Feeds, AtRest(f), NEW w \in Workers, WorkerStep(w)
  PROVE  AtRest(f)'
  <1>0. /\ feeds \in [Feeds -> FeedRow] /\ jobs \in [JobIds -> JobState] /\ worker \in [Workers -> Execution]
        /\ worker[w].phase # "idle" => worker[w].job \in JobIds /\ worker[w].job[1] # f
    BY DEF IInv, TypeOK, BusySlots, AtRest, SlotsElsewhere
  <1>1. UNCHANGED sched
    BY DEF WorkerStep, StartJob, ReportSuccess, SuccessUnanswered, ReportLost, ReportFailure, CompleteJob, FailAttempt, WorkerCrash, LoseLock
  <1>2. Unlisted(f)'
    BY <1>1 DEF AtRest, Unlisted
  <1>3. ASSUME NEW j \in JobIds, StartJob(w, j) PROVE AtRest(f)'
    <2>1. j[1] # f
      BY <1>3 DEF StartJob, AtRest, JobsAtRest
    <2>2. UNCHANGED feeds /\ \A i \in JobIds : i # j => jobs'[i] = jobs[i]
      BY <1>0, <1>3 DEF StartJob
    <2>3. JobsAtRest(f)'
      BY <2>1, <2>2, OtherJobRests DEF IInv
    <2>4. /\ worker'[w].job = j
          /\ \A v \in Workers : v # w => worker'[v].phase = worker[v].phase /\ worker'[v].job = worker[v].job
      BY <1>0, <1>3 DEF StartJob, Execution
    <2> QED
      BY <1>2, <2>1, <2>2, <2>3, <2>4 DEF AtRest, PausedByUser, SlotsElsewhere
  <1>4. ASSUME worker[w].phase \in {"fetching", "unanswered"}, UNCHANGED jobs,
               NEW ph \in {"completed", "failed", "unanswered"},
               Reported(w, ph) \/ worker' = [worker EXCEPT ![w].phase = ph],
               \A g \in Feeds : g # worker[w].job[1] => feeds'[g] = feeds[g]
        PROVE  AtRest(f)'
    <2>1. feeds'[f] = feeds[f]
      BY <1>0, <1>4
    <2>2. \A v \in Workers : worker'[v].job = worker[v].job /\ (v # w => worker'[v] = worker[v])
      BY <1>0, <1>4, ReportMoves
    <2> QED
      BY <1>0, <1>2, <1>4, <2>1, <2>2 DEF AtRest, PausedByUser, JobsAtRest, SlotsElsewhere
  <1>5. CASE ReportSuccess(w) \/ SuccessUnanswered(w)
    <2>1. \A g \in Feeds : g # worker[w].job[1] => feeds'[g] = feeds[g]
      BY <1>0, <1>5 DEF ReportSuccess, SuccessUnanswered, UpdateAfterFetch
    <2> QED
      BY <1>4, <1>5, <2>1 DEF ReportSuccess, SuccessUnanswered
  <1>6. CASE ReportLost(w)
    BY <1>4, <1>6 DEF ReportLost
  <1>7. ASSUME NEW kind \in FailureKinds, ReportFailure(w, kind) PROVE AtRest(f)'
    <2>1. \A g \in Feeds : g # worker[w].job[1] => feeds'[g] = feeds[g]
      BY <1>0, <1>7 DEF ReportFailure, UpdateAfterFetch
    <2>2. /\ worker[w].phase \in {"fetching", "unanswered"} /\ UNCHANGED jobs
          /\ \E ph \in {"completed", "failed"} : Reported(w, ph)
      BY <1>7 DEF ReportFailure
    <2> QED
      BY <1>4, <2>1, <2>2
  <1>8. ASSUME worker' = [worker EXCEPT ![w] = IdleSlot], UNCHANGED feeds, JobsAtRest(f)' PROVE AtRest(f)'
    <2>1. \A v \in Workers : worker'[v] = IF v = w THEN IdleSlot ELSE worker[v]
      BY <1>0, <1>8
    <2> QED
      BY <1>2, <1>8, <2>1, IdleSlotType DEF AtRest, PausedByUser, SlotsElsewhere
  <1>9. CASE CompleteJob(w)
    <2>1. worker[w].job \in JobIds /\ worker[w].job[1] # f
      BY <1>0, <1>9 DEF CompleteJob
    <2>2. \A i \in JobIds : i # worker[w].job => jobs'[i] = jobs[i]
      BY <1>0, <1>9 DEF CompleteJob
    <2>3. JobsAtRest(f)'
      BY <2>1, <2>2, OtherJobRests DEF IInv
    <2> QED
      BY <1>8, <1>9, <2>3 DEF CompleteJob
  <1>10. CASE FailAttempt(w)
    <2>1. worker[w].job \in JobIds /\ worker[w].job[1] # f
      BY <1>0, <1>10 DEF FailAttempt
    <2>2. CASE \A i \in JobIds : i # worker[w].job => jobs'[i] = jobs[i]
      <3>1. JobsAtRest(f)'
        BY <2>1, <2>2, OtherJobRests DEF IInv
      <3> QED
        BY <1>8, <1>10, <3>1 DEF FailAttempt
    <2>3. CASE \E made : FailForGood(worker[w].job, made)
      <3>1. JobsAtRest(f)'
        BY <2>1, <2>3, FailForGoodRests
      <3> QED
        BY <1>8, <1>10, <3>1 DEF FailAttempt
    <2> QED
      BY <1>0, <1>10, <2>2, <2>3 DEF FailAttempt
  <1>11. CASE WorkerCrash(w)
    <2>1. worker' = [worker EXCEPT ![w] = IdleSlot] /\ UNCHANGED <<feeds, jobs>>
      BY <1>11 DEF WorkerCrash
    <2>2. JobsAtRest(f)'
      BY <2>1 DEF AtRest, JobsAtRest
    <2> QED
      BY <1>8, <2>1, <2>2
  <1>12. CASE LoseLock(w)
    <2>1. UNCHANGED <<feeds, jobs>>
      BY <1>12 DEF LoseLock
    <2>2. \A v \in Workers : worker'[v].phase = worker[v].phase /\ worker'[v].job = worker[v].job
      BY <1>0, <1>12 DEF LoseLock, Execution
    <2> QED
      BY <1>2, <2>1, <2>2 DEF AtRest, PausedByUser, JobsAtRest, SlotsElsewhere
  <1> QED
    BY <1>3, <1>5, <1>6, <1>7, <1>9, <1>10, <1>11, <1>12 DEF WorkerStep

\* Requests for other feeds, and time, leave f at rest.
LEMMA OthersRest ==
  ASSUME IInv, NEW f \in Feeds, AtRest(f), ~Requested(f),
         ApiStep \/ \E g \in Feeds : BecomeDue(g) \/ ClaimAges(g)
  PROVE  AtRest(f)'
  <1>0. /\ feeds \in [Feeds -> FeedRow] /\ jobs \in [JobIds -> JobState] /\ updates \subseteq Update
    BY DEF IInv, TypeOK
  <1>1. UNCHANGED <<sched, worker>>
    BY DEF ApiStep, ReadForUpdate, WriteUpdate, AdmitCheck, EnqueueCheck, BecomeDue, ClaimAges
  <1>2. Unlisted(f)' /\ SlotsElsewhere(f)'
    BY <1>1 DEF AtRest, Unlisted, SlotsElsewhere
  <1>3. ASSUME UNCHANGED jobs, feeds'[f].status = feeds[f].status, feeds'[f].auto = feeds[f].auto
        PROVE  AtRest(f)'
    BY <1>2, <1>3 DEF AtRest, PausedByUser, JobsAtRest
  <1>4. ASSUME NEW g \in Feeds, BecomeDue(g) \/ ClaimAges(g) PROVE AtRest(f)'
    <2>1. UNCHANGED jobs /\ feeds'[f].status = feeds[f].status /\ feeds'[f].auto = feeds[f].auto
      BY <1>0, <1>4 DEF BecomeDue, ClaimAges, FeedRow
    <2> QED
      BY <1>3, <2>1
  <1>5. ASSUME NEW u \in updates, WriteUpdate(u) PROVE AtRest(f)'
    <2>1. u.feed # f
      BY DEF Requested
    <2>2. UNCHANGED jobs /\ feeds'[f] = feeds[f]
      BY <1>0, <1>5, <2>1 DEF WriteUpdate
    <2> QED
      BY <1>3, <2>2
  <1>6. ASSUME NEW g \in Feeds, EnqueueCheck(g) PROVE AtRest(f)'
    <2>1. g # f /\ UNCHANGED feeds
      BY <1>6 DEF EnqueueCheck, Requested
    <2>2. PICK m \in ManualIds : QueueAdd(<<g, m>>)
      BY <1>6 DEF EnqueueCheck
    <2>3. <<g, m>> \in JobIds /\ <<g, m>>[1] = g
      BY DEF JobIds, Slots
    <2>4. \A i \in JobIds : i # <<g, m>> => jobs'[i] = jobs[i]
      BY <1>0, <2>2 DEF QueueAdd
    <2>5. JobsAtRest(f)'
      BY <2>1, <2>3, <2>4, OtherJobRests DEF IInv
    <2> QED
      BY <1>2, <2>1, <2>5 DEF AtRest, PausedByUser
  <1>7. CASE UNCHANGED <<feeds, jobs>>
    BY <1>3, <1>7
  <1> QED
    BY <1>4, <1>5, <1>6, <1>7 DEF ApiStep, ReadForUpdate, AdmitCheck

\* Nothing but a new request wakes a dormant feed.
LEMMA DormantStep ==
  ASSUME IInv, [Next]_vars
  PROVE  \A f \in Feeds : Dormant(f) => Dormant(f)' \/ Requested(f)'
  <1> SUFFICES ASSUME NEW f \in Feeds, Dormant(f), ~Requested(f)' PROVE Dormant(f)'
    OBVIOUS
  <1>1. AtRest(f) /\ ~Requested(f)
    BY DormantWords DEF IInv
  <1>2. AtRest(f)'
    <2>1. CASE UNCHANGED vars
      BY <1>1, <2>1 DEF vars, AtRest, PausedByUser, JobsAtRest, SlotsElsewhere, Unlisted
    <2>2. CASE Next
      BY <1>1, <2>2, SchedulerRests, QueueRests, WorkerRests, OthersRest DEF Next
    <2> QED
      BY <2>1, <2>2
  <1>3. TypeOK'
    BY NextIInv DEF IInv
  <1>4. \A j \in JobIds : jobs'[j].state \in {"absent", "waiting", "delayed", "active", "failed"}
    BY <1>3 DEF TypeOK, JobState
  <1>5. ~InQueue(f)' /\ ~Running(f)'
    BY <1>2, <1>4 DEF AtRest, JobsAtRest, SlotsElsewhere, InQueue, Running
  <1> QED
    BY <1>2, <1>5 DEF Dormant, AtRest, PausedByUser, Unlisted

\* A paused feed that was not auto-paused, and that nothing of before the pause can
\* reach, stays paused and unfetched until somebody asks for it again: claimDueFeeds,
\* the sweep, late enqueues, retries and reports never bring it back. It says nothing
\* of a feed auto-paused before its owner paused it: update() leaves the last_error
\* that claimDueFeeds looks for, and such a feed is polled.
THEOREM DormantFeedsStay == Spec => DormantFeedsRest
  <1>1. IInv /\ [Next]_vars => [\A f \in Feeds : Dormant(f) => Dormant(f)' \/ Requested(f)']_vars
    BY DormantStep
  <1> QED
    BY <1>1, InitIInv, NextIInv, PTL DEF Spec, DormantFeedsRest
=============================================================================
