----------------------------- MODULE FeedClaims -----------------------------
(***************************************************************************)
(* Feed polling in FeedPulse: the claim columns of the `feeds` table, the  *)
(* BullMQ queue `fetch-feed`, the scheduler's tick, the worker's feed job  *)
(* and the API requests (PATCH, DELETE, check-now) that race with them.    *)
(*                                                                         *)
(* Time is abstracted to what the SQL compares: `due` stands for           *)
(* next_check_at <= NOW(), and a claim is "fresh" or "stale" according to  *)
(* claimed_at being younger or older than the stuck-feed threshold.        *)
(***************************************************************************)
EXTENDS Integers, Sequences, FiniteSets

CONSTANTS
    Feeds,             \* rows of the feeds table
    Schedulers,        \* scheduler processes (one in the documented deployment)
    Workers,           \* concurrency slots of the worker processes
    ManualIds,         \* suffixes that make the job id of a manual check unique
    NoJob,             \* what an idle worker slot is running
    BatchSize,         \* SCHEDULER_BATCH_SIZE
    Attempts,          \* `attempts` of the fetch-feed queue
    MaxStalls,         \* BullMQ's maxStalledCount
    RetainFailed,      \* `removeOnFail`: failed jobs kept in Redis
    DnsThreshold,      \* DNS failures before an auto-pause
    BlockedThreshold,  \* 403 answers before an auto-pause
    MaxErrors,         \* bound: error_count saturates here
    Faults,            \* kinds of failure that may happen
    MaxFaults,         \* bound: how many failures may happen
    MaxRequests        \* bound: how many API requests may be made

FaultKinds == {"scheduler_crash", "worker_crash", "lock_lost", "redis_flush",
               "redis_error", "db_error"}

ASSUME ConstantsAssumption ==
    /\ BatchSize \in Nat \ {0} /\ Attempts \in Nat \ {0} /\ MaxStalls \in Nat
    /\ RetainFailed \in Nat \ {0}
    /\ DnsThreshold \in Nat \ {0} /\ BlockedThreshold \in Nat \ {0}
    /\ MaxErrors \in Nat /\ MaxErrors >= DnsThreshold /\ MaxErrors >= BlockedThreshold
    /\ Faults \subseteq FaultKinds /\ MaxFaults \in Nat /\ MaxRequests \in Nat
    /\ "scheduler" \notin ManualIds
    /\ NoJob \notin Feeds \X ({"scheduler"} \cup ManualIds)

VARIABLES
    feeds,     \* the claim-related columns of each feed row
    jobs,      \* the fetch-feed queue, by job id
    failed,    \* retained failed jobs, oldest first
    sched,     \* each scheduler's tick
    worker,    \* what each worker slot is running
    updates,   \* PATCH/DELETE requests between their read and their write
    checks,    \* check-now requests between isClaimed and the enqueue
    faults,    \* failures so far
    requests   \* API requests so far

vars == <<feeds, jobs, failed, sched, worker, updates, checks, faults, requests>>

-----------------------------------------------------------------------------
(* Types *)

Statuses == {"active", "error", "paused"}

\* `feed-<id>` for the scheduler, `feed-<id>-manual-<ms>` for check-now.
Slots  == {"scheduler"} \cup ManualIds
JobIds == Feeds \X Slots

FeedRow == [status: Statuses, auto: BOOLEAN, errorCount: 0 .. MaxErrors,
            due: BOOLEAN, claim: {"none", "fresh", "stale"}]

JobState == [state: {"absent", "waiting", "delayed", "active", "failed"},
             made: 0 .. Attempts, stalls: 0 .. MaxStalls]

Tick == [pc: {"idle", "claim", "enqueue"}, lookups: SUBSET Feeds, adds: SUBSET Feeds]

\* "unanswered": the success was written, and the worker does not know it. `alone`
\* is for the properties: no other slot has run the feed since this one began.
Execution == [phase: {"idle", "fetching", "unanswered", "completed", "failed"},
              job: JobIds \cup {NoJob}, errorCount: 0 .. MaxErrors, owns: BOOLEAN, alone: BOOLEAN]

Update == [feed: Feeds, status: Statuses, due: BOOLEAN]

Absent    == [state |-> "absent", made |-> 0, stalls |-> 0]
Queued    == [state |-> "waiting", made |-> 0, stalls |-> 0]
IdleSlot  == [phase |-> "idle", job |-> NoJob, errorCount |-> 0, owns |-> FALSE, alone |-> FALSE]
IdleTick  == [pc |-> "idle", lookups |-> {}, adds |-> {}]

\* The types of the variables.
TypeOK ==
    /\ feeds \in [Feeds -> FeedRow]
    /\ jobs \in [JobIds -> JobState]
    /\ failed \in Seq(JobIds)
    /\ sched \in [Schedulers -> Tick]
    /\ worker \in [Workers -> Execution]
    /\ updates \subseteq Update
    /\ checks \subseteq Feeds
    /\ faults \in 0 .. MaxFaults
    /\ requests \in 0 .. MaxRequests

\* Every feed was registered: active, due at once and unclaimed.
Init ==
    /\ feeds = [f \in Feeds |-> [status |-> "active", auto |-> FALSE, errorCount |-> 0,
                                 due |-> TRUE, claim |-> "none"]]
    /\ jobs = [j \in JobIds |-> Absent]
    /\ failed = <<>>
    /\ sched = [s \in Schedulers |-> IdleTick]
    /\ worker = [w \in Workers |-> IdleSlot]
    /\ updates = {} /\ checks = {}
    /\ faults = 0 /\ requests = 0

Fault(kind) ==
    /\ kind \in Faults
    /\ faults < MaxFaults
    /\ faults' = faults + 1

Request ==
    /\ requests < MaxRequests
    /\ requests' = requests + 1

-----------------------------------------------------------------------------
(* Time *)

\* next_check_at comes into the past.
BecomeDue(f) ==
    /\ ~feeds[f].due
    /\ feeds' = [feeds EXCEPT ![f].due = TRUE]
    /\ UNCHANGED <<jobs, failed, sched, worker, updates, checks, faults, requests>>

\* claimed_at comes to be older than SCHEDULER_STUCK_FEED_THRESHOLD_SECONDS.
ClaimAges(f) ==
    /\ feeds[f].claim = "fresh"
    /\ feeds' = [feeds EXCEPT ![f].claim = "stale"]
    /\ UNCHANGED <<jobs, failed, sched, worker, updates, checks, faults, requests>>

-----------------------------------------------------------------------------
(* The scheduler: one tick sweeps, claims and enqueues. A new tick starts   *)
(* only when the previous one is over (runTick's inFlight guard).           *)

\* Mutant: the sweep looks at claimable feeds only.
ReleaseStuckPolled(row) ==
    IF row.claim = "stale" /\ row.status # "paused"
    THEN [row EXCEPT !.claim = "none", !.due = TRUE] ELSE row

\* UPDATE ... WHERE claimed_at < threshold: the row is free and due again.
ReleaseStuck(row) ==
    IF row.claim = "stale" THEN [row EXCEPT !.claim = "none", !.due = TRUE] ELSE row

\* The sweep comes first; when it throws, the tick goes on without it.
Sweep(s) ==
    /\ sched[s].pc = "idle"
    /\ \/ /\ feeds' = [f \in Feeds |-> ReleaseStuck(feeds[f])]
          /\ UNCHANGED faults
       \/ /\ Fault("db_error")
          /\ UNCHANGED feeds
    /\ sched' = [sched EXCEPT ![s].pc = "claim"]
    /\ UNCHANGED <<jobs, failed, worker, updates, checks, requests>>

\* Mutant: every paused feed is claimed, whoever paused it.
PollableAnyPaused(f) == feeds[f].status \in Statuses

\* The status condition of claimDueFeeds.
Pollable(f) ==
    \/ feeds[f].status \in {"active", "error"}
    \/ feeds[f].status = "paused" /\ feeds[f].auto

\* Mutant: feeds in error are never claimed.
ClaimableActive ==
    {f \in Feeds : feeds[f].due /\ feeds[f].claim = "none" /\ feeds[f].status = "active"}

Claimable == {f \in Feeds : feeds[f].due /\ feeds[f].claim = "none" /\ Pollable(f)}

Priority(f) ==
    CASE feeds[f].status = "active" -> 0
      [] feeds[f].status = "error"  -> 1
      [] OTHER -> 2

\* A full batch in priority order; next_check_at breaks ties, so any of the
\* feeds of equal priority may come first.
IsBatch(batch) ==
    /\ batch = Claimable \/ (batch \subseteq Claimable /\ Cardinality(batch) = BatchSize)
    /\ Cardinality(batch) <= BatchSize
    /\ \A f \in batch, g \in Claimable \ batch : Priority(f) <= Priority(g)

\* One atomic UPDATE claims the batch and pushes next_check_at forward.
ClaimDueFeeds(s) ==
    /\ sched[s].pc = "claim"
    /\ \E batch \in SUBSET Claimable :
        /\ IsBatch(batch)
        /\ feeds' = [f \in Feeds |-> IF f \in batch
                                     THEN [feeds[f] EXCEPT !.claim = "fresh", !.due = FALSE]
                                     ELSE feeds[f]]
        /\ sched' = [sched EXCEPT ![s].pc = "enqueue",
                                  ![s].lookups = sched[s].lookups \cup batch]
    /\ UNCHANGED <<jobs, failed, worker, updates, checks, faults, requests>>

\* claimDueFeeds throws: the tick is over without a claim.
ClaimFails(s) ==
    /\ sched[s].pc = "claim"
    /\ Fault("db_error")
    /\ sched' = [sched EXCEPT ![s].pc = "idle"]
    /\ UNCHANGED <<feeds, jobs, failed, worker, updates, checks, requests>>

\* enqueue, first half: queue.getJob(feed-<id>) in any state deduplicates.
LookUpJob(s, f) ==
    /\ f \in sched[s].lookups
    /\ sched' = [sched EXCEPT
                    ![s].lookups = sched[s].lookups \ {f},
                    ![s].adds = IF jobs[<<f, "scheduler">>].state = "absent"
                                THEN sched[s].adds \cup {f} ELSE sched[s].adds]
    /\ UNCHANGED <<feeds, jobs, failed, worker, updates, checks, faults, requests>>

\* BullMQ's add: a job id that is already in Redis leaves the queue unchanged.
QueueAdd(j) ==
    jobs' = [jobs EXCEPT ![j] = IF jobs[j].state = "absent" THEN Queued ELSE jobs[j]]

\* enqueue, second half.
AddJob(s, f) ==
    /\ f \in sched[s].adds
    /\ QueueAdd(<<f, "scheduler">>)
    /\ sched' = [sched EXCEPT ![s].adds = sched[s].adds \ {f}]
    /\ UNCHANGED <<feeds, failed, worker, updates, checks, faults, requests>>

\* Redis refuses one enqueue: Promise.all rejects and the tick is over, while
\* the other enqueues of the batch go on, or fail too, in the background.
EnqueueFails(s, f) ==
    /\ f \in sched[s].lookups \cup sched[s].adds
    /\ Fault("redis_error")
    /\ sched' = [sched EXCEPT ![s] = [pc |-> IF sched[s].pc = "enqueue" THEN "idle" ELSE sched[s].pc,
                                      lookups |-> sched[s].lookups \ {f},
                                      adds |-> sched[s].adds \ {f}]]
    /\ UNCHANGED <<feeds, jobs, failed, worker, updates, checks, requests>>

TickEnds(s) ==
    /\ sched[s].pc = "enqueue"
    /\ sched[s].lookups = {} /\ sched[s].adds = {}
    /\ sched' = [sched EXCEPT ![s].pc = "idle"]
    /\ UNCHANGED <<feeds, jobs, failed, worker, updates, checks, faults, requests>>

\* The scheduler process dies: its pending enqueues die with it, its claims stay.
SchedulerCrash(s) ==
    /\ sched[s] # IdleTick
    /\ Fault("scheduler_crash")
    /\ sched' = [sched EXCEPT ![s] = IdleTick]
    /\ UNCHANGED <<feeds, jobs, failed, worker, updates, checks, requests>>

SchedulerStep(s) ==
    \/ Sweep(s) \/ ClaimDueFeeds(s) \/ ClaimFails(s) \/ TickEnds(s) \/ SchedulerCrash(s)
    \/ \E f \in Feeds : LookUpJob(s, f) \/ AddJob(s, f) \/ EnqueueFails(s, f)

-----------------------------------------------------------------------------
(* The queue's own moves (BullMQ, external) *)

\* Keeping at most RetainFailed failed jobs evicts the oldest one.
Evicted == IF Len(failed) < RetainFailed THEN {} ELSE {Head(failed)}

Retained(j) == IF Len(failed) < RetainFailed THEN Append(failed, j)
                                              ELSE Append(Tail(failed), j)

\* Job j fails for good: it stays in Redis under its id until it is evicted.
FailForGood(j, made) ==
    /\ jobs' = [i \in JobIds |->
                  IF i = j THEN [state |-> "failed", made |-> made, stalls |-> jobs[j].stalls]
                  ELSE IF i \in Evicted THEN Absent ELSE jobs[i]]
    /\ failed' = Retained(j)

\* The retry backoff of a failed attempt has elapsed.
PromoteDelayed(j) ==
    /\ jobs[j].state = "delayed"
    /\ jobs' = [jobs EXCEPT ![j].state = "waiting"]
    /\ UNCHANGED <<feeds, failed, sched, worker, updates, checks, faults, requests>>

\* The stalled-job check finds an active job that no live worker holds a lock
\* on: it is queued again, or failed when it has stalled too often.
Stall(j) ==
    /\ jobs[j].state = "active"
    /\ \A w \in Workers : ~(worker[w].job = j /\ worker[w].owns)
    /\ \/ /\ jobs[j].stalls < MaxStalls
          /\ jobs' = [jobs EXCEPT ![j].state = "waiting", ![j].stalls = jobs[j].stalls + 1]
          /\ UNCHANGED failed
       \/ /\ jobs[j].stalls = MaxStalls
          /\ FailForGood(j, jobs[j].made)
    /\ UNCHANGED <<feeds, sched, worker, updates, checks, faults, requests>>

\* Redis loses its data: the jobs, the retained failures and every lock.
RedisFlush ==
    /\ Fault("redis_flush")
    /\ jobs' = [j \in JobIds |-> Absent]
    /\ failed' = <<>>
    /\ worker' = [w \in Workers |-> [worker[w] EXCEPT !.owns = FALSE]]
    /\ UNCHANGED <<feeds, sched, updates, checks, requests>>

-----------------------------------------------------------------------------
(* The worker: ProcessFeedJobUseCase.execute *)

\* A slot is busy with f.
Running(f) == \E w \in Workers : worker[w].phase # "idle" /\ worker[w].job[1] = f

\* A free slot takes a waiting job and reads the feed's row; error_count is
\* the one column the use case later computes with. Nothing can tell the take
\* from the read, so they are one step.
StartJob(w, j) ==
    /\ worker[w].phase = "idle"
    /\ jobs[j].state = "waiting"
    /\ jobs' = [jobs EXCEPT ![j].state = "active"]
    /\ worker' = [v \in Workers |->
                    IF v = w THEN [phase |-> "fetching", job |-> j, owns |-> TRUE, alone |-> ~Running(j[1]),
                                   errorCount |-> feeds[j[1]].errorCount]
                    ELSE [worker[v] EXCEPT !.alone = @ /\ worker[v].job[1] # j[1]]]
    /\ UNCHANGED <<feeds, failed, sched, updates, checks, faults, requests>>

\* updateAfterFetch: the report overwrites the row whatever it holds by now,
\* clears the claim and moves next_check_at into the future.
UpdateAfterFetch(f, status, errorCount, auto) ==
    feeds' = [feeds EXCEPT ![f] = [status |-> status, auto |-> auto, due |-> FALSE,
                                   errorCount |-> errorCount, claim |-> "none"]]

\* The use case is over, and what the slot had read with it.
Reported(w, phase) ==
    worker' = [worker EXCEPT ![w] = [@ EXCEPT !.phase = phase, !.errorCount = 0, !.alone = FALSE]]

\* 304, or a 200 whose entries and alerts were committed with the report.
ReportSuccess(w) ==
    /\ worker[w].phase = "fetching"
    /\ UpdateAfterFetch(worker[w].job[1], "active", 0, FALSE)
    /\ Reported(w, "completed")
    /\ UNCHANGED <<jobs, failed, sched, updates, checks, faults, requests>>

\* The COMMIT, or the update after a 304, is done and its answer is lost: the
\* catch block takes it for a failed fetch.
SuccessUnanswered(w) ==
    /\ worker[w].phase = "fetching"
    /\ Fault("db_error")
    /\ UpdateAfterFetch(worker[w].job[1], "active", 0, FALSE)
    /\ worker' = [worker EXCEPT ![w].phase = "unanswered"]
    /\ UNCHANGED <<jobs, failed, sched, updates, checks, requests>>

\* What a failed fetch looks like: 404/410, unusable or unsafe content
\* ("terminal"), 403 ("forbidden"), a name that does not resolve ("dns") or
\* anything else ("transient").
FailureKinds == {"terminal", "forbidden", "dns", "transient"}

NextErrorCount(n) == IF n < MaxErrors THEN n + 1 ELSE n

AutoPauses(kind, errorCount) ==
    \/ kind = "forbidden" /\ errorCount >= BlockedThreshold
    \/ kind = "dns" /\ errorCount >= DnsThreshold

\* The catch block: the count that was read when the job began, plus one, is
\* written over the row, after an unanswered success too. classifyFeedFailure has
\* only a transient failure rethrown to BullMQ; when the answer to the update is
\* lost, the attempt fails whatever the classification.
ReportFailure(w, kind) ==
    LET n    == NextErrorCount(worker[w].errorCount)
        auto == AutoPauses(kind, n)
        rethrow == kind # "terminal" /\ ~auto
    IN  /\ worker[w].phase = "fetching" \/ (worker[w].phase = "unanswered" /\ kind = "transient")
        /\ UpdateAfterFetch(worker[w].job[1], IF rethrow THEN "error" ELSE "paused", n, auto)
        /\ \/ Reported(w, IF rethrow THEN "failed" ELSE "completed") /\ UNCHANGED faults
           \/ Reported(w, "failed") /\ ~rethrow /\ Fault("db_error")
        /\ UNCHANGED <<jobs, failed, sched, updates, checks, requests>>

\* PostgreSQL is unreachable: the attempt fails and its failure is not recorded.
ReportLost(w) ==
    /\ worker[w].phase \in {"fetching", "unanswered"}
    /\ Fault("db_error")
    /\ Reported(w, "failed")
    /\ UNCHANGED <<feeds, jobs, failed, sched, updates, checks, requests>>

\* The processor returned: removeOnComplete drops the job. Without the lock
\* BullMQ refuses, and the job is left to whoever holds it now.
CompleteJob(w) ==
    /\ worker[w].phase = "completed"
    /\ jobs' = IF worker[w].owns THEN [jobs EXCEPT ![worker[w].job] = Absent] ELSE jobs
    /\ worker' = [worker EXCEPT ![w] = IdleSlot]
    /\ UNCHANGED <<feeds, failed, sched, updates, checks, faults, requests>>

\* The processor threw: another attempt after the backoff, or a failed job.
FailAttempt(w) ==
    LET j == worker[w].job
        made == jobs[j].made + 1
    IN  /\ worker[w].phase = "failed"
        /\ \/ /\ worker[w].owns /\ made < Attempts
              /\ jobs' = [jobs EXCEPT ![j].state = "delayed", ![j].made = made]
              /\ UNCHANGED failed
           \/ /\ worker[w].owns /\ made >= Attempts
              /\ FailForGood(j, Attempts)
           \/ /\ ~worker[w].owns
              /\ UNCHANGED <<jobs, failed>>
        /\ worker' = [worker EXCEPT ![w] = IdleSlot]
        /\ UNCHANGED <<feeds, sched, updates, checks, faults, requests>>

\* The worker process dies: its job stays active until the stalled check.
WorkerCrash(w) ==
    /\ worker[w].phase # "idle"
    /\ Fault("worker_crash")
    /\ worker' = [worker EXCEPT ![w] = IdleSlot]
    /\ UNCHANGED <<feeds, jobs, failed, sched, updates, checks, requests>>

\* The worker cannot renew its lock in time but goes on running.
LoseLock(w) ==
    /\ worker[w].owns
    /\ Fault("lock_lost")
    /\ worker' = [worker EXCEPT ![w].owns = FALSE]
    /\ UNCHANGED <<feeds, jobs, failed, sched, updates, checks, requests>>

WorkerStep(w) ==
    \/ \E j \in JobIds : StartJob(w, j)
    \/ ReportSuccess(w) \/ SuccessUnanswered(w) \/ ReportLost(w) \/ CompleteJob(w) \/ FailAttempt(w)
    \/ \E kind \in FailureKinds : ReportFailure(w, kind)
    \/ WorkerCrash(w) \/ LoseLock(w)

-----------------------------------------------------------------------------
(* The API *)

\* FeedsRepository.update, first half: the read, and the row it computes from
\* it. `status` is the requested one or "keep"; `newPoll` says whether the
\* request changes the poll interval. DELETE asks for "paused".
ReadForUpdate(f, status, newPoll) ==
    LET next == IF status = "keep" THEN feeds[f].status ELSE status
        due  == \/ next = "active" /\ feeds[f].status # "active"
                \/ /\ ~(next = "active" /\ newPoll)
                   /\ feeds[f].due
    IN  /\ Request
        /\ updates' = updates \cup {[feed |-> f, status |-> next, due |-> due]}
        /\ UNCHANGED <<feeds, jobs, failed, sched, worker, checks, faults>>

\* Mutant: the update also resets error_count.
WriteUpdateResets(u) ==
    /\ u \in updates
    /\ feeds' = [feeds EXCEPT ![u.feed].status = u.status, ![u.feed].due = u.due,
                              ![u.feed].errorCount = 0]
    /\ updates' = updates \ {u}
    /\ UNCHANGED <<jobs, failed, sched, worker, checks, faults, requests>>

\* ... and its write: status and next_check_at only, not claimed_at or last_error.
WriteUpdate(u) ==
    /\ u \in updates
    /\ feeds' = [feeds EXCEPT ![u.feed].status = u.status, ![u.feed].due = u.due]
    /\ updates' = updates \ {u}
    /\ UNCHANGED <<jobs, failed, sched, worker, checks, faults, requests>>

\* check-now passes its isClaimed test (a claimed feed answers already_queued).
AdmitCheck(f) ==
    /\ Request
    /\ feeds[f].claim = "none"
    /\ checks' = checks \cup {f}
    /\ UNCHANGED <<feeds, jobs, failed, sched, worker, updates, faults>>

\* ... and adds a job under an id of its own.
EnqueueCheck(f) ==
    /\ f \in checks
    /\ \E m \in ManualIds :
        /\ jobs[<<f, m>>].state = "absent"
        /\ QueueAdd(<<f, m>>)
    /\ checks' = checks \ {f}
    /\ UNCHANGED <<feeds, failed, sched, worker, updates, faults, requests>>

ApiStep ==
    \/ \E f \in Feeds, st \in Statuses \cup {"keep"}, p \in BOOLEAN : ReadForUpdate(f, st, p)
    \/ \E u \in updates : WriteUpdate(u)
    \/ \E f \in Feeds : AdmitCheck(f) \/ EnqueueCheck(f)

-----------------------------------------------------------------------------
Next ==
    \/ \E f \in Feeds : BecomeDue(f) \/ ClaimAges(f)
    \/ \E s \in Schedulers : SchedulerStep(s)
    \/ \E j \in JobIds : PromoteDelayed(j) \/ Stall(j)
    \/ RedisFlush
    \/ \E w \in Workers : WorkerStep(w)
    \/ ApiStep

Spec == Init /\ [][Next]_vars

\* Timers fire, PostgreSQL and Redis answer, slots run what they took, and
\* BullMQ's first-in-first-out wait list passes over no job while slots keep
\* becoming free. Nobody makes a user act, a fetch succeed or a fault happen.
Fairness ==
    /\ \A f \in Feeds : WF_vars(BecomeDue(f)) /\ WF_vars(ClaimAges(f))
    /\ \A s \in Schedulers :
        /\ WF_vars(Sweep(s) \/ ClaimDueFeeds(s) \/ TickEnds(s))
        /\ \A f \in Feeds : WF_vars(LookUpJob(s, f) \/ AddJob(s, f))
    /\ \A j \in JobIds :
        /\ WF_vars(PromoteDelayed(j) \/ Stall(j))
        /\ SF_vars(\E w \in Workers : StartJob(w, j))
    /\ \A w \in Workers :
        WF_vars(\/ ReportSuccess(w) \/ \E kind \in FailureKinds : ReportFailure(w, kind)
                \/ CompleteJob(w) \/ FailAttempt(w))

FairSpec == Spec /\ Fairness

-----------------------------------------------------------------------------
(* Properties *)

\* A failed fetch is counted on top of the error_count in its row, so that the
\* auto-pause thresholds are reached after that many failures, with two exceptions:
\* another slot ran the feed meanwhile (a manual check, or the re-run of a job
\* whose worker lost its lock), or its own success was written and the answer lost,
\* in which case the row says 0 and the old count is about to come back.
FreshErrorCount ==
    \A w \in Workers : worker[w].alone =>
        /\ worker[w].phase = "fetching" => worker[w].errorCount = feeds[worker[w].job[1]].errorCount
        /\ worker[w].phase = "unanswered" => feeds[worker[w].job[1]].errorCount = 0

\* A job of f that may still run.
InQueue(f) ==
    \E j \in JobIds : j[1] = f /\ jobs[j].state \in {"waiting", "delayed", "active"}

Requested(f) == f \in checks \/ \E u \in updates : u.feed = f

\* f is paused and was not paused by a failure, and nothing that began before the
\* pause is left. A feed that was auto-paused before its owner paused or deleted it
\* is not dormant: the update keeps last_error, and the scheduler goes on polling it.
Dormant(f) ==
    /\ feeds[f].status = "paused" /\ ~feeds[f].auto
    /\ ~InQueue(f) /\ ~Running(f) /\ ~Requested(f)
    /\ \A s \in Schedulers : f \notin sched[s].lookups \cup sched[s].adds

\* A pause of a feed that was not auto-paused holds: the scheduler, the sweep, the
\* queue and the workers leave the feed alone until a new API request for it.
DormantFeedsRest ==
    [][\A f \in Feeds : Dormant(f) => Dormant(f)' \/ Requested(f)']_vars

\* Every claim ends, by the report of a fetch or by the sweep, whichever
\* process died holding it.
ClaimsEnd == \A f \in Feeds : feeds[f].claim # "none" ~> feeds[f].claim = "none"

\* A feed that may be polled is fetched again and again, unless a failed job
\* retained in Redis holds its job id.
PolledFeedsFetched ==
    \A f \in Feeds : []<>(Running(f) \/ ~Pollable(f)
                            \/ jobs[<<f, "scheduler">>].state = "failed")

\* What CHANGELOG.md says of a failing feed: "errored feeds retry with backoff".
\* A feed with status 'error' is fetched again, or leaves that status.
ErroredFeedsRetried ==
    \A f \in Feeds : feeds[f].status = "error" ~> (Running(f) \/ feeds[f].status # "error")
=============================================================================
