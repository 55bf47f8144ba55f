----------------------------- MODULE Ingestion -----------------------------
(***************************************************************************)
(* The transaction of a feed job in FeedPulse, statement by statement:      *)
(* a fetched document becomes rows of `entries`, the rules that match them  *)
(* become rows of `alerts`, one per article, and the delivery of each new   *)
(* alert is asked for after the COMMIT. Jobs of the same feed and of feeds  *)
(* that publish the same articles run at once, on connections of one pool,  *)
(* while the rules are edited. A job that has used up its attempts becomes  *)
(* a dead letter, written from an event handler that nobody awaits until    *)
(* the worker shuts down. FeedClaims models who gets a job and what becomes *)
(* of the feed row; AlertDelivery what becomes of the request.              *)
(***************************************************************************)
EXTENDS Rules

CONSTANTS
    Feeds,            \* feeds of one tenant
    Items, Publisher, \* items of the documents, and the feed of each
    Raw,              \* guid, link, date and words of each item, as parsed
    Documents,        \* the versions each feed publishes, oldest first: sequences of items
    Tracking,         \* query parameters of the tracking denylist
    Absent,           \* a missing guid, link, date or etag
    Jobs, JobFeed,    \* jobs of the fetch-feed queue, scheduled and manual, and their feeds
    NoJob,            \* what an idle slot works on
    Configured,       \* WORKER_CONCURRENCY
    ConcurrencyCap,   \* what the configuration clamps it to
    PoolMax,          \* connections of the pg pool
    Attempts,         \* `attempts` of the queue
    Faults,           \* kinds of failure that may happen
    MaxFaults         \* bound: how many failures and shutdowns may happen

FaultKinds == {"worker_crash", "fetch_error", "db_error", "commit_unanswered", "enqueue_error"}

ASSUME IngestionAssumption ==
    /\ Jobs # {} /\ JobFeed \in [Jobs -> Feeds] /\ NoJob \notin Jobs
    /\ Publisher \in [Items -> Feeds]
    /\ Documents \in [Feeds -> Seq(Seq(Items))] /\ \A f \in Feeds : Len(Documents[f]) > 0
    /\ Configured \in Nat \ {0} /\ ConcurrencyCap \in Nat \ {0}
    /\ PoolMax \in Nat \ {0} /\ Attempts \in Nat \ {0}
    /\ Faults \subseteq FaultKinds /\ MaxFaults \in Nat

Min2(a, b) == IF a < b THEN a ELSE b

\* Mutant: the configured concurrency is used as it is.
WorkerConcurrencyUnclamped == Configured

\* AppConfigService.workerConcurrency.
WorkerConcurrency == Min2(Configured, ConcurrencyCap)

Slots == 1 .. WorkerConcurrency

\* The clients that the two OPML queues of the process, as concurrent as this
\* one, may be holding for their transactions.
OtherClients == 2 * WorkerConcurrency

VARIABLES
    version,   \* the version each feed publishes now
    etag,      \* feeds.etag: the version the next request is conditional on
    entries,   \* committed rows of entries: the item and the rules that matched it
    alerts,    \* committed rows of alerts: the matched rules of each article
    asked,     \* deliveries asked for, by article
    jobs,      \* state and attempts left of each job
    run,       \* the job in each slot, with its transaction
    letters,   \* what became of the final failure of each job
    closing,   \* the worker process is shutting down
    shutdowns, faults   \* shutdowns and failures so far

procVars == <<letters, closing, shutdowns>>
pipeVars == <<version, etag, entries, alerts, asked, jobs, run, faults, procVars>>
vars == <<pipeVars, ruleVars>>

-----------------------------------------------------------------------------
(* Items, entries and articles *)

\* The guid, or the link in its place.
GuidOf(i) == IF Raw[i].guid # Absent THEN Raw[i].guid ELSE Raw[i].link

\* content_hash: link, guid and publication instant, never the title.
HashOf(i) == <<Raw[i].link, GuidOf(i), Raw[i].date>>

\* The pairs of items that UNIQUE (feed_id, guid) or UNIQUE (feed_id,
\* content_hash) keeps apart; a NULL guid conflicts with nothing.
Conflicting ==
    {p \in Items \X Items :
        /\ Publisher[p[1]] = Publisher[p[2]]
        /\ \/ GuidOf(p[1]) # Absent /\ GuidOf(p[1]) = GuidOf(p[2])
           \/ HashOf(p[1]) = HashOf(p[2])}

SameEntry(i, j) == <<i, j>> \in Conflicting

\* canonicalizeArticleLink: the spelling of host, port, slashes and fragment
\* goes, and so do the tracking parameters; the others are sorted.
CanonicalLink(link) ==
    LET kept == {n \in 1 .. Len(link.query) : link.query[n] \notin Tracking}
    IN  [page |-> link.page,
         query |-> [p \in {link.query[n] : n \in kept} |->
                      Cardinality({n \in kept : link.query[n] = p})]]

\* The dedupe key of migration 0018: the canonical link, or the entry itself.
KeyOf(i) == IF Raw[i].link # Absent THEN <<CanonicalLink(Raw[i].link)>>
            ELSE <<Publisher[i], HashOf(i)>>

\* An article is named by one of the items with its key.
ArticleOf == [i \in Items |-> CHOOSE j \in Items : KeyOf(j) = KeyOf(i)]

Articles == {ArticleOf[i] : i \in Items}

-----------------------------------------------------------------------------
(* Types *)

Pcs == {"idle", "fetch", "unchanged", "connect", "insert", "rules", "upsert", "commit", "deliver", "failing"}

\* A job in a slot: the version its feed row knew and the one it fetched, the
\* statement it is at, what its transaction has inserted, the rules that match
\* each of those, the rows of alerts to upsert (an entry that stands for none
\* has no rules there), and the alerts that it created.
Run == [job: Jobs \cup {NoJob}, pc: Pcs, seen: Nat, doc: Nat, next: Nat,
        inserted: Seq(Items), matched: Seq(SUBSET RuleIds),
        upserts: Seq([article: Articles, rules: SUBSET RuleIds]), created: Seq(Articles)]

IdleRun == [job |-> NoJob, pc |-> "idle", seen |-> 0, doc |-> 0, next |-> 1,
            inserted |-> <<>>, matched |-> <<>>, upserts |-> <<>>, created |-> <<>>]

Init ==
    /\ RulesInit
    /\ version = [f \in Feeds |-> 1]
    /\ etag = [f \in Feeds |-> 0]
    /\ entries = {}
    /\ alerts = [a \in Articles |-> {}]
    /\ asked = [a \in Articles |-> 0]
    /\ jobs = [j \in Jobs |-> [state |-> "waiting", left |-> Attempts]]
    /\ run = [s \in Slots |-> IdleRun]
    /\ letters = [j \in Jobs |-> "none"]
    /\ closing = FALSE /\ shutdowns = 0
    /\ faults = 0

Fault(kind) ==
    /\ kind \in Faults
    /\ faults + shutdowns < MaxFaults
    /\ faults' = faults + 1

At(s, pc) == run[s].pc = pc
Feed(s) == JobFeed[run[s].job]
Document(s) == Documents[Feed(s)][run[s].doc]

-----------------------------------------------------------------------------
(* Connections and locks *)

Stages == {"insert", "rules", "upsert", "commit", "deliver"}

\* Slots that hold a client: from connect to the release in `finally`.
Holding == {s \in Slots : run[s].pc \in Stages}

\* A query of the pool finds a connection that is not checked out.
ConnectionFree == Cardinality(Holding) + OtherClients < PoolMax

\* The slots whose transaction has inserted an entry that conflicts with item.
EntryHolders(s, item) ==
    {x \in Holding \ {s} : /\ run[x].pc # "deliver"
                           /\ \E n \in DOMAIN run[x].inserted : SameEntry(run[x].inserted[n], item)}

\* The entries that stand for a row of the upsert statement.
RowsOf(upserts) == {n \in DOMAIN upserts : upserts[n].rules # {}}

\* The rows that the transaction of a slot has upserted.
Upserted(s) ==
    {n \in RowsOf(run[s].upserts) : At(s, "commit") \/ (At(s, "upsert") /\ n < run[s].next)}

\* The slots whose transaction has upserted the alert of an article.
AlertHolders(s, a) ==
    {x \in Holding \ {s} : \E n \in Upserted(x) : run[x].upserts[n].article = a}

\* The transactions whose end the statement of s waits for.
WaitsFor(s) ==
    CASE At(s, "insert") -> EntryHolders(s, Document(s)[run[s].next])
      [] At(s, "upsert") -> AlertHolders(s, run[s].upserts[run[s].next].article)
      [] OTHER -> {}

\* s is on a cycle of transactions that wait for one another.
InDeadlock(s) ==
    \E cycle \in SUBSET Slots :
        /\ s \in cycle
        /\ \A x \in cycle : WaitsFor(x) \cap cycle # {}
        /\ \A x \in cycle : \E y \in cycle : x \in WaitsFor(y)

-----------------------------------------------------------------------------
(* The job: ProcessFeedJobUseCase.execute *)

Publish(f) ==
    /\ version[f] < Len(Documents[f])
    /\ version' = [version EXCEPT ![f] = @ + 1]
    /\ UNCHANGED <<etag, entries, alerts, asked, jobs, run, faults, ruleVars, procVars>>

\* The worker takes a job and reads its feed row. Idle slots are alike: the
\* first one is taken.
TakeJob(s, j) ==
    /\ At(s, "idle") /\ \A x \in 1 .. s - 1 : ~At(x, "idle")
    /\ jobs[j].state = "waiting" /\ ~closing
    /\ ConnectionFree
    /\ jobs' = [jobs EXCEPT ![j].state = "active"]
    /\ run' = [run EXCEPT ![s] = [IdleRun EXCEPT !.job = j, !.pc = "fetch", !.seen = etag[JobFeed[j]]]]
    /\ UNCHANGED <<version, etag, entries, alerts, asked, faults, ruleVars, procVars>>

\* Mutant: the validators of the response are stored as soon as it is there.
FetchStores(s) ==
    /\ At(s, "fetch")
    /\ run' = [run EXCEPT ![s].pc = IF version[Feed(s)] = run[s].seen THEN "unchanged" ELSE "connect",
                          ![s].doc = version[Feed(s)]]
    /\ etag' = [etag EXCEPT ![Feed(s)] = version[Feed(s)]]
    /\ UNCHANGED <<version, entries, alerts, asked, jobs, faults, ruleVars, procVars>>

\* A conditional request: 304 for the version the feed row knows, otherwise the
\* document, parsed and normalized.
Fetch(s) ==
    /\ At(s, "fetch")
    /\ run' = [run EXCEPT ![s].pc = IF version[Feed(s)] = run[s].seen THEN "unchanged" ELSE "connect",
                          ![s].doc = version[Feed(s)]]
    /\ UNCHANGED <<version, etag, entries, alerts, asked, jobs, faults, ruleVars, procVars>>

\* 304: the log row and the feed row, each through the pool, and the job is over.
ReportUnchanged(s) ==
    /\ At(s, "unchanged") /\ ConnectionFree
    /\ etag' = [etag EXCEPT ![Feed(s)] = run[s].doc]
    /\ jobs' = [jobs EXCEPT ![run[s].job].state = "completed"]
    /\ run' = [run EXCEPT ![s] = IdleRun]
    /\ UNCHANGED <<version, entries, alerts, asked, faults, ruleVars, procVars>>

\* pool.connect and BEGIN. A document without items inserts nothing.
Connect(s) ==
    /\ At(s, "connect") /\ ConnectionFree
    /\ run' = [run EXCEPT ![s].pc = IF Len(Document(s)) = 0 THEN "rules" ELSE "insert"]
    /\ UNCHANGED <<version, etag, entries, alerts, asked, jobs, faults, ruleVars, procVars>>

\* One INSERT ... ON CONFLICT DO NOTHING: it waits for an open transaction with
\* the same entry, then skips an entry that is there.
InsertEntry(s) ==
    LET item == Document(s)[run[s].next]
        known == \/ \E e \in entries : SameEntry(e.item, item)
                 \/ \E n \in DOMAIN run[s].inserted : SameEntry(run[s].inserted[n], item)
    IN  /\ At(s, "insert")
        /\ WaitsFor(s) = {}
        /\ run' = [run EXCEPT ![s].next = IF @ = Len(Document(s)) THEN 1 ELSE @ + 1,
                              ![s].inserted = IF known THEN @ ELSE Append(@, item),
                              ![s].pc = IF run[s].next = Len(Document(s)) THEN "rules" ELSE "insert"]
        /\ UNCHANGED <<version, etag, entries, alerts, asked, jobs, faults, ruleVars, procVars>>

\* The active rules that match each inserted entry, in the order of their ids.
Matched(s) == [n \in DOMAIN run[s].inserted |-> MatchingRules(Raw[run[s].inserted[n]].words)]

\* The matched entries of the article of the n-th inserted one.
SameArticle(s, n) ==
    {m \in DOMAIN run[s].inserted : /\ Matched(s)[m] # {}
                                    /\ ArticleOf[run[s].inserted[m]] = ArticleOf[run[s].inserted[n]]}

\* The entry is the first matched one of its article.
FirstOfArticle(s, n) == Matched(s)[n] # {} /\ \A m \in SameArticle(s, n) : n <= m

\* Mutant: only the rules of the first entry of an article are kept.
UpsertsOfFirst(s) ==
    [n \in DOMAIN run[s].inserted |->
        [article |-> ArticleOf[run[s].inserted[n]], rules |-> IF FirstOfArticle(s, n) THEN Matched(s)[n] ELSE {}]]

\* createForEntryWithRules collapses the entries of one article before the
\* statement: the first one stands for all, with the rules of all.
Upserts(s) ==
    [n \in DOMAIN run[s].inserted |->
        [article |-> ArticleOf[run[s].inserted[n]],
         rules |-> IF FirstOfArticle(s, n) THEN UNION {Matched(s)[m] : m \in SameArticle(s, n)} ELSE {}]]

\* The statement goes through its rows in that order.
Least(rows) == CHOOSE n \in rows : \A m \in rows : n <= m

\* listActive reads through the pool while the client is held.
ListActive(s) ==
    /\ At(s, "rules") /\ ConnectionFree
    /\ run' = [run EXCEPT ![s].upserts = Upserts(s), ![s].matched = Matched(s),
                          ![s].next = IF RowsOf(Upserts(s)) = {} THEN @ ELSE Least(RowsOf(Upserts(s))),
                          ![s].pc = IF RowsOf(Upserts(s)) = {} THEN "commit" ELSE "upsert"]
    /\ UNCHANGED <<version, etag, entries, alerts, asked, jobs, faults, ruleVars, procVars>>

\* The rows after the one the statement is at.
RowsLeft(s) == {n \in RowsOf(run[s].upserts) : n > run[s].next}

\* Mutant: only the first row the statement returns counts as created.
UpsertAlertFirst(s) ==
    LET article == run[s].upserts[run[s].next].article
    IN  /\ At(s, "upsert")
        /\ WaitsFor(s) = {}
        /\ run' = [run EXCEPT ![s].next = IF RowsLeft(s) = {} THEN @ ELSE Least(RowsLeft(s)),
                              ![s].created = IF alerts[article] = {} /\ run[s].next = Least(RowsOf(run[s].upserts))
                                             THEN <<article>> ELSE @,
                              ![s].pc = IF RowsLeft(s) = {} THEN "commit" ELSE "upsert"]
        /\ UNCHANGED <<version, etag, entries, alerts, asked, jobs, faults, ruleVars, procVars>>

\* One row of INSERT ... ON CONFLICT DO UPDATE: it waits for an open
\* transaction with the same article; xmax = 0 tells a row it inserted.
UpsertAlert(s) ==
    LET article == run[s].upserts[run[s].next].article
    IN  /\ At(s, "upsert")
        /\ WaitsFor(s) = {}
        /\ run' = [run EXCEPT ![s].next = IF RowsLeft(s) = {} THEN @ ELSE Least(RowsLeft(s)),
                              ![s].created = IF alerts[article] = {} THEN Append(@, article) ELSE @,
                              ![s].pc = IF RowsLeft(s) = {} THEN "commit" ELSE "upsert"]
        /\ UNCHANGED <<version, etag, entries, alerts, asked, jobs, faults, ruleVars, procVars>>

\* PostgreSQL aborts a transaction of a deadlock; its job rolls back.
AbortVictim(s) ==
    /\ InDeadlock(s)
    /\ run' = [run EXCEPT ![s] = [IdleRun EXCEPT !.job = run[s].job, !.pc = "failing"]]
    /\ UNCHANGED <<version, etag, entries, alerts, asked, jobs, faults, ruleVars, procVars>>

\* Mutant: the alerts keep the rules they had when the transaction read them.
WriteOwnRules(s) ==
    /\ entries' = entries \cup {[item |-> run[s].inserted[n], matched |-> run[s].matched[n]] :
                                  n \in DOMAIN run[s].inserted}
    /\ alerts' = [a \in Articles |-> IF \E n \in DOMAIN run[s].upserts : run[s].upserts[n].article = a
                                     THEN UNION {run[s].upserts[n].rules : n \in {m \in DOMAIN run[s].upserts : run[s].upserts[m].article = a}}
                                     ELSE alerts[a]]
    /\ etag' = [etag EXCEPT ![Feed(s)] = run[s].doc]

\* What the transaction commits: entries, alerts with their rules united with
\* the ones they had, and the validators of the response on the feed row.
WriteTransaction(s) ==
    LET gained(a) == UNION {run[s].upserts[n].rules : n \in {m \in DOMAIN run[s].upserts : run[s].upserts[m].article = a}}
    IN  /\ entries' = entries \cup {[item |-> run[s].inserted[n], matched |-> run[s].matched[n]] :
                                      n \in DOMAIN run[s].inserted}
        /\ alerts' = [a \in Articles |-> alerts[a] \cup gained(a)]
        /\ etag' = [etag EXCEPT ![Feed(s)] = run[s].doc]

Commit(s) ==
    /\ At(s, "commit")
    /\ WriteTransaction(s)
    /\ run' = [run EXCEPT ![s] = [IdleRun EXCEPT !.job = run[s].job, !.pc = "deliver", !.created = run[s].created]]
    /\ UNCHANGED <<version, asked, jobs, faults, ruleVars, procVars>>

\* deliverAlerts, with the client still held: the statements of
\* DeliverAlertUseCase go through the pool. A failure is logged and skipped.
AskDelivery(s) ==
    /\ At(s, "deliver") /\ run[s].created # <<>>
    /\ ConnectionFree
    /\ \/ asked' = [asked EXCEPT ![Head(run[s].created)] = @ + 1] /\ UNCHANGED faults
       \/ Fault("enqueue_error") /\ UNCHANGED asked
    /\ run' = [run EXCEPT ![s].created = Tail(@)]
    /\ UNCHANGED <<version, etag, entries, alerts, jobs, ruleVars, procVars>>

\* The client is released and the job is over.
Finish(s) ==
    /\ At(s, "deliver") /\ run[s].created = <<>>
    /\ jobs' = [jobs EXCEPT ![run[s].job].state = "completed"]
    /\ run' = [run EXCEPT ![s] = IdleRun]
    /\ UNCHANGED <<version, etag, entries, alerts, asked, faults, ruleVars, procVars>>

-----------------------------------------------------------------------------
(* Failures *)

\* The catch block after ROLLBACK and release: the failure is reported through
\* the pool, and the job throws, to be tried again while attempts are left. The
\* failed event classifies the attempt: a final one starts a dead-letter write.
\* A failed fetch that pauses its feed is not thrown again (PauseFeed).
ReportFailure(s) ==
    LET j == run[s].job
    IN  /\ At(s, "failing") /\ ConnectionFree
        /\ jobs' = [jobs EXCEPT ![j] = IF @.left > 1 THEN [state |-> "waiting", left |-> @.left - 1]
                                       ELSE [state |-> "failed", left |-> 0]]
        /\ letters' = [letters EXCEPT ![j] = IF jobs[j].left > 1 THEN @ ELSE "pending"]
        /\ run' = [run EXCEPT ![s] = IdleRun]
        /\ UNCHANGED <<version, etag, entries, alerts, asked, faults, closing, shutdowns, ruleVars>>

\* The request fails in a way that is no use trying again (gone, refused or
\* unresolvable once too often, an unsafe URL, no feed): classifyFeedFailure
\* pauses the feed, the catch block returns, and the job completes.
PauseFeed(s) ==
    /\ At(s, "fetch") /\ ConnectionFree /\ Fault("fetch_error")
    /\ jobs' = [jobs EXCEPT ![run[s].job].state = "completed"]
    /\ run' = [run EXCEPT ![s] = IdleRun]
    /\ UNCHANGED <<version, etag, entries, alerts, asked, ruleVars, procVars>>

\* The request, or a statement of the transaction, fails.
StepFails(s) ==
    /\ \/ At(s, "fetch") /\ Fault("fetch_error")
       \/ run[s].pc \in Stages \ {"deliver"} /\ Fault("db_error")
    /\ run' = [run EXCEPT ![s] = [IdleRun EXCEPT !.job = run[s].job, !.pc = "failing"]]
    /\ UNCHANGED <<version, etag, entries, alerts, asked, jobs, ruleVars, procVars>>

\* The COMMIT is done but its answer is lost: the job takes the catch block.
CommitUnanswered(s) ==
    /\ At(s, "commit") /\ Fault("commit_unanswered")
    /\ WriteTransaction(s)
    /\ run' = [run EXCEPT ![s] = [IdleRun EXCEPT !.job = run[s].job, !.pc = "failing"]]
    /\ UNCHANGED <<version, asked, jobs, ruleVars, procVars>>

\* DeadLetterRepository.record: the row is written, or the failure to write it
\* is counted. The INSERT goes through the pool.
RecordLetter(j) ==
    /\ letters[j] = "pending" /\ ConnectionFree
    /\ \/ letters' = [letters EXCEPT ![j] = "written"] /\ UNCHANGED faults
       \/ Fault("db_error") /\ letters' = [letters EXCEPT ![j] = "counted"]
    /\ UNCHANGED <<version, etag, entries, alerts, asked, jobs, run, closing, shutdowns, ruleVars>>

\* SIGTERM: no job is taken any more.
Shutdown ==
    /\ ~closing /\ faults + shutdowns < MaxFaults
    /\ closing' = TRUE /\ shutdowns' = shutdowns + 1
    /\ UNCHANGED <<version, etag, entries, alerts, asked, jobs, run, letters, faults, ruleVars>>

\* Mutant: the process goes when its workers are closed.
ExitUndrained ==
    /\ closing /\ \A s \in Slots : At(s, "idle")
    /\ closing' = FALSE
    /\ letters' = [j \in Jobs |-> IF letters[j] = "pending" THEN "lost" ELSE letters[j]]
    /\ UNCHANGED <<version, etag, entries, alerts, asked, jobs, run, shutdowns, faults, ruleVars>>

\* onApplicationShutdown: the workers have closed, then the writes have been
\* drained, and another process takes over.
Exit ==
    /\ closing /\ \A s \in Slots : At(s, "idle")
    /\ \A j \in Jobs : letters[j] # "pending"
    /\ closing' = FALSE
    /\ UNCHANGED <<version, etag, entries, alerts, asked, jobs, run, letters, shutdowns, faults, ruleVars>>

\* The worker dies, or its shutdown exceeds the deadline: open transactions are
\* rolled back, dead-letter writes under way are lost, and the stalled check of
\* another process gives the jobs back to the queue.
Crash ==
    /\ \E s \in Slots : ~At(s, "idle")
    /\ Fault("worker_crash")
    /\ jobs' = [j \in Jobs |-> IF jobs[j].state = "active" THEN [jobs[j] EXCEPT !.state = "waiting"] ELSE jobs[j]]
    /\ run' = [s \in Slots |-> IdleRun]
    /\ letters' = [j \in Jobs |-> IF letters[j] = "pending" THEN "lost" ELSE letters[j]]
    /\ closing' = FALSE
    /\ UNCHANGED <<version, etag, entries, alerts, asked, shutdowns, ruleVars>>

-----------------------------------------------------------------------------

SlotStep(s) ==
    \/ \E j \in Jobs : TakeJob(s, j)
    \/ Fetch(s) \/ ReportUnchanged(s) \/ Connect(s)
    \/ InsertEntry(s) \/ ListActive(s) \/ UpsertAlert(s)
    \/ Commit(s) \/ AskDelivery(s) \/ Finish(s) \/ ReportFailure(s)

SlotFails(s) == PauseFeed(s) \/ StepFails(s) \/ CommitUnanswered(s)

Next ==
    \/ \E f \in Feeds : Publish(f)
    \/ RulesStep /\ UNCHANGED pipeVars
    \/ \E s \in Slots : SlotStep(s) \/ SlotFails(s) \/ AbortVictim(s)
    \/ \E j \in Jobs : RecordLetter(j)
    \/ Shutdown \/ Exit \/ Crash

Spec == Init /\ [][Next]_vars

-----------------------------------------------------------------------------
(* Properties *)

\* The types of the variables.
TypeOK ==
    /\ version \in [Feeds -> Nat] /\ \A f \in Feeds : version[f] \in DOMAIN Documents[f]
    /\ etag \in [Feeds -> Nat] /\ \A f \in Feeds : etag[f] <= version[f]
    /\ entries \subseteq [item: Items, matched: SUBSET RuleIds]
    /\ alerts \in [Articles -> SUBSET RuleIds]
    /\ asked \in [Articles -> Nat]
    /\ jobs \in [Jobs -> [state: {"waiting", "active", "completed", "failed"}, left: 0 .. Attempts]]
    /\ run \in [Slots -> Run]
    /\ letters \in [Jobs -> {"none", "pending", "written", "counted", "lost"}]
    /\ closing \in BOOLEAN /\ shutdowns \in Nat /\ faults \in Nat

\* Every rule that matched a committed entry is in the alert of its article:
\* no batch loses the rules of a second entry of the article, no transaction
\* overwrites the ones another has added, and no entry is stored without its
\* alert (createForEntryWithRules and the transaction around it).
AlertsCoverEntries ==
    \A e \in entries : e.matched \subseteq alerts[ArticleOf[e.item]]

\* A feed row that carries the validators of a version has every item of that
\* version among its entries: a 304 never hides an article (updateAfterFetch
\* inside the transaction that inserts the entries).
ValidatorsAreEarned ==
    \A f \in Feeds : etag[f] # 0 =>
        \A n \in DOMAIN Documents[f][etag[f]] :
            \E e \in entries : SameEntry(e.item, Documents[f][etag[f]][n])

\* An alert that no delivery was asked for is on the list of a job that is
\* about to ask, unless a failure came in between (deliverAlerts after COMMIT).
UnaskedNeedsFault ==
    \A a \in Articles :
        alerts[a] # {} /\ asked[a] = 0 /\ faults = 0 =>
            \E s \in Slots : At(s, "deliver") /\ \E n \in DOMAIN run[s].created : run[s].created[n] = a

\* A job that used up its attempts leaves a dead letter, or a count of the
\* letter that could not be written, or its write is under way, unless the
\* process died: a graceful shutdown, also one that comes in the middle of a
\* failing job, loses none (trackFailure and onApplicationShutdown).
FailuresLeaveTrace ==
    \A j \in Jobs : /\ jobs[j].state = "failed" => letters[j] # "none"
                    /\ letters[j] = "lost" => faults > 0

Book == INSTANCE AlertBook WITH book <- alerts, RuleSet <- RuleIds

\* Ingestion implements AlertBook: an alert only gains rules, and a delivery
\* is asked for at most once for each article and only after the COMMIT.
ImplementsAlertBook == Book!Spec

\* Some job can always go on, or PostgreSQL sees why none can: jobs that hold a
\* client, each waiting for another connection or for another one's locks, never
\* stop the worker for good. The states of a behaviour never repeat, so with this
\* every job ends.
NoGridlock ==
    LET busy == {s \in Slots : ~At(s, "idle")}
        needsConnection(s) == \/ run[s].pc \in {"connect", "rules", "unchanged", "failing"}
                              \/ At(s, "deliver") /\ run[s].created # <<>>
    IN  busy # {} => \E s \in busy : \/ WaitsFor(s) = {} /\ (needsConnection(s) => ConnectionFree)
                                     \/ InDeadlock(s)
=============================================================================
