----------------------------- MODULE OpmlImports -----------------------------
(***************************************************************************)
(* OPML imports in FeedPulse: the rows of `opml_imports` and                *)
(* `opml_import_items`, the BullMQ queues `opml-parse-preview` and          *)
(* `opml-apply-import`, the upload and confirm calls of the API, the parse  *)
(* and apply jobs of the worker, and the feeds table they share with feed   *)
(* registration. The imports and the feeds are those of one tenant.         *)
(***************************************************************************)
EXTENDS Integers, Sequences, FiniteSets

CONSTANTS
    Imports,       \* rows of opml_imports
    Urls,          \* normalized feed URLs
    BadUrl,        \* an xmlUrl that normalizeFeedUrl rejects
    Hash,          \* the normalized_url_hash of each URL
    Documents,     \* the OPML files each import may have: the xmlUrls of the outlines, in order
    Malformed,     \* a file extractOpmlItems throws on
    Tables,        \* feeds tables to start from
    MaxFeeds,      \* MAX_FEEDS_PER_TENANT; 0 disables the cap
    Slots,         \* concurrency slots of the two OPML workers
    NoImport,      \* what an idle slot works on
    Attempts,      \* `attempts` of each queue
    MaxStalls,     \* BullMQ's maxStalledCount
    Faults,        \* kinds of failure that may happen
    MaxFaults,     \* bound: how many failures may happen
    MaxConfirms,   \* bound: how many confirmations may be asked for
    MaxRegisters   \* bound: how many registrations may pass the cap

Kinds == {"parse", "apply"}
FaultKinds == {"slot_crash", "lock_lost", "db_error", "redis_error", "call_lost"}

ASSUME ImportAssumption ==
    /\ BadUrl \notin Urls /\ DOMAIN Hash = Urls
    /\ \A i \in Imports : Documents[i] \ {Malformed} \subseteq Seq(Urls \cup {BadUrl})
    /\ Tables \subseteq [Urls -> {"none", "hashed", "legacy"}]
    /\ Attempts \in [Kinds -> Nat \ {0}]
    /\ MaxFeeds \in Nat /\ MaxStalls \in Nat
    /\ Faults \subseteq FaultKinds /\ MaxFaults \in Nat
    /\ MaxConfirms \in Nat /\ MaxRegisters \in Nat
    /\ NoImport \notin Imports

VARIABLES
    status,       \* opml_imports.status
    doc,          \* the file in the payload of each parse job
    items,        \* opml_import_items of each import, by id
    feeds,        \* the feeds row of each URL: none, hashed, or legacy (hash NULL)
    jobs,         \* the two queues, by kind and import (opml-parse-<id>, opml-apply-<id>)
    run,          \* the job in each slot
    reads,        \* the candidates that the apply transaction in each slot has read
    calls,        \* upload and confirm calls in progress
    registering,  \* URLs of registrations between the count and the INSERT
    faults,       \* failures so far
    confirms,     \* confirmations asked for so far
    registers     \* registrations that passed the cap so far

vars == <<status, doc, items, feeds, jobs, run, reads, calls, registering, faults, confirms, registers>>

-----------------------------------------------------------------------------
(* Types *)

Statuses == {"none", "uploaded", "parsing", "preview_ready", "importing", "completed",
             "failed_validation", "failed"}

Item == [url: Urls \cup {BadUrl},
         status: {"new", "existing", "duplicate", "invalid", "imported", "failed"}]

JobState == {"absent", "waiting", "delayed", "active", "failed"}

Run == [pc: {"idle", "read", "claim", "parse", "list", "apply", "enqueue", "mark", "completed", "failed"},
        kind: Kinds, import: Imports \cup {NoImport}, owns: BOOLEAN]

\* What a transaction has read, and whether a parse job deleted those rows since.
Read == [rows: SUBSET [id: Nat, url: Urls], gone: BOOLEAN]

Call == [import: Imports, number: 0 .. MaxConfirms,
         step: {"add_parse", "read", "mark", "add_apply"}]

Absent   == [state |-> "absent", made |-> 0, stalls |-> 0]
Queued   == [state |-> "waiting", made |-> 0, stalls |-> 0]
IdleSlot == [pc |-> "idle", kind |-> "parse", import |-> NoImport, owns |-> FALSE]
NoRead   == [rows |-> {}, gone |-> FALSE]

\* The types of the variables; a job never makes more attempts than its queue
\* allows, and one that has made them all is failed.
TypeOK ==
    /\ status \in [Imports -> Statuses]
    /\ \A i \in Imports : doc[i] \in Documents[i] \cup {Malformed}
    /\ items \in [Imports -> Seq(Item)]
    /\ feeds \in [Urls -> {"none", "hashed", "legacy"}]
    /\ \A k \in Kinds, i \in Imports :
          /\ jobs[k][i].state \in JobState
          /\ jobs[k][i].made \in 0 .. Attempts[k] /\ jobs[k][i].stalls \in 0 .. MaxStalls
          /\ jobs[k][i].made = Attempts[k] => jobs[k][i].state = "failed"
    /\ run \in [Slots -> Run]
    /\ reads \in [Slots -> Read]
    /\ calls \subseteq Call
    /\ registering \subseteq Urls
    /\ faults \in 0 .. MaxFaults /\ confirms \in 0 .. MaxConfirms
    /\ registers \in 0 .. MaxRegisters

Init ==
    /\ status = [i \in Imports |-> "none"]
    /\ doc = [i \in Imports |-> Malformed]
    /\ items = [i \in Imports |-> <<>>]
    /\ feeds \in Tables
    /\ jobs = [k \in Kinds |-> [i \in Imports |-> Absent]]
    /\ run = [w \in Slots |-> IdleSlot] /\ reads = [w \in Slots |-> NoRead]
    /\ calls = {} /\ registering = {}
    /\ faults = 0 /\ confirms = 0 /\ registers = 0

Fault(kind) ==
    /\ kind \in Faults
    /\ faults < MaxFaults
    /\ faults' = faults + 1

-----------------------------------------------------------------------------
(* The feeds table: unique per tenant by url, and by hash where there is one *)

\* The URLs whose row an INSERT of u would conflict with.
Conflicts(table, u) ==
    {v \in Urls : \/ v = u /\ table[v] # "none"
                  \/ Hash[v] = Hash[u] /\ table[v] = "hashed"}

Registered == {u \in Urls : feeds[u] # "none"}

\* POST /feeds counts the tenant's feeds; at the cap it answers 403.
CheckQuota(u) ==
    /\ MaxFeeds = 0 \/ Cardinality(Registered) < MaxFeeds
    /\ u \notin registering /\ registers < MaxRegisters
    /\ registering' = registering \cup {u} /\ registers' = registers + 1
    /\ UNCHANGED <<status, doc, items, feeds, jobs, run, reads, calls, faults, confirms>>

\* Its INSERT; a unique violation answers 409.
RegisterFeed(u) ==
    /\ u \in registering
    /\ registering' = registering \ {u}
    /\ feeds' = IF Conflicts(feeds, u) = {} THEN [feeds EXCEPT ![u] = "hashed"] ELSE feeds
    /\ UNCHANGED <<status, doc, items, jobs, run, reads, calls, faults, confirms, registers>>

-----------------------------------------------------------------------------
(* The API: POST /opml/imports and POST /opml/imports/:id/confirm *)

Advance(c, step) == calls' = (calls \ {c}) \cup {[c EXCEPT !.step = step]}

\* A valid upload creates the row; its parse job is added next.
CreateImport(i, d) ==
    /\ status[i] = "none"
    /\ status' = [status EXCEPT ![i] = "uploaded"]
    /\ doc' = [doc EXCEPT ![i] = d]
    /\ calls' = calls \cup {[import |-> i, number |-> 0, step |-> "add_parse"]}
    /\ UNCHANGED <<items, feeds, jobs, run, reads, registering, faults, confirms, registers>>

AskConfirm(i) ==
    /\ status[i] # "none"
    /\ confirms < MaxConfirms
    /\ confirms' = confirms + 1
    /\ calls' = calls \cup {[import |-> i, number |-> confirms + 1, step |-> "read"]}
    /\ UNCHANGED <<status, doc, items, feeds, jobs, run, reads, registering, faults, registers>>

\* The call goes on only from preview_ready; from importing or completed it
\* answers already_confirmed, from anything else 409.
ReadForConfirm(c) ==
    /\ c.step = "read"
    /\ IF status[c.import] = "preview_ready" THEN Advance(c, "mark") ELSE calls' = calls \ {c}
    /\ UNCHANGED <<status, doc, items, feeds, jobs, run, reads, registering, faults, confirms, registers>>

\* markImportStatus, whatever the row holds by now.
MarkImporting(c) ==
    /\ c.step = "mark"
    /\ status' = [status EXCEPT ![c.import] = "importing"]
    /\ Advance(c, "add_apply")
    /\ UNCHANGED <<doc, items, feeds, jobs, run, reads, registering, faults, confirms, registers>>

\* queue.add: an id that is in Redis in any state leaves the queue unchanged.
Enqueue(c) ==
    LET kind == IF c.step = "add_parse" THEN "parse" ELSE "apply"
    IN  /\ c.step \in {"add_parse", "add_apply"}
        /\ jobs' = [jobs EXCEPT ![kind][c.import] =
                      IF jobs[kind][c.import].state = "absent" THEN Queued
                      ELSE jobs[kind][c.import]]
        /\ calls' = calls \ {c}
        /\ UNCHANGED <<status, doc, items, feeds, run, reads, registering, faults, confirms, registers>>

\* The API process dies or a statement fails: the call ends where it is.
CallLost(c) ==
    /\ Fault("call_lost")
    /\ calls' = calls \ {c}
    /\ UNCHANGED <<status, doc, items, feeds, jobs, run, reads, registering, confirms, registers>>

-----------------------------------------------------------------------------
(* The queues' own moves (BullMQ, external) *)

QueueStep(k, i) ==
    LET job == jobs[k][i]
    IN  /\ \/ /\ job.state = "delayed"      \* the backoff has elapsed
              /\ jobs' = [jobs EXCEPT ![k][i].state = "waiting"]
           \/ /\ job.state = "active"       \* the stalled check finds no lock
              /\ \A w \in Slots : ~(run[w].kind = k /\ run[w].import = i /\ run[w].owns)
              /\ jobs' = [jobs EXCEPT ![k][i] =
                            IF job.stalls < MaxStalls
                            THEN [job EXCEPT !.state = "waiting", !.stalls = job.stalls + 1]
                            ELSE [job EXCEPT !.state = "failed"]]
        /\ UNCHANGED <<status, doc, items, feeds, run, reads, calls, registering, faults, confirms, registers>>

\* A retained failed job is evicted once enough other jobs have failed.
EvictFailed(k, i) ==
    /\ jobs[k][i].state = "failed"
    /\ jobs' = [jobs EXCEPT ![k][i] = Absent]
    /\ UNCHANGED <<status, doc, items, feeds, run, reads, calls, registering, faults, confirms, registers>>

TakeJob(w, k, i) ==
    /\ run[w].pc = "idle"
    /\ jobs[k][i].state = "waiting"
    /\ jobs' = [jobs EXCEPT ![k][i].state = "active"]
    /\ run' = [run EXCEPT ![w] = [pc |-> "read", kind |-> k, import |-> i, owns |-> TRUE]]
    /\ UNCHANGED <<status, doc, items, feeds, reads, calls, registering, faults, confirms, registers>>

\* The processor is over: BullMQ drops the job, delays its next attempt or
\* keeps it as failed; a slot without the lock changes nothing.
LeaveJob(w) ==
    LET k == run[w].kind
        i == run[w].import
        made == jobs[k][i].made + 1
    IN  /\ run[w].pc \in {"completed", "failed"}
        /\ jobs' = IF ~run[w].owns THEN jobs
                   ELSE [jobs EXCEPT ![k][i] =
                            CASE run[w].pc = "completed" -> Absent
                              [] run[w].pc = "failed" /\ made < Attempts[k] ->
                                    [jobs[k][i] EXCEPT !.state = "delayed", !.made = made]
                              [] OTHER -> [jobs[k][i] EXCEPT !.state = "failed", !.made = Attempts[k]]]
        /\ run' = [run EXCEPT ![w] = IdleSlot]
        /\ UNCHANGED <<status, doc, items, feeds, reads, calls, registering, faults, confirms, registers>>
-----------------------------------------------------------------------------
(* The parse job: ProcessOpmlParseJobUseCase.execute *)

\* Mutant: a preview that is ready, or confirmed, is parsed again.
ReadForParseAgain(w) ==
    /\ run[w].pc = "read" /\ run[w].kind = "parse"
    /\ run' = [run EXCEPT ![w].pc = IF status[run[w].import] # "completed"
                                    THEN "parse" ELSE "completed"]
    /\ UNCHANGED <<status, doc, items, feeds, jobs, reads, calls, registering, faults, confirms, registers>>

\* The job goes on only from uploaded or parsing.
ReadForParse(w) ==
    /\ run[w].pc = "read" /\ run[w].kind = "parse"
    /\ run' = [run EXCEPT ![w].pc = IF status[run[w].import] \in {"uploaded", "parsing"}
                                    THEN "parse" ELSE "completed"]
    /\ UNCHANGED <<status, doc, items, feeds, jobs, reads, calls, registering, faults, confirms, registers>>

\* extractOpmlItems finds an <opml> root, no DOCTYPE, balanced outlines and no
\* more of them than allowed.
Parses(d) == d # Malformed

\* normalizeFeedUrl accepts the xmlUrl: an http(s) URL with a public host.
Normalizes(u) == u # BadUrl

\* An earlier outline of d has the hash of the n-th.
Repeated(d, n) == \E m \in 1 .. n - 1 : Normalizes(d[m]) /\ Hash[d[m]] = Hash[d[n]]

\* The feeds rows with the hash of u; a legacy row has none.
ExistingByHash(u) == {v \in Urls : feeds[v] = "hashed" /\ Hash[v] = Hash[u]}

\* The item of the n-th outline of d; a row with its hash but another URL is a
\* collision.
Classify(d, n) ==
    [url |-> d[n],
     status |-> IF ~Normalizes(d[n]) THEN "invalid"
                ELSE IF Repeated(d, n) THEN "duplicate"
                ELSE IF ExistingByHash(d[n]) = {} THEN "new"
                ELSE IF ExistingByHash(d[n]) = {d[n]} THEN "existing" ELSE "invalid"]

\* What the transaction of the job commits: the items and preview_ready. The
\* rows it deletes may have been read by apply transactions that are still open.
CommitPreview(i) ==
    /\ items' = [items EXCEPT ![i] = [n \in 1 .. Len(doc[i]) |-> Classify(doc[i], n)]]
    /\ status' = [status EXCEPT ![i] = "preview_ready"]
    /\ reads' = [w \in Slots |-> IF run[w].pc = "apply" /\ run[w].import = i
                                 THEN [reads[w] EXCEPT !.gone = TRUE] ELSE reads[w]]

\* extractOpmlItems throws inside the transaction, or the transaction commits.
ParsePreview(w) ==
    LET i == run[w].import
    IN  /\ run[w].pc = "parse"
        /\ \/ /\ ~Parses(doc[i])
              /\ run' = [run EXCEPT ![w].pc = "mark"]
              /\ UNCHANGED <<status, items, reads>>
           \/ /\ Parses(doc[i])
              /\ CommitPreview(i)
              /\ run' = [run EXCEPT ![w].pc = "completed"]
        /\ UNCHANGED <<doc, feeds, jobs, calls, registering, faults, confirms, registers>>

-----------------------------------------------------------------------------
(* The apply job: ProcessOpmlApplyJobUseCase.execute *)

\* canTransitionOpmlImportStatus, for the target `importing`.
MayImport(from) == from \in {"preview_ready", "importing"}

\* Mutant: an import that is importing is taken to be in another worker's hands.
ReadForApplySkips(w) ==
    /\ run[w].pc = "read" /\ run[w].kind = "apply"
    /\ run' = [run EXCEPT ![w].pc =
                 CASE status[run[w].import] \in {"importing", "completed"} -> "completed"
                   [] MayImport(status[run[w].import]) -> "claim"
                   [] OTHER -> "failed"]
    /\ UNCHANGED <<status, doc, items, feeds, jobs, reads, calls, registering, faults, confirms, registers>>

\* A completed import is left alone; a status that may not become importing
\* makes the job throw.
ReadForApply(w) ==
    LET now == status[run[w].import]
    IN  /\ run[w].pc = "read" /\ run[w].kind = "apply"
        /\ run' = [run EXCEPT ![w].pc = CASE now = "completed" -> "completed"
                                          [] now = "importing" -> "list"
                                          [] now # "importing" /\ MayImport(now) -> "claim"
                                          [] OTHER -> "failed"]
        /\ UNCHANGED <<status, doc, items, feeds, jobs, reads, calls, registering, faults, confirms, registers>>

\* The job itself marks the import as importing.
ClaimImport(w) ==
    /\ run[w].pc = "claim"
    /\ status' = [status EXCEPT ![run[w].import] = "importing"]
    /\ run' = [run EXCEPT ![w].pc = "list"]
    /\ UNCHANGED <<doc, items, feeds, jobs, reads, calls, registering, faults, confirms, registers>>

\* Mutant: only the first page of candidates is read.
CandidatesPage(i) ==
    {n \in 1 .. Len(items[i]) :
        items[i][n].status = "new" /\ \A m \in 1 .. n - 1 : items[i][m].status # "new"}

\* listNewCandidateItems.
Candidates(i) == {n \in 1 .. Len(items[i]) : items[i][n].status = "new"}

\* BEGIN, and the SELECT of the candidates. It locks no row, and the transaction
\* is READ COMMITTED: what it has read may be gone when it is used.
ListCandidates(w) ==
    LET i == run[w].import
    IN  /\ run[w].pc = "list"
        /\ reads' = [reads EXCEPT ![w] = [rows |-> {[id |-> n, url |-> items[i][n].url] : n \in Candidates(i)},
                                          gone |-> FALSE]]
        /\ run' = [run EXCEPT ![w].pc = "apply"]
        /\ UNCHANGED <<status, doc, items, feeds, jobs, calls, registering, faults, confirms, registers>>

\* The transaction is over, and its slot forgets what it read.
Forget(w) == reads' = [reads EXCEPT ![w] = NoRead]

\* upsertFeed finds a row with the hash of u that belongs to another URL.
Collides(u) == \E v \in Conflicts(feeds, u) : v # u

\* The rows whose INSERT creates a feed. No two candidates of an import have the
\* same hash, so they do not affect each other.
Creates(w) == {r \in reads[w].rows : Conflicts(feeds, r.url) = {}}

\* The outcome of a row, written to the item with its id.
Outcome(r) == IF Collides(r.url) THEN "failed" ELSE "imported"

\* What the transaction of the job commits: the feeds, the outcome of each row it
\* read, and the status of the import. Where the rows are gone the UPDATEs of the
\* items find nothing to write.
CommitApply(w) ==
    LET i == run[w].import
        rows == reads[w].rows
    IN  /\ feeds' = [u \in Urls |-> IF \E r \in Creates(w) : r.url = u THEN "hashed" ELSE feeds[u]]
        /\ items' = IF reads[w].gone THEN items
                    ELSE [items EXCEPT ![i] = [n \in 1 .. Len(items[i]) |->
                            [items[i][n] EXCEPT !.status =
                               IF \E r \in rows : r.id = n
                               THEN Outcome(CHOOSE r \in rows : r.id = n) ELSE items[i][n].status]]]
        /\ status' = [status EXCEPT ![i] =
                        IF \E r \in rows : Outcome(r) = "failed" THEN "failed" ELSE "completed"]
        /\ Forget(w)

ApplyImport(w) ==
    /\ run[w].pc = "apply"
    /\ CommitApply(w)
    /\ run' = [run EXCEPT ![w].pc = IF Creates(w) # {} THEN "enqueue" ELSE "completed"]
    /\ UNCHANGED <<doc, jobs, calls, registering, faults, confirms, registers>>

\* The transaction of w inserts a feed for u and a later one for v.
InsertsBefore(w, u, v) == \E q, r \in Creates(w) : q.id < r.id /\ q.url = u /\ r.url = v

\* The parse job p has locked the import's row and waits for the items, the apply
\* job a has locked an item and waits for the import's row.
Crossed(p, a) ==
    /\ run[p].pc = "parse" /\ run[a].pc = "apply" /\ run[p].import = run[a].import
    /\ reads[a].rows # {} /\ ~reads[a].gone

\* Two transactions take locks in opposite orders, and PostgreSQL aborts that of
\* w. An item's own catch block cannot write to an aborted transaction, so the
\* error reaches the outer one.
Deadlock(w) ==
    /\ \E x \in Slots :
          \/ Crossed(w, x) \/ Crossed(x, w)
          \/ /\ run[w].pc = "apply" /\ run[x].pc = "apply"
             /\ \E u, v \in Urls : InsertsBefore(w, u, v) /\ InsertsBefore(x, v, u)
    /\ run' = [run EXCEPT ![w].pc = "mark"]
    /\ Forget(w)
    /\ UNCHANGED <<status, doc, items, feeds, jobs, calls, registering, faults, confirms, registers>>

\* The fetch jobs of the created feeds are added after the COMMIT but inside
\* the try block: a failing Redis sends the job to the catch block.
EnqueueFetches(w) ==
    /\ run[w].pc = "enqueue"
    /\ \/ run' = [run EXCEPT ![w].pc = "completed"] /\ UNCHANGED faults
       \/ run' = [run EXCEPT ![w].pc = "mark"] /\ Fault("redis_error")
    /\ UNCHANGED <<status, doc, items, feeds, jobs, reads, calls, registering, confirms, registers>>

-----------------------------------------------------------------------------
(* Failures of a job *)

\* The catch block after the ROLLBACK: markImportStatus, whatever the row holds.
\* The error is not thrown again.
MarkFailed(w) ==
    /\ run[w].pc = "mark"
    /\ status' = [status EXCEPT ![run[w].import] =
                    IF run[w].kind = "parse" THEN "failed_validation" ELSE "failed"]
    /\ run' = [run EXCEPT ![w].pc = "completed"]
    /\ UNCHANGED <<doc, items, feeds, jobs, reads, calls, registering, faults, confirms, registers>>

\* A statement fails: outside the try block, or in the catch block, the job
\* throws; inside it the catch block runs.
StatementFails(w) ==
    /\ Fault("db_error")
    /\ \/ /\ run[w].pc \in {"read", "claim", "parse", "list", "apply", "mark"}
          /\ run' = [run EXCEPT ![w].pc = "failed"]
       \/ /\ run[w].pc \in {"parse", "list", "apply"}
          /\ run' = [run EXCEPT ![w].pc = "mark"]
    /\ Forget(w)
    /\ UNCHANGED <<status, doc, items, feeds, jobs, calls, registering, confirms, registers>>

\* The COMMIT is done but its answer is lost with the connection: the ROLLBACK
\* of the catch block fails too and the job throws.
CommitUnanswered(w) ==
    LET i == run[w].import
    IN  /\ Fault("db_error")
        /\ \/ run[w].pc = "parse" /\ Parses(doc[i]) /\ CommitPreview(i) /\ UNCHANGED feeds
           \/ run[w].pc = "apply" /\ CommitApply(w)
        /\ run' = [run EXCEPT ![w].pc = "failed"]
        /\ UNCHANGED <<doc, jobs, calls, registering, confirms, registers>>

\* The worker process dies, or it cannot renew its lock but goes on running.
SlotFails(w) ==
    /\ \/ /\ run[w].pc # "idle" /\ Fault("slot_crash")
          /\ run' = [run EXCEPT ![w] = IdleSlot]
          /\ Forget(w)
       \/ /\ run[w].owns /\ Fault("lock_lost")
          /\ run' = [run EXCEPT ![w].owns = FALSE]
          /\ UNCHANGED reads
    /\ UNCHANGED <<status, doc, items, feeds, jobs, calls, registering, confirms, registers>>

-----------------------------------------------------------------------------
CallStep(c) == ReadForConfirm(c) \/ MarkImporting(c) \/ Enqueue(c)

\* What a slot does by itself.
JobStep(w) ==
    \/ ReadForParse(w) \/ ParsePreview(w)
    \/ ReadForApply(w) \/ ClaimImport(w) \/ ListCandidates(w) \/ ApplyImport(w)
    \/ Deadlock(w) \/ EnqueueFetches(w) \/ MarkFailed(w) \/ LeaveJob(w)

Next ==
    \/ \E u \in Urls : CheckQuota(u) \/ RegisterFeed(u)
    \/ \E i \in Imports : AskConfirm(i) \/ \E d \in Documents[i] : CreateImport(i, d)
    \/ \E c \in calls : CallStep(c) \/ CallLost(c)
    \/ \E k \in Kinds, i \in Imports : QueueStep(k, i) \/ EvictFailed(k, i)
    \/ \E w \in Slots, k \in Kinds, i \in Imports : TakeJob(w, k, i)
    \/ \E w \in Slots : JobStep(w) \/ StatementFails(w) \/ CommitUnanswered(w) \/ SlotFails(w)

Spec == Init /\ [][Next]_vars

\* Processes run what they began, PostgreSQL and Redis answer, and BullMQ
\* promotes, recovers and hands out its jobs. Nobody has to upload, confirm or
\* register anything, and a retained failure need not go away.
Fairness ==
    /\ \A k \in Kinds, i \in Imports :
          WF_vars(QueueStep(k, i)) /\ SF_vars(\E w \in Slots : TakeJob(w, k, i))
    /\ \A i \in Imports, m \in 0 .. MaxConfirms :
          WF_vars(\E c \in calls : c.import = i /\ c.number = m /\ CallStep(c))
    /\ \A w \in Slots : WF_vars(JobStep(w))

FairSpec == Spec /\ Fairness

-----------------------------------------------------------------------------
(* Properties *)

\* No candidate is left, and every item shown as imported or existing has its feed.
Done(i) ==
    \A n \in 1 .. Len(items[i]) :
        /\ items[i][n].status # "new"
        /\ items[i][n].status \in {"imported", "existing"} => items[i][n].url \in Registered

\* An import becomes completed with nothing left to do, and stays that way, however
\* jobs fail, are retried, run twice or share URLs with other imports and
\* registrations. One step is exempt: the COMMIT of an apply job whose rows a parse
\* job, which stalled or lost its lock, has replaced since they were read.
CompletedLeavesNothing ==
    [][\A i \in Imports :
          (status[i] = "completed" => Done(i)) /\ status'[i] = "completed" =>
             Done(i)' \/ \E w \in Slots : run[w].pc = "apply" /\ run[w].import = i /\ reads[w].gone]_vars

OutlineUrls(list) == [n \in 1 .. Len(list) |-> list[n].url]

\* What was previewed is what is applied: from preview_ready on the list of
\* items is not replaced, whatever answers are lost and jobs repeated. Only a
\* parse job that stalled, and may run in two slots at once, is exempt.
PreviewStays ==
    [][\A i \in Imports : status[i] \notin {"none", "uploaded", "parsing"} =>
          \/ /\ OutlineUrls(items'[i]) = OutlineUrls(items[i])
             /\ \A n \in 1 .. Len(items[i]) : items'[i][n].status = "new" => items[i][n].status = "new"
          \/ jobs["parse"][i].stalls > 0
          \/ \E w \in Slots : run[w].import = i /\ run[w].pc = "parse" /\ ~run[w].owns]_vars

\* An import whose job waits in its queue comes to an end: it leaves uploaded
\* once parsed, and importing once applied, unless the queue gave the job up.
QueuedImportsSettle ==
    \A i \in Imports :
        /\ (status[i] = "uploaded" /\ jobs["parse"][i].state \in {"waiting", "delayed"}) ~>
              (status[i] # "uploaded" \/ jobs["parse"][i].state = "failed")
        /\ (status[i] = "importing" /\ jobs["apply"][i].state \in {"waiting", "delayed"}) ~>
              \/ status[i] \in {"completed", "failed", "failed_validation"}
              \/ jobs["apply"][i].state = "failed"
=============================================================================
