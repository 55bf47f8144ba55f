-------------------------- MODULE OpmlImportsProofs --------------------------
(***************************************************************************)
(* Theorems about OpmlImports, for every set of imports, URLs, files and    *)
(* slots, every hash, and every bound on attempts, stalls, failures,        *)
(* confirmations and registrations.                                         *)
(*                                                                          *)
(* Shape is the frame: types, and who has the lock of which job. Listing    *)
(* says of the items, whatever the status of their import, what the apply   *)
(* transaction relies on and leaves behind, and Reads says how what such a  *)
(* transaction has read, without a lock, relates to the items it writes to  *)
(* afterwards. Preview says why a parse job that owns its lock and never    *)
(* stalled finds the import as it read it: nobody confirms, or applies,     *)
(* what is not previewed yet (Unconfirmed), the parse job of an import is   *)
(* added once (AddedOnce), and so such a job is in one slot only            *)
(* (OneParser).                                                             *)
(***************************************************************************)
EXTENDS OpmlImports, SequenceTheorems, TLAPS

-----------------------------------------------------------------------------
(* Shape: types, and the owners of the jobs *)

JobRecord == [state: JobState, made: Nat, stalls: 0 .. MaxStalls]

\* A job that has made all its attempts is failed.
JobOK(k, job) == job.made <= Attempts[k] /\ (job.made = Attempts[k] => job.state = "failed")

\* What holds of one slot: it works on the job of an import or on nothing, the
\* job whose lock it has is active, and its step is one of its kind of job.
SlotOK(r) ==
    /\ IF r.pc = "idle" THEN r.import = NoImport /\ ~r.owns ELSE r.import \in Imports
    /\ r.owns => jobs[r.kind][r.import].state = "active"
    /\ r.pc = "parse" => r.kind = "parse"
    /\ r.pc \in {"claim", "list", "apply", "enqueue"} => r.kind = "apply"

\* The lock of a job is in one place.
OneOwner ==
    \A v, w \in Slots :
        run[v].owns /\ run[w].owns /\ run[v].kind = run[w].kind /\ run[v].import = run[w].import
            => v = w

Data ==
    /\ status \in [Imports -> Statuses]
    /\ doc \in [Imports -> Seq(Urls \cup {BadUrl}) \cup {Malformed}]
    /\ \A i \in Imports : doc[i] \in Documents[i] \cup {Malformed}
    /\ items \in [Imports -> Seq(Item)]
    /\ feeds \in [Urls -> {"none", "hashed", "legacy"}]
    /\ registering \subseteq Urls
    /\ faults \in 0 .. MaxFaults /\ confirms \in 0 .. MaxConfirms
    /\ registers \in 0 .. MaxRegisters

Queues ==
    /\ jobs \in [Kinds -> [Imports -> JobRecord]]
    /\ \A k \in Kinds, i \in Imports : JobOK(k, jobs[k][i])
    /\ run \in [Slots -> Run]
    /\ calls \subseteq Call
    /\ \A w \in Slots : SlotOK(run[w])
    /\ OneOwner

Shape == Data /\ Queues

-----------------------------------------------------------------------------
(* Preview: one parse job, and nothing confirmed before it is done *)

Early(s) == s \in {"none", "uploaded", "parsing"}

ParsedBy(w, i) == run[w].kind = "parse" /\ run[w].import = i

\* Until its one call has added it, an import's parse job is nowhere.
AddedOnce ==
    /\ \A c \in calls : c.step = "add_parse" => c.number = 0 /\ status[c.import] # "none"
    /\ \A i \in Imports :
          status[i] = "none" \/ (\E c \in calls : c.import = i /\ c.step = "add_parse") =>
             jobs["parse"][i].state = "absent" /\ \A w \in Slots : ~ParsedBy(w, i)

\* Before its preview an import has no confirmation beyond its read, no apply
\* job, and no slot that applies it.
Unconfirmed ==
    \A i \in Imports : Early(status[i]) =>
        /\ \A c \in calls : c.import = i => c.step \notin {"mark", "add_apply"}
        /\ jobs["apply"][i].state = "absent"
        /\ \A w \in Slots : ~(run[w].kind = "apply" /\ run[w].import = i)

\* A parse job that never stalled is in one slot at most, and in none while it waits.
OneParser ==
    \A i \in Imports : jobs["parse"][i].state # "absent" /\ jobs["parse"][i].stalls = 0 =>
        /\ \A v, w \in Slots : ParsedBy(v, i) /\ ParsedBy(w, i) => v = w
        /\ jobs["parse"][i].state \in {"waiting", "delayed"} => \A w \in Slots : ~ParsedBy(w, i)

\* Such a job, with its lock, parses an import that is still as it read it.
ParsesEarly ==
    \A w \in Slots :
        run[w].pc = "parse" /\ run[w].owns /\ jobs["parse"][run[w].import].stalls = 0 =>
            Early(status[run[w].import])

Preview == AddedOnce /\ Unconfirmed /\ OneParser /\ ParsesEarly

-----------------------------------------------------------------------------
(* Listing: the items of an import *)

\* An item shown as existing or imported has its feed, and the candidates are
\* feeds of different hashes.
ListingOf(i) ==
    /\ \A n \in 1 .. Len(items[i]) :
          /\ items[i][n].status \in {"imported", "existing"} => items[i][n].url \in Registered
          /\ items[i][n].status = "new" => items[i][n].url \in Urls
    /\ \A m, n \in Candidates(i) : Hash[items[i][m].url] = Hash[items[i][n].url] => m = n

Listing == \A i \in Imports : ListingOf(i)

-----------------------------------------------------------------------------
(* Reads: the rows an apply transaction has read *)

\* The rows are items of import i, and every candidate is among them.
Current(rows, i) ==
    /\ \A r \in rows : r.id \in 1 .. Len(items[i]) /\ items[i][r.id].url = r.url
    /\ \A n \in Candidates(i) : \E r \in rows : r.id = n

\* No two rows have URLs of one hash, and unless they are gone they are current.
ReadOf(w) ==
    /\ reads[w] \in Read
    /\ run[w].pc = "apply" =>
          /\ \A q, r \in reads[w].rows : Hash[q.url] = Hash[r.url] => q = r
          /\ ~reads[w].gone => Current(reads[w].rows, run[w].import)

Reads == reads \in [Slots -> Read] /\ \A w \in Slots : ReadOf(w)

-----------------------------------------------------------------------------
(* What a step does to the jobs, the slots, the calls and the status *)

\* The queues, the slots and the calls are left alone, and so is every status.
RestMove == UNCHANGED <<status, jobs, run, calls>>

\* A new row, with the call that adds its parse job.
CreateMove(i) ==
    /\ status[i] = "none" /\ status' = [status EXCEPT ![i] = "uploaded"]
    /\ calls' = calls \cup {[import |-> i, number |-> 0, step |-> "add_parse"]}
    /\ UNCHANGED <<jobs, run>>

\* A call begins, goes on or ends without touching a queue; it goes beyond its
\* read only for an import whose preview was ready.
CallMove ==
    /\ calls' \subseteq Call
    /\ \A c \in calls' : c \in calls \/ (c.step # "add_parse" /\ (c.step # "read" => ~Early(status[c.import])))
    /\ \/ status' = status
       \/ \E i \in Imports : ~Early(status[i]) /\ status' = [status EXCEPT ![i] = "importing"]
    /\ UNCHANGED <<jobs, run>>

\* A call adds its job unless it is there.
AddMove(c, k) ==
    /\ c \in calls /\ c.step = (IF k = "parse" THEN "add_parse" ELSE "add_apply")
    /\ calls' = calls \ {c}
    /\ \/ jobs' = jobs /\ jobs[k][c.import].state # "absent"
       \/ jobs' = [jobs EXCEPT ![k][c.import] = Queued] /\ jobs[k][c.import].state = "absent"
    /\ UNCHANGED <<status, run>>

\* The queue moves a job that no slot owns.
QueueMove(k, i, job) ==
    /\ job \in JobRecord /\ JobOK(k, job)
    /\ jobs' = [jobs EXCEPT ![k][i] = job]
    /\ \A w \in Slots : ~(run[w].owns /\ run[w].kind = k /\ run[w].import = i)
    /\ jobs[k][i].state # "absent"
    /\ \/ job.state = "absent"
       \/ job.stalls > 0
       \/ job.stalls = jobs[k][i].stalls /\ (job.state \in {"waiting", "delayed"} => jobs[k][i].state = "delayed")
    /\ UNCHANGED <<status, run, calls>>

\* A slot takes a waiting job.
TakeMove(w, k, i) ==
    /\ run[w].pc = "idle" /\ jobs[k][i].state = "waiting"
    /\ jobs' = [jobs EXCEPT ![k][i] = [jobs[k][i] EXCEPT !.state = "active"]]
    /\ run' = [run EXCEPT ![w] = [pc |-> "read", kind |-> k, import |-> i, owns |-> TRUE]]
    /\ UNCHANGED <<status, calls>>

\* A slot lets go of its job, or of its lock; only an owner changes the job.
StopMove(w, r) ==
    /\ run[w].pc # "idle"
    /\ run' = [run EXCEPT ![w] = r]
    /\ r = IdleSlot \/ r = [run[w] EXCEPT !.owns = FALSE]
    /\ \/ jobs' = jobs
       \/ \E job \in JobRecord :
             /\ run[w].owns /\ r = IdleSlot /\ JobOK(run[w].kind, job)
             /\ jobs' = [jobs EXCEPT ![run[w].kind][run[w].import] = job]
             /\ job.state = "absent" \/ job.stalls = jobs[run[w].kind][run[w].import].stalls
             /\ job.state # "waiting"
    /\ UNCHANGED <<status, calls>>

\* A slot goes on with its job. It begins to parse only where the import is not
\* previewed yet, and what it writes is a status beyond that.
WorkMove(w, pc) ==
    /\ run[w].pc # "idle"
    /\ run' = [run EXCEPT ![w] = [run[w] EXCEPT !.pc = pc]]
    /\ pc \in {"claim", "parse", "list", "apply", "enqueue", "mark", "completed", "failed"}
    /\ pc = "parse" => run[w].kind = "parse" /\ Early(status[run[w].import]) /\ status' = status
    /\ pc \in {"claim", "list", "apply", "enqueue"} => run[w].kind = "apply"
    /\ \/ status' = status
       \/ \E s \in Statuses : ~Early(s) /\ status' = [status EXCEPT ![run[w].import] = s]
    /\ UNCHANGED <<jobs, calls>>

Move ==
    \/ RestMove
    \/ \E i \in Imports : CreateMove(i)
    \/ CallMove
    \/ \E c \in calls, k \in Kinds : AddMove(c, k)
    \/ \E k \in Kinds, i \in Imports, job \in JobRecord : QueueMove(k, i, job)
    \/ \E w \in Slots, k \in Kinds, i \in Imports : TakeMove(w, k, i)
    \/ \E w \in Slots, r \in Run : StopMove(w, r)
    \/ \E w \in Slots, pc \in {"claim", "parse", "list", "apply", "enqueue", "mark", "completed", "failed"} :
          WorkMove(w, pc)

-----------------------------------------------------------------------------
(* What a step does to the items and the feeds *)

\* No item changes, no feed goes, and no import becomes completed.
QuietData ==
    /\ items' = items
    /\ feeds' \in [Urls -> {"none", "hashed", "legacy"}]
    /\ \A u \in Urls : feeds[u] # "none" => feeds'[u] # "none"
    /\ \A i \in Imports : status'[i] = "completed" => status[i] = "completed"

\* No slot comes to the end of an apply transaction from somewhere else.
NoneBegins ==
    \A w \in Slots : run'[w].pc = "apply" => run[w].pc = "apply" /\ run'[w].import = run[w].import

\* The transaction in slot w is over.
Ends(w) == Forget(w) /\ run'[w].pc # "apply" /\ NoneBegins

ReadsMove ==
    \/ reads' = reads /\ NoneBegins
    \/ \E w \in Slots : Ends(w)
    \/ \E w \in Slots : ListCandidates(w)

DataMove ==
    \/ QuietData /\ ReadsMove
    \/ \E w \in Slots : /\ run[w].pc = "parse" /\ Parses(doc[run[w].import])
                        /\ CommitPreview(run[w].import) /\ feeds' = feeds /\ NoneBegins
    \/ \E w \in Slots : run[w].pc = "apply" /\ CommitApply(w) /\ Ends(w)

\* What the assumptions on the constants give a proof.
LEMMA Constants ==
    /\ MaxFaults \in Nat /\ MaxConfirms \in Nat /\ MaxRegisters \in Nat /\ MaxStalls \in Nat
    /\ \A k \in Kinds : Attempts[k] \in Nat /\ Attempts[k] > 0
    /\ NoImport \notin Imports /\ BadUrl \notin Urls
BY ImportAssumption

\* The jobs and slots that operations make out of nothing are well formed.
LEMMA NewRecords ==
    /\ Absent \in JobRecord /\ Absent.state = "absent"
    /\ Queued \in JobRecord /\ Queued.state = "waiting" /\ Queued.stalls = 0
    /\ \A k \in Kinds : JobOK(k, Absent) /\ JobOK(k, Queued)
    /\ IdleSlot \in Run /\ SlotOK(IdleSlot) /\ IdleSlot.import = NoImport
    /\ IdleSlot.pc = "idle" /\ ~IdleSlot.owns
BY Constants DEF Absent, Queued, IdleSlot, JobRecord, JobState, JobOK, Run, Kinds, SlotOK

\* A job with another state, and with one more attempt or stall.
JobIs(j, s, m, t) == j \in JobRecord /\ j.state = s /\ j.made = m /\ j.stalls = t

\* One job of a queue changes.
LEMMA JobUpdated ==
    ASSUME NEW job \in JobRecord, NEW s \in JobState, NEW m \in Nat, NEW t \in 0 .. MaxStalls
    PROVE  /\ JobIs([job EXCEPT !.state = s], s, job.made, job.stalls)
           /\ JobIs([job EXCEPT !.state = s, !.made = m], s, m, job.stalls)
           /\ JobIs([job EXCEPT !.state = s, !.stalls = t], s, job.made, t)
BY DEF JobRecord, JobIs

\* A failure counts once.
LEMMA FaultCounts ==
    ASSUME Data, NEW kind, Fault(kind) \/ faults' = faults
    PROVE  faults' \in 0 .. MaxFaults
BY Constants DEF Data, Fault

\* A job and its slot: what Shape says of them.
LEMMA JobAndSlot ==
    ASSUME Shape
    PROVE  /\ \A k \in Kinds, i \in Imports : jobs[k][i] \in JobRecord /\ JobOK(k, jobs[k][i])
           /\ \A w \in Slots : /\ run[w] \in Run /\ SlotOK(run[w]) /\ run[w].kind \in Kinds
                               /\ run[w].pc # "idle" => run[w].import \in Imports
BY DEF Shape, Queues, Run, SlotOK

-----------------------------------------------------------------------------
(* Every step is one of these moves *)

\* An upload.
LEMMA CreateImportMove ==
    ASSUME NEW i \in Imports, NEW d, CreateImport(i, d)
    PROVE  Move
BY DEF Move, CreateMove, CreateImport

\* A confirmation is asked for.
LEMMA AskMove ==
    ASSUME Shape, NEW i \in Imports, AskConfirm(i)
    PROVE  Move
<1> DEFINE c == [import |-> i, number |-> confirms + 1, step |-> "read"]
<1>1. c \in Call
  BY Constants DEF Call, AskConfirm, Shape, Data
<1>2. calls' = calls \cup {c} /\ UNCHANGED <<status, jobs, run>> /\ c.step = "read"
  BY DEF AskConfirm
<1> HIDE DEF c
<1>3. CallMove
  BY <1>1, <1>2 DEF CallMove, Shape, Queues
<1> QED
  BY <1>3 DEF Move

\* A confirmation goes on, or is lost.
LEMMA ConfirmMove ==
    ASSUME Shape, Preview, NEW c \in calls, ReadForConfirm(c) \/ MarkImporting(c) \/ CallLost(c)
    PROVE  Move
<1>1. c \in Call /\ c.import \in Imports /\ calls \subseteq Call
  BY DEF Shape, Queues, Call
<1>2. ASSUME NEW step \in {"mark", "add_apply"}
      PROVE  LET d == [c EXCEPT !.step = step] IN d \in Call /\ d.import = c.import /\ d.step = step
  BY <1>1, <1>2 DEF Call
<1>3. CASE ReadForConfirm(c)
  <2>1. UNCHANGED <<status, jobs, run>>
    BY <1>3 DEF ReadForConfirm
  <2>2. CASE status[c.import] = "preview_ready"
    <3> DEFINE d == [c EXCEPT !.step = "mark"]
    <3>1. calls' = (calls \ {c}) \cup {d}
      BY <1>3, <2>2 DEF ReadForConfirm, Advance
    <3>2. d \in Call /\ d.import = c.import /\ d.step = "mark"
      BY <1>2
    <3> HIDE DEF d
    <3>3. CallMove
      BY <1>1, <2>1, <2>2, <3>1, <3>2 DEF CallMove, Early
    <3> QED
      BY <3>3 DEF Move
  <2>3. CASE status[c.import] # "preview_ready"
    <3>1. CallMove
      BY <1>1, <1>3, <2>1, <2>3 DEF ReadForConfirm, CallMove
    <3> QED
      BY <3>1 DEF Move
  <2> QED
    BY <2>2, <2>3
<1>4. CASE MarkImporting(c)
  <2> DEFINE d == [c EXCEPT !.step = "add_apply"]
  <2>1. /\ c.step = "mark" /\ calls' = (calls \ {c}) \cup {d} /\ UNCHANGED <<jobs, run>>
        /\ status' = [status EXCEPT ![c.import] = "importing"]
    BY <1>4 DEF MarkImporting, Advance
  <2>2. d \in Call /\ d.import = c.import /\ d.step = "add_apply"
    BY <1>2
  <2>3. ~Early(status[c.import])
    BY <1>1, <2>1 DEF Preview, Unconfirmed
  <2> HIDE DEF d
  <2>4. CallMove
    BY <1>1, <2>1, <2>2, <2>3 DEF CallMove
  <2> QED
    BY <2>4 DEF Move
<1>5. CASE CallLost(c)
  <2>1. CallMove
    BY <1>1, <1>5 DEF CallLost, CallMove
  <2> QED
    BY <2>1 DEF Move
<1> QED
  BY <1>3, <1>4, <1>5

\* queue.add.
LEMMA EnqueueMove ==
    ASSUME Shape, NEW c \in calls, Enqueue(c)
    PROVE  Move
<1> DEFINE k == IF c.step = "add_parse" THEN "parse" ELSE "apply"
<1>1. /\ c.step \in {"add_parse", "add_apply"} /\ calls' = calls \ {c} /\ UNCHANGED <<status, run>>
      /\ jobs' = [jobs EXCEPT ![k][c.import] =
                    IF jobs[k][c.import].state = "absent" THEN Queued ELSE jobs[k][c.import]]
  BY DEF Enqueue
<1>2. k \in Kinds /\ c.import \in Imports /\ c.step = (IF k = "parse" THEN "add_parse" ELSE "add_apply")
  BY <1>1 DEF Kinds, Shape, Queues, Call
<1> HIDE DEF k
<1>3. jobs \in [Kinds -> [Imports -> JobRecord]]
  BY DEF Shape, Queues
<1>4. CASE jobs[k][c.import].state = "absent"
  BY <1>1, <1>2, <1>4 DEF Move, AddMove
<1>5. CASE jobs[k][c.import].state # "absent"
  <2>1. jobs' = jobs
    BY <1>1, <1>2, <1>3, <1>5
  <2> QED
    BY <1>1, <1>2, <1>5, <2>1 DEF Move, AddMove
<1> QED
  BY <1>4, <1>5

\* The queue's own moves: a backoff elapses, a job stalls, a failure is evicted.
LEMMA QueueMoves ==
    ASSUME Shape, NEW k \in Kinds, NEW i \in Imports, QueueStep(k, i) \/ EvictFailed(k, i)
    PROVE  Move
<1> DEFINE job == jobs[k][i]
<1>1. UNCHANGED <<status, run, calls>>
  BY DEF QueueStep, EvictFailed
<1>2. job \in JobRecord /\ JobOK(k, job) /\ jobs \in [Kinds -> [Imports -> JobRecord]]
  BY DEF Shape, Queues
<1>3. \A w \in Slots : run[w].owns /\ run[w].kind = k /\ run[w].import = i => job.state = "active"
  BY DEF Shape, Queues, SlotOK
<1>4. ASSUME NEW new \in JobRecord, JobOK(k, new), jobs' = [jobs EXCEPT ![k][i] = new],
             \A w \in Slots : ~(run[w].owns /\ run[w].kind = k /\ run[w].import = i),
             job.state # "absent",
             \/ new.state = "absent"
             \/ new.stalls > 0
             \/ new.stalls = job.stalls /\ (new.state \in {"waiting", "delayed"} => job.state = "delayed")
      PROVE  Move
  BY <1>1, <1>4 DEF Move, QueueMove
<1>5. CASE EvictFailed(k, i)
  BY <1>3, <1>4, <1>5, NewRecords DEF EvictFailed
<1>6. CASE QueueStep(k, i) /\ job.state = "delayed"
  <2> DEFINE new == [job EXCEPT !.state = "waiting"]
  <2>1. jobs' = [jobs EXCEPT ![k][i] = new]
    BY <1>2, <1>6 DEF QueueStep
  <2>2. new \in JobRecord /\ new.stalls = job.stalls /\ new.made = job.made
    BY <1>2 DEF JobRecord, JobState
  <2>3. JobOK(k, new)
    BY <1>2, <1>6, <2>2 DEF JobOK
  <2> HIDE DEF new, job
  <2> QED
    BY <1>3, <1>4, <1>6, <2>1, <2>2, <2>3
<1>7. CASE QueueStep(k, i) /\ job.state = "active"
  <2> DEFINE new == IF job.stalls < MaxStalls
                    THEN [job EXCEPT !.state = "waiting", !.stalls = job.stalls + 1]
                    ELSE [job EXCEPT !.state = "failed"]
  <2>1. /\ jobs' = [jobs EXCEPT ![k][i] = new]
        /\ \A w \in Slots : ~(run[w].owns /\ run[w].kind = k /\ run[w].import = i)
    BY <1>2, <1>7 DEF QueueStep
  <2>2. /\ new \in JobRecord /\ new.made = job.made
        /\ new.stalls > 0 \/ (new.stalls = job.stalls /\ new.state = "failed")
    <3>1. job.stalls \in 0 .. MaxStalls /\ MaxStalls \in Nat /\ "waiting" \in JobState /\ "failed" \in JobState
      BY <1>2, Constants DEF JobRecord, JobState
    <3> HIDE DEF job
    <3>2. CASE job.stalls < MaxStalls
      <4> DEFINE stalled == [job EXCEPT !.state = "waiting", !.stalls = job.stalls + 1]
      <4>1. job.stalls + 1 \in 0 .. MaxStalls /\ job.stalls + 1 > 0
        BY <3>1, <3>2
      <4>2. JobIs(stalled, "waiting", job.made, job.stalls + 1)
        BY <1>2, <3>1, <4>1, JobUpdated
      <4>3. new = stalled
        BY <3>2
      <4> HIDE DEF stalled, new
      <4> QED
        BY <4>1, <4>2, <4>3 DEF JobIs
    <3>3. CASE ~(job.stalls < MaxStalls)
      <4> DEFINE given_up == [job EXCEPT !.state = "failed"]
      <4>1. JobIs(given_up, "failed", job.made, job.stalls)
        BY <1>2, <3>1, JobUpdated
      <4>2. new = given_up
        BY <3>3
      <4> HIDE DEF given_up, new
      <4> QED
        BY <4>1, <4>2 DEF JobIs
    <3> QED
      BY <3>2, <3>3
  <2>3. JobOK(k, new)
    BY <1>2, <1>7, <2>2 DEF JobOK
  <2> HIDE DEF new, job
  <2> QED
    BY <1>4, <1>7, <2>1, <2>2, <2>3
<1> QED
  BY <1>5, <1>6, <1>7 DEF QueueStep

\* A slot takes a job, ends it, dies, or loses its lock.
LEMMA TakeJobMove ==
    ASSUME Shape, NEW w \in Slots, NEW k \in Kinds, NEW i \in Imports, TakeJob(w, k, i)
    PROVE  Move
<1>1. jobs' = [jobs EXCEPT ![k][i] = [jobs[k][i] EXCEPT !.state = "active"]]
  BY DEF TakeJob, Shape, Queues
<1> QED
  BY <1>1 DEF Move, TakeMove, TakeJob

\* A slot leaves its job.
LEMMA LeaveJobMove ==
    ASSUME Shape, NEW w \in Slots, LeaveJob(w)
    PROVE  Move
<1> DEFINE k == run[w].kind
           i == run[w].import
           job == jobs[k][i]
           made == job.made + 1
           new == CASE run[w].pc = "completed" -> Absent
                    [] run[w].pc = "failed" /\ made < Attempts[k] ->
                          [job EXCEPT !.state = "delayed", !.made = made]
                    [] OTHER -> [job EXCEPT !.state = "failed", !.made = Attempts[k]]
<1>1. /\ run[w].pc \in {"completed", "failed"}
      /\ run' = [run EXCEPT ![w] = IdleSlot] /\ UNCHANGED <<status, calls>>
      /\ jobs' = IF ~run[w].owns THEN jobs ELSE [jobs EXCEPT ![k][i] = new]
  BY DEF LeaveJob
<1>2. run[w].pc # "idle" /\ k \in Kinds /\ i \in Imports /\ job \in JobRecord
  BY <1>1, JobAndSlot
<1>3. CASE ~run[w].owns
  BY <1>1, <1>2, <1>3, NewRecords DEF Move, StopMove
<1>4. CASE run[w].owns
  <2>1. new \in JobRecord /\ JobOK(k, new) /\ new.state # "waiting"
        /\ (new.state = "absent" \/ new.stalls = job.stalls)
    <3>1. /\ Attempts[k] \in Nat /\ Attempts[k] > 0 /\ job.made \in Nat /\ made \in Nat
          /\ job.stalls \in 0 .. MaxStalls
      BY <1>2, Constants DEF JobRecord
    <3> HIDE DEF job, k
    <3>2. CASE run[w].pc = "completed"
      <4>1. new = Absent
        BY <3>2
      <4> QED
        BY <1>2, <4>1, NewRecords
    <3>3. CASE run[w].pc = "failed" /\ made < Attempts[k]
      <4> DEFINE again == [job EXCEPT !.state = "delayed", !.made = made]
      <4>1. JobIs(again, "delayed", made, job.stalls)
        <5>1. "delayed" \in JobState
          BY DEF JobState
        <5> HIDE DEF made
        <5> QED
          BY <1>2, <3>1, <5>1, JobUpdated
      <4>2. new = again
        BY <3>3
      <4> HIDE DEF again, new, made
      <4> QED
        BY <3>1, <3>3, <4>1, <4>2 DEF JobIs, JobOK
    <3>4. CASE run[w].pc = "failed" /\ ~(made < Attempts[k])
      <4> DEFINE given_up == [job EXCEPT !.state = "failed", !.made = Attempts[k]]
      <4>1. JobIs(given_up, "failed", Attempts[k], job.stalls)
        <5>1. "failed" \in JobState
          BY DEF JobState
        <5> QED
          BY <1>2, <3>1, <5>1, JobUpdated
      <4>2. new = given_up
        BY <3>4
      <4> HIDE DEF given_up, new, made
      <4> QED
        BY <3>1, <4>1, <4>2 DEF JobIs, JobOK
    <3> QED
      BY <1>1, <3>2, <3>3, <3>4
  <2>2. jobs' = [jobs EXCEPT ![k][i] = new]
    BY <1>1, <1>4
  <2> HIDE DEF new
  <2>3. StopMove(w, IdleSlot)
    BY <1>1, <1>2, <1>4, <2>1, <2>2 DEF StopMove
  <2> QED
    BY <2>3, NewRecords DEF Move
<1> QED
  BY <1>3, <1>4

\* A slot loses its job to a failure.
LEMMA SlotFailsMove ==
    ASSUME Shape, NEW w \in Slots, SlotFails(w)
    PROVE  Move
<1>1. UNCHANGED <<status, jobs, calls>> /\ run \in [Slots -> Run] /\ run[w] \in Run
  BY DEF SlotFails, Shape, Queues
<1>2. CASE run[w].pc # "idle" /\ run' = [run EXCEPT ![w] = IdleSlot]
  BY <1>1, <1>2, NewRecords DEF Move, StopMove
<1>3. CASE run[w].owns /\ run' = [run EXCEPT ![w].owns = FALSE]
  <2> DEFINE r == [run[w] EXCEPT !.owns = FALSE]
  <2>1. r \in Run /\ run' = [run EXCEPT ![w] = r]
    BY <1>1, <1>3 DEF Run
  <2>2. run[w].pc # "idle"
    BY <1>3, JobAndSlot DEF SlotOK
  <2>3. StopMove(w, r)
    BY <1>1, <2>1, <2>2 DEF StopMove
  <2> HIDE DEF r
  <2> QED
    BY <2>1, <2>3 DEF Move
<1> QED
  BY <1>2, <1>3 DEF SlotFails

\* A slot goes on with its job.
LEMMA Working ==
    ASSUME Shape, NEW w \in Slots, run[w].pc # "idle", UNCHANGED <<jobs, calls>>,
           NEW pc \in {"claim", "parse", "list", "apply", "enqueue", "mark", "completed", "failed"},
           run' = [run EXCEPT ![w].pc = pc],
           pc = "parse" => run[w].kind = "parse" /\ Early(status[run[w].import]) /\ status' = status,
           pc \in {"claim", "list", "apply", "enqueue"} => run[w].kind = "apply",
           \/ status' = status
           \/ \E s \in Statuses : ~Early(s) /\ status' = [status EXCEPT ![run[w].import] = s]
    PROVE  Move
<1>1. run' = [run EXCEPT ![w] = [run[w] EXCEPT !.pc = pc]]
  BY DEF Shape, Queues
<1>2. WorkMove(w, pc)
  BY <1>1 DEF WorkMove
<1> QED
  BY <1>2 DEF Move

\* The status is read before the transaction.
LEMMA ReadMove ==
    ASSUME Shape, NEW w \in Slots, ReadForParse(w) \/ ReadForApply(w)
    PROVE  Move
<1>1. run[w].pc # "idle" /\ UNCHANGED <<status, jobs, calls>>
  BY DEF ReadForParse, ReadForApply
<1>2. CASE ReadForParse(w)
  <2>1. CASE status[run[w].import] \in {"uploaded", "parsing"}
    <3>1. run' = [run EXCEPT ![w].pc = "parse"] /\ run[w].kind = "parse"
      BY <1>2, <2>1 DEF ReadForParse
    <3> QED
      BY <1>1, <2>1, <3>1, Working DEF Early
  <2>2. CASE status[run[w].import] \notin {"uploaded", "parsing"}
    <3>1. run' = [run EXCEPT ![w].pc = "completed"]
      BY <1>2, <2>2 DEF ReadForParse
    <3> QED
      BY <1>1, <3>1, Working
  <2> QED
    BY <2>1, <2>2
<1>3. CASE ReadForApply(w)
  <2> DEFINE now == status[run[w].import]
             next == CASE now = "completed" -> "completed"
                       [] now = "importing" -> "list"
                       [] now # "importing" /\ MayImport(now) -> "claim"
                       [] OTHER -> "failed"
  <2>1. PICK pc \in {"completed", "list", "claim", "failed"} : run' = [run EXCEPT ![w].pc = pc]
    <3>1. run' = [run EXCEPT ![w].pc = next]
      BY <1>3 DEF ReadForApply
    <3>2. next \in {"completed", "list", "claim", "failed"}
      OBVIOUS
    <3> HIDE DEF next
    <3> QED
      BY <3>1, <3>2
  <2>2. run[w].kind = "apply"
    BY <1>3 DEF ReadForApply
  <2> QED
    BY <1>1, <2>1, <2>2, Working
<1> QED
  BY <1>2, <1>3

\* What the transactions write to the status.
LEMMA CommitStatus ==
    ASSUME NEW i \in Imports, NEW w \in Slots,
           CommitPreview(i) \/ (CommitApply(w) /\ run[w].import = i)
    PROVE  \E s \in Statuses : ~Early(s) /\ status' = [status EXCEPT ![i] = s]
<1>1. PICK s \in {"preview_ready", "failed", "completed"} : status' = [status EXCEPT ![i] = s]
  BY DEF CommitPreview, CommitApply
<1> QED
  BY <1>1 DEF Early, Statuses

\* The steps that commit, mark or enqueue, and the failures of a statement.
LEMMA CommitMoves ==
    ASSUME Shape, NEW w \in Slots,
           \/ ParsePreview(w) \/ ClaimImport(w) \/ ListCandidates(w) \/ ApplyImport(w) \/ Deadlock(w)
           \/ EnqueueFetches(w) \/ MarkFailed(w) \/ StatementFails(w) \/ CommitUnanswered(w)
    PROVE  Move
<1>1. run[w].pc # "idle" /\ UNCHANGED <<jobs, calls>>
  BY DEF ParsePreview, ClaimImport, ListCandidates, ApplyImport, Deadlock, Crossed, EnqueueFetches,
         MarkFailed, StatementFails, CommitUnanswered
<1>2. /\ run[w].import \in Imports
      /\ run[w].pc \in {"claim", "list", "apply"} => run[w].kind = "apply"
  BY <1>1, JobAndSlot DEF SlotOK
<1>3. CASE ParsePreview(w)
  <2>1. PICK pc \in {"mark", "completed"} : run' = [run EXCEPT ![w].pc = pc]
    BY <1>3 DEF ParsePreview
  <2>2. status' = status \/ CommitPreview(run[w].import)
    BY <1>3 DEF ParsePreview
  <2> QED
    BY <1>1, <1>2, <2>1, <2>2, CommitStatus, Working
<1>4. CASE ClaimImport(w)
  <2>1. /\ run[w].kind = "apply" /\ run' = [run EXCEPT ![w].pc = "list"]
        /\ status' = [status EXCEPT ![run[w].import] = "importing"]
        /\ "importing" \in Statuses /\ ~Early("importing")
    BY <1>2, <1>4 DEF ClaimImport, Statuses, Early
  <2> QED
    BY <1>1, <2>1, Working
<1>5. CASE ListCandidates(w)
  <2>1. run[w].kind = "apply" /\ run' = [run EXCEPT ![w].pc = "apply"] /\ status' = status
    BY <1>2, <1>5 DEF ListCandidates
  <2> QED
    BY <1>1, <2>1, Working
<1>6. CASE ApplyImport(w)
  <2>1. PICK pc \in {"enqueue", "completed"} : run' = [run EXCEPT ![w].pc = pc]
    BY <1>6 DEF ApplyImport
  <2>2. run[w].kind = "apply" /\ CommitApply(w)
    BY <1>2, <1>6 DEF ApplyImport
  <2> QED
    BY <1>1, <1>2, <2>1, <2>2, CommitStatus, Working
<1>7. CASE Deadlock(w) \/ EnqueueFetches(w) \/ StatementFails(w)
  <2>1. PICK pc \in {"mark", "completed", "failed"} : run' = [run EXCEPT ![w].pc = pc]
    BY <1>7 DEF Deadlock, EnqueueFetches, StatementFails
  <2>2. status' = status
    BY <1>7 DEF Deadlock, EnqueueFetches, StatementFails
  <2> QED
    BY <1>1, <2>1, <2>2, Working
<1>8. CASE MarkFailed(w)
  <2>1. PICK s \in {"failed_validation", "failed"} : status' = [status EXCEPT ![run[w].import] = s]
    BY <1>8 DEF MarkFailed
  <2>2. run' = [run EXCEPT ![w].pc = "completed"] /\ s \in Statuses /\ ~Early(s)
    BY <1>8 DEF MarkFailed, Statuses, Early
  <2> QED
    BY <1>1, <2>1, <2>2, Working
<1>9. CASE CommitUnanswered(w)
  <2>1. run' = [run EXCEPT ![w].pc = "failed"] /\ (CommitPreview(run[w].import) \/ CommitApply(w))
    BY <1>9 DEF CommitUnanswered
  <2> QED
    BY <1>1, <1>2, <2>1, CommitStatus, Working
<1> QED
  BY <1>3, <1>4, <1>5, <1>6, <1>7, <1>8, <1>9

\* Every step of the specification is one of these moves.
LEMMA NextMove ==
    ASSUME Shape, Preview, [Next]_vars
    PROVE  Move
<1>1. CASE UNCHANGED vars
  BY <1>1 DEF vars, Move, RestMove
<1>2. ASSUME NEW u \in Urls, CheckQuota(u) \/ RegisterFeed(u) PROVE Move
  BY <1>2 DEF CheckQuota, RegisterFeed, Move, RestMove
<1>3. ASSUME NEW i \in Imports, AskConfirm(i) \/ \E d \in Documents[i] : CreateImport(i, d) PROVE Move
  BY <1>3, AskMove, CreateImportMove
<1>4. ASSUME NEW c \in calls, CallStep(c) \/ CallLost(c) PROVE Move
  BY <1>4, ConfirmMove, EnqueueMove DEF CallStep
<1>5. ASSUME NEW k \in Kinds, NEW i \in Imports, QueueStep(k, i) \/ EvictFailed(k, i) PROVE Move
  BY <1>5, QueueMoves
<1>6. ASSUME NEW w \in Slots, NEW k \in Kinds, NEW i \in Imports, TakeJob(w, k, i) PROVE Move
  BY <1>6, TakeJobMove
<1>7. ASSUME NEW w \in Slots, JobStep(w) \/ StatementFails(w) \/ CommitUnanswered(w) \/ SlotFails(w)
      PROVE  Move
  BY <1>7, ReadMove, CommitMoves, LeaveJobMove, SlotFailsMove DEF JobStep
<1> QED
  BY <1>1, <1>2, <1>3, <1>4, <1>5, <1>6, <1>7 DEF Next

-----------------------------------------------------------------------------
(* Shape is kept *)

\* One job changes.
LEMMA JobSet ==
    ASSUME Queues, NEW k \in Kinds, NEW i \in Imports, NEW job \in JobRecord,
           jobs' = [jobs EXCEPT ![k][i] = job]
    PROVE  /\ jobs' \in [Kinds -> [Imports -> JobRecord]]
           /\ \A x \in Kinds, y \in Imports :
                 jobs'[x][y] = IF x = k /\ y = i THEN job ELSE jobs[x][y]
BY DEF Queues

\* One slot changes.
LEMMA SlotSet ==
    ASSUME Queues, NEW w \in Slots, NEW r \in Run, run' = [run EXCEPT ![w] = r]
    PROVE  /\ run' \in [Slots -> Run]
           /\ \A v \in Slots : run'[v] = IF v = w THEN r ELSE run[v]
BY DEF Queues

\* No slot moves and no job.
LEMMA StillQueues ==
    ASSUME Shape, UNCHANGED <<jobs, run>>, calls' \subseteq Call
    PROVE  Queues'
<1>1. jobs' = jobs /\ run' = run
  OBVIOUS
<1>2. \A w \in Slots : SlotOK(run[w])'
  BY <1>1 DEF Shape, Queues, SlotOK
<1> QED
  BY <1>1, <1>2 DEF Shape, Queues, OneOwner, JobOK

\* An enqueue keeps Queues.
LEMMA AddQueues ==
    ASSUME Shape, NEW c \in calls, NEW k \in Kinds, AddMove(c, k)
    PROVE  Queues'
<1>1. Queues /\ run' = run /\ calls' \subseteq Call /\ c.import \in Imports
  BY DEF Shape, Queues, AddMove, Call
<1>2. CASE jobs' = jobs
  BY <1>1, <1>2, StillQueues
<1>3. CASE jobs' # jobs
  <2>1. jobs' = [jobs EXCEPT ![k][c.import] = Queued] /\ jobs[k][c.import].state = "absent"
    BY <1>3 DEF AddMove
  <2>2. /\ jobs' \in [Kinds -> [Imports -> JobRecord]]
        /\ \A x \in Kinds, y \in Imports :
              jobs'[x][y] = IF x = k /\ y = c.import THEN Queued ELSE jobs[x][y]
    BY <1>1, <2>1, JobSet, NewRecords
  <2>3. \A x \in Kinds, y \in Imports : JobOK(x, jobs'[x][y])
    BY <1>1, <2>2, NewRecords DEF Queues
  <2>4. ASSUME NEW w \in Slots PROVE SlotOK(run[w])'
    BY <1>1, <2>1, <2>2, JobAndSlot DEF SlotOK, Queues
  <2> QED
    BY <1>1, <2>2, <2>3, <2>4 DEF Queues, OneOwner, JobOK
<1> QED
  BY <1>2, <1>3

\* The moves of BullMQ keep Queues.
LEMMA QueueQueues ==
    ASSUME Shape, NEW k \in Kinds, NEW i \in Imports, NEW job \in JobRecord, QueueMove(k, i, job)
    PROVE  Queues'
<1>1. /\ Queues /\ run' = run /\ calls' \subseteq Call /\ jobs' = [jobs EXCEPT ![k][i] = job] /\ JobOK(k, job)
      /\ \A w \in Slots : ~(run[w].owns /\ run[w].kind = k /\ run[w].import = i)
  BY DEF Shape, Queues, QueueMove
<1>2. /\ jobs' \in [Kinds -> [Imports -> JobRecord]]
      /\ \A x \in Kinds, y \in Imports : jobs'[x][y] = IF x = k /\ y = i THEN job ELSE jobs[x][y]
  BY <1>1, JobSet
<1>3. \A x \in Kinds, y \in Imports : JobOK(x, jobs'[x][y])
  BY <1>1, <1>2 DEF Queues
<1>4. ASSUME NEW w \in Slots PROVE SlotOK(run[w])'
  BY <1>1, <1>2, JobAndSlot DEF SlotOK, Queues
<1> QED
  BY <1>1, <1>2, <1>3, <1>4 DEF Queues, OneOwner, JobOK

\* Taking a job keeps Queues.
LEMMA TakeQueues ==
    ASSUME Shape, NEW w \in Slots, NEW k \in Kinds, NEW i \in Imports, TakeMove(w, k, i)
    PROVE  Queues'
<1> DEFINE job == [jobs[k][i] EXCEPT !.state = "active"]
           r == [pc |-> "read", kind |-> k, import |-> i, owns |-> TRUE]
<1>1. /\ Queues /\ calls' \subseteq Call /\ jobs' = [jobs EXCEPT ![k][i] = job]
      /\ run' = [run EXCEPT ![w] = r] /\ jobs[k][i].state = "waiting" /\ run[w].pc = "idle"
  BY DEF Shape, Queues, TakeMove
<1>2. job \in JobRecord /\ job.state = "active" /\ job.made = jobs[k][i].made
  BY JobAndSlot DEF JobRecord, JobState
<1>3. r \in Run /\ r.pc = "read" /\ r.kind = k /\ r.import = i /\ r.owns
  BY DEF Run
<1>4. JobOK(k, job)
  BY <1>1, <1>2, JobAndSlot DEF JobOK
<1> HIDE DEF job, r
<1>5. /\ jobs' \in [Kinds -> [Imports -> JobRecord]]
      /\ \A x \in Kinds, y \in Imports : jobs'[x][y] = IF x = k /\ y = i THEN job ELSE jobs[x][y]
  BY <1>1, <1>2, JobSet
<1>6. run' \in [Slots -> Run] /\ \A v \in Slots : run'[v] = IF v = w THEN r ELSE run[v]
  BY <1>1, <1>3, SlotSet
<1>7. \A x \in Kinds, y \in Imports : JobOK(x, jobs'[x][y])
  BY <1>1, <1>4, <1>5 DEF Queues
<1>8. \A v \in Slots : ~(run[v].owns /\ run[v].kind = k /\ run[v].import = i)
  BY <1>1, JobAndSlot DEF SlotOK
<1>9. ASSUME NEW v \in Slots PROVE SlotOK(run[v])'
  BY <1>2, <1>3, <1>5, <1>6, JobAndSlot DEF SlotOK
<1>10. OneOwner'
  BY <1>1, <1>3, <1>6, <1>8 DEF Queues, OneOwner
<1> QED
  BY <1>1, <1>5, <1>6, <1>7, <1>9, <1>10 DEF Queues, JobOK

\* Letting go of a job keeps Queues.
LEMMA StopQueues ==
    ASSUME Shape, NEW w \in Slots, NEW r \in Run, StopMove(w, r)
    PROVE  Queues'
<1>1. /\ Queues /\ calls' \subseteq Call /\ run' = [run EXCEPT ![w] = r] /\ run[w].pc # "idle"
      /\ r = IdleSlot \/ r = [run[w] EXCEPT !.owns = FALSE]
  BY DEF Shape, Queues, StopMove
<1>2. /\ ~r.owns
      /\ \/ r.pc = "idle" /\ r.import = NoImport
         \/ r.pc = run[w].pc /\ r.kind = run[w].kind /\ r.import = run[w].import
  BY <1>1, JobAndSlot, NewRecords DEF Run
<1>3. run' \in [Slots -> Run] /\ \A v \in Slots : run'[v] = IF v = w THEN r ELSE run[v]
  BY <1>1, SlotSet
<1>4. OneOwner'
  BY <1>1, <1>2, <1>3 DEF Queues, OneOwner
<1>5. CASE jobs' = jobs
  <2>1. ASSUME NEW v \in Slots PROVE SlotOK(run[v])'
    BY <1>1, <1>2, <1>3, <1>5, JobAndSlot DEF SlotOK
  <2> QED
    BY <1>1, <1>3, <1>4, <1>5, <2>1 DEF Queues, JobOK
<1>6. CASE jobs' # jobs
  <2> DEFINE k == run[w].kind
             i == run[w].import
  <2>1. PICK job \in JobRecord : /\ run[w].owns /\ JobOK(k, job)
                                 /\ jobs' = [jobs EXCEPT ![k][i] = job]
    BY <1>6 DEF StopMove
  <2>2. k \in Kinds /\ i \in Imports
    BY <1>1, JobAndSlot
  <2>3. /\ jobs' \in [Kinds -> [Imports -> JobRecord]]
        /\ \A x \in Kinds, y \in Imports : jobs'[x][y] = IF x = k /\ y = i THEN job ELSE jobs[x][y]
    <3> HIDE DEF k, i
    <3>1. job \in JobRecord /\ jobs' = [jobs EXCEPT ![k][i] = job] /\ Queues
      BY <1>1, <2>1
    <3> QED
      BY <2>2, <3>1, JobSet
  <2>4. \A x \in Kinds, y \in Imports : JobOK(x, jobs'[x][y])
    BY <1>1, <2>1, <2>3 DEF Queues
  <2>5. ASSUME NEW v \in Slots, v # w, run[v].owns PROVE ~(run[v].kind = k /\ run[v].import = i)
    BY <1>1, <2>1, <2>5 DEF Queues, OneOwner
  <2>6. ASSUME NEW v \in Slots PROVE SlotOK(run[v])'
    BY <1>1, <1>2, <1>3, <2>3, <2>5, JobAndSlot DEF SlotOK
  <2> QED
    BY <1>1, <1>3, <1>4, <2>3, <2>4, <2>6 DEF Queues, JobOK
<1> QED
  BY <1>5, <1>6

\* A slot at work keeps Queues.
LEMMA WorkQueues ==
    ASSUME Shape, NEW w \in Slots,
           NEW pc \in {"claim", "parse", "list", "apply", "enqueue", "mark", "completed", "failed"}, WorkMove(w, pc)
    PROVE  Queues'
<1> DEFINE r == [run[w] EXCEPT !.pc = pc]
<1>1. /\ Queues /\ calls' \subseteq Call /\ run' = [run EXCEPT ![w] = r] /\ run[w].pc # "idle" /\ jobs' = jobs
      /\ pc = "parse" => run[w].kind = "parse"
      /\ pc \in {"claim", "list", "apply", "enqueue"} => run[w].kind = "apply"
  BY DEF Shape, Queues, WorkMove
<1>2. r \in Run /\ r.pc = pc /\ r.kind = run[w].kind /\ r.import = run[w].import /\ r.owns = run[w].owns
  BY <1>1, JobAndSlot DEF Run
<1> HIDE DEF r
<1>3. run' \in [Slots -> Run] /\ \A v \in Slots : run'[v] = IF v = w THEN r ELSE run[v]
  BY <1>1, <1>2, SlotSet
<1>4. OneOwner'
  BY <1>1, <1>2, <1>3 DEF Queues, OneOwner
<1>5. ASSUME NEW v \in Slots PROVE SlotOK(run[v])'
  BY <1>1, <1>2, <1>3, JobAndSlot DEF SlotOK
<1> QED
  BY <1>1, <1>3, <1>4, <1>5 DEF Queues, JobOK

\* Every kind of step keeps Queues.
LEMMA MoveQueues ==
    ASSUME Shape, Move
    PROVE  Queues'
<1>1. ASSUME NEW i \in Imports, CreateMove(i) PROVE Queues'
  <2>1. [import |-> i, number |-> 0, step |-> "add_parse"] \in Call
    BY Constants DEF Call
  <2> QED
    BY <1>1, <2>1, StillQueues DEF CreateMove, Shape, Queues
<1>2. CASE RestMove \/ CallMove
  BY <1>2, StillQueues DEF RestMove, CallMove, Shape, Queues
<1> QED
  BY <1>1, <1>2, AddQueues, QueueQueues, TakeQueues, StopQueues, WorkQueues DEF Move

\* A function on 1 .. n is a list of length n, and a list is one.
LEMMA FunctionIsList ==
    ASSUME NEW S, NEW n \in Nat, NEW f \in [1 .. n -> S]
    PROVE  f \in Seq(S) /\ Len(f) = n
BY IsASeq, LenProperties

\* A sequence is a function on an initial segment.
LEMMA ListIsFunction ==
    ASSUME NEW S, NEW list \in Seq(S)
    PROVE  Len(list) \in Nat /\ DOMAIN list = 1 .. Len(list) /\ \A n \in 1 .. Len(list) : list[n] \in S
BY LenProperties

\* What the parse job writes: one item per outline, in order.
LEMMA PreviewItems ==
    ASSUME Shape, NEW i \in Imports, Parses(doc[i]), CommitPreview(i)
    PROVE  /\ doc[i] \in Seq(Urls \cup {BadUrl}) /\ Len(doc[i]) \in Nat
           /\ \A n \in 1 .. Len(doc[i]) : doc[i][n] \in Urls \cup {BadUrl}
           /\ items'[i] \in Seq(Item) /\ Len(items'[i]) = Len(doc[i])
           /\ \A n \in 1 .. Len(doc[i]) : items'[i][n] = Classify(doc[i], n)
           /\ \A j \in Imports : j # i => items'[j] = items[j]
           /\ items' \in [Imports -> Seq(Item)]
<1> DEFINE list == [n \in 1 .. Len(doc[i]) |-> Classify(doc[i], n)]
<1>1. doc[i] \in Seq(Urls \cup {BadUrl})
  BY DEF Shape, Data, Parses
<1>2. Len(doc[i]) \in Nat /\ \A n \in 1 .. Len(doc[i]) : doc[i][n] \in Urls \cup {BadUrl}
  BY <1>1, ListIsFunction
<1>3. ASSUME NEW n \in 1 .. Len(doc[i]) PROVE Classify(doc[i], n) \in Item
  BY <1>2 DEF Classify, Item
<1>4. list \in [1 .. Len(doc[i]) -> Item] /\ \A n \in 1 .. Len(doc[i]) : list[n] = Classify(doc[i], n)
  BY <1>3
<1>5. items' = [items EXCEPT ![i] = list] /\ items \in [Imports -> Seq(Item)]
  BY DEF CommitPreview, Shape, Data
<1> HIDE DEF list
<1>6. list \in Seq(Item) /\ Len(list) = Len(doc[i])
  BY <1>2, <1>4, FunctionIsList
<1> QED
  BY <1>1, <1>2, <1>4, <1>5, <1>6

\* What the apply job writes: the outcome of each row it has read, unless they are
\* gone, and nothing else.
LEMMA AppliedItems ==
    ASSUME Shape, NEW w \in Slots, NEW i \in Imports, run[w].import = i, CommitApply(w)
    PROVE  /\ items'[i] \in Seq(Item) /\ Len(items'[i]) = Len(items[i])
           /\ \A n \in 1 .. Len(items[i]) :
                 /\ items[i][n] \in Item /\ items'[i][n].url = items[i][n].url
                 /\ \/ /\ items'[i][n].status = items[i][n].status
                       /\ ~reads[w].gone => ~(\E r \in reads[w].rows : r.id = n)
                    \/ /\ ~reads[w].gone
                       /\ \E r \in reads[w].rows : r.id = n /\ items'[i][n].status = Outcome(r)
           /\ \A j \in Imports : j # i => items'[j] = items[j]
           /\ items' \in [Imports -> Seq(Item)]
<1> DEFINE rows == reads[w].rows
           new(n) == IF \E r \in rows : r.id = n
                     THEN Outcome(CHOOSE r \in rows : r.id = n) ELSE items[i][n].status
           list == [n \in 1 .. Len(items[i]) |-> [items[i][n] EXCEPT !.status = new(n)]]
<1>1. items \in [Imports -> Seq(Item)] /\ items[i] \in Seq(Item)
  BY DEF Shape, Data
<1>2. Len(items[i]) \in Nat /\ \A n \in 1 .. Len(items[i]) : items[i][n] \in Item
  BY <1>1, ListIsFunction
<1>3. CASE reads[w].gone
  <2>1. items' = items
    BY <1>3 DEF CommitApply
  <2> QED
    BY <1>1, <1>2, <1>3, <2>1
<1>4. CASE ~reads[w].gone
  <2>1. ASSUME NEW n \in 1 .. Len(items[i])
        PROVE  \/ new(n) = items[i][n].status /\ ~(\E r \in rows : r.id = n)
               \/ \E r \in rows : r.id = n /\ new(n) = Outcome(r)
    <3>1. CASE \E r \in rows : r.id = n
      <4>1. PICK q \in rows : q = (CHOOSE r \in rows : r.id = n) /\ q.id = n
        BY <3>1
      <4>2. new(n) = Outcome(q)
        BY <3>1, <4>1
      <4> QED
        BY <4>1, <4>2
    <3>2. CASE ~(\E r \in rows : r.id = n)
      BY <3>2
    <3> QED
      BY <3>1, <3>2
  <2>2. \A r : Outcome(r) \in {"failed", "imported"}
    BY DEF Outcome
  <2>3. items' = [items EXCEPT ![i] = list]
    BY <1>4 DEF CommitApply
  <2>4. ASSUME NEW n \in 1 .. Len(items[i])
        PROVE  list[n] \in Item /\ list[n].url = items[i][n].url /\ list[n].status = new(n)
    <3>1. new(n) \in {"new", "existing", "duplicate", "invalid", "imported", "failed"}
      <4>1. items[i][n].status \in {"new", "existing", "duplicate", "invalid", "imported", "failed"}
        BY <1>2 DEF Item
      <4> HIDE DEF new
      <4> QED
        BY <2>1, <2>2, <4>1
    <3>2. list[n] = [items[i][n] EXCEPT !.status = new(n)]
      OBVIOUS
    <3> HIDE DEF new, list
    <3> QED
      BY <1>2, <3>1, <3>2 DEF Item
  <2>5. list \in [1 .. Len(items[i]) -> Item]
    <3>1. DOMAIN list = 1 .. Len(items[i]) /\ list = [n \in DOMAIN list |-> list[n]]
      OBVIOUS
    <3> HIDE DEF list
    <3> QED
      BY <2>4, <3>1
  <2> HIDE DEF list, new
  <2>6. list \in Seq(Item) /\ Len(list) = Len(items[i])
    BY <1>2, <2>5, FunctionIsList
  <2>7. items'[i] = list /\ items' \in [Imports -> Seq(Item)] /\ \A j \in Imports : j # i => items'[j] = items[j]
    BY <1>1, <2>3, <2>6
  <2>8. ASSUME NEW n \in 1 .. Len(items[i])
        PROVE  /\ items'[i][n].url = items[i][n].url
               /\ \/ items'[i][n].status = items[i][n].status /\ ~(\E r \in rows : r.id = n)
                  \/ \E r \in rows : r.id = n /\ items'[i][n].status = Outcome(r)
    BY <2>1, <2>4, <2>7
  <2> QED
    BY <1>2, <1>4, <2>6, <2>7, <2>8
<1> QED
  BY <1>3, <1>4

\* An upload brings one of the files its import may have.
LEMMA UploadedDoc ==
    ASSUME Data, NEW i \in Imports, NEW d \in Documents[i], doc' = [doc EXCEPT ![i] = d]
    PROVE  /\ doc' \in [Imports -> Seq(Urls \cup {BadUrl}) \cup {Malformed}]
           /\ \A j \in Imports : doc'[j] \in Documents[j] \cup {Malformed}
<1>1. d \in Seq(Urls \cup {BadUrl}) \cup {Malformed}
  BY ImportAssumption
<1> QED
  BY <1>1 DEF Data

\* The feeds table keeps its rows; a registration or an import adds some.
LEMMA FeedsGrow ==
    ASSUME Data, [Next]_vars
    PROVE  /\ feeds' \in [Urls -> {"none", "hashed", "legacy"}]
           /\ \A u \in Urls : feeds[u] # "none" => feeds'[u] # "none"
<1>1. feeds \in [Urls -> {"none", "hashed", "legacy"}]
  BY DEF Data
<1>2. CASE feeds' = feeds
  BY <1>1, <1>2
<1>3. ASSUME NEW u \in Urls, RegisterFeed(u)
      PROVE  /\ feeds' \in [Urls -> {"none", "hashed", "legacy"}]
             /\ \A v \in Urls : feeds[v] # "none" => feeds'[v] # "none"
  BY <1>1, <1>3 DEF RegisterFeed
<1>4. ASSUME NEW w \in Slots, CommitApply(w)
      PROVE  /\ feeds' \in [Urls -> {"none", "hashed", "legacy"}]
             /\ \A v \in Urls : feeds[v] # "none" => feeds'[v] # "none"
  <2>1. feeds' = [u \in Urls |-> IF \E r \in Creates(w) : r.url = u THEN "hashed" ELSE feeds[u]]
    BY <1>4 DEF CommitApply
  <2> QED
    BY <1>1, <2>1
<1>5. feeds' = feeds \/ (\E u \in Urls : RegisterFeed(u)) \/ (\E w \in Slots : CommitApply(w))
  <2>1. CASE UNCHANGED vars
    BY <2>1 DEF vars
  <2>2. ASSUME NEW u \in Urls, CheckQuota(u) PROVE feeds' = feeds
    BY <2>2 DEF CheckQuota
  <2>3. ASSUME NEW i \in Imports, AskConfirm(i) \/ \E d \in Documents[i] : CreateImport(i, d)
        PROVE  feeds' = feeds
    BY <2>3 DEF AskConfirm, CreateImport
  <2>4. ASSUME NEW c \in calls, CallStep(c) \/ CallLost(c) PROVE feeds' = feeds
    BY <2>4 DEF CallStep, ReadForConfirm, MarkImporting, Enqueue, CallLost
  <2>5. ASSUME NEW k \in Kinds, NEW i \in Imports, QueueStep(k, i) \/ EvictFailed(k, i)
        PROVE  feeds' = feeds
    BY <2>5 DEF QueueStep, EvictFailed
  <2>6. ASSUME NEW w \in Slots, NEW k \in Kinds, NEW i \in Imports, TakeJob(w, k, i) PROVE feeds' = feeds
    BY <2>6 DEF TakeJob
  <2>7. ASSUME NEW w \in Slots, JobStep(w) \/ StatementFails(w) \/ CommitUnanswered(w) \/ SlotFails(w)
        PROVE  feeds' = feeds \/ CommitApply(w)
    BY <2>7 DEF JobStep, ReadForParse, ParsePreview, ReadForApply, ClaimImport, ListCandidates,
                ApplyImport, Deadlock, EnqueueFetches, MarkFailed, LeaveJob, StatementFails,
                CommitUnanswered, SlotFails
  <2> QED
    BY <2>1, <2>2, <2>3, <2>4, <2>5, <2>6, <2>7 DEF Next
<1> QED
  BY <1>2, <1>3, <1>4, <1>5

\* A slot that goes on to anything but the end of an apply transaction.
LEMMA GoesElsewhere ==
    ASSUME Shape, NEW w \in Slots, NEW pc, pc # "apply", run' = [run EXCEPT ![w].pc = pc]
    PROVE  NoneBegins /\ run'[w].pc # "apply"
<1>1. run \in [Slots -> Run] /\ run[w] \in Run
  BY DEF Shape, Queues
<1> DEFINE r == [run[w] EXCEPT !.pc = pc]
<1>2. r.pc = pc
  BY <1>1 DEF Run
<1>3. \A v \in Slots : run'[v] = IF v = w THEN r ELSE run[v]
  BY <1>1
<1> HIDE DEF r
<1> QED
  BY <1>2, <1>3 DEF NoneBegins

\* Every step commits a preview, applies an import, or leaves the items alone
\* and completes nothing.
LEMMA NextData ==
    ASSUME Shape, [Next]_vars
    PROVE  DataMove
<1>1. /\ feeds' \in [Urls -> {"none", "hashed", "legacy"}]
      /\ \A u \in Urls : feeds[u] # "none" => feeds'[u] # "none"
  BY FeedsGrow DEF Shape
<1>2. status \in [Imports -> Statuses] /\ run \in [Slots -> Run] /\ \A w \in Slots : run[w] \in Run
  BY DEF Shape, Data, Queues
<1>3. ASSUME items' = items, status' = status PROVE QuietData
  BY <1>1, <1>3 DEF QuietData
<1>4. ASSUME items' = items, NEW i \in Imports, NEW s, s # "completed", status' = [status EXCEPT ![i] = s]
      PROVE  QuietData
  BY <1>1, <1>2, <1>4 DEF QuietData
<1>5. ASSUME QuietData, UNCHANGED <<run, reads>> PROVE DataMove
  BY <1>5 DEF DataMove, ReadsMove, NoneBegins
<1>6. CASE UNCHANGED vars
  BY <1>3, <1>5, <1>6 DEF vars
<1>7. ASSUME NEW u \in Urls, CheckQuota(u) \/ RegisterFeed(u) PROVE DataMove
  BY <1>3, <1>5, <1>7 DEF CheckQuota, RegisterFeed
<1>8. ASSUME NEW i \in Imports, AskConfirm(i) \/ \E d \in Documents[i] : CreateImport(i, d) PROVE DataMove
  BY <1>3, <1>4, <1>5, <1>8 DEF AskConfirm, CreateImport
<1>9. ASSUME NEW c \in calls, CallStep(c) \/ CallLost(c) PROVE DataMove
  <2>1. c.import \in Imports
    BY DEF Shape, Queues, Call
  <2> QED
    BY <1>3, <1>4, <1>5, <1>9, <2>1 DEF CallStep, ReadForConfirm, MarkImporting, Enqueue, CallLost
<1>10. ASSUME NEW k \in Kinds, NEW i \in Imports, QueueStep(k, i) \/ EvictFailed(k, i) PROVE DataMove
  BY <1>3, <1>5, <1>10 DEF QueueStep, EvictFailed
<1>11. ASSUME NEW w \in Slots, NEW k \in Kinds, NEW i \in Imports, TakeJob(w, k, i) PROVE DataMove
  <2>1. QuietData /\ reads' = reads
    BY <1>3, <1>11 DEF TakeJob
  <2>2. NoneBegins
    BY <1>2, <1>11 DEF TakeJob, NoneBegins
  <2> QED
    BY <2>1, <2>2 DEF DataMove, ReadsMove
<1>12. ASSUME NEW w \in Slots, JobStep(w) \/ StatementFails(w) \/ CommitUnanswered(w) \/ SlotFails(w)
       PROVE  DataMove
  <2>1. run[w].pc # "idle" => run[w].import \in Imports
    BY JobAndSlot
  <2>2. ASSUME NEW pc, pc # "apply", run' = [run EXCEPT ![w].pc = pc], QuietData,
               reads' = reads \/ Forget(w)
        PROVE  DataMove
    BY <2>2, GoesElsewhere DEF DataMove, ReadsMove, Ends
  <2>3. CASE ClaimImport(w) \/ MarkFailed(w)
    <3>1. QuietData /\ reads' = reads
      BY <1>4, <2>1, <2>3 DEF ClaimImport, MarkFailed
    <3>2. PICK pc \in {"list", "completed"} : run' = [run EXCEPT ![w].pc = pc]
      BY <2>3 DEF ClaimImport, MarkFailed
    <3> QED
      BY <2>2, <3>1, <3>2
  <2>4. CASE ReadForParse(w) \/ ReadForApply(w) \/ EnqueueFetches(w) \/ Deadlock(w) \/ StatementFails(w)
    <3>1. QuietData /\ (reads' = reads \/ Forget(w))
      BY <1>3, <2>4 DEF ReadForParse, ReadForApply, EnqueueFetches, Deadlock, StatementFails
    <3>2. PICK pc \in {"parse", "completed", "list", "claim", "failed", "mark"} : run' = [run EXCEPT ![w].pc = pc]
      BY <2>4 DEF ReadForParse, ReadForApply, EnqueueFetches, Deadlock, StatementFails
    <3> QED
      BY <2>2, <3>1, <3>2
  <2>5. CASE ListCandidates(w)
    BY <1>3, <2>5 DEF ListCandidates, DataMove, ReadsMove
  <2>6. CASE ParsePreview(w)
    <3>1. PICK pc \in {"mark", "completed"} : run' = [run EXCEPT ![w].pc = pc]
      BY <2>6 DEF ParsePreview
    <3>2. CASE Parses(doc[run[w].import])
      BY <2>6, <3>1, <3>2, GoesElsewhere DEF DataMove, ParsePreview
    <3>3. CASE ~Parses(doc[run[w].import])
      BY <1>3, <2>2, <2>6, <3>1, <3>3 DEF ParsePreview
    <3> QED
      BY <3>2, <3>3
  <2>7. CASE ApplyImport(w)
    <3>1. PICK pc \in {"enqueue", "completed"} : run' = [run EXCEPT ![w].pc = pc]
      BY <2>7 DEF ApplyImport
    <3>2. run[w].pc = "apply" /\ CommitApply(w) /\ Forget(w)
      BY <2>7 DEF ApplyImport, CommitApply
    <3> QED
      BY <3>1, <3>2, GoesElsewhere DEF DataMove, Ends
  <2>8. CASE CommitUnanswered(w)
    <3>1. run' = [run EXCEPT ![w].pc = "failed"] /\ NoneBegins /\ run'[w].pc # "apply"
      BY <2>8, GoesElsewhere DEF CommitUnanswered
    <3>2. CASE run[w].pc = "parse" /\ Parses(doc[run[w].import]) /\ CommitPreview(run[w].import) /\ feeds' = feeds
      BY <3>1, <3>2 DEF DataMove
    <3>3. CASE run[w].pc = "apply" /\ CommitApply(w)
      <4>1. Forget(w)
        BY <3>3 DEF CommitApply
      <4> QED
        BY <3>1, <3>3, <4>1 DEF DataMove, Ends
    <3> QED
      BY <2>8, <3>2, <3>3 DEF CommitUnanswered
  <2>9. CASE LeaveJob(w)
    <3>1. QuietData /\ reads' = reads /\ run' = [run EXCEPT ![w] = IdleSlot]
      BY <1>3, <2>9 DEF LeaveJob
    <3>2. NoneBegins
      BY <1>2, <3>1, NewRecords DEF NoneBegins
    <3> QED
      BY <3>1, <3>2 DEF DataMove, ReadsMove
  <2>10. CASE SlotFails(w)
    <3>1. QuietData
      BY <1>3, <2>10 DEF SlotFails
    <3>2. CASE run' = [run EXCEPT ![w] = IdleSlot] /\ Forget(w)
      <4>1. NoneBegins /\ run'[w].pc # "apply"
        BY <1>2, <3>2, NewRecords DEF NoneBegins
      <4> QED
        BY <3>1, <3>2, <4>1 DEF DataMove, ReadsMove, Ends
    <3>3. CASE run' = [run EXCEPT ![w].owns = FALSE] /\ reads' = reads
      <4>1. NoneBegins
        BY <1>2, <3>3 DEF NoneBegins, Run
      <4> QED
        BY <3>1, <3>3, <4>1 DEF DataMove, ReadsMove
    <3> QED
      BY <2>10, <3>2, <3>3 DEF SlotFails
  <2> QED
    BY <1>12, <2>3, <2>4, <2>5, <2>6, <2>7, <2>8, <2>9, <2>10 DEF JobStep
<1> QED
  BY <1>6, <1>7, <1>8, <1>9, <1>10, <1>11, <1>12 DEF Next

\* The statuses are those of the state machine.
LEMMA MoveStatus ==
    ASSUME Shape, Move
    PROVE  status' \in [Imports -> Statuses]
<1>1. status \in [Imports -> Statuses] /\ "uploaded" \in Statuses /\ "importing" \in Statuses
  BY DEF Shape, Data, Statuses
<1> QED
  BY <1>1 DEF Move, RestMove, CreateMove, CallMove, AddMove, QueueMove, TakeMove, StopMove, WorkMove

\* What the other variables hold.
LEMMA NextCounters ==
    ASSUME Shape, [Next]_vars
    PROVE  /\ doc' \in [Imports -> Seq(Urls \cup {BadUrl}) \cup {Malformed}]
           /\ \A i \in Imports : doc'[i] \in Documents[i] \cup {Malformed}
           /\ registering' \subseteq Urls
           /\ faults' \in 0 .. MaxFaults /\ confirms' \in 0 .. MaxConfirms
           /\ registers' \in 0 .. MaxRegisters
<1> DEFINE Kept == /\ doc' \in [Imports -> Seq(Urls \cup {BadUrl}) \cup {Malformed}]
                   /\ \A i \in Imports : doc'[i] \in Documents[i] \cup {Malformed}
                   /\ registering' \subseteq Urls
                   /\ faults' \in 0 .. MaxFaults /\ confirms' \in 0 .. MaxConfirms
                   /\ registers' \in 0 .. MaxRegisters
<1>1. Data
  BY DEF Shape
<1>2. ASSUME UNCHANGED <<doc, registering, confirms, registers>>,
             faults' = faults \/ \E kind : Fault(kind)
      PROVE  Kept
  BY <1>1, <1>2, FaultCounts DEF Data
<1>3. CASE UNCHANGED vars
  BY <1>2, <1>3 DEF vars
<1>4. ASSUME NEW u \in Urls, CheckQuota(u) \/ RegisterFeed(u) PROVE Kept
  BY <1>1, <1>4, Constants DEF CheckQuota, RegisterFeed, Data
<1>5. ASSUME NEW i \in Imports, AskConfirm(i) PROVE Kept
  BY <1>1, <1>5, Constants DEF AskConfirm, Data
<1>6. ASSUME NEW i \in Imports, NEW d \in Documents[i], CreateImport(i, d) PROVE Kept
  BY <1>1, <1>6, UploadedDoc DEF CreateImport, Data
<1>7. ASSUME NEW c \in calls, CallStep(c) \/ CallLost(c) PROVE Kept
  BY <1>2, <1>7 DEF CallStep, ReadForConfirm, MarkImporting, Enqueue, CallLost
<1>8. ASSUME NEW k \in Kinds, NEW i \in Imports, QueueStep(k, i) \/ EvictFailed(k, i) PROVE Kept
  BY <1>2, <1>8 DEF QueueStep, EvictFailed
<1>9. ASSUME NEW w \in Slots, NEW k \in Kinds, NEW i \in Imports, TakeJob(w, k, i) PROVE Kept
  BY <1>2, <1>9 DEF TakeJob
<1>10. ASSUME NEW w \in Slots, JobStep(w) \/ StatementFails(w) \/ CommitUnanswered(w) \/ SlotFails(w)
       PROVE  Kept
  <2>1. UNCHANGED <<doc, registering, confirms, registers>>
    BY <1>10 DEF JobStep, ReadForParse, ParsePreview, ReadForApply, ClaimImport, ListCandidates,
                 ApplyImport, Deadlock, EnqueueFetches, MarkFailed, LeaveJob, StatementFails,
                 CommitUnanswered, SlotFails
  <2>2. faults' = faults \/ \E kind : Fault(kind)
    BY <1>10 DEF JobStep, ReadForParse, ParsePreview, ReadForApply, ClaimImport, ListCandidates,
                 ApplyImport, Deadlock, EnqueueFetches, MarkFailed, LeaveJob, StatementFails,
                 CommitUnanswered, SlotFails
  <2> QED
    BY <1>2, <2>1, <2>2
<1> QED
  BY <1>3, <1>4, <1>5, <1>6, <1>7, <1>8, <1>9, <1>10 DEF Next

\* Every step keeps Shape.
LEMMA NextShape ==
    ASSUME Shape, Preview, [Next]_vars
    PROVE  Shape'
<1>1. Queues' /\ status' \in [Imports -> Statuses]
  BY NextMove, MoveQueues, MoveStatus
<1>2. items' \in [Imports -> Seq(Item)]
  <2>1. CASE QuietData
    BY <2>1 DEF QuietData, Shape, Data
  <2>2. ASSUME NEW w \in Slots, run[w].pc \in {"parse", "apply"}
        PROVE  run[w].import \in Imports
    BY <2>2, JobAndSlot
  <2> QED
    BY <2>1, <2>2, NextData, PreviewItems, AppliedItems DEF DataMove
<1> QED
  BY <1>1, <1>2, FeedsGrow, NextCounters DEF Shape, Data

-----------------------------------------------------------------------------
(* Listing is kept *)

\* The verdict of the parse job on one outline.
LEMMA Classified ==
    ASSUME NEW d, NEW n
    PROVE  /\ Classify(d, n).url = d[n]
           /\ Classify(d, n).status =
                 IF ~Normalizes(d[n]) THEN "invalid"
                 ELSE IF Repeated(d, n) THEN "duplicate"
                 ELSE IF ExistingByHash(d[n]) = {} THEN "new"
                 ELSE IF ExistingByHash(d[n]) = {d[n]} THEN "existing" ELSE "invalid"
BY DEF Classify

\* An item that becomes a candidate is the first outline with its hash.
LEMMA PreviewListing ==
    ASSUME Shape, NEW i \in Imports, Parses(doc[i]), CommitPreview(i), feeds' = feeds
    PROVE  ListingOf(i)'
<1> DEFINE d == doc[i]
<1>1. /\ Len(d) \in Nat /\ \A n \in 1 .. Len(d) : d[n] \in Urls \cup {BadUrl}
      /\ Len(items'[i]) = Len(d) /\ \A n \in 1 .. Len(d) : items'[i][n] = Classify(d, n)
  BY PreviewItems
<1>3. Registered' = Registered
  BY DEF Registered
<1> HIDE DEF d
<1>4. ASSUME NEW n \in 1 .. Len(d)
      PROVE  /\ items'[i][n].url = d[n]
             /\ items'[i][n].status = "existing" => d[n] \in Registered
             /\ items'[i][n].status = "new" => Normalizes(d[n]) /\ d[n] \in Urls /\ ~Repeated(d, n)
             /\ items'[i][n].status # "imported"
  <2>1. items'[i][n].url = d[n]
    BY <1>1, Classified
  <2>2. items'[i][n].status = Classify(d, n).status
    BY <1>1
  <2>3. ExistingByHash(d[n]) = {d[n]} => d[n] \in Registered
    BY DEF ExistingByHash, Registered
  <2>4. Normalizes(d[n]) => d[n] \in Urls
    BY <1>1 DEF Normalizes
  <2> QED
    BY <2>1, <2>2, <2>3, <2>4, Classified
<1>5. ASSUME NEW m \in 1 .. Len(d), NEW n \in 1 .. Len(d), m < n,
             items'[i][m].status = "new", items'[i][n].status = "new"
      PROVE  Hash[d[m]] # Hash[d[n]]
  <2>1. m \in 1 .. n - 1 /\ Normalizes(d[m]) /\ ~Repeated(d, n)
    BY <1>1, <1>4, <1>5
  <2> QED
    BY <2>1 DEF Repeated
<1>6. ASSUME NEW m \in Candidates(i)', NEW n \in Candidates(i)', Hash[items'[i][m].url] = Hash[items'[i][n].url]
      PROVE  m = n
  <2>1. /\ m \in 1 .. Len(d) /\ n \in 1 .. Len(d)
        /\ items'[i][m].status = "new" /\ items'[i][n].status = "new"
    BY <1>1, <1>6 DEF Candidates
  <2>2. m < n \/ n < m \/ m = n
    BY <1>1, <2>1
  <2> QED
    BY <1>4, <1>5, <1>6, <2>1, <2>2
<1> QED
  BY <1>1, <1>3, <1>4, <1>6 DEF ListingOf

\* A row that does not collide has its feed after the COMMIT.
LEMMA AppliedFeed ==
    ASSUME NEW w \in Slots, CommitApply(w), reads[w] \in Read, NEW r \in reads[w].rows, Outcome(r) # "failed"
    PROVE  r.url \in Registered'
<1>1. r.url \in Urls /\ ~Collides(r.url)
  BY DEF Read, Outcome
<1>2. feeds' = [v \in Urls |-> IF \E q \in Creates(w) : q.url = v THEN "hashed" ELSE feeds[v]]
  BY DEF CommitApply
<1>3. CASE Conflicts(feeds, r.url) = {}
  <2>1. r \in Creates(w)
    BY <1>3 DEF Creates
  <2> QED
    BY <1>1, <1>2, <2>1 DEF Registered
<1>4. CASE Conflicts(feeds, r.url) # {}
  <2>1. r.url \in Conflicts(feeds, r.url)
    BY <1>1, <1>4 DEF Collides
  <2>2. feeds[r.url] # "none"
    BY <2>1 DEF Conflicts
  <2> QED
    BY <1>1, <1>2, <2>2 DEF Registered
<1> QED
  BY <1>3, <1>4

\* The items after the COMMIT of an apply transaction: an item that was written has
\* its feed or failed, and no item becomes a candidate.
LEMMA AppliedItem ==
    ASSUME Shape, Reads, NEW w \in Slots, run[w].pc = "apply", NEW i \in Imports, run[w].import = i,
           CommitApply(w), NEW n \in 1 .. Len(items[i])
    PROVE  /\ items'[i][n].url = items[i][n].url
           /\ \/ items'[i][n].status = items[i][n].status
              \/ items'[i][n].status = "failed"
              \/ items'[i][n].status = "imported" /\ items[i][n].url \in Registered'
           /\ ~reads[w].gone => items'[i][n].status # "new"
<1>1. /\ items'[i][n].url = items[i][n].url
      /\ \/ /\ items'[i][n].status = items[i][n].status
            /\ ~reads[w].gone => ~(\E r \in reads[w].rows : r.id = n)
         \/ /\ ~reads[w].gone
            /\ \E r \in reads[w].rows : r.id = n /\ items'[i][n].status = Outcome(r)
  BY AppliedItems
<1>2. reads[w] \in Read /\ (~reads[w].gone => Current(reads[w].rows, i))
  BY DEF Reads, ReadOf
<1>3. CASE /\ items'[i][n].status = items[i][n].status
           /\ ~reads[w].gone => ~(\E r \in reads[w].rows : r.id = n)
  <2>1. ~reads[w].gone => n \notin Candidates(i)
    BY <1>2, <1>3 DEF Current
  <2>2. n \notin Candidates(i) => items[i][n].status # "new"
    BY DEF Candidates
  <2> QED
    BY <1>1, <1>3, <2>1, <2>2
<1>4. CASE ~reads[w].gone /\ \E r \in reads[w].rows : r.id = n /\ items'[i][n].status = Outcome(r)
  <2>1. PICK r \in reads[w].rows : r.id = n /\ items'[i][n].status = Outcome(r)
    BY <1>4
  <2>2. items[i][n].url = r.url
    BY <1>2, <1>4, <2>1 DEF Current
  <2>3. Outcome(r) = "failed" \/ (Outcome(r) = "imported" /\ r.url \in Registered')
    <3>1. Outcome(r) \in {"failed", "imported"}
      BY DEF Outcome
    <3> QED
      BY <1>2, <3>1, AppliedFeed
  <2> QED
    BY <1>1, <2>1, <2>2, <2>3
<1> QED
  BY <1>1, <1>3, <1>4

\* The apply transaction keeps Listing.
LEMMA AppliedListing ==
    ASSUME Shape, Listing, Reads, NEW w \in Slots, run[w].pc = "apply", NEW i \in Imports,
           run[w].import = i, CommitApply(w), Registered \subseteq Registered'
    PROVE  ListingOf(i)' /\ Candidates(i)' \subseteq Candidates(i)
<1>1. Len(items'[i]) = Len(items[i])
  BY AppliedItems
<1>2. ASSUME NEW n \in 1 .. Len(items[i])
      PROVE  /\ items'[i][n].url = items[i][n].url
             /\ items'[i][n].status \in {"imported", "existing"} => items'[i][n].url \in Registered'
             /\ items'[i][n].status = "new" => items[i][n].status = "new" /\ items'[i][n].url \in Urls
  BY AppliedItem DEF Listing, ListingOf
<1>3. Candidates(i)' \subseteq Candidates(i)
  BY <1>1, <1>2 DEF Candidates
<1>4. ASSUME NEW m \in Candidates(i)', NEW n \in Candidates(i)', Hash[items'[i][m].url] = Hash[items'[i][n].url]
      PROVE  m = n
  <2>1. m \in Candidates(i) /\ n \in Candidates(i) /\ m \in 1 .. Len(items[i]) /\ n \in 1 .. Len(items[i])
    BY <1>3 DEF Candidates
  <2> QED
    BY <1>2, <1>4, <2>1 DEF Listing, ListingOf
<1> QED
  BY <1>1, <1>2, <1>3, <1>4 DEF ListingOf

\* Every step keeps Listing.
LEMMA NextListing ==
    ASSUME Shape, Listing, Reads, [Next]_vars
    PROVE  Listing'
<1>1. DataMove /\ Registered \subseteq Registered'
  BY NextData, FeedsGrow DEF Registered, Shape
<1>2. ASSUME NEW j \in Imports, items'[j] = items[j]
      PROVE  ListingOf(j)'
  BY <1>1, <1>2 DEF Listing, ListingOf, Candidates
<1>3. CASE QuietData
  BY <1>2, <1>3 DEF QuietData, Listing
<1>4. ASSUME NEW w \in Slots, run[w].pc = "parse", Parses(doc[run[w].import]),
             CommitPreview(run[w].import), feeds' = feeds
      PROVE  Listing'
  <2>1. PICK i \in Imports : i = run[w].import
    BY <1>4, JobAndSlot
  <2>2. ListingOf(i)'
    BY <1>4, <2>1, PreviewListing
  <2>3. ASSUME NEW j \in Imports, j # i PROVE items'[j] = items[j]
    BY <1>4, <2>1, <2>3, PreviewItems
  <2> QED
    BY <1>2, <2>2, <2>3 DEF Listing
<1>5. ASSUME NEW w \in Slots, run[w].pc = "apply", CommitApply(w) PROVE Listing'
  <2>1. PICK i \in Imports : i = run[w].import
    BY <1>5, JobAndSlot
  <2>2. ListingOf(i)'
    BY <1>1, <1>5, <2>1, AppliedListing
  <2>3. ASSUME NEW j \in Imports, j # i PROVE items'[j] = items[j]
    BY <1>5, <2>1, <2>3, AppliedItems
  <2> QED
    BY <1>2, <2>2, <2>3 DEF Listing
<1> QED
  BY <1>1, <1>3, <1>4, <1>5 DEF DataMove

-----------------------------------------------------------------------------
(* Reads is kept *)

\* A slot reads the candidates as they are.
LEMMA ListedRows ==
    ASSUME Shape, Listing, Reads, NEW w \in Slots, ListCandidates(w)
    PROVE  Reads'
<1>1. PICK i \in Imports : i = run[w].import
  BY JobAndSlot DEF ListCandidates
<1> DEFINE rows == {[id |-> n, url |-> items[i][n].url] : n \in Candidates(i)}
           new == [rows |-> rows, gone |-> FALSE]
<1>2. /\ items' = items /\ reads' = [reads EXCEPT ![w] = new] /\ run' = [run EXCEPT ![w].pc = "apply"]
      /\ reads \in [Slots -> Read] /\ run \in [Slots -> Run] /\ run[w] \in Run
  BY <1>1 DEF ListCandidates, Reads, Shape, Queues
<1>3. /\ run'[w].import = i
      /\ \A v \in Slots : v # w => run'[v] = run[v]
  BY <1>1, <1>2 DEF Run
<1>4. Len(items[i]) \in Nat
  BY ListIsFunction DEF Shape, Data
<1>5. \A n \in Candidates(i) : n \in Nat /\ n \in 1 .. Len(items[i]) /\ items[i][n].url \in Urls
  BY <1>4 DEF Listing, ListingOf, Candidates
<1>6. rows \subseteq [id: Nat, url: Urls] /\ \A r \in rows : r.id \in Candidates(i) /\ r.url = items[i][r.id].url
  BY <1>5
<1>7. \A n \in Candidates(i) : \E r \in rows : r.id = n
  <2> SUFFICES ASSUME NEW n \in Candidates(i) PROVE \E r \in rows : r.id = n
    OBVIOUS
  <2>1. [id |-> n, url |-> items[i][n].url] \in rows
    OBVIOUS
  <2> QED
    BY <2>1
<1>8. ASSUME NEW q \in rows, NEW r \in rows, Hash[q.url] = Hash[r.url] PROVE q = r
  <2>1. q.id = r.id
    BY <1>6, <1>8 DEF Listing, ListingOf
  <2> QED
    BY <1>6, <2>1
<1> HIDE DEF rows
<1>9. new \in Read /\ new.rows = rows /\ ~new.gone
  BY <1>6 DEF Read
<1> HIDE DEF new
<1>10. reads' \in [Slots -> Read] /\ reads'[w] = new /\ \A v \in Slots : v # w => reads'[v] = reads[v]
  BY <1>2, <1>9
<1>11. ReadOf(w)'
  <2>1. PICK list : list = rows
    OBVIOUS
  <2>2. Current(list, i)'
    BY <1>2, <1>5, <1>6, <1>7, <2>1 DEF Current, Candidates
  <2>3. reads'[w] \in Read /\ reads'[w].rows = list /\ run'[w].import = i
    BY <1>3, <1>9, <1>10, <2>1
  <2> QED
    BY <1>8, <2>1, <2>2, <2>3 DEF ReadOf, Current
<1>12. ASSUME NEW v \in Slots, v # w PROVE ReadOf(v)'
  BY <1>2, <1>3, <1>10, <1>12 DEF Reads, ReadOf, Current, Candidates
<1> QED
  BY <1>10, <1>11, <1>12 DEF Reads

\* The rows of a slot stay current where the items keep their URLs and no item
\* becomes a candidate.
LEMMA CurrentStays ==
    ASSUME NEW rows, NEW i \in Imports, Current(rows, i), Len(items'[i]) = Len(items[i]),
           \A n \in 1 .. Len(items[i]) : items'[i][n].url = items[i][n].url,
           Candidates(i)' \subseteq Candidates(i)
    PROVE  Current(rows, i)'
BY DEF Current

\* A transaction that is over leaves those of the other slots as they are.
LEMMA OtherReads ==
    ASSUME Shape, Reads, NoneBegins,
           reads' \in [Slots -> Read],
           \A v \in Slots : run'[v].pc = "apply" => reads'[v] = reads[v],
           \A i \in Imports : Len(items'[i]) = Len(items[i]),
           \A i \in Imports : \A n \in 1 .. Len(items[i]) : items'[i][n].url = items[i][n].url,
           \A i \in Imports : Candidates(i)' \subseteq Candidates(i)
    PROVE  Reads'
<1> SUFFICES ASSUME NEW v \in Slots PROVE ReadOf(v)'
  BY DEF Reads
<1>1. CASE run'[v].pc # "apply"
  BY <1>1 DEF ReadOf
<1>2. CASE run'[v].pc = "apply"
  <2>1. /\ run[v].pc = "apply" /\ run'[v].import = run[v].import /\ reads'[v] = reads[v]
        /\ run[v].import \in Imports
    BY <1>2, JobAndSlot DEF NoneBegins
  <2>2. /\ \A q, r \in reads[v].rows : Hash[q.url] = Hash[r.url] => q = r
        /\ ~reads[v].gone => Current(reads[v].rows, run[v].import)
    BY <2>1 DEF Reads, ReadOf
  <2>3. PICK i \in Imports : i = run[v].import
    BY <2>1
  <2> PICK rows : rows = reads[v].rows
    OBVIOUS
  <2>4. Current(rows, i) => Current(rows, i)'
    BY CurrentStays
  <2>5. ~reads[v].gone => Current(rows, i)'
    BY <2>2, <2>3, <2>4
  <2>6. reads'[v].rows = rows /\ run'[v].import = i /\ reads'[v].gone = reads[v].gone /\ reads'[v] \in Read
    BY <2>1, <2>3
  <2> QED
    BY <2>2, <2>3, <2>5, <2>6 DEF ReadOf, Current
<1> QED
  BY <1>1, <1>2

\* A parse job that replaces the items deletes what the slots have read of them.
LEMMA ReplacedReads ==
    ASSUME Shape, Reads, NEW p \in Slots, run[p].pc = "parse", Parses(doc[run[p].import]),
           CommitPreview(run[p].import), NoneBegins
    PROVE  Reads'
<1>1. PICK i \in Imports : i = run[p].import
  BY JobAndSlot
<1> DEFINE gone(w) == [reads[w] EXCEPT !.gone = TRUE]
<1>2. reads' = [w \in Slots |-> IF run[w].pc = "apply" /\ run[w].import = i THEN gone(w) ELSE reads[w]]
  BY <1>1 DEF CommitPreview
<1>3. \A w \in Slots : reads[w] \in Read
  BY DEF Reads
<1>4. \A w \in Slots : gone(w) \in Read /\ gone(w).rows = reads[w].rows /\ gone(w).gone
  BY <1>3 DEF Read
<1> HIDE DEF gone
<1>5. reads' \in [Slots -> Read]
  BY <1>2, <1>3, <1>4
<1>6. ASSUME NEW j \in Imports, j # i PROVE items'[j] = items[j]
  BY <1>1, <1>6, PreviewItems
<1>7. ASSUME NEW v \in Slots, run'[v].pc = "apply" PROVE ReadOf(v)'
  <2>1. run[v].pc = "apply" /\ run'[v].import = run[v].import /\ run[v].import \in Imports /\ reads'[v] \in Read
    BY <1>5, <1>7, JobAndSlot DEF NoneBegins
  <2>2. \A q, r \in reads[v].rows : Hash[q.url] = Hash[r.url] => q = r
    BY <2>1 DEF Reads, ReadOf
  <2>3. CASE run[v].import = i
    BY <1>2, <1>4, <2>1, <2>2, <2>3 DEF ReadOf
  <2>4. CASE run[v].import # i
    <3>1. reads'[v] = reads[v] /\ items'[run[v].import] = items[run[v].import]
      BY <1>2, <1>6, <2>1, <2>4
    <3> QED
      BY <2>1, <3>1 DEF Reads, ReadOf, Current, Candidates
  <2> QED
    BY <2>3, <2>4
<1>8. ASSUME NEW v \in Slots PROVE ReadOf(v)'
  <2>1. CASE run'[v].pc = "apply"
    BY <1>7, <2>1
  <2>2. CASE run'[v].pc # "apply"
    BY <1>5, <2>2 DEF ReadOf
  <2> QED
    BY <2>1, <2>2
<1> QED
  BY <1>5, <1>8 DEF Reads

\* Every step keeps Reads.
LEMMA NextReads ==
    ASSUME Shape, Listing, Reads, [Next]_vars
    PROVE  Reads'
<1>1. DataMove /\ Registered \subseteq Registered'
  BY NextData, FeedsGrow DEF Registered, Shape
<1>2. NoRead \in Read /\ reads \in [Slots -> Read]
  BY DEF NoRead, Read, Reads
<1>3. ASSUME NEW w \in Slots, Ends(w)
      PROVE  /\ reads' \in [Slots -> Read] /\ NoneBegins
             /\ \A v \in Slots : run'[v].pc = "apply" => reads'[v] = reads[v]
  BY <1>2, <1>3 DEF Ends, Forget
<1>4. CASE QuietData /\ ReadsMove
  <2>1. items' = items
    BY <1>4 DEF QuietData
  <2>2. \A i \in Imports : Candidates(i)' = Candidates(i)
    BY <2>1 DEF Candidates
  <2>3. CASE reads' = reads /\ NoneBegins
    BY <1>2, <2>1, <2>2, <2>3, OtherReads
  <2>4. ASSUME NEW w \in Slots, Ends(w) PROVE Reads'
    BY <1>3, <2>1, <2>2, <2>4, OtherReads
  <2> QED
    BY <1>4, <2>3, <2>4, ListedRows DEF ReadsMove
<1>5. ASSUME NEW w \in Slots, run[w].pc = "apply", CommitApply(w), Ends(w) PROVE Reads'
  <2>1. PICK i \in Imports : i = run[w].import
    BY <1>5, JobAndSlot
  <2>2. /\ Len(items'[i]) = Len(items[i]) /\ \A n \in 1 .. Len(items[i]) : items'[i][n].url = items[i][n].url
        /\ \A j \in Imports : j # i => items'[j] = items[j]
    BY <1>5, <2>1, AppliedItems
  <2>3. Candidates(i)' \subseteq Candidates(i)
    BY <1>1, <1>5, <2>1, AppliedListing
  <2>4. ASSUME NEW j \in Imports
        PROVE  /\ Len(items'[j]) = Len(items[j])
               /\ \A n \in 1 .. Len(items[j]) : items'[j][n].url = items[j][n].url
               /\ Candidates(j)' \subseteq Candidates(j)
    <3>1. CASE j = i
      BY <2>2, <2>3, <3>1
    <3>2. CASE j # i
      BY <2>2, <3>2 DEF Candidates
    <3> QED
      BY <3>1, <3>2
  <2> QED
    BY <1>3, <1>5, <2>4, OtherReads
<1> QED
  BY <1>1, <1>4, <1>5, ReplacedReads DEF DataMove

-----------------------------------------------------------------------------
(* Preview is kept *)

\* The calls and the statuses move, the jobs and the slots do not.
LEMMA CallPreview ==
    ASSUME Shape, Preview, CallMove
    PROVE  Preview'
<1>1. /\ jobs' = jobs /\ run' = run /\ calls' \subseteq Call
      /\ \A c \in calls' : c \in calls \/ (c.step # "add_parse" /\ (c.step # "read" => ~Early(status[c.import])))
  BY DEF CallMove
<1>2. \A c \in calls : c.import \in Imports
  BY DEF Shape, Queues, Call
<1>3. \A c \in calls' : c.import \in Imports
  BY <1>1 DEF Call
<1>4. ASSUME NEW i \in Imports PROVE status'[i] = status[i] \/ (~Early(status[i]) /\ status'[i] = "importing")
  BY <1>4 DEF CallMove, Shape, Data
<1>5. ASSUME NEW i \in Imports
      PROVE  /\ Early(status'[i]) <=> Early(status[i])
             /\ status'[i] = "none" <=> status[i] = "none"
  BY <1>4 DEF Early
<1>6. AddedOnce'
  BY <1>1, <1>2, <1>3, <1>5 DEF Preview, AddedOnce, ParsedBy
<1>7. Unconfirmed'
  BY <1>1, <1>3, <1>5 DEF Preview, Unconfirmed
<1>8. OneParser'
  BY <1>1 DEF Preview, OneParser, ParsedBy
<1>9. ParsesEarly'
  BY <1>1, <1>5, JobAndSlot DEF Preview, ParsesEarly
<1> QED
  BY <1>6, <1>7, <1>8, <1>9 DEF Preview

\* An upload keeps Preview.
LEMMA CreatePreview ==
    ASSUME Shape, Preview, NEW i \in Imports, CreateMove(i)
    PROVE  Preview'
<1> DEFINE new == [import |-> i, number |-> 0, step |-> "add_parse"]
<1>1. /\ jobs' = jobs /\ run' = run /\ calls' = calls \cup {new}
      /\ status[i] = "none" /\ status' = [status EXCEPT ![i] = "uploaded"]
      /\ new.import = i /\ new.number = 0 /\ new.step = "add_parse"
  BY DEF CreateMove
<1> HIDE DEF new
<1>2. \A c \in calls : c.import \in Imports
  BY DEF Shape, Queues, Call
<1>3. \A j \in Imports : status'[j] = IF j = i THEN "uploaded" ELSE status[j]
  BY <1>1 DEF Shape, Data
<1>4. \A j \in Imports : Early(status'[j]) <=> Early(status[j])
  BY <1>1, <1>3 DEF Early
<1>5. AddedOnce'
  BY <1>1, <1>2, <1>3 DEF Preview, AddedOnce, ParsedBy
<1>6. Unconfirmed'
  BY <1>1, <1>4 DEF Preview, Unconfirmed
<1>7. OneParser'
  BY <1>1 DEF Preview, OneParser, ParsedBy
<1>8. ParsesEarly'
  BY <1>1, <1>4, JobAndSlot DEF Preview, ParsesEarly
<1> QED
  BY <1>5, <1>6, <1>7, <1>8 DEF Preview

\* The one call that adds a parse job finds it nowhere, so it is in no slot.
LEMMA AddPreview ==
    ASSUME Shape, Preview, NEW c \in calls, NEW k \in Kinds, AddMove(c, k)
    PROVE  Preview'
<1>1. /\ run' = run /\ status' = status /\ calls' = calls \ {c}
      /\ c.step = (IF k = "parse" THEN "add_parse" ELSE "add_apply")
  BY DEF AddMove
<1>2. \A d \in calls : d \in Call /\ d.import \in Imports
  BY DEF Shape, Queues, Call
<1>3. ASSUME NEW x \in Kinds, NEW y \in Imports
      PROVE  \/ jobs'[x][y] = jobs[x][y]
             \/ x = k /\ y = c.import /\ jobs'[x][y] = Queued
  <2>1. CASE jobs' = jobs
    BY <2>1
  <2>2. CASE jobs' = [jobs EXCEPT ![k][c.import] = Queued]
    BY <1>2, <2>2, JobSet, NewRecords DEF Shape
  <2> QED
    BY <2>1, <2>2 DEF AddMove
<1>4. "parse" \in Kinds /\ "apply" \in Kinds
  BY DEF Kinds
<1>5. ASSUME k = "parse"
      PROVE  /\ status[c.import] # "none" /\ \A w \in Slots : ~ParsedBy(w, c.import)
             /\ \A d \in calls : d.step = "add_parse" /\ d.import = c.import => d = c
  <2>1. c.step = "add_parse"
    BY <1>1, <1>5
  <2>2. \A d \in calls : d.step = "add_parse" /\ d.import = c.import => d = c
    BY <1>2, <2>1 DEF Preview, AddedOnce, Call
  <2> QED
    BY <1>2, <2>1, <2>2 DEF Preview, AddedOnce
<1>6. k = "apply" => ~Early(status[c.import])
  BY <1>1, <1>2 DEF Preview, Unconfirmed
<1>7. AddedOnce'
  BY <1>1, <1>2, <1>3, <1>4, <1>5 DEF Preview, AddedOnce, ParsedBy
<1>8. Unconfirmed'
  BY <1>1, <1>3, <1>4, <1>6 DEF Preview, Unconfirmed
<1>9. OneParser'
  BY <1>1, <1>3, <1>4, <1>5 DEF Preview, OneParser, ParsedBy
<1>10. ParsesEarly'
  <2> SUFFICES ASSUME NEW w \in Slots, run[w].pc = "parse", run[w].owns,
                      jobs'["parse"][run[w].import].stalls = 0
               PROVE  Early(status[run[w].import])
    BY <1>1 DEF ParsesEarly
  <2>1. run[w].import \in Imports /\ run[w].kind = "parse"
    BY JobAndSlot DEF SlotOK
  <2>2. jobs'["parse"][run[w].import] = jobs["parse"][run[w].import]
    BY <1>3, <1>4, <1>5, <2>1 DEF ParsedBy
  <2> QED
    BY <2>2 DEF Preview, ParsesEarly
<1> QED
  BY <1>7, <1>8, <1>9, <1>10 DEF Preview

\* The moves of BullMQ keep Preview.
LEMMA QueuePreview ==
    ASSUME Shape, Preview, NEW k \in Kinds, NEW i \in Imports, NEW job \in JobRecord, QueueMove(k, i, job)
    PROVE  Preview'
<1>1. /\ run' = run /\ status' = status /\ calls' = calls /\ jobs[k][i].state # "absent"
      /\ \A w \in Slots : ~(run[w].owns /\ run[w].kind = k /\ run[w].import = i)
      /\ \/ job.state = "absent"
         \/ job.stalls > 0
         \/ job.stalls = jobs[k][i].stalls /\ (job.state \in {"waiting", "delayed"} => jobs[k][i].state = "delayed")
  BY DEF QueueMove
<1>2. \A x \in Kinds, y \in Imports : jobs'[x][y] = IF x = k /\ y = i THEN job ELSE jobs[x][y]
  BY JobSet DEF QueueMove, Shape
<1>3. "parse" \in Kinds /\ "apply" \in Kinds
  BY DEF Kinds
<1>4. AddedOnce'
  BY <1>1, <1>2, <1>3 DEF Preview, AddedOnce, ParsedBy
<1>5. Unconfirmed'
  BY <1>1, <1>2, <1>3 DEF Preview, Unconfirmed
<1>6. OneParser'
  BY <1>1, <1>2, <1>3 DEF Preview, OneParser, ParsedBy
<1>7. ParsesEarly'
  BY <1>1, <1>2, <1>3, JobAndSlot DEF Preview, ParsesEarly, SlotOK
<1> QED
  BY <1>4, <1>5, <1>6, <1>7 DEF Preview

\* Taking a job keeps Preview.
LEMMA TakePreview ==
    ASSUME Shape, Preview, NEW w \in Slots, NEW k \in Kinds, NEW i \in Imports, TakeMove(w, k, i)
    PROVE  Preview'
<1> DEFINE job == [jobs[k][i] EXCEPT !.state = "active"]
           r == [pc |-> "read", kind |-> k, import |-> i, owns |-> TRUE]
<1>1. /\ status' = status /\ calls' = calls /\ jobs[k][i].state = "waiting"
      /\ jobs' = [jobs EXCEPT ![k][i] = job] /\ run' = [run EXCEPT ![w] = r] /\ run[w].pc = "idle"
  BY DEF TakeMove
<1>2. job \in JobRecord /\ job.state = "active" /\ job.stalls = jobs[k][i].stalls
  BY JobAndSlot DEF JobRecord, JobState
<1>3. r \in Run /\ r.pc = "read" /\ r.kind = k /\ r.import = i
  BY DEF Run
<1> HIDE DEF job, r
<1>4. \A x \in Kinds, y \in Imports : jobs'[x][y] = IF x = k /\ y = i THEN job ELSE jobs[x][y]
  BY <1>1, <1>2, JobSet DEF Shape
<1>5. \A v \in Slots : run'[v] = IF v = w THEN r ELSE run[v]
  BY <1>1, <1>3, SlotSet DEF Shape
<1>6. "parse" \in Kinds /\ "apply" \in Kinds
  BY DEF Kinds
<1>7. AddedOnce'
  BY <1>1, <1>2, <1>3, <1>4, <1>5, <1>6 DEF Preview, AddedOnce, ParsedBy
<1>8. Unconfirmed'
  BY <1>1, <1>2, <1>3, <1>4, <1>5, <1>6 DEF Preview, Unconfirmed
<1>9. OneParser'
  BY <1>1, <1>2, <1>3, <1>4, <1>5, <1>6 DEF Preview, OneParser, ParsedBy
<1>10. ParsesEarly'
  BY <1>1, <1>2, <1>3, <1>4, <1>5, <1>6, JobAndSlot DEF Preview, ParsesEarly, SlotOK
<1> QED
  BY <1>7, <1>8, <1>9, <1>10 DEF Preview

\* A slot that stops owned an active job, which was in no other slot if it never
\* stalled, or leaves the job alone.
LEMMA StopPreview ==
    ASSUME Shape, Preview, NEW w \in Slots, NEW r \in Run, StopMove(w, r)
    PROVE  Preview'
<1>1. /\ status' = status /\ calls' = calls /\ run[w].pc # "idle" /\ run' = [run EXCEPT ![w] = r]
      /\ r = IdleSlot \/ r = [run[w] EXCEPT !.owns = FALSE]
  BY DEF StopMove
<1>2. /\ run[w].kind \in Kinds /\ run[w].import \in Imports /\ ~r.owns
      /\ r.import = NoImport \/ (r.kind = run[w].kind /\ r.import = run[w].import)
  BY <1>1, JobAndSlot, NewRecords DEF Run
<1>3. \A v \in Slots : run'[v] = IF v = w THEN r ELSE run[v]
  BY <1>1, SlotSet DEF Shape
<1>4. NoImport \notin Imports /\ "parse" \in Kinds /\ "apply" \in Kinds
  BY Constants DEF Kinds
<1>5. ASSUME NEW v \in Slots, NEW i \in Imports, ParsedBy(v, i)' PROVE ParsedBy(v, i)
  BY <1>2, <1>3, <1>4, <1>5 DEF ParsedBy
<1>6. CASE jobs' = jobs
  <2>1. AddedOnce'
    BY <1>1, <1>5, <1>6 DEF Preview, AddedOnce
  <2>2. Unconfirmed'
    BY <1>1, <1>2, <1>3, <1>4, <1>6 DEF Preview, Unconfirmed
  <2>3. OneParser'
    BY <1>5, <1>6 DEF Preview, OneParser
  <2>4. ParsesEarly'
    BY <1>1, <1>2, <1>3, <1>6, JobAndSlot DEF Preview, ParsesEarly
  <2> QED
    BY <2>1, <2>2, <2>3, <2>4 DEF Preview
<1>7. CASE jobs' # jobs
  <2>1. PICK k \in Kinds, i \in Imports : k = run[w].kind /\ i = run[w].import
    BY <1>2
  <2>2. PICK job \in JobRecord :
            /\ run[w].owns /\ r = IdleSlot
            /\ jobs' = [jobs EXCEPT ![k][i] = job]
            /\ job.state = "absent" \/ job.stalls = jobs[k][i].stalls
            /\ job.state # "waiting"
    BY <1>7, <2>1 DEF StopMove
  <2>3. /\ jobs[k][i].state = "active" /\ r.import = NoImport
        /\ \A v \in Slots : v # w => ~(run[v].owns /\ run[v].kind = k /\ run[v].import = i)
    BY <2>1, <2>2, JobAndSlot, NewRecords DEF SlotOK, Shape, Queues, OneOwner
  <2>4. \A x \in Kinds, y \in Imports : jobs'[x][y] = IF x = k /\ y = i THEN job ELSE jobs[x][y]
    <3>1. jobs' = [jobs EXCEPT ![k][i] = job] /\ job \in JobRecord
      BY <2>2
    <3> QED
      BY <3>1, JobSet DEF Shape
  <2>5. AddedOnce'
    BY <1>1, <1>4, <1>5, <2>3, <2>4 DEF Preview, AddedOnce
  <2>6. Unconfirmed'
    BY <1>1, <1>3, <1>4, <2>1, <2>3, <2>4 DEF Preview, Unconfirmed
  <2>7. OneParser'
    <3> SUFFICES ASSUME NEW y \in Imports, jobs'["parse"][y].state # "absent", jobs'["parse"][y].stalls = 0
                 PROVE  /\ \A u, v \in Slots : ParsedBy(u, y)' /\ ParsedBy(v, y)' => u = v
                        /\ jobs'["parse"][y].state \in {"waiting", "delayed"} =>
                              \A v \in Slots : ~ParsedBy(v, y)'
      BY DEF OneParser
    <3>1. CASE k = "parse" /\ y = i
      <4>1. jobs["parse"][i].stalls = 0
        BY <1>4, <2>2, <2>4, <3>1
      <4>2. \A v \in Slots : ParsedBy(v, i) => v = w
        BY <1>4, <2>1, <2>3, <3>1, <4>1 DEF Preview, OneParser, ParsedBy
      <4>3. ~ParsedBy(w, i)'
        BY <1>3, <1>4, <2>3 DEF ParsedBy
      <4> QED
        BY <1>5, <3>1, <4>2, <4>3
    <3>2. CASE ~(k = "parse" /\ y = i)
      <4>1. jobs'["parse"][y] = jobs["parse"][y]
        BY <1>4, <2>4, <3>2
      <4> QED
        BY <1>5, <4>1 DEF Preview, OneParser
    <3> QED
      BY <3>1, <3>2
  <2>8. ParsesEarly'
    <3> SUFFICES ASSUME NEW v \in Slots, run'[v].pc = "parse", run'[v].owns,
                        jobs'["parse"][run'[v].import].stalls = 0
                 PROVE  Early(status[run'[v].import])
      BY <1>1 DEF ParsesEarly
    <3>1. v # w /\ run'[v] = run[v] /\ run[v].import \in Imports /\ run[v].kind = "parse"
      BY <1>2, <1>3, JobAndSlot DEF SlotOK
    <3>2. jobs'["parse"][run[v].import] = jobs["parse"][run[v].import]
      BY <1>4, <2>3, <2>4, <3>1
    <3> QED
      BY <3>1, <3>2 DEF Preview, ParsesEarly
  <2> QED
    BY <2>5, <2>6, <2>7, <2>8 DEF Preview
<1> QED
  BY <1>6, <1>7

\* A slot that writes a status does so as the only one that parses the import,
\* or when it is past its preview.
LEMMA WorkPreview ==
    ASSUME Shape, Preview, NEW w \in Slots,
           NEW pc \in {"claim", "parse", "list", "apply", "enqueue", "mark", "completed", "failed"}, WorkMove(w, pc)
    PROVE  Preview'
<1> DEFINE r == [run[w] EXCEPT !.pc = pc]
<1>1. /\ jobs' = jobs /\ calls' = calls /\ run[w].pc # "idle" /\ run' = [run EXCEPT ![w] = r]
      /\ pc = "parse" => run[w].kind = "parse" /\ Early(status[run[w].import]) /\ status' = status
  BY DEF WorkMove
<1>2. r \in Run /\ r.pc = pc /\ r.kind = run[w].kind /\ r.import = run[w].import /\ r.owns = run[w].owns
  BY <1>1, JobAndSlot DEF Run
<1> HIDE DEF r
<1>3. \A v \in Slots : run'[v] = IF v = w THEN r ELSE run[v]
  BY <1>1, <1>2, SlotSet DEF Shape
<1>4. PICK i \in Imports : i = run[w].import
  BY <1>1, JobAndSlot
<1>5. /\ \A j \in Imports : j # i => status'[j] = status[j]
      /\ status' = status \/ ~Early(status'[i])
  BY <1>4 DEF WorkMove, Shape, Data
<1>6. \A v \in Slots : run'[v].kind = run[v].kind /\ run'[v].import = run[v].import /\ run'[v].owns = run[v].owns
  BY <1>2, <1>3
<1>7. \A v \in Slots, j \in Imports : ParsedBy(v, j)' <=> ParsedBy(v, j)
  BY <1>6 DEF ParsedBy
<1>8. ASSUME NEW j \in Imports
      PROVE  /\ status'[j] = "none" => status[j] = "none"
             /\ Early(status'[j]) => Early(status[j])
             /\ status[j] # "none" => status'[j] # "none"
  BY <1>5 DEF Early
<1>9. \A c \in calls : c.import \in Imports
  BY DEF Shape, Queues, Call
<1>10. AddedOnce'
  <2>1. ASSUME NEW c \in calls, c.step = "add_parse" PROVE c.number = 0 /\ status'[c.import] # "none"
    BY <1>8, <1>9, <2>1 DEF Preview, AddedOnce
  <2>2. ASSUME NEW j \in Imports,
               status'[j] = "none" \/ \E c \in calls : c.import = j /\ c.step = "add_parse"
        PROVE  jobs["parse"][j].state = "absent" /\ \A v \in Slots : ~ParsedBy(v, j)'
    BY <1>7, <1>8, <2>2 DEF Preview, AddedOnce
  <2> QED
    BY <1>1, <2>1, <2>2 DEF AddedOnce
<1>11. Unconfirmed'
  <2>1. ASSUME NEW j \in Imports, Early(status'[j])
        PROVE  /\ \A c \in calls : c.import = j => c.step \notin {"mark", "add_apply"}
               /\ jobs["apply"][j].state = "absent"
               /\ \A v \in Slots : ~(run'[v].kind = "apply" /\ run'[v].import = j)
    BY <1>6, <1>8, <2>1 DEF Preview, Unconfirmed
  <2> QED
    BY <1>1, <2>1 DEF Unconfirmed
<1>12. OneParser'
  BY <1>1, <1>7 DEF Preview, OneParser
<1>13. ParsesEarly'
  <2> SUFFICES ASSUME NEW v \in Slots, run'[v].pc = "parse", run'[v].owns,
                      jobs["parse"][run[v].import].stalls = 0
               PROVE  Early(status'[run[v].import])
    BY <1>1, <1>6 DEF ParsesEarly
  <2>1. CASE v = w
    BY <1>1, <1>2, <1>3, <2>1
  <2>2. CASE v # w
    <3>1. /\ run'[v] = run[v] /\ run[v].import \in Imports /\ run[v].kind = "parse"
          /\ jobs["parse"][run[v].import].state = "active"
      BY <1>3, <2>2, JobAndSlot DEF SlotOK
    <3>2. Early(status[run[v].import])
      BY <3>1 DEF Preview, ParsesEarly
    <3>3. run[v].import # i
      <4>1. CASE run[w].kind = "parse"
        BY <1>4, <2>2, <3>1, <4>1 DEF Preview, OneParser, ParsedBy
      <4>2. CASE run[w].kind = "apply"
        BY <1>4, <3>1, <3>2, <4>2 DEF Preview, Unconfirmed
      <4> QED
        BY <4>1, <4>2, JobAndSlot DEF Kinds
    <3> QED
      BY <1>5, <3>1, <3>2, <3>3
  <2> QED
    BY <2>1, <2>2
<1> QED
  BY <1>10, <1>11, <1>12, <1>13 DEF Preview

\* Every step keeps Preview.
LEMMA NextPreview ==
    ASSUME Shape, Preview, [Next]_vars
    PROVE  Preview'
<1>1. CASE RestMove
  <2>1. CallMove
    BY <1>1 DEF RestMove, CallMove, Shape, Queues
  <2> QED
    BY <2>1, CallPreview
<1> QED
  BY <1>1, NextMove, CallPreview, CreatePreview, AddPreview, QueuePreview, TakePreview, StopPreview,
     WorkPreview DEF Move

-----------------------------------------------------------------------------
(* The theorems *)

\* There is no import when the system starts.
LEMMA InitInv == Init => Shape /\ Preview /\ Listing /\ Reads
<1> SUFFICES ASSUME Init PROVE Shape /\ Preview /\ Listing /\ Reads
  OBVIOUS
<1>1. /\ status = [i \in Imports |-> "none"] /\ doc = [i \in Imports |-> Malformed]
      /\ items = [i \in Imports |-> <<>>] /\ feeds \in Tables
      /\ jobs = [k \in Kinds |-> [i \in Imports |-> Absent]] /\ run = [w \in Slots |-> IdleSlot]
      /\ calls = {} /\ registering = {} /\ faults = 0 /\ confirms = 0 /\ registers = 0
  BY DEF Init
<1>2. Data
  <2>1. <<>> \in Seq(Item)
    BY EmptySeq
  <2> QED
    BY <1>1, <2>1, Constants, ImportAssumption DEF Data, Statuses
<1>3. Queues
  <2>1. \A w \in Slots : SlotOK(run[w]) /\ ~run[w].owns
    BY <1>1, NewRecords
  <2> QED
    BY <1>1, <2>1, NewRecords DEF Queues, OneOwner
<1>4. Preview
  <2>1. /\ \A w \in Slots : run[w].import = NoImport /\ run[w].pc = "idle"
        /\ \A k \in Kinds, i \in Imports : jobs[k][i].state = "absent"
    BY <1>1, NewRecords
  <2>2. NoImport \notin Imports /\ "parse" \in Kinds /\ "apply" \in Kinds
    BY Constants DEF Kinds
  <2> QED
    BY <1>1, <2>1, <2>2 DEF Preview, AddedOnce, Unconfirmed, OneParser, ParsesEarly, ParsedBy
<1>5. Listing
  <2>1. \A i \in Imports : items[i] = <<>> /\ Len(items[i]) = 0
    BY <1>1
  <2> QED
    BY <2>1 DEF Listing, ListingOf, Candidates
<1>6. Reads
  <2>1. reads = [w \in Slots |-> NoRead] /\ NoRead \in Read /\ \A w \in Slots : run[w].pc = "idle"
    BY <1>1, NewRecords DEF Init, NoRead, Read
  <2> QED
    BY <2>1 DEF Reads, ReadOf
<1> QED
  BY <1>2, <1>3, <1>4, <1>5, <1>6 DEF Shape

IInv == Shape /\ Preview /\ Listing /\ Reads

\* Every step keeps the invariant.
LEMMA NextInv == IInv /\ [Next]_vars => IInv'
BY NextShape, NextPreview, NextListing, NextReads DEF IInv

\* The types hold of every import, whatever fails: among others no job is made
\* more often than its queue's `attempts`, and one that made them all has failed.
THEOREM TypeCorrect == Spec => []TypeOK
<1>1. IInv => TypeOK
  <2> SUFFICES ASSUME IInv PROVE TypeOK
    OBVIOUS
  <2>1. ASSUME NEW k \in Kinds, NEW i \in Imports
        PROVE  /\ jobs[k][i].state \in JobState
               /\ jobs[k][i].made \in 0 .. Attempts[k] /\ jobs[k][i].stalls \in 0 .. MaxStalls
               /\ jobs[k][i].made = Attempts[k] => jobs[k][i].state = "failed"
    BY JobAndSlot, Constants DEF IInv, JobRecord, JobOK
  <2> QED
    BY <2>1 DEF IInv, Shape, Data, Queues, Reads, TypeOK
<1> QED
  BY <1>1, InitInv, NextInv, PTL DEF Spec, IInv

\* What CompletedLeavesNothing says of a step and one import.
CompletedKept(i) ==
    (status[i] = "completed" => Done(i)) /\ status'[i] = "completed" =>
        Done(i)' \/ \E w \in Slots : run[w].pc = "apply" /\ run[w].import = i /\ reads[w].gone

\* Only an apply transaction completes an import. Unless the rows it has read are
\* gone, every candidate is among them.
LEMMA StepLeavesNothing ==
    ASSUME IInv, [Next]_vars, NEW i \in Imports
    PROVE  CompletedKept(i)
<1>1. /\ DataMove /\ Shape /\ Listing /\ Reads /\ Registered \subseteq Registered'
      /\ status \in [Imports -> Statuses]
  BY NextData, FeedsGrow DEF IInv, Registered, Shape, Data
<1>2. ASSUME items'[i] = items[i], status'[i] = "completed" => status[i] = "completed"
      PROVE  CompletedKept(i)
  BY <1>1, <1>2 DEF CompletedKept, Done
<1>3. CASE QuietData
  BY <1>2, <1>3 DEF QuietData
<1>4. ASSUME NEW w \in Slots, run[w].pc = "parse", Parses(doc[run[w].import]), CommitPreview(run[w].import)
      PROVE  CompletedKept(i)
  <2>1. PICK j \in Imports : j = run[w].import
    BY <1>1, <1>4, JobAndSlot
  <2>2. \A k \in Imports : status'[k] = IF k = j THEN "preview_ready" ELSE status[k]
    BY <1>1, <1>4, <2>1 DEF CommitPreview
  <2>3. CASE i = j
    BY <2>2, <2>3 DEF CompletedKept
  <2>4. CASE i # j
    BY <1>1, <1>2, <1>4, <2>1, <2>2, <2>4, PreviewItems
  <2> QED
    BY <2>3, <2>4
<1>5. ASSUME NEW w \in Slots, run[w].pc = "apply", CommitApply(w) PROVE CompletedKept(i)
  <2>1. PICK j \in Imports : j = run[w].import
    BY <1>1, <1>5, JobAndSlot
  <2>2. CASE i # j
    <3>1. status'[i] = status[i]
      BY <1>1, <1>5, <2>1, <2>2 DEF CommitApply
    <3>2. items'[i] = items[i]
      BY <1>1, <1>5, <2>1, <2>2, AppliedItems
    <3> QED
      BY <1>2, <3>1, <3>2
  <2>3. CASE i = j /\ reads[w].gone
    BY <1>5, <2>1, <2>3 DEF CompletedKept
  <2>4. CASE i = j /\ ~reads[w].gone
    <3>1. Len(items'[i]) = Len(items[i])
      BY <1>1, <1>5, <2>1, <2>4, AppliedItems
    <3>2. ASSUME NEW n \in 1 .. Len(items[i])
          PROVE  /\ items'[i][n].status # "new"
                 /\ items'[i][n].status \in {"imported", "existing"} => items'[i][n].url \in Registered'
      BY <1>1, <1>5, <2>1, <2>4, AppliedItem DEF Listing, ListingOf
    <3>3. Done(i)'
      BY <3>1, <3>2 DEF Done
    <3> QED
      BY <3>3 DEF CompletedKept
  <2> QED
    BY <2>2, <2>3, <2>4
<1> QED
  BY <1>1, <1>3, <1>4, <1>5 DEF DataMove

\* An import becomes completed with no candidate left and a feed for each item it
\* shows as imported or existing, and stays so: a retried, repeated or late apply
\* job, and imports and registrations that share URLs with it, leave none behind,
\* except the COMMIT of an apply job whose rows a parse job has deleted since it
\* read them (process-opml-apply-job reads its candidates without a lock).
THEOREM CompletedIsDone == Spec => CompletedLeavesNothing
<1>1. IInv /\ [Next]_vars => [\A i \in Imports : CompletedKept(i)]_vars
  BY StepLeavesNothing
<1>2. [\A i \in Imports : CompletedKept(i)]_vars =>
        [\A i \in Imports :
            (status[i] = "completed" => Done(i)) /\ status'[i] = "completed" =>
               Done(i)' \/ \E w \in Slots : run[w].pc = "apply" /\ run[w].import = i /\ reads[w].gone]_vars
  BY DEF CompletedKept
<1> QED
  BY <1>1, <1>2, InitInv, NextInv, PTL DEF Spec, IInv, CompletedLeavesNothing

\* No two rows that an apply transaction has read have URLs of one hash, even when
\* their items are gone: it never inserts a feed that conflicts with one it has
\* inserted itself.
RowsDiffer ==
    \A w \in Slots : run[w].pc = "apply" =>
        \A q, r \in reads[w].rows : Hash[q.url] = Hash[r.url] => q = r

\* The rows stay apart through parsing, applying and repeated attempts, which is why
\* CommitApply may state the transaction as one set of inserts.
THEOREM CandidatesApart == Spec => []RowsDiffer
<1>1. IInv => RowsDiffer
  BY DEF IInv, Reads, ReadOf, RowsDiffer
<1> QED
  BY <1>1, InitInv, NextInv, PTL DEF Spec, IInv

\* What PreviewStays says of a step and one import.
PreviewKept(i) ==
    status[i] \notin {"none", "uploaded", "parsing"} =>
        \/ /\ OutlineUrls(items'[i]) = OutlineUrls(items[i])
           /\ \A n \in 1 .. Len(items[i]) : items'[i][n].status = "new" => items[i][n].status = "new"
        \/ jobs["parse"][i].stalls > 0
        \/ \E w \in Slots : run[w].import = i /\ run[w].pc = "parse" /\ ~run[w].owns

\* A preview is replaced only by a parse job, which owns its lock and never
\* stalled unless the step is exempt; such a job finds the import not previewed.
LEMMA StepKeepsPreview ==
    ASSUME IInv, [Next]_vars, NEW i \in Imports
    PROVE  PreviewKept(i)
<1>1. DataMove /\ Shape /\ Reads
  BY NextData DEF IInv
<1>2. CASE items'[i] = items[i]
  BY <1>2 DEF PreviewKept
<1>3. ASSUME NEW w \in Slots, run[w].pc = "parse", Parses(doc[run[w].import]), CommitPreview(run[w].import)
      PROVE  PreviewKept(i)
  <2>1. run[w].import \in Imports /\ run[w].kind = "parse"
    BY <1>1, <1>3, JobAndSlot DEF SlotOK
  <2>2. CASE run[w].import # i
    BY <1>1, <1>2, <1>3, <2>1, <2>2, PreviewItems
  <2>3. CASE run[w].import = i /\ (run[w].owns => jobs["parse"][i].stalls > 0)
    BY <1>3, <2>3 DEF PreviewKept
  <2>4. CASE run[w].import = i /\ run[w].owns /\ ~(jobs["parse"][i].stalls > 0)
    <3>1. jobs["parse"][i].stalls = 0
      <4>1. jobs["parse"][i].stalls \in 0 .. MaxStalls /\ MaxStalls \in Nat
        BY <1>1, JobAndSlot, Constants DEF JobRecord, Kinds
      <4> QED
        BY <2>4, <4>1
    <3>2. Early(status[i])
      BY <1>3, <2>4, <3>1 DEF IInv, Preview, ParsesEarly
    <3> QED
      BY <3>2 DEF Early, PreviewKept
  <2> QED
    BY <2>2, <2>3, <2>4
<1>4. ASSUME NEW w \in Slots, run[w].pc = "apply", CommitApply(w) PROVE PreviewKept(i)
  <2>1. PICK j \in Imports : j = run[w].import
    BY <1>1, <1>4, JobAndSlot
  <2>2. CASE i # j
    BY <1>1, <1>2, <1>4, <2>1, <2>2, AppliedItems
  <2>3. CASE i = j
    <3>1. Len(items'[i]) = Len(items[i])
      BY <1>1, <1>4, <2>1, <2>3, AppliedItems
    <3>2. ASSUME NEW n \in 1 .. Len(items[i])
          PROVE  /\ items'[i][n].url = items[i][n].url
                 /\ items'[i][n].status = "new" => items[i][n].status = "new"
      BY <1>1, <1>4, <2>1, <2>3, AppliedItem
    <3>3. OutlineUrls(items'[i]) = OutlineUrls(items[i])
      BY <3>1, <3>2 DEF OutlineUrls
    <3> QED
      BY <3>2, <3>3 DEF PreviewKept
  <2> QED
    BY <2>2, <2>3
<1> QED
  BY <1>1, <1>2, <1>3, <1>4 DEF DataMove, QuietData

\* What was previewed is what is applied: from preview_ready on, no step
\* replaces the list of items, except that of a parse job that stalled or has
\* lost its lock (ProcessOpmlParseJobUseCase reads the status before, and not in,
\* the transaction that writes the items).
THEOREM PreviewIsKept == Spec => PreviewStays
<1>1. IInv /\ [Next]_vars => [\A i \in Imports : PreviewKept(i)]_vars
  BY StepKeepsPreview
<1>2. [\A i \in Imports : PreviewKept(i)]_vars =>
        [\A i \in Imports : status[i] \notin {"none", "uploaded", "parsing"} =>
            \/ /\ OutlineUrls(items'[i]) = OutlineUrls(items[i])
               /\ \A n \in 1 .. Len(items[i]) : items'[i][n].status = "new" => items[i][n].status = "new"
            \/ jobs["parse"][i].stalls > 0
            \/ \E w \in Slots : run[w].import = i /\ run[w].pc = "parse" /\ ~run[w].owns]_vars
  BY DEF PreviewKept
<1> QED
  BY <1>1, <1>2, InitInv, NextInv, PTL DEF Spec, IInv, PreviewStays
=============================================================================
