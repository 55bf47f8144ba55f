-------------------------- MODULE IngestionProofs --------------------------
(***************************************************************************)
(* Theorems about Ingestion, for every set of feeds, items, rules and       *)
(* documents, every number of versions, slots, attempts and failures.       *)
(*                                                                          *)
(* Shape is the frame: types, and where each slot is in its document and    *)
(* in its statement. On it stand three arguments. DocumentInv: a validator  *)
(* is written only by a job all of whose items are entries or inserted by   *)
(* its own transaction. RulesInv: the upsert statement has one row per      *)
(* article, with every rule that matched one of its inserted entries, so    *)
(* the COMMIT leaves no matched rule out. BookInv: a job lists the alerts   *)
(* that were not there, no two open transactions upsert one row, and so     *)
(* each new alert is on one list and is asked for once; that also gives     *)
(* the refinement of AlertBook, step by step.                               *)
(***************************************************************************)
EXTENDS Ingestion, FiniteSetTheorems, SequenceTheorems, WellFoundedInduction, TLAPS

\* The alert of an article is on the list of the alerts that a job created.
Listed(created, a) == \E n \in DOMAIN created : created[n] = a

Once(created) == \A m, n \in DOMAIN created : created[m] = created[n] => m = n

\* An item is an entry already, or a transaction has inserted it.
Known(rows, inserted, item) ==
    \/ \E e \in rows : SameEntry(e.item, item)
    \/ \E n \in DOMAIN inserted : SameEntry(inserted[n], item)

\* Every item of a version of a feed is an entry.
Stored(rows, f, v) == \A n \in DOMAIN Documents[f][v] : \E e \in rows : SameEntry(e.item, Documents[f][v][n])

Fetched == {"unchanged", "connect", "insert", "rules", "upsert", "commit"}

\* A busy slot has a job, a version that its feed has published, and a place
\* in the document or in the upsert statement; it lists alerts only once it
\* upserts them.
SlotOK(s) ==
    /\ run[s].pc # "idle" => run[s].job \in Jobs
    /\ run[s].pc = "fetch" => run[s].seen <= version[Feed(s)]
    /\ run[s].pc \in Fetched => run[s].doc \in 1 .. version[Feed(s)]
    /\ run[s].pc \notin {"upsert", "commit", "deliver"} => run[s].created = <<>>
    /\ run[s].pc \in {"fetch", "unchanged", "connect"} => run[s].next = 1
    /\ run[s].pc = "insert" => run[s].next \in 1 .. Len(Document(s))
    /\ run[s].pc = "upsert" => run[s].next \in RowsOf(run[s].upserts)
    /\ run[s].pc \in {"upsert", "commit"} => Len(run[s].matched) = Len(run[s].inserted)

\* What a job has seen of its document: the version that its feed row had the
\* validators of is stored; the items before the statement are known.
DocumentOK(s) ==
    /\ run[s].pc = "fetch" /\ run[s].seen # 0 => Stored(entries, Feed(s), run[s].seen)
    /\ run[s].pc = "unchanged" => Stored(entries, Feed(s), run[s].doc)
    /\ run[s].pc = "insert" => \A n \in 1 .. run[s].next - 1 : Known(entries, run[s].inserted, Document(s)[n])
    /\ run[s].pc \in {"rules", "upsert", "commit"} => \A n \in 1 .. Len(Document(s)) : Known(entries, run[s].inserted, Document(s)[n])

\* The rows of the upsert statement: one for each article, with every rule that
\* matched an entry of it.
StatementOK(s) ==
    run[s].pc \in {"upsert", "commit"} =>
        /\ \A n \in DOMAIN run[s].inserted : run[s].matched[n] # {} =>
              \E k \in RowsOf(run[s].upserts) : /\ run[s].upserts[k].article = ArticleOf[run[s].inserted[n]]
                                                /\ run[s].matched[n] \subseteq run[s].upserts[k].rules
        /\ \A m, n \in RowsOf(run[s].upserts) : run[s].upserts[m].article = run[s].upserts[n].article => m = n

\* The list of a job: each alert once; while the transaction is open, the rows
\* that it upserted and that were not there; after the COMMIT, alerts that
\* nobody has asked a delivery of.
CreatedOK(s) ==
    /\ Once(run[s].created)
    /\ run[s].pc \in {"upsert", "commit"} =>
          /\ \A n \in Upserted(s) : alerts[run[s].upserts[n].article] # {} \/ Listed(run[s].created, run[s].upserts[n].article)
          /\ \A a \in Articles : Listed(run[s].created, a) => alerts[a] = {} /\ \E n \in Upserted(s) : run[s].upserts[n].article = a
    /\ run[s].pc = "deliver" => \A a \in Articles : Listed(run[s].created, a) => alerts[a] # {} /\ asked[a] = 0

\* Two slots: a row is upserted by one open transaction at a time, and an alert
\* is on one list of alerts to deliver.
Apart(s, t) ==
    /\ \A m \in Upserted(s), n \in Upserted(t) : run[s].upserts[m].article # run[t].upserts[n].article
    /\ run[s].pc = "deliver" /\ run[t].pc = "deliver" => \A a \in Articles : ~(Listed(run[s].created, a) /\ Listed(run[t].created, a))

Shape == TypeOK /\ \A s \in Slots : SlotOK(s)

DocumentInv == Shape /\ ValidatorsAreEarned /\ \A s \in Slots : DocumentOK(s)

RulesInv == Shape /\ AlertsCoverEntries /\ \A s \in Slots : StatementOK(s)

BookInv ==
    /\ RulesInv /\ UnaskedNeedsFault
    /\ \A a \in Articles : asked[a] # 0 => alerts[a] # {}
    /\ \A s \in Slots : CreatedOK(s)
    /\ \A s, t \in Slots : s # t => Apart(s, t)

\* A set of rows that is not empty has a least one.
LEMMA LeastRow ==
    ASSUME NEW rows \in SUBSET Nat, rows # {}
    PROVE  Least(rows) \in rows /\ \A m \in rows : Least(rows) <= m
<1> DEFINE Upto == {0 .. n : n \in rows}
<1>1. \A n \in rows : 0 .. n \in FiniteSubsetsOf(Nat)
  BY FS_Interval DEF FiniteSubsetsOf
<1>2. Upto \subseteq FiniteSubsetsOf(Nat) /\ Upto # {}
  BY <1>1
<1> HIDE DEF Upto
<1>3. PICK least \in Upto : \A y \in Upto : ~ (<<y, least>> \in StrictSubsetOrdering(Nat))
  BY <1>2, FS_StrictSubsetOrderingWellFounded, WFMin
<1>4. PICK x \in rows : least = 0 .. x
  BY DEF Upto
<1>5. ASSUME NEW y \in rows, y < x PROVE FALSE
  <2>1. 0 .. y \in Upto
    BY DEF Upto
  <2>2. 0 .. y \subseteq 0 .. x /\ x \in 0 .. x /\ x \notin 0 .. y
    BY <1>5
  <2>3. <<0 .. y, 0 .. x>> \in StrictSubsetOrdering(Nat)
    BY <2>2 DEF StrictSubsetOrdering
  <2> QED
    BY <1>3, <1>4, <2>1, <2>3
<1>6. \A y \in rows : x <= y
  BY <1>5
<1> QED
  BY <1>6 DEF Least

\* An idle slot is a slot.
LEMMA IdleRunType ==
    IdleRun \in Run
<1>1. <<>> \in Seq(Items) /\ <<>> \in Seq(SUBSET RuleIds) /\ <<>> \in Seq([article: Articles, rules: SUBSET RuleIds]) /\ <<>> \in Seq(Articles)
  OBVIOUS
<1> QED
  BY <1>1 DEF IdleRun, Run, Pcs

-----------------------------------------------------------------------------
(* What each action does to the record of its slot *)

Others(s) == \A t \in Slots \ {s} : run'[t] = run[t]

\* One slot changes.
LEMMA SlotMoves ==
    ASSUME run \in [Slots -> Run], NEW s \in Slots, NEW r \in Run, run' = [run EXCEPT ![s] = r]
    PROVE  run' \in [Slots -> Run] /\ run'[s] = r /\ Others(s)
BY DEF Others

\* The slot gives its job up, or the job goes to the catch block.
Leaves(s) ==
    /\ run' \in [Slots -> Run] /\ Others(s)
    /\ run'[s].pc \in {"idle", "failing"} /\ run'[s].created = <<>>
    /\ run'[s].pc = "failing" => run'[s].job \in Jobs

\* A slot becomes idle, or is about to fail its job.
LEMMA BecomesIdle ==
    ASSUME run \in [Slots -> Run], NEW s \in Slots, run' = [run EXCEPT ![s] = IdleRun]
    PROVE  Leaves(s)
<1>1. run' \in [Slots -> Run] /\ run'[s] = IdleRun /\ Others(s)
  BY IdleRunType, SlotMoves
<1> QED
  BY <1>1 DEF Leaves, IdleRun

\* A slot whose job has failed lets go of its work.
LEMMA BecomesFailing ==
    ASSUME run \in [Slots -> Run], NEW s \in Slots, NEW j \in Jobs,
           run' = [run EXCEPT ![s] = [IdleRun EXCEPT !.job = j, !.pc = "failing"]]
    PROVE  Leaves(s)
<1> DEFINE r == [IdleRun EXCEPT !.job = j, !.pc = "failing"]
<1>1. r \in Run
  BY IdleRunType DEF Run, Pcs
<1>2. r.job = j /\ r.pc = "failing" /\ r.created = <<>>
  BY DEF IdleRun
<1> HIDE DEF r
<1>3. run' = [run EXCEPT ![s] = r]
  BY DEF r
<1>4. run' \in [Slots -> Run] /\ run'[s] = r /\ Others(s)
  BY <1>1, <1>3, SlotMoves
<1> QED
  BY <1>2, <1>4 DEF Leaves

TakeJobMoves(s, j) ==
    /\ run' \in [Slots -> Run] /\ Others(s)
    /\ run'[s].job = j /\ run'[s].pc = "fetch" /\ run'[s].seen = etag[JobFeed[j]]
    /\ run'[s].next = 1 /\ run'[s].created = <<>>

\* What a step leaves behind, action by action.
LEMMA TakeJobEffect ==
    ASSUME Shape, NEW s \in Slots, NEW j \in Jobs, TakeJob(s, j)
    PROVE  TakeJobMoves(s, j)
<1> DEFINE r == [IdleRun EXCEPT !.job = j, !.pc = "fetch", !.seen = etag[JobFeed[j]]]
<1>1. etag[JobFeed[j]] \in Nat
  BY IngestionAssumption DEF Shape, TypeOK
<1>2. r \in Run
  BY <1>1, IdleRunType DEF Run, Pcs
<1>3. r.job = j /\ r.pc = "fetch" /\ r.seen = etag[JobFeed[j]] /\ r.next = 1 /\ r.created = <<>>
  BY DEF IdleRun
<1> HIDE DEF r
<1>4. run' = [run EXCEPT ![s] = r]
  BY DEF TakeJob, r
<1>5. run' \in [Slots -> Run] /\ run'[s] = r /\ Others(s)
  BY <1>2, <1>4, SlotMoves DEF Shape, TypeOK
<1> QED
  BY <1>3, <1>5 DEF TakeJobMoves

FetchMoves(s) ==
    /\ run' \in [Slots -> Run] /\ Others(s)
    /\ run'[s].job = run[s].job /\ run'[s].created = run[s].created
    /\ run'[s].next = run[s].next /\ run'[s].doc = version[Feed(s)]
    /\ run'[s].pc = IF version[Feed(s)] = run[s].seen THEN "unchanged" ELSE "connect"

\* The fetch: a 304, or the current version.
LEMMA FetchEffect ==
    ASSUME Shape, NEW s \in Slots, Fetch(s)
    PROVE  FetchMoves(s)
<1> DEFINE r == [run[s] EXCEPT !.pc = IF version[Feed(s)] = run[s].seen THEN "unchanged" ELSE "connect",
                               !.doc = version[Feed(s)]]
<1>1. run[s].job \in Jobs
  BY DEF Fetch, At, Shape, SlotOK
<1>2. version[Feed(s)] \in Nat
  BY <1>1, IngestionAssumption DEF Shape, TypeOK, Feed
<1>3. run[s] \in Run
  BY DEF Shape, TypeOK
<1>4. r \in Run
  BY <1>2, <1>3 DEF Run, Pcs
<1>5. /\ r.job = run[s].job /\ r.created = run[s].created /\ r.next = run[s].next /\ r.doc = version[Feed(s)]
      /\ r.pc = IF version[Feed(s)] = run[s].seen THEN "unchanged" ELSE "connect"
  BY <1>3 DEF Run
<1>6. run' = [run EXCEPT ![s] = r]
  BY DEF Shape, TypeOK, Fetch
<1> HIDE DEF r
<1>7. run' \in [Slots -> Run] /\ run'[s] = r /\ Others(s)
  BY <1>4, <1>6, SlotMoves DEF Shape, TypeOK
<1> QED
  BY <1>5, <1>7 DEF FetchMoves

ConnectMoves(s) ==
    /\ run' \in [Slots -> Run] /\ Others(s)
    /\ run'[s].job = run[s].job /\ run'[s].created = run[s].created
    /\ run'[s].doc = run[s].doc /\ run'[s].next = run[s].next /\ run'[s].inserted = run[s].inserted
    /\ run'[s].pc = IF Len(Document(s)) = 0 THEN "rules" ELSE "insert"

\* A client is checked out and the transaction begins.
LEMMA ConnectEffect ==
    ASSUME Shape, NEW s \in Slots, Connect(s)
    PROVE  ConnectMoves(s)
<1> DEFINE r == [run[s] EXCEPT !.pc = IF Len(Document(s)) = 0 THEN "rules" ELSE "insert"]
<1>1. run[s] \in Run
  BY DEF Shape, TypeOK
<1>2. r \in Run
  BY <1>1 DEF Run, Pcs
<1>3. /\ r.job = run[s].job /\ r.created = run[s].created /\ r.doc = run[s].doc /\ r.next = run[s].next
      /\ r.inserted = run[s].inserted
      /\ r.pc = IF Len(Document(s)) = 0 THEN "rules" ELSE "insert"
  BY <1>1 DEF Run
<1>4. run' = [run EXCEPT ![s] = r]
  BY DEF Shape, TypeOK, Connect
<1> HIDE DEF r
<1>5. run' \in [Slots -> Run] /\ run'[s] = r /\ Others(s)
  BY <1>2, <1>4, SlotMoves DEF Shape, TypeOK
<1> QED
  BY <1>3, <1>5 DEF ConnectMoves

\* A document is a list of items.
LEMMA DocumentType ==
    ASSUME Shape, NEW s \in Slots, run[s].pc \in Fetched
    PROVE  /\ run[s].job \in Jobs /\ Feed(s) \in Feeds
           /\ run[s].doc \in DOMAIN Documents[Feed(s)] /\ run[s].doc <= version[Feed(s)] /\ run[s].doc # 0
           /\ Document(s) \in Seq(Items)
<1>1. run[s].job \in Jobs /\ run[s].doc \in 1 .. version[Feed(s)]
  BY DEF Shape, SlotOK, Fetched
<1>2. Feed(s) \in Feeds
  BY <1>1, IngestionAssumption DEF Feed
<1>3. version[Feed(s)] \in DOMAIN Documents[Feed(s)] /\ Documents[Feed(s)] \in Seq(Seq(Items))
  BY <1>2, IngestionAssumption DEF Shape, TypeOK
<1>4. run[s].doc \in DOMAIN Documents[Feed(s)]
  BY <1>1, <1>3
<1> QED
  BY <1>1, <1>2, <1>3, <1>4 DEF Document

InsertMoves(s) ==
    /\ run' \in [Slots -> Run] /\ Others(s)
    /\ run'[s].job = run[s].job /\ run'[s].created = run[s].created /\ run'[s].doc = run[s].doc
    /\ run'[s].next = IF run[s].next = Len(Document(s)) THEN 1 ELSE run[s].next + 1
    /\ Document(s)[run[s].next] \in Items
    /\ run'[s].inserted = IF Known(entries, run[s].inserted, Document(s)[run[s].next]) THEN run[s].inserted
                          ELSE Append(run[s].inserted, Document(s)[run[s].next])
    /\ run'[s].pc = IF run[s].next = Len(Document(s)) THEN "rules" ELSE "insert"

\* One item is inserted, or is known already.
LEMMA InsertEffect ==
    ASSUME Shape, NEW s \in Slots, InsertEntry(s)
    PROVE  InsertMoves(s)
<1> DEFINE item == Document(s)[run[s].next]
           r == [run[s] EXCEPT !.next = IF run[s].next = Len(Document(s)) THEN 1 ELSE run[s].next + 1,
                               !.inserted = IF Known(entries, run[s].inserted, item) THEN run[s].inserted ELSE Append(run[s].inserted, item),
                               !.pc = IF run[s].next = Len(Document(s)) THEN "rules" ELSE "insert"]
<1>1. run[s] \in Run
  BY DEF Shape, TypeOK
<1>2. run[s].pc = "insert" /\ run[s].next \in 1 .. Len(Document(s)) /\ Document(s) \in Seq(Items)
  BY DocumentType DEF InsertEntry, At, Shape, SlotOK, Fetched
<1>3. item \in Items
  BY <1>2
<1>4. run' = [run EXCEPT ![s] = r]
  BY DEF Shape, TypeOK, InsertEntry, Known
<1> HIDE DEF item
<1>5. r \in Run
  <2>1. Append(run[s].inserted, item) \in Seq(Items)
    BY <1>1, <1>3 DEF Run
  <2>2. /\ (IF run[s].next = Len(Document(s)) THEN 1 ELSE run[s].next + 1) \in Nat
        /\ (IF run[s].next = Len(Document(s)) THEN "rules" ELSE "insert") \in Pcs
    BY <1>2 DEF Pcs
  <2> QED
    BY <1>1, <2>1, <2>2 DEF Run
<1>6. /\ r.job = run[s].job /\ r.created = run[s].created /\ r.doc = run[s].doc
      /\ r.next = IF run[s].next = Len(Document(s)) THEN 1 ELSE run[s].next + 1
      /\ r.inserted = IF Known(entries, run[s].inserted, item) THEN run[s].inserted ELSE Append(run[s].inserted, item)
      /\ r.pc = IF run[s].next = Len(Document(s)) THEN "rules" ELSE "insert"
  BY <1>1 DEF Run
<1> HIDE DEF r
<1>7. run' \in [Slots -> Run] /\ run'[s] = r /\ Others(s)
  BY <1>4, <1>5, SlotMoves DEF Shape, TypeOK
<1> QED
  BY <1>3, <1>6, <1>7 DEF item, InsertMoves

\* Lists and functions on 1 .. n.
LEMMA SeqElement ==
    ASSUME NEW S, NEW seq \in Seq(S), NEW n \in DOMAIN seq
    PROVE  n \in Nat /\ seq[n] \in S
OBVIOUS

\* A function on an initial segment is a sequence.
LEMMA FunctionIsSeq ==
    ASSUME NEW S, NEW n \in Nat, NEW f \in [1 .. n -> S]
    PROVE  f \in Seq(S) /\ Len(f) = n /\ DOMAIN f = 1 .. n
<1>1. f \in Seq(S)
  BY SeqDef
<1> QED
  BY <1>1, LenProperties

\* The upsert statement of a job is a list.
LEMMA StatementType ==
    ASSUME Shape, NEW s \in Slots
    PROVE  /\ Matched(s) \in Seq(SUBSET RuleIds) /\ Len(Matched(s)) = Len(run[s].inserted)
           /\ Upserts(s) \in Seq([article: Articles, rules: SUBSET RuleIds])
           /\ DOMAIN Upserts(s) = DOMAIN run[s].inserted
<1>1. run[s].inserted \in Seq(Items)
  BY DEF Shape, TypeOK, Run
<1>2. \A text : MatchingRules(text) \in SUBSET RuleIds
  BY DEF MatchingRules, ActiveRules, Existing
<1>3. Matched(s) \in [1 .. Len(run[s].inserted) -> SUBSET RuleIds]
  BY <1>1, <1>2 DEF Matched
<1>4. \A n \in DOMAIN run[s].inserted : UNION {Matched(s)[m] : m \in SameArticle(s, n)} \in SUBSET RuleIds
  BY <1>1, <1>3 DEF SameArticle
<1>5. \A n \in DOMAIN run[s].inserted : ArticleOf[run[s].inserted[n]] \in Articles
  BY <1>1 DEF Articles
<1>6. Upserts(s) \in [1 .. Len(run[s].inserted) -> [article: Articles, rules: SUBSET RuleIds]]
  BY <1>1, <1>4, <1>5 DEF Upserts
<1>7. Len(run[s].inserted) \in Nat /\ DOMAIN run[s].inserted = 1 .. Len(run[s].inserted)
  BY <1>1
<1> QED
  BY <1>3, <1>6, <1>7, FunctionIsSeq

ListActiveMoves(s) ==
    /\ run' \in [Slots -> Run] /\ Others(s)
    /\ run'[s].job = run[s].job /\ run'[s].created = run[s].created /\ run'[s].doc = run[s].doc
    /\ run'[s].inserted = run[s].inserted
    /\ run'[s].upserts = Upserts(s) /\ run'[s].matched = Matched(s)
    /\ run'[s].pc = IF RowsOf(Upserts(s)) = {} THEN "commit" ELSE "upsert"
    /\ run'[s].pc = "upsert" => /\ run'[s].next \in RowsOf(Upserts(s))
                                /\ \A m \in RowsOf(Upserts(s)) : run'[s].next <= m

\* The rules are read and the rows of the upsert are chosen.
LEMMA ListActiveEffect ==
    ASSUME Shape, NEW s \in Slots, ListActive(s)
    PROVE  ListActiveMoves(s)
<1> DEFINE rows == RowsOf(Upserts(s))
           r == [run[s] EXCEPT !.upserts = Upserts(s), !.matched = Matched(s),
                               !.next = IF rows = {} THEN run[s].next ELSE Least(rows),
                               !.pc = IF rows = {} THEN "commit" ELSE "upsert"]
<1>1. run[s] \in Run
  BY DEF Shape, TypeOK
<1>2. rows \in SUBSET Nat
  BY StatementType DEF RowsOf
<1>3. rows # {} => Least(rows) \in rows /\ \A m \in rows : Least(rows) <= m
  BY <1>2, LeastRow
<1>4. run' = [run EXCEPT ![s] = r]
  BY DEF Shape, TypeOK, ListActive
<1> HIDE DEF rows
<1>5. r \in Run
  BY <1>1, <1>2, <1>3, StatementType DEF Run, Pcs
<1>6. /\ r.job = run[s].job /\ r.created = run[s].created /\ r.doc = run[s].doc
      /\ r.inserted = run[s].inserted /\ r.upserts = Upserts(s) /\ r.matched = Matched(s)
      /\ r.next = IF rows = {} THEN run[s].next ELSE Least(rows)
      /\ r.pc = IF rows = {} THEN "commit" ELSE "upsert"
  BY <1>1 DEF Run
<1> HIDE DEF r
<1>7. run' \in [Slots -> Run] /\ run'[s] = r /\ Others(s)
  BY <1>4, <1>5, SlotMoves DEF Shape, TypeOK
<1> QED
  BY <1>3, <1>6, <1>7 DEF rows, ListActiveMoves

UpsertMoves(s) ==
    /\ run' \in [Slots -> Run] /\ Others(s)
    /\ run'[s].job = run[s].job /\ run'[s].doc = run[s].doc
    /\ run'[s].inserted = run[s].inserted /\ run'[s].matched = run[s].matched
    /\ run'[s].upserts = run[s].upserts
    /\ run[s].next \in RowsOf(run[s].upserts) /\ run[s].upserts[run[s].next].article \in Articles
    /\ run'[s].created = IF alerts[run[s].upserts[run[s].next].article] = {}
                         THEN Append(run[s].created, run[s].upserts[run[s].next].article)
                         ELSE run[s].created
    /\ run'[s].pc = IF RowsLeft(s) = {} THEN "commit" ELSE "upsert"
    /\ run'[s].pc = "upsert" => /\ run'[s].next \in RowsLeft(s)
                                /\ \A m \in RowsLeft(s) : run'[s].next <= m

\* One row of the upsert statement.
LEMMA UpsertEffect ==
    ASSUME Shape, NEW s \in Slots, UpsertAlert(s)
    PROVE  UpsertMoves(s)
<1> DEFINE left == RowsLeft(s)
           article == run[s].upserts[run[s].next].article
           r == [run[s] EXCEPT !.next = IF left = {} THEN run[s].next ELSE Least(left),
                               !.created = IF alerts[article] = {} THEN Append(run[s].created, article) ELSE run[s].created,
                               !.pc = IF left = {} THEN "commit" ELSE "upsert"]
<1>1. run[s] \in Run
  BY DEF Shape, TypeOK
<1>2. run[s].upserts \in Seq([article: Articles, rules: SUBSET RuleIds]) /\ run[s].created \in Seq(Articles)
  BY <1>1 DEF Run
<1>3. run[s].next \in RowsOf(run[s].upserts)
  BY DEF UpsertAlert, At, Shape, SlotOK
<1>4. article \in Articles
  <2>1. run[s].upserts[run[s].next] \in [article: Articles, rules: SUBSET RuleIds]
    BY <1>2, <1>3, SeqElement DEF RowsOf
  <2> QED
    BY <2>1
<1>5. left \in SUBSET Nat
  BY <1>2 DEF RowsLeft, RowsOf
<1>6. left # {} => Least(left) \in left /\ \A m \in left : Least(left) <= m
  BY <1>5, LeastRow
<1>7. run' = [run EXCEPT ![s] = r]
  BY DEF Shape, TypeOK, UpsertAlert
<1> HIDE DEF left, article
<1>8. r \in Run
  <2>1. Append(run[s].created, article) \in Seq(Articles)
    BY <1>2, <1>4
  <2>2. (IF left = {} THEN run[s].next ELSE Least(left)) \in Nat
    BY <1>1, <1>5, <1>6 DEF Run
  <2> QED
    BY <1>1, <2>1, <2>2 DEF Run, Pcs
<1>9. /\ r.job = run[s].job /\ r.doc = run[s].doc /\ r.inserted = run[s].inserted
      /\ r.matched = run[s].matched /\ r.upserts = run[s].upserts
      /\ r.next = IF left = {} THEN run[s].next ELSE Least(left)
      /\ r.created = IF alerts[article] = {} THEN Append(run[s].created, article) ELSE run[s].created
      /\ r.pc = IF left = {} THEN "commit" ELSE "upsert"
  BY <1>1 DEF Run
<1> HIDE DEF r
<1>10. run' \in [Slots -> Run] /\ run'[s] = r /\ Others(s)
  BY <1>7, <1>8, SlotMoves DEF Shape, TypeOK
<1> QED
  BY <1>3, <1>4, <1>6, <1>9, <1>10 DEF left, article, UpsertMoves

CommitMoves(s) ==
    /\ run' \in [Slots -> Run] /\ Others(s)
    /\ run'[s].job \in Jobs /\ run'[s].pc = "deliver" /\ run'[s].created = run[s].created

\* The slot after COMMIT.
LEMMA CommitEffect ==
    ASSUME Shape, NEW s \in Slots, Commit(s)
    PROVE  CommitMoves(s)
<1> DEFINE r == [IdleRun EXCEPT !.job = run[s].job, !.pc = "deliver", !.created = run[s].created]
<1>1. run[s] \in Run /\ run[s].job \in Jobs
  BY DEF Commit, At, Shape, TypeOK, SlotOK
<1>2. r \in Run
  BY <1>1, IdleRunType DEF Run, Pcs
<1>3. r.job = run[s].job /\ r.pc = "deliver" /\ r.created = run[s].created
  BY DEF IdleRun
<1> HIDE DEF r
<1>4. run' = [run EXCEPT ![s] = r]
  BY DEF Commit, r
<1>5. run' \in [Slots -> Run] /\ run'[s] = r /\ Others(s)
  BY <1>2, <1>4, SlotMoves DEF Shape, TypeOK
<1> QED
  BY <1>1, <1>3, <1>5 DEF CommitMoves

AskMoves(s) ==
    /\ run' \in [Slots -> Run] /\ Others(s)
    /\ run'[s].job \in Jobs /\ run'[s].pc = "deliver" /\ run'[s].created = Tail(run[s].created)
    /\ Head(run[s].created) \in Articles

\* The delivery of one new alert is asked for.
LEMMA AskEffect ==
    ASSUME Shape, NEW s \in Slots, AskDelivery(s)
    PROVE  AskMoves(s)
<1> DEFINE r == [run[s] EXCEPT !.created = Tail(run[s].created)]
<1>1. run[s] \in Run /\ run[s].job \in Jobs
  BY DEF AskDelivery, At, Shape, TypeOK, SlotOK
<1>2. run[s].created \in Seq(Articles) /\ run[s].created # <<>> /\ run[s].pc = "deliver"
  BY <1>1 DEF Run, AskDelivery, At
<1>3. Head(run[s].created) \in Articles /\ Tail(run[s].created) \in Seq(Articles)
  BY <1>2
<1>4. r \in Run
  BY <1>1, <1>3 DEF Run
<1>5. r.job = run[s].job /\ r.pc = run[s].pc /\ r.created = Tail(run[s].created)
  BY <1>1 DEF Run
<1>6. run' = [run EXCEPT ![s] = r]
  BY DEF AskDelivery, Shape, TypeOK
<1> HIDE DEF r
<1>7. run' \in [Slots -> Run] /\ run'[s] = r /\ Others(s)
  BY <1>4, <1>6, SlotMoves DEF Shape, TypeOK
<1> QED
  BY <1>1, <1>2, <1>3, <1>5, <1>7 DEF AskMoves

WriteMoves(s) ==
    /\ entries \subseteq entries' /\ entries' \subseteq [item: Items, matched: SUBSET RuleIds]
    /\ \A e \in entries' : e \in entries \/ \E n \in DOMAIN run[s].inserted :
          e.item = run[s].inserted[n] /\ e.matched = run[s].matched[n]
    /\ \A n \in DOMAIN run[s].inserted : \E e \in entries' : e.item = run[s].inserted[n]
    /\ alerts' \in [Articles -> SUBSET RuleIds] /\ \A a \in Articles : alerts[a] \subseteq alerts'[a]
    /\ \A a \in Articles : \A n \in RowsOf(run[s].upserts) :
          run[s].upserts[n].article = a => run[s].upserts[n].rules \subseteq alerts'[a]
    /\ \A a \in Articles : (\A n \in RowsOf(run[s].upserts) : run[s].upserts[n].article # a) => alerts'[a] = alerts[a]
    /\ etag' = [etag EXCEPT ![Feed(s)] = run[s].doc]

\* What COMMIT makes visible.
LEMMA WriteEffect ==
    ASSUME Shape, NEW s \in Slots, run[s].pc = "commit", WriteTransaction(s)
    PROVE  WriteMoves(s)
<1>1. run[s] \in Run /\ Len(run[s].matched) = Len(run[s].inserted)
  BY DEF Shape, TypeOK, SlotOK
<1>2. /\ run[s].upserts \in Seq([article: Articles, rules: SUBSET RuleIds])
      /\ run[s].inserted \in Seq(Items) /\ run[s].matched \in Seq(SUBSET RuleIds)
  BY <1>1 DEF Run
<1> DEFINE added == {[item |-> run[s].inserted[n], matched |-> run[s].matched[n]] : n \in DOMAIN run[s].inserted}
           rowsOn(a) == {m \in DOMAIN run[s].upserts : run[s].upserts[m].article = a}
           gained(a) == UNION {run[s].upserts[n].rules : n \in rowsOn(a)}
<1>3. entries' = entries \cup added /\ alerts' = [a \in Articles |-> alerts[a] \cup gained(a)]
  BY DEF WriteTransaction
<1>4. added \subseteq [item: Items, matched: SUBSET RuleIds]
  BY <1>1, <1>2
<1>5. \A a \in Articles : gained(a) \in SUBSET RuleIds
  <2>1. \A n \in DOMAIN run[s].upserts : run[s].upserts[n] \in [article: Articles, rules: SUBSET RuleIds]
    BY <1>2, SeqElement
  <2>2. \A n \in DOMAIN run[s].upserts : run[s].upserts[n].rules \in SUBSET RuleIds
    BY <2>1
  <2> QED
    BY <2>2
<1>6. ASSUME NEW a \in Articles, NEW n \in RowsOf(run[s].upserts), run[s].upserts[n].article = a
      PROVE  run[s].upserts[n].rules \subseteq gained(a)
  BY <1>6 DEF RowsOf
<1>7. ASSUME NEW a \in Articles, \A n \in RowsOf(run[s].upserts) : run[s].upserts[n].article # a
      PROVE  gained(a) = {}
  BY <1>7 DEF RowsOf
<1> HIDE DEF gained
<1>8. alerts' \in [Articles -> SUBSET RuleIds]
  BY <1>3, <1>5 DEF Shape, TypeOK
<1>9. entries \subseteq [item: Items, matched: SUBSET RuleIds]
  BY DEF Shape, TypeOK
<1>10. etag' = [etag EXCEPT ![Feed(s)] = run[s].doc]
  BY DEF WriteTransaction
<1>11. \A n \in DOMAIN run[s].inserted : \E e \in entries' : e.item = run[s].inserted[n]
  <2> SUFFICES ASSUME NEW n \in DOMAIN run[s].inserted
               PROVE  \E e \in entries' : e.item = run[s].inserted[n]
    OBVIOUS
  <2> DEFINE e == [item |-> run[s].inserted[n], matched |-> run[s].matched[n]]
  <2>1. e \in entries' /\ e.item = run[s].inserted[n]
    BY <1>3
  <2> QED
    BY <2>1
<1>12. \A e \in entries' : e \in entries \/ \E n \in DOMAIN run[s].inserted :
                 e.item = run[s].inserted[n] /\ e.matched = run[s].matched[n]
  BY <1>3
<1> QED
  BY <1>3, <1>4, <1>6, <1>7, <1>8, <1>9, <1>10, <1>11, <1>12 DEF WriteMoves

-----------------------------------------------------------------------------
(* Types, and where a job can be *)

VersionsGrow == \A f \in Feeds : version[f] <= version'[f]

\* A slot that does not move is as well formed as before.
LEMMA SlotKept ==
    ASSUME Shape, TypeOK', VersionsGrow, NEW t \in Slots, run'[t] = run[t]
    PROVE  SlotOK(t)'
<1>1. SlotOK(t) /\ Document(t)' = Document(t) /\ Feed(t)' = Feed(t)
  BY DEF Shape, Document, Feed
<1>2. run[t].pc # "idle" => version[Feed(t)] <= version'[Feed(t)] /\ version[Feed(t)] \in Nat /\ version'[Feed(t)] \in Nat
  BY <1>1, IngestionAssumption DEF SlotOK, Feed, VersionsGrow, Shape, TypeOK
<1>3. run[t].seen \in Nat
  BY DEF Shape, TypeOK, Run
<1> QED
  BY <1>1, <1>2, <1>3 DEF SlotOK, Fetched

\* A step of one slot keeps Shape if that slot is well formed after it.
LEMMA ShapeKept ==
    ASSUME Shape, TypeOK', NEW s \in Slots, Others(s), version' = version, SlotOK(s)'
    PROVE  Shape'
<1>1. VersionsGrow
  BY DEF VersionsGrow, Shape, TypeOK
<1>2. \A t \in Slots \ {s} : SlotOK(t)'
  BY <1>1, SlotKept DEF Others
<1>3. (\A t \in Slots : SlotOK(t))'
  BY <1>2
<1> QED
  BY <1>3 DEF Shape

\* A slot that is about to leave its job is well formed.
LEMMA LeavingIsOK ==
    ASSUME NEW s \in Slots, Leaves(s)
    PROVE  SlotOK(s)'
BY DEF Leaves, SlotOK, Fetched

\* Shape holds at first.
LEMMA InitShape ==
    Init => Shape
<1> SUFFICES ASSUME Init PROVE Shape
  OBVIOUS
<1>1. run \in [Slots -> Run]
  BY IdleRunType DEF Init
<1>2. \A f \in Feeds : 1 \in DOMAIN Documents[f]
  BY IngestionAssumption
<1>3. jobs \in [Jobs -> [state: {"waiting", "active", "completed", "failed"}, left: 0 .. Attempts]]
  BY IngestionAssumption DEF Init
<1>4. TypeOK
  <2>1. /\ version \in [Feeds -> Nat] /\ \A f \in Feeds : version[f] \in DOMAIN Documents[f]
        /\ etag \in [Feeds -> Nat] /\ \A f \in Feeds : etag[f] <= version[f]
    BY <1>2 DEF Init
  <2>2. /\ alerts \in [Articles -> SUBSET RuleIds] /\ asked \in [Articles -> Nat] /\ entries = {}
        /\ letters \in [Jobs -> {"none", "pending", "written", "counted", "lost"}]
        /\ closing \in BOOLEAN /\ shutdowns \in Nat /\ faults \in Nat
    BY DEF Init
  <2> QED
    BY <1>1, <1>3, <2>1, <2>2 DEF TypeOK
<1>5. \A s \in Slots : SlotOK(s)
  BY DEF Init, IdleRun, SlotOK, Fetched
<1> QED
  BY <1>4, <1>5 DEF Shape

\* Each action keeps Shape.
LEMMA TakeJobShape ==
    ASSUME Shape, NEW s \in Slots, NEW j \in Jobs, TakeJob(s, j)
    PROVE  Shape'
<1>0. TakeJobMoves(s, j)
  BY TakeJobEffect
<1>1. TypeOK'
  BY <1>0 DEF TakeJob, Shape, TypeOK, procVars, TakeJobMoves
<1>2. etag[JobFeed[j]] <= version[JobFeed[j]]
  BY IngestionAssumption DEF Shape, TypeOK
<1>3. SlotOK(s)'
  BY <1>2, <1>0 DEF TakeJob, SlotOK, Fetched, Feed, TakeJobMoves
<1> QED
  BY <1>1, <1>3, <1>0, ShapeKept DEF TakeJob, TakeJobMoves

\* The fetch keeps Shape.
LEMMA FetchShape ==
    ASSUME Shape, NEW s \in Slots, Fetch(s)
    PROVE  Shape'
<1>0. FetchMoves(s)
  BY FetchEffect
<1>1. TypeOK'
  BY <1>0 DEF Fetch, Shape, TypeOK, procVars, FetchMoves
<1>2. run[s].job \in Jobs /\ run[s].next = 1 /\ run[s].created = <<>>
  BY DEF Shape, SlotOK, Fetch, At
<1>3. version[Feed(s)] \in 1 .. version[Feed(s)]
  BY <1>2, IngestionAssumption DEF Shape, TypeOK, Feed
<1>4. Feed(s)' = Feed(s)
  BY <1>0 DEF Feed, FetchMoves
<1>5. SlotOK(s)'
  BY <1>2, <1>3, <1>4, <1>0 DEF Fetch, SlotOK, Fetched, FetchMoves
<1> QED
  BY <1>1, <1>5, <1>0, ShapeKept DEF Fetch, FetchMoves

\* BEGIN keeps Shape.
LEMMA ConnectShape ==
    ASSUME Shape, NEW s \in Slots, Connect(s)
    PROVE  Shape'
<1>0. ConnectMoves(s)
  BY ConnectEffect
<1>1. TypeOK'
  BY <1>0 DEF Connect, Shape, TypeOK, procVars, ConnectMoves
<1>2. /\ run[s].job \in Jobs /\ run[s].next = 1 /\ run[s].created = <<>> /\ run[s].doc \in 1 .. version[Feed(s)]
      /\ run[s].pc \in Fetched
  BY DEF Shape, SlotOK, Connect, At, Fetched
<1>3. Document(s) \in Seq(Items)
  BY <1>2, DocumentType
<1>4. Feed(s)' = Feed(s) /\ Document(s)' = Document(s)
  BY <1>0 DEF Feed, Document, ConnectMoves
<1>5. Len(Document(s)) # 0 => 1 \in 1 .. Len(Document(s))
  BY <1>3
<1>6. SlotOK(s)'
  BY <1>2, <1>4, <1>5, <1>0 DEF Connect, SlotOK, Fetched, ConnectMoves
<1> QED
  BY <1>1, <1>6, <1>0, ShapeKept DEF Connect, ConnectMoves

\* An insert keeps Shape.
LEMMA InsertShape ==
    ASSUME Shape, NEW s \in Slots, InsertEntry(s)
    PROVE  Shape'
<1>0. InsertMoves(s)
  BY InsertEffect
<1>1. TypeOK'
  BY <1>0 DEF InsertEntry, Shape, TypeOK, procVars, InsertMoves
<1>2. /\ run[s].job \in Jobs /\ run[s].created = <<>> /\ run[s].doc \in 1 .. version[Feed(s)]
      /\ run[s].pc \in Fetched /\ run[s].next \in 1 .. Len(Document(s))
  BY DEF Shape, SlotOK, InsertEntry, At, Fetched
<1>3. Document(s) \in Seq(Items)
  BY <1>2, DocumentType
<1>4. Feed(s)' = Feed(s) /\ Document(s)' = Document(s)
  BY <1>0 DEF Feed, Document, InsertMoves
<1>5. run[s].next # Len(Document(s)) => run[s].next + 1 \in 1 .. Len(Document(s))
  BY <1>2, <1>3
<1>6. version' = version
  BY DEF InsertEntry
<1>7. SlotOK(s)'
  BY <1>2, <1>4, <1>5, <1>0, <1>6 DEF SlotOK, Fetched, InsertMoves
<1> QED
  BY <1>1, <1>7, <1>0, ShapeKept DEF InsertEntry, InsertMoves

\* Reading the rules keeps Shape.
LEMMA ListActiveShape ==
    ASSUME Shape, NEW s \in Slots, ListActive(s)
    PROVE  Shape'
<1>0. ListActiveMoves(s)
  BY ListActiveEffect
<1>1. TypeOK'
  BY <1>0 DEF ListActive, Shape, TypeOK, procVars, ListActiveMoves
<1>2. run[s].job \in Jobs /\ run[s].created = <<>> /\ run[s].doc \in 1 .. version[Feed(s)]
  BY DEF Shape, SlotOK, ListActive, At, Fetched
<1>3. Feed(s)' = Feed(s)
  BY <1>0 DEF Feed, ListActiveMoves
<1>4. version' = version
  BY DEF ListActive
<1>5. SlotOK(s)'
  BY <1>2, <1>3, <1>0, StatementType, <1>4 DEF SlotOK, Fetched, ListActiveMoves
<1> QED
  BY <1>1, <1>5, <1>0, ShapeKept DEF ListActive, ListActiveMoves

\* A row of the upsert keeps Shape.
LEMMA UpsertShape ==
    ASSUME Shape, NEW s \in Slots, UpsertAlert(s)
    PROVE  Shape'
<1>0. UpsertMoves(s)
  BY UpsertEffect
<1>1. TypeOK'
  BY <1>0 DEF UpsertAlert, Shape, TypeOK, procVars, UpsertMoves
<1>2. run[s].job \in Jobs /\ run[s].doc \in 1 .. version[Feed(s)] /\ Len(run[s].matched) = Len(run[s].inserted)
  BY DEF Shape, SlotOK, UpsertAlert, At, Fetched
<1>3. Feed(s)' = Feed(s)
  BY <1>0 DEF Feed, UpsertMoves
<1>4. version' = version
  BY DEF UpsertAlert
<1>5. SlotOK(s)'
  BY <1>2, <1>3, <1>0, <1>4 DEF SlotOK, Fetched, RowsLeft, UpsertMoves
<1> QED
  BY <1>1, <1>5, <1>0, ShapeKept DEF UpsertAlert, UpsertMoves

\* The validators that a job writes are of a version its feed has published.
LEMMA EtagType ==
    ASSUME Shape, NEW s \in Slots, run[s].pc \in Fetched, etag' = [etag EXCEPT ![Feed(s)] = run[s].doc],
           version' = version
    PROVE  etag' \in [Feeds -> Nat] /\ \A f \in Feeds : etag'[f] <= version'[f]
<1>1. Feed(s) \in Feeds /\ run[s].doc <= version[Feed(s)]
  BY DocumentType
<1>2. run[s].doc \in Nat
  BY DEF Shape, TypeOK, Run
<1> QED
  BY <1>1, <1>2 DEF Shape, TypeOK

\* COMMIT keeps Shape.
LEMMA CommitShape ==
    ASSUME Shape, NEW s \in Slots, Commit(s)
    PROVE  Shape'
<1>0. CommitMoves(s) /\ WriteMoves(s)
  BY CommitEffect, WriteEffect DEF Commit, At
<1>1. UNCHANGED <<version, asked, jobs, faults, procVars>> /\ run[s].pc = "commit"
  BY DEF Commit, At
<1>2. etag' \in [Feeds -> Nat] /\ \A f \in Feeds : etag'[f] <= version'[f]
  BY <1>0, <1>1, EtagType DEF WriteMoves, Fetched
<1>3. TypeOK'
  BY <1>0, <1>1, <1>2 DEF Shape, TypeOK, procVars, CommitMoves, WriteMoves
<1>4. SlotOK(s)'
  BY <1>0 DEF CommitMoves, SlotOK, Fetched
<1> QED
  BY <1>0, <1>1, <1>3, <1>4, ShapeKept DEF CommitMoves

\* Asking for a delivery keeps Shape.
LEMMA AskShape ==
    ASSUME Shape, NEW s \in Slots, AskDelivery(s)
    PROVE  Shape'
<1>0. AskMoves(s)
  BY AskEffect
<1>1. UNCHANGED <<version, etag, entries, alerts, jobs, procVars>>
  BY DEF AskDelivery
<1>2. asked' \in [Articles -> Nat] /\ faults' \in Nat
  BY <1>0 DEF AskDelivery, Fault, AskMoves, Shape, TypeOK
<1>3. TypeOK'
  BY <1>0, <1>1, <1>2 DEF Shape, TypeOK, procVars, AskMoves
<1>4. SlotOK(s)'
  BY <1>0 DEF AskMoves, SlotOK, Fetched
<1> QED
  BY <1>0, <1>1, <1>3, <1>4, ShapeKept DEF AskMoves

JobStates == [Jobs -> [state: {"waiting", "active", "completed", "failed"}, left: 0 .. Attempts]]

\* One job changes.
LEMMA JobMoves ==
    ASSUME jobs \in JobStates, NEW j, NEW state \in {"waiting", "active", "completed", "failed"},
           jobs' = [jobs EXCEPT ![j].state = state]
    PROVE  jobs' \in JobStates
BY DEF JobStates

\* The 304, the end of a job, and the failures: the slot gives its job up or
\* the job goes to the catch block.
SlotLeaves(s) ==
    \/ ReportUnchanged(s) \/ Finish(s) \/ ReportFailure(s)
    \/ PauseFeed(s) \/ StepFails(s) \/ CommitUnanswered(s) \/ AbortVictim(s)

\* A slot that waits in a deadlock is inserting or upserting.
LEMMA WaitingHasJob ==
    ASSUME Shape, NEW s \in Slots, InDeadlock(s)
    PROVE  run[s].pc \in {"insert", "upsert"}
BY DEF InDeadlock, WaitsFor, At

\* The end of a job.
LEMMA LeaveEffect ==
    ASSUME Shape, NEW s \in Slots, SlotLeaves(s)
    PROVE  Leaves(s)
<1>1. run \in [Slots -> Run] /\ (run[s].pc # "idle" => run[s].job \in Jobs)
  BY DEF Shape, TypeOK, SlotOK
<1>2. CASE run' = [run EXCEPT ![s] = IdleRun]
  BY <1>1, <1>2, BecomesIdle
<1>3. CASE /\ run' = [run EXCEPT ![s] = [IdleRun EXCEPT !.job = run[s].job, !.pc = "failing"]]
           /\ run[s].pc # "idle"
  BY <1>1, <1>3, BecomesFailing
<1>4. AbortVictim(s) => run[s].pc # "idle"
  BY WaitingHasJob DEF AbortVictim
<1> QED
  BY <1>2, <1>3, <1>4
  DEF SlotLeaves, ReportUnchanged, Finish, ReportFailure, PauseFeed, StepFails, CommitUnanswered, AbortVictim, At, Stages

\* A slot that ends its job keeps Shape.
LEMMA LeaveShape ==
    ASSUME Shape, NEW s \in Slots, SlotLeaves(s)
    PROVE  Shape'
<1>0. Leaves(s)
  BY LeaveEffect
<1>1. version' = version /\ asked' = asked /\ closing' = closing /\ shutdowns' = shutdowns
  BY DEF SlotLeaves, ReportUnchanged, Finish, ReportFailure, PauseFeed, StepFails, CommitUnanswered, AbortVictim, procVars
<1>2. /\ entries' \subseteq [item: Items, matched: SUBSET RuleIds] /\ alerts' \in [Articles -> SUBSET RuleIds]
      /\ etag' \in [Feeds -> Nat] /\ \A f \in Feeds : etag'[f] <= version'[f]
  <2>1. CASE CommitUnanswered(s)
    <3>1. run[s].pc = "commit" /\ WriteTransaction(s)
      BY <2>1 DEF CommitUnanswered, At
    <3>2. WriteMoves(s)
      BY <3>1, WriteEffect
    <3> QED
      BY <1>1, <3>1, <3>2, EtagType DEF WriteMoves, Fetched
  <2>2. CASE ReportUnchanged(s)
    <3>1. run[s].pc = "unchanged" /\ etag' = [etag EXCEPT ![Feed(s)] = run[s].doc] /\ UNCHANGED <<entries, alerts>>
      BY <2>2 DEF ReportUnchanged, At
    <3> QED
      BY <1>1, <3>1, EtagType DEF Fetched, Shape, TypeOK
  <2>3. CASE Finish(s) \/ ReportFailure(s) \/ PauseFeed(s) \/ StepFails(s) \/ AbortVictim(s)
    BY <1>1, <2>3 DEF Finish, ReportFailure, PauseFeed, StepFails, AbortVictim, Shape, TypeOK
  <2> QED
    BY <2>1, <2>2, <2>3 DEF SlotLeaves
<1>3. jobs' \in JobStates
  <2>1. jobs \in JobStates
    BY DEF Shape, TypeOK, JobStates
  <2>2. CASE ReportUnchanged(s) \/ Finish(s) \/ PauseFeed(s)
    BY <2>1, <2>2, JobMoves DEF ReportUnchanged, Finish, PauseFeed
  <2>3. CASE ReportFailure(s)
    <3> DEFINE j == run[s].job
    <3>1. j \in Jobs
      BY <2>3 DEF ReportFailure, At, Shape, SlotOK
    <3>2. jobs[j] \in [state: {"waiting", "active", "completed", "failed"}, left: 0 .. Attempts]
      BY <2>1, <3>1 DEF JobStates
    <3>3. jobs' = [jobs EXCEPT ![j] = IF jobs[j].left > 1 THEN [state |-> "waiting", left |-> jobs[j].left - 1]
                                      ELSE [state |-> "failed", left |-> 0]]
      BY <2>3 DEF ReportFailure
    <3>4. (IF jobs[j].left > 1 THEN [state |-> "waiting", left |-> jobs[j].left - 1] ELSE [state |-> "failed", left |-> 0])
             \in [state: {"waiting", "active", "completed", "failed"}, left: 0 .. Attempts]
      BY <3>2, IngestionAssumption
    <3> QED
      BY <2>1, <3>1, <3>3, <3>4 DEF JobStates
  <2>4. CASE StepFails(s) \/ CommitUnanswered(s) \/ AbortVictim(s)
    BY <2>1, <2>4 DEF StepFails, CommitUnanswered, AbortVictim
  <2> QED
    BY <2>2, <2>3, <2>4 DEF SlotLeaves
<1>4. letters' \in [Jobs -> {"none", "pending", "written", "counted", "lost"}]
  BY DEF SlotLeaves, ReportUnchanged, Finish, ReportFailure, PauseFeed, StepFails, CommitUnanswered, AbortVictim, procVars, Shape, TypeOK
<1>5. faults' \in Nat
  BY DEF SlotLeaves, ReportUnchanged, Finish, ReportFailure, PauseFeed, StepFails, CommitUnanswered, AbortVictim, Fault, Shape, TypeOK
<1>6. TypeOK'
  BY <1>0, <1>1, <1>2, <1>3, <1>4, <1>5 DEF Shape, TypeOK, JobStates, Leaves
<1> QED
  BY <1>0, <1>1, <1>6, LeavingIsOK, ShapeKept DEF Leaves

\* The steps that touch no job in a slot and no row of the database.
QuietStep ==
    \/ \E f \in Feeds : Publish(f)
    \/ RulesStep /\ UNCHANGED pipeVars
    \/ \E j \in Jobs : RecordLetter(j)
    \/ Shutdown \/ Exit
    \/ UNCHANGED vars

QuietMoves ==
    /\ UNCHANGED <<etag, entries, alerts, asked, jobs, run>>
    /\ VersionsGrow
    /\ faults \in Nat /\ faults' \in Nat /\ faults <= faults'

\* The steps that touch no slot: publishing, the callers, the queue.
LEMMA QuietEffect ==
    ASSUME Shape, QuietStep
    PROVE  TypeOK' /\ QuietMoves
<1>1. CASE \E f \in Feeds : Publish(f)
  <2>1. PICK f \in Feeds : Publish(f)
    BY <1>1
  <2>2. version[f] \in Nat /\ version' = [version EXCEPT ![f] = version[f] + 1] /\ version[f] < Len(Documents[f])
        /\ Documents[f] \in Seq(Seq(Items)) /\ version[f] \in DOMAIN Documents[f]
    BY <2>1, IngestionAssumption DEF Publish, Shape, TypeOK
  <2>3. version[f] + 1 \in DOMAIN Documents[f]
    BY <2>2
  <2>4. version' \in [Feeds -> Nat] /\ (\A g \in Feeds : version'[g] \in DOMAIN Documents[g]) /\ VersionsGrow
    BY <2>2, <2>3 DEF Shape, TypeOK, VersionsGrow
  <2>5. UNCHANGED <<etag, entries, alerts, asked, jobs, run, faults, procVars>>
    BY <2>1 DEF Publish
  <2>6. \A g \in Feeds : etag'[g] <= version'[g]
    BY <2>4, <2>5 DEF VersionsGrow, Shape, TypeOK
  <2> QED
    BY <2>4, <2>5, <2>6 DEF Shape, TypeOK, QuietMoves, procVars
<1>2. CASE (RulesStep /\ UNCHANGED pipeVars) \/ UNCHANGED vars
  <2>1. UNCHANGED <<version, etag, entries, alerts, asked, jobs, run, faults, letters, closing, shutdowns>>
    BY <1>2 DEF pipeVars, procVars, vars
  <2> QED
    BY <2>1 DEF Shape, TypeOK, QuietMoves, VersionsGrow
<1>3. CASE \E j \in Jobs : RecordLetter(j)
  <2>1. PICK j \in Jobs : RecordLetter(j)
    BY <1>3
  <2>2. UNCHANGED <<version, etag, entries, alerts, asked, jobs, run, closing, shutdowns>>
    BY <2>1 DEF RecordLetter
  <2>3. faults \in Nat /\ faults' \in Nat /\ faults <= faults'
    BY <2>1 DEF RecordLetter, Fault, Shape, TypeOK
  <2>4. letters' \in [Jobs -> {"none", "pending", "written", "counted", "lost"}]
    BY <2>1 DEF RecordLetter, Shape, TypeOK
  <2> QED
    BY <2>2, <2>3, <2>4 DEF Shape, TypeOK, QuietMoves, VersionsGrow
<1>4. CASE Shutdown \/ Exit
  <2>1. UNCHANGED <<version, etag, entries, alerts, asked, jobs, run, letters, faults>>
    BY <1>4 DEF Shutdown, Exit
  <2>2. shutdowns' \in Nat
    BY <1>4 DEF Shutdown, Exit, Shape, TypeOK
  <2>3. closing' \in BOOLEAN
    BY <1>4, Zenon DEF Shutdown, Exit
  <2> QED
    BY <2>1, <2>2, <2>3 DEF Shape, TypeOK, QuietMoves, VersionsGrow
<1> QED
  BY <1>1, <1>2, <1>3, <1>4 DEF QuietStep

\* What happens outside the slots keeps Shape.
LEMMA QuietShape ==
    ASSUME Shape, QuietStep
    PROVE  Shape'
<1>1. TypeOK' /\ VersionsGrow /\ run' = run
  BY QuietEffect DEF QuietMoves
<1>2. \A t \in Slots : SlotOK(t)'
  BY <1>1, SlotKept
<1>3. (\A t \in Slots : SlotOK(t))'
  BY <1>2
<1> QED
  BY <1>1, <1>3 DEF Shape

CrashMoves ==
    /\ UNCHANGED <<version, etag, entries, alerts, asked>>
    /\ run' = [s \in Slots |-> IdleRun]
    /\ faults' \in Nat /\ faults' > 0

\* A worker dies.
LEMMA CrashEffect ==
    ASSUME Shape, Crash
    PROVE  Shape' /\ CrashMoves
<1>1. CrashMoves
  BY DEF Crash, Fault, CrashMoves, Shape, TypeOK
<1>2. run' \in [Slots -> Run]
  BY <1>1, IdleRunType DEF CrashMoves
<1>3. jobs' \in JobStates
  <2>1. jobs \in JobStates
    BY DEF Shape, TypeOK, JobStates
  <2>2. jobs' = [j \in Jobs |-> IF jobs[j].state = "active" THEN [jobs[j] EXCEPT !.state = "waiting"] ELSE jobs[j]]
    BY DEF Crash
  <2>3. \A j \in Jobs : [jobs[j] EXCEPT !.state = "waiting"]
                           \in [state: {"waiting", "active", "completed", "failed"}, left: 0 .. Attempts]
    BY <2>1 DEF JobStates
  <2> QED
    BY <2>1, <2>2, <2>3 DEF JobStates
<1>4. letters' \in [Jobs -> {"none", "pending", "written", "counted", "lost"}]
  BY DEF Crash, Shape, TypeOK
<1>5. closing' \in BOOLEAN /\ shutdowns' \in Nat
  BY DEF Crash, Shape, TypeOK
<1>6. TypeOK'
  BY <1>1, <1>2, <1>3, <1>4, <1>5 DEF Shape, TypeOK, JobStates, CrashMoves
<1>7. (\A s \in Slots : SlotOK(s))'
  BY <1>1 DEF CrashMoves, IdleRun, SlotOK, Fetched
<1> QED
  BY <1>1, <1>6, <1>7 DEF Shape

\* The steps of the worker, by what they do.
LEMMA StepCases ==
    ASSUME [Next]_vars
    PROVE  \/ QuietStep \/ Crash
           \/ \E s \in Slots : \/ \E j \in Jobs : TakeJob(s, j)
                               \/ Fetch(s) \/ Connect(s) \/ InsertEntry(s) \/ ListActive(s) \/ UpsertAlert(s)
                               \/ Commit(s) \/ AskDelivery(s) \/ SlotLeaves(s)
BY DEF Next, SlotStep, SlotFails, SlotLeaves, QuietStep

\* Every step keeps Shape.
LEMMA ShapeStep ==
    ASSUME Shape, [Next]_vars
    PROVE  Shape'
BY StepCases, QuietShape, CrashEffect, TakeJobShape, FetchShape, ConnectShape, InsertShape, ListActiveShape,
   UpsertShape, CommitShape, AskShape, LeaveShape

\* Every variable keeps its type: also the record of a job, whatever happens in
\* the middle of its transaction.
THEOREM TypeCorrect == Spec => []TypeOK
<1>1. Shape /\ [Next]_vars => Shape'
  BY ShapeStep
<1>2. Shape => TypeOK
  BY DEF Shape
<1> QED
  BY <1>1, <1>2, InitShape, PTL DEF Spec

-----------------------------------------------------------------------------
(* Dead letters *)

\* Every step keeps the trace of the failures.
LEMMA FailuresStep ==
    ASSUME Shape, FailuresLeaveTrace, [Next]_vars
    PROVE  FailuresLeaveTrace'
<1>0. faults \in Nat /\ jobs \in JobStates /\ letters \in [Jobs -> {"none", "pending", "written", "counted", "lost"}]
  BY DEF Shape, TypeOK, JobStates
<1>1. CASE QuietStep
  <2>1. jobs' = jobs /\ faults <= faults' /\ faults' \in Nat
    BY <1>1, QuietEffect DEF QuietMoves
  <2>2. \A j \in Jobs : letters'[j] = letters[j] \/ letters'[j] \in {"written", "counted"}
    BY <1>0, <1>1 DEF QuietStep, Publish, RulesStep, RecordLetter, Shutdown, Exit, pipeVars, procVars, vars
  <2> QED
    BY <1>0, <2>1, <2>2 DEF FailuresLeaveTrace
<1>2. CASE Crash
  <2>1. faults' > 0
    BY <1>2, CrashEffect DEF CrashMoves
  <2>2. \A j \in Jobs : letters[j] # "none" => letters'[j] # "none"
    BY <1>2 DEF Crash
  <2>3. \A j \in Jobs : jobs'[j].state = "failed" => jobs[j].state = "failed"
    BY <1>0, <1>2 DEF Crash, JobStates
  <2> QED
    BY <2>1, <2>2, <2>3 DEF FailuresLeaveTrace
<1>3. ASSUME NEW s \in Slots, ReportFailure(s)
      PROVE  FailuresLeaveTrace'
  <2>1. faults' = faults /\ letters' = [letters EXCEPT ![run[s].job] = IF jobs[run[s].job].left > 1 THEN @ ELSE "pending"]
        /\ jobs' = [jobs EXCEPT ![run[s].job] = IF @.left > 1 THEN [state |-> "waiting", left |-> @.left - 1]
                                                ELSE [state |-> "failed", left |-> 0]]
    BY <1>3 DEF ReportFailure
  <2> QED
    BY <1>0, <2>1 DEF FailuresLeaveTrace, JobStates
<1>4. ASSUME NEW s \in Slots, \/ \E j \in Jobs : TakeJob(s, j)
                              \/ Fetch(s) \/ Connect(s) \/ InsertEntry(s) \/ ListActive(s) \/ UpsertAlert(s)
                              \/ Commit(s) \/ AskDelivery(s) \/ (SlotLeaves(s) /\ ~ReportFailure(s))
      PROVE  FailuresLeaveTrace'
  <2>1. letters' = letters
    BY <1>4 DEF TakeJob, Fetch, Connect, InsertEntry, ListActive, UpsertAlert, Commit, AskDelivery, SlotLeaves,
                ReportUnchanged, Finish, PauseFeed, StepFails, CommitUnanswered, AbortVictim, procVars
  <2>2. faults' = faults \/ faults' = faults + 1
    BY <1>4 DEF TakeJob, Fetch, Connect, InsertEntry, ListActive, UpsertAlert, Commit, AskDelivery, SlotLeaves,
                ReportUnchanged, Finish, PauseFeed, StepFails, CommitUnanswered, AbortVictim, Fault
  <2>3. \/ jobs' = jobs
        \/ \E j, state : state # "failed" /\ jobs' = [jobs EXCEPT ![j].state = state]
    BY <1>4 DEF TakeJob, Fetch, Connect, InsertEntry, ListActive, UpsertAlert, Commit, AskDelivery, SlotLeaves,
                ReportUnchanged, Finish, PauseFeed, StepFails, CommitUnanswered, AbortVictim
  <2>4. \A j \in Jobs : jobs'[j].state = "failed" => jobs[j].state = "failed"
    BY <1>0, <2>3 DEF JobStates
  <2> QED
    BY <1>0, <2>1, <2>2, <2>4 DEF FailuresLeaveTrace
<1> QED
  BY <1>1, <1>2, <1>3, <1>4, StepCases

\* Whatever fails, is retried, crashes or shuts down: a job that used up its
\* attempts has a dead letter, a count of the letter that could not be written,
\* or a write under way, and a letter is lost only with a process that died.
THEOREM FailuresTraced == Spec => []FailuresLeaveTrace
<1>1. Init => FailuresLeaveTrace
  BY DEF Init, FailuresLeaveTrace
<1>2. Shape /\ FailuresLeaveTrace /\ [Next]_vars => Shape' /\ FailuresLeaveTrace'
  BY ShapeStep, FailuresStep
<1> QED
  BY <1>1, <1>2, InitShape, PTL DEF Spec

-----------------------------------------------------------------------------
(* Validators and entries *)

\* An INSERT that a row is skipped for is an INSERT of the same entry.
LEMMA SameEntryReflexive ==
    ASSUME NEW i \in Items
    PROVE  SameEntry(i, i)
BY DEF SameEntry, Conflicting

\* What a slot has seen of its document stays so when entries only grow.
LEMMA DocumentKept ==
    ASSUME DocumentInv, NEW t \in Slots, run'[t] = run[t], entries \subseteq entries'
    PROVE  DocumentOK(t)'
<1>1. DocumentOK(t) /\ Document(t)' = Document(t) /\ Feed(t)' = Feed(t)
  BY DEF DocumentInv, Document, Feed
<1>2. \A item : Known(entries, run[t].inserted, item) => Known(entries', run[t].inserted, item)
  BY DEF Known
<1>3. \A f, v : Stored(entries, f, v) => Stored(entries', f, v)
  BY DEF Stored
<1> QED
  BY <1>1, <1>2, <1>3 DEF DocumentOK

\* A step that leaves the validators alone.
LEMMA EarnedKept ==
    ASSUME DocumentInv, etag' = etag, entries \subseteq entries'
    PROVE  ValidatorsAreEarned'
BY DEF DocumentInv, ValidatorsAreEarned

\* DocumentInv needs to be shown for the slot that moves only.
LEMMA DocumentInvKept ==
    ASSUME DocumentInv, Shape', NEW s \in Slots, Others(s), DocumentOK(s)', entries \subseteq entries',
           ValidatorsAreEarned'
    PROVE  DocumentInv'
<1>1. \A t \in Slots \ {s} : DocumentOK(t)'
  BY DocumentKept DEF Others
<1>2. (\A t \in Slots : DocumentOK(t))'
  BY <1>1
<1> QED
  BY <1>2 DEF DocumentInv

\* What a transaction writes: every item of the document, with its validators.
LEMMA WriteEarns ==
    ASSUME DocumentInv, NEW s \in Slots, run[s].pc = "commit", WriteTransaction(s)
    PROVE  entries \subseteq entries' /\ ValidatorsAreEarned'
<1>0. Shape /\ DocumentOK(s) /\ WriteMoves(s)
  BY WriteEffect DEF DocumentInv
<1>1. entries \subseteq entries' /\ etag' = [etag EXCEPT ![Feed(s)] = run[s].doc] /\ Feed(s) \in Feeds
      /\ Document(s) \in Seq(Items)
  BY <1>0, DocumentType DEF WriteMoves, Fetched
<1>2. ASSUME NEW n \in DOMAIN Document(s)
      PROVE  \E e \in entries' : SameEntry(e.item, Document(s)[n])
  <2>1. n \in 1 .. Len(Document(s))
    BY <1>1
  <2>2. Known(entries, run[s].inserted, Document(s)[n])
    BY <1>0, <2>1 DEF DocumentOK
  <2>3. CASE \E e \in entries : SameEntry(e.item, Document(s)[n])
    BY <1>1, <2>3
  <2>4. CASE \E k \in DOMAIN run[s].inserted : SameEntry(run[s].inserted[k], Document(s)[n])
    BY <1>0, <2>4 DEF WriteMoves
  <2> QED
    BY <2>2, <2>3, <2>4 DEF Known
<1>3. ASSUME NEW f \in Feeds, etag'[f] # 0
      PROVE  \A n \in DOMAIN Documents[f][etag'[f]] : \E e \in entries' : SameEntry(e.item, Documents[f][etag'[f]][n])
  <2>1. CASE f = Feed(s)
    <3>1. Documents[f][etag'[f]] = Document(s)
      BY <1>0, <1>1, <2>1 DEF Document, Shape, TypeOK
    <3> QED
      BY <1>2, <3>1
  <2>2. CASE f # Feed(s)
    <3>1. etag'[f] = etag[f]
      BY <1>0, <1>1, <2>2 DEF Shape, TypeOK
    <3> QED
      BY <1>1, <1>3, <3>1 DEF DocumentInv, ValidatorsAreEarned
  <2> QED
    BY <2>1, <2>2
<1> QED
  BY <1>1, <1>3 DEF ValidatorsAreEarned

\* The INSERT of an item makes it known.
LEMMA InsertDocument ==
    ASSUME DocumentInv, NEW s \in Slots, InsertEntry(s)
    PROVE  DocumentOK(s)'
<1> DEFINE item == Document(s)[run[s].next]
<1>0. Shape /\ DocumentOK(s) /\ InsertMoves(s)
  BY InsertEffect DEF DocumentInv
<1>1. run[s].pc = "insert" /\ entries' = entries
  BY DEF InsertEntry, At
<1>2. run[s].next \in 1 .. Len(Document(s)) /\ Document(s) \in Seq(Items)
  BY <1>0, <1>1, DocumentType DEF Shape, SlotOK, Fetched
<1>3. Document(s)' = Document(s) /\ Feed(s)' = Feed(s)
  BY <1>0 DEF InsertMoves, Document, Feed
<1>4. run[s].inserted \in Seq(Items)
  BY <1>0 DEF Shape, TypeOK, Run
<1>5. \A i : Known(entries, run[s].inserted, i) => Known(entries', run'[s].inserted, i)
  <2>1. \A n \in DOMAIN run[s].inserted : n \in DOMAIN run'[s].inserted /\ run'[s].inserted[n] = run[s].inserted[n]
    BY <1>0, <1>4 DEF InsertMoves
  <2> QED
    BY <1>1, <2>1 DEF Known
<1>6. Known(entries', run'[s].inserted, item)
  <2>1. CASE Known(entries, run[s].inserted, item)
    BY <1>5, <2>1
  <2>2. CASE ~Known(entries, run[s].inserted, item)
    <3>1. run'[s].inserted = Append(run[s].inserted, item) /\ item \in Items
      BY <1>0, <2>2 DEF InsertMoves
    <3>2. /\ Len(run[s].inserted) + 1 \in DOMAIN run'[s].inserted
          /\ run'[s].inserted[Len(run[s].inserted) + 1] = item
      BY <1>4, <3>1
    <3>3. SameEntry(item, item)
      BY <3>1, SameEntryReflexive
    <3>4. \E n \in DOMAIN run'[s].inserted : SameEntry(run'[s].inserted[n], item)
      BY <3>2, <3>3
    <3> QED
      BY <3>4 DEF Known
  <2> QED
    BY <2>1, <2>2
<1>7. \A n \in 1 .. run[s].next : Known(entries', run'[s].inserted, Document(s)[n])
  BY <1>0, <1>1, <1>2, <1>5, <1>6 DEF DocumentOK
<1> HIDE DEF item
<1>8. CASE run[s].next = Len(Document(s))
  BY <1>0, <1>3, <1>7, <1>8 DEF DocumentOK, InsertMoves
<1>9. CASE run[s].next # Len(Document(s))
  <2>1. run'[s].pc = "insert" /\ run'[s].next = run[s].next + 1
    BY <1>0, <1>9 DEF InsertMoves
  <2>2. run'[s].next - 1 = run[s].next
    BY <1>2, <2>1
  <2> QED
    BY <1>3, <1>7, <2>1, <2>2 DEF DocumentOK
<1> QED
  BY <1>8, <1>9

\* Taking a job, the request and the connection.
LEMMA FetchingDocument ==
    ASSUME DocumentInv, NEW s \in Slots, (\E j \in Jobs : TakeJob(s, j)) \/ Fetch(s) \/ Connect(s)
    PROVE  DocumentOK(s)' /\ Others(s) /\ UNCHANGED <<etag, entries>>
<1>0. Shape /\ DocumentOK(s)
  BY DEF DocumentInv
<1>1. ASSUME NEW j \in Jobs, TakeJob(s, j)
      PROVE  DocumentOK(s)' /\ Others(s) /\ UNCHANGED <<etag, entries>>
  <2>1. TakeJobMoves(s, j) /\ UNCHANGED <<etag, entries>>
    BY <1>0, <1>1, TakeJobEffect DEF TakeJob
  <2>2. JobFeed[j] \in Feeds /\ Feed(s)' = JobFeed[j]
    BY <2>1, IngestionAssumption DEF TakeJobMoves, Feed
  <2>3. etag[JobFeed[j]] # 0 => Stored(entries, JobFeed[j], etag[JobFeed[j]])
    BY <2>2 DEF DocumentInv, ValidatorsAreEarned, Stored
  <2> QED
    BY <2>1, <2>2, <2>3 DEF TakeJobMoves, DocumentOK
<1>2. ASSUME Fetch(s)
      PROVE  DocumentOK(s)' /\ Others(s) /\ UNCHANGED <<etag, entries>>
  <2>1. FetchMoves(s) /\ run[s].pc = "fetch" /\ UNCHANGED <<etag, entries>>
    BY <1>0, <1>2, FetchEffect DEF Fetch, At
  <2>2. Feed(s)' = Feed(s) /\ run[s].job \in Jobs
    BY <1>0, <2>1 DEF FetchMoves, Feed, Shape, SlotOK
  <2>3. version[Feed(s)] # 0
    BY <1>0, <2>2, IngestionAssumption DEF Feed, Shape, TypeOK
  <2> QED
    BY <1>0, <2>1, <2>2, <2>3 DEF FetchMoves, DocumentOK
<1>3. ASSUME Connect(s)
      PROVE  DocumentOK(s)' /\ Others(s) /\ UNCHANGED <<etag, entries>>
  <2>1. ConnectMoves(s) /\ run[s].pc = "connect" /\ UNCHANGED <<etag, entries>>
    BY <1>0, <1>3, ConnectEffect DEF Connect, At
  <2>2. Document(s)' = Document(s) /\ run[s].next = 1
    BY <1>0, <2>1 DEF ConnectMoves, Feed, Document, Shape, SlotOK
  <2>3. 1 .. run'[s].next - 1 = {} /\ (Len(Document(s)) = 0 => 1 .. Len(Document(s)) = {})
    BY <2>1, <2>2 DEF ConnectMoves
  <2> QED
    BY <2>1, <2>2, <2>3 DEF ConnectMoves, DocumentOK
<1> QED
  BY <1>1, <1>2, <1>3

\* The statements after the inserts leave the inserted entries alone.
LEMMA StatementsDocument ==
    ASSUME DocumentInv, NEW s \in Slots, ListActive(s) \/ UpsertAlert(s)
    PROVE  DocumentOK(s)' /\ Others(s) /\ UNCHANGED <<etag, entries>>
<1>1. /\ run[s].pc \in {"rules", "upsert"} /\ run'[s].pc \in {"upsert", "commit"} /\ Others(s)
      /\ run'[s].job = run[s].job /\ run'[s].doc = run[s].doc /\ run'[s].inserted = run[s].inserted
      /\ UNCHANGED <<etag, entries>>
  <2>1. CASE ListActive(s)
    <3>1. ListActiveMoves(s)
      BY <2>1, ListActiveEffect DEF DocumentInv
    <3> QED
      BY <2>1, <3>1 DEF ListActive, At, ListActiveMoves
  <2>2. CASE UpsertAlert(s)
    <3>1. UpsertMoves(s)
      BY <2>2, UpsertEffect DEF DocumentInv
    <3> QED
      BY <2>2, <3>1 DEF UpsertAlert, At, UpsertMoves
  <2> QED
    BY <2>1, <2>2
<1>2. Document(s)' = Document(s) /\ Feed(s)' = Feed(s)
  BY <1>1 DEF Document, Feed
<1> QED
  BY <1>1, <1>2 DEF DocumentInv, DocumentOK

\* A job that ends loses no entry, and the validators it writes are earned.
LEMMA LeavingDocument ==
    ASSUME DocumentInv, NEW s \in Slots, SlotLeaves(s)
    PROVE  entries \subseteq entries' /\ ValidatorsAreEarned'
<1>1. CASE CommitUnanswered(s)
  BY <1>1, WriteEarns DEF CommitUnanswered, At
<1>2. CASE ReportUnchanged(s)
  <2>1. /\ run[s].pc = "unchanged" /\ entries' = entries /\ etag' = [etag EXCEPT ![Feed(s)] = run[s].doc]
        /\ etag \in [Feeds -> Nat] /\ Stored(entries, Feed(s), run[s].doc)
    BY <1>2 DEF ReportUnchanged, At, DocumentInv, DocumentOK, Shape, TypeOK
  <2>2. \A f \in Feeds : etag'[f] # 0 => Stored(entries', f, etag'[f])
    BY <2>1 DEF DocumentInv, ValidatorsAreEarned, Stored
  <2> QED
    BY <2>1, <2>2 DEF ValidatorsAreEarned, Stored
<1>3. CASE Finish(s) \/ ReportFailure(s) \/ PauseFeed(s) \/ StepFails(s) \/ AbortVictim(s)
  <2>1. entries' = entries /\ etag' = etag
    BY <1>3 DEF Finish, ReportFailure, PauseFeed, StepFails, AbortVictim
  <2> QED
    BY <2>1, EarnedKept
<1> QED
  BY <1>1, <1>2, <1>3 DEF SlotLeaves

\* Every step keeps DocumentInv.
LEMMA DocumentStep ==
    ASSUME DocumentInv, [Next]_vars
    PROVE  DocumentInv'
<1>0. Shape /\ Shape'
  BY ShapeStep DEF DocumentInv
<1>1. CASE QuietStep
  <2>1. run' = run /\ etag' = etag /\ entries' = entries
    BY <1>0, <1>1, QuietEffect DEF QuietMoves
  <2>2. \A t \in Slots : DocumentOK(t)'
    BY <2>1, DocumentKept
  <2>3. (\A t \in Slots : DocumentOK(t))'
    BY <2>2
  <2> QED
    BY <1>0, <2>1, <2>3, EarnedKept DEF DocumentInv
<1>2. CASE Crash
  <2>1. CrashMoves
    BY <1>0, <1>2, CrashEffect
  <2>2. (\A t \in Slots : DocumentOK(t))'
    BY <2>1 DEF CrashMoves, IdleRun, DocumentOK
  <2>3. ValidatorsAreEarned'
    BY <2>1, EarnedKept DEF CrashMoves
  <2> QED
    BY <1>0, <2>2, <2>3 DEF DocumentInv
<1>3. ASSUME NEW s \in Slots, (\E j \in Jobs : TakeJob(s, j)) \/ Fetch(s) \/ Connect(s)
      PROVE  DocumentInv'
  BY <1>0, <1>3, FetchingDocument, EarnedKept, DocumentInvKept
<1>4. ASSUME NEW s \in Slots, InsertEntry(s)
      PROVE  DocumentInv'
  <2>1. Others(s) /\ etag' = etag /\ entries' = entries
    BY <1>0, <1>4, InsertEffect DEF InsertEntry, InsertMoves
  <2> QED
    BY <1>0, <1>4, <2>1, InsertDocument, EarnedKept, DocumentInvKept
<1>5. ASSUME NEW s \in Slots, ListActive(s) \/ UpsertAlert(s)
      PROVE  DocumentInv'
  BY <1>0, <1>5, StatementsDocument, EarnedKept, DocumentInvKept
<1>6. ASSUME NEW s \in Slots, Commit(s)
      PROVE  DocumentInv'
  <2>1. CommitMoves(s) /\ entries \subseteq entries' /\ ValidatorsAreEarned'
    BY <1>0, <1>6, CommitEffect, WriteEarns DEF Commit, At
  <2>2. DocumentOK(s)'
    BY <2>1 DEF CommitMoves, DocumentOK
  <2> QED
    BY <1>0, <2>1, <2>2, DocumentInvKept DEF CommitMoves
<1>7. ASSUME NEW s \in Slots, AskDelivery(s)
      PROVE  DocumentInv'
  <2>1. AskMoves(s) /\ entries' = entries /\ etag' = etag
    BY <1>0, <1>7, AskEffect DEF AskDelivery
  <2>2. DocumentOK(s)'
    BY <2>1 DEF AskMoves, DocumentOK
  <2> QED
    BY <1>0, <2>1, <2>2, EarnedKept, DocumentInvKept DEF AskMoves
<1>8. ASSUME NEW s \in Slots, SlotLeaves(s)
      PROVE  DocumentInv'
  <2>1. Leaves(s) /\ entries \subseteq entries' /\ ValidatorsAreEarned'
    BY <1>0, <1>8, LeaveEffect, LeavingDocument
  <2>2. DocumentOK(s)'
    BY <2>1 DEF Leaves, DocumentOK
  <2> QED
    BY <1>0, <2>1, <2>2, DocumentInvKept DEF Leaves
<1> QED
  BY <1>1, <1>2, <1>3, <1>4, <1>5, <1>6, <1>7, <1>8, StepCases

\* A 304 never hides an article: for any number of overlapping jobs of a feed,
\* of versions and of failures, the feed row carries the validators of a
\* version only when every item of it is among the entries.
THEOREM ValidatorsEarned == Spec => []ValidatorsAreEarned
<1>1. Init => DocumentInv
  <2> SUFFICES ASSUME Init PROVE DocumentInv
    OBVIOUS
  <2>1. ValidatorsAreEarned
    BY DEF Init, ValidatorsAreEarned
  <2>2. \A s \in Slots : DocumentOK(s)
    BY DEF Init, IdleRun, DocumentOK
  <2> QED
    BY <2>1, <2>2, InitShape DEF DocumentInv
<1>2. DocumentInv /\ [Next]_vars => DocumentInv'
  BY DocumentStep
<1>3. DocumentInv => ValidatorsAreEarned
  BY DEF DocumentInv
<1> QED
  BY <1>1, <1>2, <1>3, PTL DEF Spec

-----------------------------------------------------------------------------
(* Matched rules and alerts *)

\* createForEntryWithRules: the rules of a matched entry are in the row that
\* stands for its article, and an article has one row.
LEMMA UpsertRows ==
    ASSUME Shape, NEW s \in Slots
    PROVE  /\ \A n \in DOMAIN run[s].inserted : Matched(s)[n] # {} =>
                 \E k \in RowsOf(Upserts(s)) : /\ Upserts(s)[k].article = ArticleOf[run[s].inserted[n]]
                                               /\ Matched(s)[n] \subseteq Upserts(s)[k].rules
           /\ \A m, n \in RowsOf(Upserts(s)) : Upserts(s)[m].article = Upserts(s)[n].article => m = n
<1>1. run[s].inserted \in Seq(Items)
  BY DEF Shape, TypeOK, Run
<1>2. DOMAIN run[s].inserted \subseteq Nat
  BY <1>1
<1>3. \A k \in DOMAIN run[s].inserted :
         /\ Upserts(s)[k].article = ArticleOf[run[s].inserted[k]]
         /\ Upserts(s)[k].rules = IF FirstOfArticle(s, k) THEN UNION {Matched(s)[m] : m \in SameArticle(s, k)} ELSE {}
  BY DEF Upserts
<1>4. ASSUME NEW n \in DOMAIN run[s].inserted, Matched(s)[n] # {}
      PROVE  \E k \in RowsOf(Upserts(s)) : /\ Upserts(s)[k].article = ArticleOf[run[s].inserted[n]]
                                           /\ Matched(s)[n] \subseteq Upserts(s)[k].rules
  <2> DEFINE same == SameArticle(s, n)
             k == Least(same)
  <2>1. same \in SUBSET Nat /\ n \in same
    BY <1>2, <1>4 DEF SameArticle
  <2>2. k \in same /\ \A m \in same : k <= m
    BY <2>1, LeastRow
  <2>3. k \in DOMAIN run[s].inserted /\ Matched(s)[k] # {} /\ ArticleOf[run[s].inserted[k]] = ArticleOf[run[s].inserted[n]]
    BY <2>2 DEF SameArticle
  <2>4. SameArticle(s, k) = same
    BY <2>3 DEF SameArticle
  <2>5. FirstOfArticle(s, k)
    BY <2>2, <2>3, <2>4 DEF FirstOfArticle
  <2>6. Upserts(s)[k].rules = UNION {Matched(s)[m] : m \in same}
    BY <1>3, <2>3, <2>4, <2>5
  <2>7. Matched(s)[n] \subseteq Upserts(s)[k].rules
    BY <2>1, <2>6
  <2>8. k \in RowsOf(Upserts(s))
    BY <1>4, <2>3, <2>7, StatementType DEF RowsOf
  <2> QED
    BY <1>3, <2>3, <2>7, <2>8
<1>5. ASSUME NEW m \in RowsOf(Upserts(s)), NEW n \in RowsOf(Upserts(s)), Upserts(s)[m].article = Upserts(s)[n].article
      PROVE  m = n
  <2>1. m \in DOMAIN run[s].inserted /\ n \in DOMAIN run[s].inserted /\ m \in Nat /\ n \in Nat
    BY <1>2, StatementType DEF RowsOf
  <2>2. Upserts(s)[m].rules # {} /\ Upserts(s)[n].rules # {}
    BY DEF RowsOf
  <2>3. FirstOfArticle(s, m) /\ FirstOfArticle(s, n)
    BY <1>3, <2>1, <2>2
  <2>4. ArticleOf[run[s].inserted[m]] = ArticleOf[run[s].inserted[n]]
    BY <1>3, <1>5, <2>1
  <2>5. n \in SameArticle(s, m) /\ m \in SameArticle(s, n)
    BY <2>1, <2>3, <2>4 DEF SameArticle, FirstOfArticle
  <2>6. m <= n /\ n <= m
    BY <2>3, <2>5 DEF FirstOfArticle
  <2> QED
    BY <2>1, <2>6
<1> QED
  BY <1>4, <1>5

\* A transaction writes its entries together with the rules they matched.
LEMMA WriteCovers ==
    ASSUME RulesInv, NEW s \in Slots, run[s].pc = "commit", WriteTransaction(s)
    PROVE  AlertsCoverEntries'
<1>0. Shape /\ StatementOK(s) /\ AlertsCoverEntries /\ WriteMoves(s)
  BY WriteEffect DEF RulesInv
<1>1. run[s].inserted \in Seq(Items)
  BY <1>0 DEF Shape, TypeOK, Run
<1>2. \A i \in Items : ArticleOf[i] \in Articles
  BY DEF Articles
<1>3. ASSUME NEW e \in entries
      PROVE  e.matched \subseteq alerts'[ArticleOf[e.item]]
  <2>1. e.item \in Items
    BY <1>0 DEF Shape, TypeOK
  <2>2. alerts[ArticleOf[e.item]] \subseteq alerts'[ArticleOf[e.item]]
    BY <1>0, <1>2, <2>1 DEF WriteMoves
  <2>3. e.matched \subseteq alerts[ArticleOf[e.item]]
    BY <1>0 DEF AlertsCoverEntries
  <2> QED
    BY <2>2, <2>3
<1>4. ASSUME NEW n \in DOMAIN run[s].inserted
      PROVE  run[s].matched[n] \subseteq alerts'[ArticleOf[run[s].inserted[n]]]
  <2>1. CASE run[s].matched[n] = {}
    BY <2>1
  <2>2. CASE run[s].matched[n] # {}
    <3>1. PICK k \in RowsOf(run[s].upserts) : /\ run[s].upserts[k].article = ArticleOf[run[s].inserted[n]]
                                              /\ run[s].matched[n] \subseteq run[s].upserts[k].rules
      BY <1>0, <2>2 DEF StatementOK
    <3>2. run[s].upserts[k].rules \subseteq alerts'[ArticleOf[run[s].inserted[n]]]
      BY <1>0, <1>1, <1>2, <3>1 DEF WriteMoves
    <3> QED
      BY <3>1, <3>2
  <2> QED
    BY <2>1, <2>2
<1>5. \A e \in entries' : e \in entries \/ \E n \in DOMAIN run[s].inserted :
                 e.item = run[s].inserted[n] /\ e.matched = run[s].matched[n]
  BY <1>0 DEF WriteMoves
<1>6. \A e \in entries' : e.matched \subseteq alerts'[ArticleOf[e.item]]
  BY <1>3, <1>4, <1>5
<1> QED
  BY <1>6 DEF AlertsCoverEntries

\* The statements of the other slots stay as they were.
LEMMA StatementOthers ==
    ASSUME RulesInv, NEW s \in Slots, Others(s), StatementOK(s)'
    PROVE  (\A t \in Slots : StatementOK(t))'
<1>1. \A t \in Slots \ {s} : StatementOK(t)'
  BY DEF RulesInv, Others, StatementOK
<1> QED
  BY <1>1

\* Every step keeps RulesInv, which holds at first.
LEMMA RulesInvStep ==
    ASSUME RulesInv, [Next]_vars
    PROVE  RulesInv'
<1>0. Shape /\ Shape' /\ AlertsCoverEntries
  BY ShapeStep DEF RulesInv
<1>1. CASE QuietStep
  <2>1. run' = run /\ alerts' = alerts /\ entries' = entries
    BY <1>0, <1>1, QuietEffect DEF QuietMoves
  <2> QED
    BY <1>0, <2>1 DEF RulesInv, AlertsCoverEntries, StatementOK
<1>2. CASE Crash
  <2>1. CrashMoves
    BY <1>0, <1>2, CrashEffect
  <2>2. (\A t \in Slots : StatementOK(t))'
    BY <2>1 DEF CrashMoves, IdleRun, StatementOK
  <2> QED
    BY <1>0, <2>1, <2>2 DEF RulesInv, CrashMoves, AlertsCoverEntries
<1>3. ASSUME NEW s \in Slots, (\E j \in Jobs : TakeJob(s, j)) \/ Fetch(s) \/ Connect(s) \/ InsertEntry(s) \/ AskDelivery(s)
      PROVE  RulesInv'
  <2>1. Others(s) /\ run'[s].pc \notin {"upsert", "commit"}
    BY <1>0, <1>3, TakeJobEffect, FetchEffect, ConnectEffect, InsertEffect, AskEffect
    DEF TakeJobMoves, FetchMoves, ConnectMoves, InsertMoves, AskMoves
  <2>2. alerts' = alerts /\ entries' = entries
    BY <1>3 DEF TakeJob, Fetch, Connect, InsertEntry, AskDelivery
  <2>3. StatementOK(s)'
    BY <2>1 DEF StatementOK
  <2> QED
    BY <1>0, <2>1, <2>2, <2>3, StatementOthers DEF RulesInv, AlertsCoverEntries
<1>4. ASSUME NEW s \in Slots, ListActive(s)
      PROVE  RulesInv'
  <2>1. ListActiveMoves(s) /\ alerts' = alerts /\ entries' = entries
    BY <1>0, <1>4, ListActiveEffect DEF ListActive
  <2>2. StatementOK(s)'
    BY <1>0, <2>1, UpsertRows DEF ListActiveMoves, StatementOK
  <2> QED
    BY <1>0, <2>1, <2>2, StatementOthers DEF RulesInv, AlertsCoverEntries, ListActiveMoves
<1>5. ASSUME NEW s \in Slots, UpsertAlert(s)
      PROVE  RulesInv'
  <2>1. UpsertMoves(s) /\ alerts' = alerts /\ entries' = entries /\ run[s].pc = "upsert" /\ StatementOK(s)
    BY <1>0, <1>5, UpsertEffect DEF UpsertAlert, At, RulesInv
  <2>2. StatementOK(s)'
    BY <2>1 DEF UpsertMoves, StatementOK
  <2> QED
    BY <1>0, <2>1, <2>2, StatementOthers DEF RulesInv, AlertsCoverEntries, UpsertMoves
<1>6. ASSUME NEW s \in Slots, Commit(s)
      PROVE  RulesInv'
  <2>1. CommitMoves(s) /\ AlertsCoverEntries'
    BY <1>0, <1>6, CommitEffect, WriteCovers DEF Commit, At
  <2>2. StatementOK(s)'
    BY <2>1 DEF CommitMoves, StatementOK
  <2> QED
    BY <1>0, <2>1, <2>2, StatementOthers DEF RulesInv, CommitMoves
<1>7. ASSUME NEW s \in Slots, SlotLeaves(s)
      PROVE  RulesInv'
  <2>1. Leaves(s)
    BY <1>0, <1>7, LeaveEffect
  <2>2. StatementOK(s)'
    BY <2>1 DEF Leaves, StatementOK
  <2>3. AlertsCoverEntries'
    <3>1. CASE CommitUnanswered(s)
      BY <3>1, WriteCovers DEF CommitUnanswered, At
    <3>2. CASE ~CommitUnanswered(s)
      <4>1. alerts' = alerts /\ entries' = entries
        BY <1>7, <3>2 DEF SlotLeaves, ReportUnchanged, Finish, ReportFailure, PauseFeed, StepFails, AbortVictim
      <4> QED
        BY <1>0, <4>1 DEF AlertsCoverEntries
    <3> QED
      BY <3>1, <3>2
  <2> QED
    BY <1>0, <2>1, <2>2, <2>3, StatementOthers DEF RulesInv, Leaves
<1> QED
  BY <1>1, <1>2, <1>3, <1>4, <1>5, <1>6, <1>7, StepCases

\* Nothing is matched when the worker starts.
LEMMA InitRulesInv ==
    Init => RulesInv
<1> SUFFICES ASSUME Init PROVE RulesInv
  OBVIOUS
<1>1. AlertsCoverEntries
  BY DEF Init, AlertsCoverEntries
<1>2. \A s \in Slots : StatementOK(s)
  BY DEF Init, IdleRun, StatementOK
<1> QED
  BY <1>1, <1>2, InitShape DEF RulesInv

\* No matched rule is lost: for any number of feeds, items, rules and slots, the
\* alert of an article has every rule that matched a committed entry of it.
THEOREM AlertsCovered == Spec => []AlertsCoverEntries
<1>1. RulesInv /\ [Next]_vars => RulesInv'
  BY RulesInvStep
<1>2. RulesInv => AlertsCoverEntries
  BY DEF RulesInv
<1> QED
  BY <1>1, <1>2, InitRulesInv, PTL DEF Spec

-----------------------------------------------------------------------------
(* Created alerts and the deliveries that are asked for *)

\* A list with one element more, and without its first.
LEMMA ListAppend ==
    ASSUME NEW list \in Seq(Articles), NEW x \in Articles
    PROVE  /\ \A a : Listed(Append(list, x), a) <=> Listed(list, a) \/ a = x
           /\ Once(list) /\ ~Listed(list, x) => Once(Append(list, x))
<1> DEFINE longer == Append(list, x)
<1>1. /\ DOMAIN longer = DOMAIN list \cup {Len(list) + 1} /\ longer[Len(list) + 1] = x
      /\ \A n \in DOMAIN list : longer[n] = list[n]
  OBVIOUS
<1> HIDE DEF longer
<1>2. \A a : Listed(longer, a) <=> Listed(list, a) \/ a = x
  BY <1>1 DEF Listed
<1>3. Once(list) /\ ~Listed(list, x) => Once(longer)
  BY <1>1 DEF Once, Listed
<1> QED
  BY <1>2, <1>3 DEF longer

\* What is on a list without repetitions after its head was taken.
LEMMA ListTail ==
    ASSUME NEW list \in Seq(Articles), list # <<>>, Once(list)
    PROVE  /\ Listed(list, Head(list)) /\ Once(Tail(list))
           /\ \A a : Listed(Tail(list), a) <=> Listed(list, a) /\ a # Head(list)
<1> DEFINE rest == Tail(list)
<1>1. /\ Len(list) \in Nat \ {0} /\ DOMAIN list = 1 .. Len(list) /\ DOMAIN rest = 1 .. Len(list) - 1
      /\ Head(list) = list[1] /\ \A n \in 1 .. Len(list) - 1 : rest[n] = list[n + 1]
  OBVIOUS
<1> HIDE DEF rest
<1>2. Listed(list, Head(list))
  BY <1>1 DEF Listed
<1>3. Once(rest)
  BY <1>1 DEF Once
<1>4. ASSUME NEW a, Listed(rest, a)
      PROVE  Listed(list, a) /\ a # Head(list)
  BY <1>1, <1>4 DEF Listed, Once
<1>5. ASSUME NEW a, Listed(list, a), a # Head(list)
      PROVE  Listed(rest, a)
  <2>1. PICK n \in 1 .. Len(list) : list[n] = a
    BY <1>1, <1>5 DEF Listed
  <2>2. n - 1 \in 1 .. Len(list) - 1 /\ rest[n - 1] = list[(n - 1) + 1] /\ (n - 1) + 1 = n
    BY <1>1, <1>5, <2>1
  <2> QED
    BY <1>1, <2>1, <2>2 DEF Listed
<1> QED
  BY <1>2, <1>3, <1>4, <1>5 DEF rest

\* A row upserted is one of the statement of a slot that holds its transaction.
LEMMA UpsertedHolds ==
    ASSUME NEW s \in Slots, NEW n \in Upserted(s)
    PROVE  s \in Holding /\ run[s].pc \in {"upsert", "commit"} /\ n \in RowsOf(run[s].upserts)
BY DEF Upserted, Holding, Stages, At

\* The rows of a slot that stands still.
LEMMA UpsertedKept ==
    ASSUME NEW t \in Slots, run'[t] = run[t]
    PROVE  Upserted(t)' = Upserted(t)
BY DEF Upserted, RowsOf, At

\* A slot without a row upserted and without an alert listed says nothing of
\* the alerts.
LEMMA CalmSlot ==
    ASSUME NEW s \in Slots, run'[s].created = <<>>, Upserted(s)' = {}
    PROVE  /\ CreatedOK(s)'
           /\ \A t \in Slots : Apart(s, t)' /\ Apart(t, s)'
<1>1. DOMAIN run'[s].created = {}
  OBVIOUS
<1>2. \A a : ~Listed(run'[s].created, a)
  BY <1>1 DEF Listed
<1>3. Once(run'[s].created)
  BY <1>1 DEF Once
<1> QED
  BY <1>2, <1>3 DEF CreatedOK, Apart

\* Two slots that do not move stay apart.
LEMMA ApartKept ==
    ASSUME NEW t \in Slots, NEW u \in Slots, run'[t] = run[t], run'[u] = run[u], Apart(t, u)
    PROVE  Apart(t, u)'
BY UpsertedKept DEF Apart

\* What a step may do to the alerts and the requests that another slot counts on.
LEMMA CreatedKept ==
    ASSUME NEW t \in Slots, run'[t] = run[t], run \in [Slots -> Run], alerts \in [Articles -> SUBSET RuleIds], CreatedOK(t),
           \A a \in Articles : alerts[a] \subseteq alerts'[a],
           \A a \in Articles : Listed(run[t].created, a) /\ run[t].pc \in {"upsert", "commit"} => alerts'[a] = alerts[a],
           \A a \in Articles : Listed(run[t].created, a) /\ run[t].pc = "deliver" => asked'[a] = asked[a]
    PROVE  CreatedOK(t)'
<1>1. Upserted(t)' = Upserted(t)
  BY UpsertedKept
<1>2. ASSUME NEW n \in Upserted(t)
      PROVE  run[t].upserts[n].article \in Articles
  <2>1. run[t].upserts \in Seq([article: Articles, rules: SUBSET RuleIds]) /\ n \in DOMAIN run[t].upserts
    BY DEF Run, Upserted, RowsOf
  <2>2. run[t].upserts[n] \in [article: Articles, rules: SUBSET RuleIds]
    BY <2>1, SeqElement
  <2> QED
    BY <2>2
<1>3. \A n \in Upserted(t) : alerts[run[t].upserts[n].article] # {} => alerts'[run[t].upserts[n].article] # {}
  BY <1>2
<1> QED
  BY <1>1, <1>3 DEF CreatedOK

\* The parts of BookInv that speak of slots, after a step of one slot.
LEMMA SlotsKept ==
    ASSUME BookInv, NEW s \in Slots, Others(s),
           \A t \in Slots \ {s} : CreatedOK(t)', CreatedOK(s)',
           \A t \in Slots \ {s} : Apart(s, t)' /\ Apart(t, s)'
    PROVE  (\A t \in Slots : CreatedOK(t))' /\ (\A t, u \in Slots : t # u => Apart(t, u))'
<1>1. \A t, u \in Slots : t # u /\ t # s /\ u # s => Apart(t, u)'
  BY ApartKept DEF BookInv, Others
<1>2. \A t, u \in Slots : t # u => Apart(t, u)'
  BY <1>1
<1>3. \A t \in Slots : CreatedOK(t)'
  OBVIOUS
<1> QED
  BY <1>2, <1>3

\* A step that touches neither alerts nor requests, by a slot that lists none.
LEMMA CalmStep ==
    ASSUME BookInv, RulesInv', NEW s \in Slots, Others(s), run'[s].created = <<>>, Upserted(s)' = {},
           UNCHANGED <<alerts, asked>>, faults' = 0 => faults = 0,
           faults' = 0 /\ run[s].pc = "deliver" => run[s].created = <<>>
    PROVE  BookInv'
<1>0. run \in [Slots -> Run] /\ alerts \in [Articles -> SUBSET RuleIds]
  BY DEF BookInv, RulesInv, Shape, TypeOK
<1>1. \A t \in Slots \ {s} : CreatedOK(t)'
  BY <1>0, CreatedKept DEF BookInv, Others
<1>2. CreatedOK(s)' /\ \A t \in Slots : Apart(s, t)' /\ Apart(t, s)'
  BY CalmSlot
<1>3. (\A t \in Slots : CreatedOK(t))' /\ (\A t, u \in Slots : t # u => Apart(t, u))'
  BY <1>1, <1>2, SlotsKept
<1>4. UnaskedNeedsFault'
  <2> SUFFICES ASSUME NEW a \in Articles, alerts'[a] # {}, asked'[a] = 0, faults' = 0
               PROVE  \E t \in Slots : run'[t].pc = "deliver" /\ Listed(run'[t].created, a)
    BY DEF UnaskedNeedsFault, Listed, At
  <2>1. PICK t \in Slots : run[t].pc = "deliver" /\ Listed(run[t].created, a)
    BY DEF BookInv, UnaskedNeedsFault, Listed, At
  <2>2. run[t].created # <<>>
    BY <2>1 DEF Listed
  <2>3. t # s
    BY <2>1, <2>2
  <2> QED
    BY <2>1, <2>3 DEF Others
<1> QED
  BY <1>3, <1>4 DEF BookInv

\* One row of the upsert statement.
LEMMA UpsertBook ==
    ASSUME BookInv, RulesInv', NEW s \in Slots, UpsertAlert(s)
    PROVE  BookInv'
<1> DEFINE article == run[s].upserts[run[s].next].article
<1>0. /\ Shape /\ StatementOK(s) /\ CreatedOK(s) /\ UpsertMoves(s) /\ run[s].pc = "upsert"
      /\ UNCHANGED <<alerts, asked, faults>>
  BY UpsertEffect DEF UpsertAlert, At, BookInv, RulesInv
<1>1. run \in [Slots -> Run] /\ alerts \in [Articles -> SUBSET RuleIds] /\ run[s].created \in Seq(Articles)
      /\ run[s].upserts \in Seq([article: Articles, rules: SUBSET RuleIds])
  BY <1>0 DEF Shape, TypeOK, Run
<1>2. RowsOf(run[s].upserts) \subseteq Nat /\ run[s].next \in Nat
  BY <1>0, <1>1 DEF RowsOf, UpsertMoves
<1>3. Upserted(s) = {n \in RowsOf(run[s].upserts) : n < run[s].next}
  BY <1>0 DEF Upserted, At
<1>4. Upserted(s)' = Upserted(s) \cup {run[s].next}
  <2>1. CASE RowsLeft(s) = {}
    <3>1. Upserted(s)' = RowsOf(run[s].upserts)
      BY <1>0, <2>1 DEF Upserted, At, UpsertMoves
    <3>2. \A n \in RowsOf(run[s].upserts) : n <= run[s].next
      BY <1>2, <2>1 DEF RowsLeft
    <3> QED
      BY <1>0, <1>2, <1>3, <3>1, <3>2 DEF UpsertMoves
  <2>2. CASE RowsLeft(s) # {}
    <3>1. /\ run'[s].pc = "upsert" /\ run'[s].next \in RowsLeft(s) /\ \A m \in RowsLeft(s) : run'[s].next <= m
          /\ run'[s].upserts = run[s].upserts
      BY <1>0, <2>2 DEF UpsertMoves
    <3>2. Upserted(s)' = {n \in RowsOf(run[s].upserts) : n < run'[s].next}
      BY <3>1 DEF Upserted, At
    <3>3. run'[s].next \in Nat /\ run[s].next < run'[s].next
      BY <1>2, <3>1 DEF RowsLeft
    <3>4. \A n \in RowsOf(run[s].upserts) : n > run[s].next => ~(n < run'[s].next)
      BY <1>2, <3>1, <3>3 DEF RowsLeft
    <3> QED
      BY <1>0, <1>2, <1>3, <3>2, <3>3, <3>4 DEF UpsertMoves
  <2> QED
    BY <2>1, <2>2
<1>5. article \in Articles
  BY <1>0 DEF UpsertMoves
<1>6. alerts[article] = {} => ~Listed(run[s].created, article)
  <2> SUFFICES ASSUME Listed(run[s].created, article) PROVE FALSE
    OBVIOUS
  <2>1. PICK n \in Upserted(s) : run[s].upserts[n].article = article
    BY <1>0, <1>5 DEF CreatedOK
  <2>2. n = run[s].next
    BY <1>0, <1>3, <2>1 DEF StatementOK, UpsertMoves
  <2> QED
    BY <1>2, <1>3, <2>2
<1>7. /\ run'[s].created = IF alerts[article] = {} THEN Append(run[s].created, article) ELSE run[s].created
      /\ run'[s].upserts = run[s].upserts /\ run'[s].pc \in {"upsert", "commit"} /\ Others(s)
  BY <1>0 DEF UpsertMoves
<1> HIDE DEF article
<1>8. /\ \A a : Listed(run'[s].created, a) <=> Listed(run[s].created, a) \/ (alerts[article] = {} /\ a = article)
      /\ Once(run'[s].created)
  BY <1>0, <1>1, <1>5, <1>6, <1>7, ListAppend DEF CreatedOK
<1>9. CreatedOK(s)'
  <2>1. ASSUME NEW n \in Upserted(s)'
        PROVE  alerts[run[s].upserts[n].article] # {} \/ Listed(run'[s].created, run[s].upserts[n].article)
    BY <1>0, <1>4, <1>8, <2>1 DEF CreatedOK, article
  <2>2. ASSUME NEW a \in Articles, Listed(run'[s].created, a)
        PROVE  alerts[a] = {} /\ \E n \in Upserted(s)' : run[s].upserts[n].article = a
    BY <1>0, <1>4, <1>8, <2>2 DEF CreatedOK, article
  <2> QED
    BY <1>0, <1>7, <1>8, <2>1, <2>2 DEF CreatedOK
<1>10. \A t \in Slots \ {s} : CreatedOK(t)'
  BY <1>0, <1>1, <1>7, CreatedKept DEF BookInv, Others
<1>11. ASSUME NEW t \in Slots \ {s}
       PROVE  Apart(s, t)' /\ Apart(t, s)'
  <2>1. AlertHolders(s, article) = {}
    BY <1>0 DEF UpsertAlert, WaitsFor, At, article
  <2>2. \A m \in Upserted(t) : run[t].upserts[m].article # article
    BY <2>1, UpsertedHolds DEF AlertHolders
  <2>3. Upserted(t)' = Upserted(t) /\ run'[t] = run[t]
    BY <1>7, UpsertedKept DEF Others
  <2>4. Apart(s, t)
    BY DEF BookInv
  <2>5. \A m \in Upserted(s)', n \in Upserted(t)' : run'[s].upserts[m].article # run'[t].upserts[n].article
    BY <1>4, <1>7, <2>2, <2>3, <2>4 DEF Apart, article
  <2> QED
    BY <1>7, <2>5 DEF Apart
<1>12. (\A t \in Slots : CreatedOK(t))' /\ (\A t, u \in Slots : t # u => Apart(t, u))'
  BY <1>7, <1>9, <1>10, <1>11, SlotsKept
<1>13. UnaskedNeedsFault'
  BY <1>0, <1>7 DEF BookInv, UnaskedNeedsFault, At, Others
<1> QED
  BY <1>0, <1>12, <1>13 DEF BookInv

\* A transaction that is written leaves the lists of the other slots right: what
\* they have upserted it has not.
LEMMA WriteKeepsOthers ==
    ASSUME BookInv, NEW s \in Slots, run[s].pc = "commit", WriteTransaction(s), Others(s), asked' = asked
    PROVE  \A t \in Slots \ {s} : CreatedOK(t)'
<1>0. run \in [Slots -> Run] /\ alerts \in [Articles -> SUBSET RuleIds] /\ WriteMoves(s)
  BY WriteEffect DEF BookInv, RulesInv, Shape, TypeOK
<1>1. Upserted(s) = RowsOf(run[s].upserts)
  BY DEF Upserted, At
<1>2. ASSUME NEW t \in Slots \ {s}
      PROVE  CreatedOK(t)'
  <2>1. CreatedOK(t) /\ Apart(s, t) /\ run'[t] = run[t]
    BY DEF BookInv, Others
  <2>2. ASSUME NEW a \in Articles, Listed(run[t].created, a), run[t].pc \in {"upsert", "commit"}
        PROVE  alerts'[a] = alerts[a]
    <3>1. PICK n \in Upserted(t) : run[t].upserts[n].article = a
      BY <2>1, <2>2 DEF CreatedOK
    <3>2. \A m \in RowsOf(run[s].upserts) : run[s].upserts[m].article # a
      BY <1>1, <2>1, <3>1 DEF Apart
    <3> QED
      BY <1>0, <3>2 DEF WriteMoves
  <2>3. \A a \in Articles : alerts[a] \subseteq alerts'[a]
    BY <1>0 DEF WriteMoves
  <2> QED
    BY <1>0, <2>1, <2>2, <2>3, CreatedKept
<1> QED
  BY <1>2

\* An alert that is asked for exists.
LEMMA AskedHaveAlerts ==
    ASSUME BookInv, NEW s \in Slots, run[s].pc = "commit", WriteTransaction(s), asked' = asked
    PROVE  (\A a \in Articles : asked[a] # 0 => alerts[a] # {})'
<1>1. \A a \in Articles : alerts[a] \subseteq alerts'[a]
  BY WriteEffect DEF BookInv, RulesInv, WriteMoves
<1> QED
  BY <1>1 DEF BookInv

\* COMMIT: the rows that were not there become alerts that this job alone lists.
LEMMA CommitBook ==
    ASSUME BookInv, RulesInv', NEW s \in Slots, Commit(s)
    PROVE  BookInv'
<1>0. /\ CommitMoves(s) /\ WriteMoves(s) /\ CreatedOK(s) /\ run[s].pc = "commit" /\ WriteTransaction(s)
      /\ asked' = asked /\ faults' = faults
  BY CommitEffect, WriteEffect DEF Commit, At, BookInv, RulesInv
<1>1. Others(s) /\ run'[s].created = run[s].created /\ run'[s].pc = "deliver"
  BY <1>0 DEF CommitMoves
<1>2. Upserted(s) = RowsOf(run[s].upserts) /\ Upserted(s)' = {}
  BY <1>0, <1>1 DEF Upserted, At
<1>3. \A t \in Slots \ {s} : CreatedOK(t)'
  BY <1>0, <1>1, WriteKeepsOthers
<1>4. ASSUME NEW a \in Articles, Listed(run[s].created, a)
      PROVE  alerts[a] = {} /\ alerts'[a] # {} /\ asked'[a] = 0
  <2>1. alerts[a] = {} /\ \E n \in Upserted(s) : run[s].upserts[n].article = a
    BY <1>0, <1>4 DEF CreatedOK
  <2>2. PICK n \in RowsOf(run[s].upserts) : run[s].upserts[n].article = a
    BY <1>2, <2>1
  <2>3. run[s].upserts[n].rules \subseteq alerts'[a] /\ run[s].upserts[n].rules # {}
    BY <1>0, <2>2 DEF WriteMoves, RowsOf
  <2>4. asked[a] = 0
    BY <2>1 DEF BookInv
  <2> QED
    BY <1>0, <2>1, <2>3, <2>4
<1>5. CreatedOK(s)'
  BY <1>0, <1>1, <1>4 DEF CreatedOK
<1>6. ASSUME NEW t \in Slots \ {s}
      PROVE  Apart(s, t)' /\ Apart(t, s)'
  <2>1. run'[t] = run[t] /\ CreatedOK(t)
    BY <1>1 DEF Others, BookInv
  <2>2. \A a \in Articles : run[t].pc = "deliver" /\ Listed(run[t].created, a) => alerts[a] # {}
    BY <2>1 DEF CreatedOK
  <2>3. \A a \in Articles : run[t].pc = "deliver" => ~(Listed(run[s].created, a) /\ Listed(run[t].created, a))
    BY <1>4, <2>2
  <2> QED
    BY <1>1, <1>2, <2>1, <2>3 DEF Apart
<1>7. (\A t \in Slots : CreatedOK(t))' /\ (\A t, u \in Slots : t # u => Apart(t, u))'
  BY <1>1, <1>3, <1>5, <1>6, SlotsKept
<1>8. UnaskedNeedsFault'
  <2> SUFFICES ASSUME NEW a \in Articles, alerts'[a] # {}, asked'[a] = 0, faults' = 0
               PROVE  \E t \in Slots : run'[t].pc = "deliver" /\ Listed(run'[t].created, a)
    BY DEF UnaskedNeedsFault, Listed, At
  <2>1. CASE alerts[a] # {}
    <3>1. PICK t \in Slots : run[t].pc = "deliver" /\ Listed(run[t].created, a)
      BY <1>0, <2>1 DEF BookInv, UnaskedNeedsFault, Listed, At
    <3>2. t # s
      BY <1>0, <3>1
    <3> QED
      BY <1>1, <3>1, <3>2 DEF Others
  <2>2. CASE alerts[a] = {}
    <3>1. PICK n \in RowsOf(run[s].upserts) : run[s].upserts[n].article = a
      BY <1>0, <2>2 DEF WriteMoves
    <3>2. Listed(run[s].created, a)
      BY <1>0, <1>2, <2>2, <3>1 DEF CreatedOK
    <3> QED
      BY <1>1, <3>2
  <2> QED
    BY <2>1, <2>2
<1> QED
  BY <1>0, <1>7, <1>8, AskedHaveAlerts DEF BookInv

\* The COMMIT whose answer is lost: the alerts stay, and a failure has happened.
LEMMA UnansweredBook ==
    ASSUME BookInv, RulesInv', NEW s \in Slots, CommitUnanswered(s), Leaves(s)
    PROVE  BookInv'
<1>0. run[s].pc = "commit" /\ WriteTransaction(s) /\ asked' = asked /\ faults' = faults + 1 /\ faults \in Nat
  BY DEF CommitUnanswered, Fault, At, BookInv, RulesInv, Shape, TypeOK
<1>1. Others(s) /\ run'[s].created = <<>> /\ run'[s].pc \notin {"upsert", "commit"}
  BY DEF Leaves
<1>2. Upserted(s)' = {}
  BY <1>1 DEF Upserted, At
<1>3. \A t \in Slots \ {s} : CreatedOK(t)'
  BY <1>0, <1>1, WriteKeepsOthers
<1>4. CreatedOK(s)' /\ \A t \in Slots : Apart(s, t)' /\ Apart(t, s)'
  BY <1>1, <1>2, CalmSlot
<1>5. (\A t \in Slots : CreatedOK(t))' /\ (\A t, u \in Slots : t # u => Apart(t, u))'
  BY <1>1, <1>3, <1>4, SlotsKept
<1>6. UnaskedNeedsFault'
  BY <1>0 DEF UnaskedNeedsFault
<1> QED
  BY <1>0, <1>5, <1>6, AskedHaveAlerts DEF BookInv

\* deliverAlerts: the next alert of the list is asked for, or its request fails.
AskBookMoves(s) ==
    /\ alerts[Head(run[s].created)] # {} /\ asked[Head(run[s].created)] = 0
    /\ \/ asked' = [asked EXCEPT ![Head(run[s].created)] = 1]
       \/ asked' = asked /\ faults' > 0

\* A job asks for the alert at the head of its list, once.
LEMMA AskBook ==
    ASSUME BookInv, RulesInv', NEW s \in Slots, AskDelivery(s)
    PROVE  BookInv' /\ AskBookMoves(s)
<1> DEFINE article == Head(run[s].created)
<1>0. /\ AskMoves(s) /\ CreatedOK(s) /\ run[s].pc = "deliver" /\ run[s].created # <<>> /\ alerts' = alerts
      /\ run \in [Slots -> Run] /\ alerts \in [Articles -> SUBSET RuleIds] /\ asked \in [Articles -> Nat] /\ faults \in Nat
  BY AskEffect DEF AskDelivery, At, BookInv, RulesInv, Shape, TypeOK
<1>1. run[s].created \in Seq(Articles)
  BY <1>0 DEF Run
<1>2. Others(s) /\ run'[s].created = Tail(run[s].created) /\ run'[s].pc = "deliver" /\ article \in Articles
  BY <1>0 DEF AskMoves
<1>3. /\ Listed(run[s].created, article) /\ Once(run'[s].created)
      /\ \A a : Listed(run'[s].created, a) <=> Listed(run[s].created, a) /\ a # article
  BY <1>0, <1>1, <1>2, ListTail DEF CreatedOK
<1>4. alerts[article] # {} /\ asked[article] = 0
  BY <1>0, <1>2, <1>3 DEF CreatedOK
<1>5. \/ asked' = [asked EXCEPT ![article] = 1] /\ faults' = faults
      \/ asked' = asked /\ faults' > 0
  BY <1>0, <1>2, <1>4 DEF AskDelivery, Fault
<1> HIDE DEF article
<1>6. \A a \in Articles : a # article => asked'[a] = asked[a]
  BY <1>0, <1>2, <1>5
<1>7. ASSUME NEW t \in Slots \ {s}
      PROVE  CreatedOK(t)'
  <2>1. CreatedOK(t) /\ Apart(s, t) /\ run'[t] = run[t]
    BY <1>2 DEF BookInv, Others
  <2>2. \A a \in Articles : Listed(run[t].created, a) /\ run[t].pc = "deliver" => asked'[a] = asked[a]
    BY <1>0, <1>2, <1>3, <1>6, <2>1 DEF Apart
  <2> QED
    BY <1>0, <2>1, <2>2, CreatedKept
<1>8. CreatedOK(s)'
  <2>1. \A a \in Articles : Listed(run'[s].created, a) => alerts'[a] # {} /\ asked'[a] = 0
    BY <1>0, <1>3, <1>6 DEF CreatedOK
  <2> QED
    BY <1>2, <1>3, <2>1 DEF CreatedOK
<1>9. ASSUME NEW t \in Slots \ {s}
      PROVE  Apart(s, t)' /\ Apart(t, s)'
  <2>1. Apart(s, t) /\ run'[t] = run[t]
    BY <1>2 DEF BookInv, Others
  <2>2. Upserted(s)' = {}
    BY <1>2 DEF Upserted, At
  <2>3. \A a \in Articles : run[t].pc = "deliver" => ~(Listed(run'[s].created, a) /\ Listed(run[t].created, a))
    BY <1>0, <1>3, <2>1 DEF Apart
  <2> QED
    BY <2>1, <2>2, <2>3 DEF Apart
<1>10. (\A t \in Slots : CreatedOK(t))' /\ (\A t, u \in Slots : t # u => Apart(t, u))'
  BY <1>2, <1>7, <1>8, <1>9, SlotsKept
<1>11. (\A a \in Articles : asked[a] # 0 => alerts[a] # {})'
  BY <1>0, <1>4, <1>6 DEF BookInv
<1>12. UnaskedNeedsFault'
  <2> SUFFICES ASSUME NEW a \in Articles, alerts'[a] # {}, asked'[a] = 0, faults' = 0
               PROVE  \E t \in Slots : run'[t].pc = "deliver" /\ Listed(run'[t].created, a)
    BY DEF UnaskedNeedsFault, Listed, At
  <2>1. asked' = [asked EXCEPT ![article] = 1] /\ faults = 0
    BY <1>0, <1>5
  <2>2. a # article
    BY <1>0, <1>2, <2>1
  <2>3. PICK t \in Slots : run[t].pc = "deliver" /\ Listed(run[t].created, a)
    BY <1>0, <1>6, <2>1, <2>2 DEF BookInv, UnaskedNeedsFault, Listed, At
  <2>4. CASE t = s
    BY <1>2, <1>3, <2>2, <2>3, <2>4
  <2>5. CASE t # s
    BY <1>2, <2>3, <2>5 DEF Others
  <2> QED
    BY <2>4, <2>5
<1>13. BookInv'
  BY <1>10, <1>11, <1>12 DEF BookInv
<1> QED
  BY <1>4, <1>5, <1>13 DEF AskBookMoves, article

\* Every step but a write or a request, seen from the alerts.
LEMMA CalmBook ==
    ASSUME BookInv, RulesInv', NEW s \in Slots,
           \/ \E j \in Jobs : TakeJob(s, j)
           \/ Fetch(s) \/ Connect(s) \/ InsertEntry(s) \/ ListActive(s)
           \/ (SlotLeaves(s) /\ ~CommitUnanswered(s))
    PROVE  BookInv' /\ UNCHANGED <<alerts, asked>>
<1>0. Shape /\ Shape' /\ faults \in Nat
  BY DEF BookInv, RulesInv, Shape, TypeOK
<1>1. UNCHANGED <<alerts, asked>>
  BY DEF TakeJob, Fetch, Connect, InsertEntry, ListActive, SlotLeaves,
         ReportUnchanged, Finish, ReportFailure, PauseFeed, StepFails, AbortVictim
<1>2. faults' = faults \/ faults' = faults + 1
  BY DEF TakeJob, Fetch, Connect, InsertEntry, ListActive, SlotLeaves,
         ReportUnchanged, Finish, ReportFailure, PauseFeed, StepFails, AbortVictim, Fault
<1>3. run[s].pc = "deliver" => run[s].created = <<>>
  <2>1. ~AbortVictim(s) \/ run[s].pc # "deliver"
    BY <1>0, WaitingHasJob DEF AbortVictim
  <2> QED
    BY <2>1 DEF TakeJob, Fetch, Connect, InsertEntry, ListActive, SlotLeaves,
         ReportUnchanged, Finish, ReportFailure, PauseFeed, StepFails, At, Stages
<1>4. CASE ListActive(s)
  <2>1. ListActiveMoves(s) /\ run[s].created = <<>>
    BY <1>0, <1>4, ListActiveEffect DEF ListActive, At, Shape, SlotOK
  <2>2. RowsOf(Upserts(s)) \subseteq Nat
    BY <1>0, StatementType DEF RowsOf
  <2>3. Upserted(s)' = {}
    <3>1. CASE RowsOf(Upserts(s)) = {}
      BY <2>1, <3>1 DEF ListActiveMoves, Upserted
    <3>2. CASE RowsOf(Upserts(s)) # {}
      <4>1. run'[s].pc = "upsert" /\ run'[s].upserts = Upserts(s) /\ run'[s].next \in Nat
            /\ \A m \in RowsOf(Upserts(s)) : run'[s].next <= m
        BY <2>1, <2>2, <3>2 DEF ListActiveMoves
      <4>2. \A m \in RowsOf(Upserts(s)) : ~(m < run'[s].next)
        BY <2>2, <4>1
      <4> QED
        BY <4>1, <4>2 DEF Upserted, At
    <3> QED
      BY <3>1, <3>2
  <2>4. Others(s) /\ run'[s].created = <<>>
    BY <2>1 DEF ListActiveMoves
  <2> QED
    BY <1>0, <1>1, <1>2, <1>3, <2>3, <2>4, CalmStep
<1>5. CASE ~ListActive(s)
  <2>1. Others(s) /\ run'[s].pc \notin {"upsert", "commit", "deliver"}
    BY <1>0, <1>5, TakeJobEffect, FetchEffect, ConnectEffect, InsertEffect, LeaveEffect
    DEF TakeJobMoves, FetchMoves, ConnectMoves, InsertMoves, Leaves
  <2>2. Upserted(s)' = {} /\ run'[s].created = <<>>
    BY <1>0, <2>1 DEF Upserted, At, Shape, SlotOK
  <2> QED
    BY <1>0, <1>1, <1>2, <1>3, <2>1, <2>2, CalmStep
<1> QED
  BY <1>4, <1>5

\* The steps outside the slots, and a crash, create no alert and ask for none.
LEMMA IdleBook ==
    ASSUME BookInv, RulesInv', QuietStep \/ Crash
    PROVE  BookInv' /\ UNCHANGED <<alerts, asked>>
<1>0. Shape
  BY DEF BookInv, RulesInv
<1>1. CASE QuietStep
  <2>1. UNCHANGED <<alerts, asked, run>> /\ (faults' = 0 => faults = 0)
    BY <1>0, <1>1, QuietEffect DEF QuietMoves
  <2>2. (\A t \in Slots : CreatedOK(t))' /\ (\A t, u \in Slots : t # u => Apart(t, u))'
    BY <2>1 DEF BookInv, CreatedOK, Apart, Upserted, RowsOf, At
  <2>3. UnaskedNeedsFault'
    BY <2>1 DEF BookInv, UnaskedNeedsFault, At
  <2> QED
    BY <2>1, <2>2, <2>3 DEF BookInv
<1>2. CASE Crash
  <2>1. CrashMoves
    BY <1>0, <1>2, CrashEffect
  <2>2. \A s \in Slots : run'[s].created = <<>> /\ Upserted(s)' = {}
    BY <2>1 DEF CrashMoves, IdleRun, Upserted, At
  <2>3. \A s \in Slots : CreatedOK(s)' /\ \A t \in Slots : Apart(s, t)'
    BY <2>2, CalmSlot
  <2>4. (\A t \in Slots : CreatedOK(t))' /\ (\A t, u \in Slots : t # u => Apart(t, u))'
    BY <2>3
  <2>5. UnaskedNeedsFault'
    BY <2>1 DEF CrashMoves, UnaskedNeedsFault
  <2> QED
    BY <2>1, <2>4, <2>5 DEF BookInv, CrashMoves
<1> QED
  BY <1>1, <1>2

\* Every step keeps BookInv, which holds at first.
LEMMA BookInvStep ==
    ASSUME BookInv, [Next]_vars
    PROVE  BookInv'
<1>0. RulesInv' /\ Shape
  BY RulesInvStep DEF BookInv, RulesInv
<1>1. ASSUME NEW s \in Slots, CommitUnanswered(s)
      PROVE  BookInv'
  BY <1>0, <1>1, LeaveEffect, UnansweredBook DEF SlotLeaves
<1> QED
  BY <1>0, <1>1, StepCases, IdleBook, CalmBook, UpsertBook, CommitBook, AskBook

\* No alert is listed when the worker starts.
LEMMA InitBookInv ==
    Init => BookInv
<1> SUFFICES ASSUME Init PROVE BookInv
  OBVIOUS
<1>1. \A s \in Slots : run[s].created = <<>> /\ Upserted(s) = {}
  BY DEF Init, IdleRun, Upserted, At
<1>2. \A s \in Slots : ~\E n \in DOMAIN run[s].created : TRUE
  BY <1>1
<1>3. \A s \in Slots : CreatedOK(s) /\ \A t \in Slots : Apart(s, t)
  BY <1>1, <1>2 DEF CreatedOK, Apart, Listed, Once
<1>4. UnaskedNeedsFault /\ \A a \in Articles : asked[a] # 0 => alerts[a] # {}
  BY DEF Init, UnaskedNeedsFault
<1> QED
  BY <1>3, <1>4, InitRulesInv DEF BookInv

\* Without a failure no alert is forgotten: an alert that nobody has asked a
\* delivery of is on the list of a job that is about to ask.
THEOREM UnaskedAreListed == Spec => []UnaskedNeedsFault
<1>1. BookInv /\ [Next]_vars => BookInv'
  BY BookInvStep
<1>2. BookInv => UnaskedNeedsFault
  BY DEF BookInv
<1> QED
  BY <1>1, <1>2, InitBookInv, PTL DEF Spec

\* Ingestion implements AlertBook: a COMMIT records, a request announces an
\* alert of the book that was never announced, and nothing else touches them.
THEOREM BookRefined == Spec => ImplementsAlertBook
<1>1. Init => Book!Init
  BY DEF Init, Book!Init
<1>2. ASSUME BookInv, [Next]_vars
      PROVE  [Book!Next]_(Book!bookVars)
  <2>0. RulesInv' /\ Shape
    BY <1>2, RulesInvStep DEF BookInv, RulesInv
  <2>1. ASSUME NEW s \in Slots, run[s].pc = "commit", WriteTransaction(s), asked' = asked
        PROVE  Book!Record
    BY <2>0, <2>1, WriteEffect DEF WriteMoves, Book!Record
  <2>2. ASSUME NEW s \in Slots, AskDelivery(s)
        PROVE  [Book!Next]_(Book!bookVars)
    <3>1. AskBookMoves(s) /\ Head(run[s].created) \in Articles /\ alerts' = alerts
      BY <1>2, <2>0, <2>2, AskBook, AskEffect DEF AskMoves, AskDelivery
    <3>2. CASE asked' = asked
      BY <3>1, <3>2 DEF Book!bookVars
    <3>3. CASE asked' = [asked EXCEPT ![Head(run[s].created)] = 1]
      BY <3>1, <3>3 DEF AskBookMoves, Book!Announce, Book!Next
    <3> QED
      BY <3>1, <3>2, <3>3 DEF AskBookMoves
  <2>3. ASSUME NEW s \in Slots, UpsertAlert(s)
        PROVE  UNCHANGED <<alerts, asked>>
    BY <2>3 DEF UpsertAlert
  <2>4. ASSUME NEW s \in Slots, Commit(s) \/ CommitUnanswered(s)
        PROVE  Book!Record
    BY <2>1, <2>4 DEF Commit, CommitUnanswered, At
  <2>5. UNCHANGED <<alerts, asked>> => [Book!Next]_(Book!bookVars)
    BY DEF Book!bookVars
  <2> QED
    BY <1>2, <2>0, <2>2, <2>3, <2>4, <2>5, StepCases, IdleBook, CalmBook DEF Book!Next
<1>3. BookInv /\ [Next]_vars => BookInv'
  BY BookInvStep
<1> QED
  BY <1>1, <1>2, <1>3, InitBookInv, PTL DEF Spec, ImplementsAlertBook, Book!Spec

-----------------------------------------------------------------------------
(* Connections and locks *)

\* The pool is larger than what the three queues of a worker can hold at once:
\* WORKER_CONCURRENCY is clamped to 3, and the pool of pg has 10 connections.
PoolSuffices == 3 * ConcurrencyCap < PoolMax

\* With such a pool a connection is always free.
LEMMA ConnectionsSuffice ==
    ASSUME PoolSuffices
    PROVE  ConnectionFree
<1>1. /\ WorkerConcurrency \in Nat /\ ConcurrencyCap \in Nat /\ PoolMax \in Nat
      /\ WorkerConcurrency <= ConcurrencyCap
  BY IngestionAssumption DEF WorkerConcurrency, Min2
<1>2. IsFiniteSet(Slots) /\ Cardinality(Slots) <= WorkerConcurrency
  BY <1>1, FS_Interval DEF Slots
<1>3. Holding \in SUBSET Slots
  BY DEF Holding
<1>4. /\ Cardinality(Holding) \in Nat /\ Cardinality(Slots) \in Nat
      /\ Cardinality(Holding) <= Cardinality(Slots)
  BY <1>2, <1>3, FS_Subset, FS_CardinalityType
<1> QED
  BY <1>1, <1>2, <1>4 DEF ConnectionFree, OtherClients, PoolSuffices

\* Slots that all wait for one of them: some of them wait in a cycle.
LEMMA WaitersHaveCycle ==
    ASSUME NEW stuck \in SUBSET Slots, stuck # {}, \A x \in stuck : WaitsFor(x) \cap stuck # {}
    PROVE  \E s \in stuck : InDeadlock(s)
<1> DEFINE Closed == {c \in SUBSET stuck : c # {} /\ \A x \in c : WaitsFor(x) \cap c # {}}
<1>1. IsFiniteSet(Slots)
  <2>1. WorkerConcurrency \in Nat
    BY IngestionAssumption DEF WorkerConcurrency, Min2
  <2> QED
    BY <2>1, FS_Interval DEF Slots
<1>2. Closed \subseteq FiniteSubsetsOf(Slots) /\ Closed # {}
  <2>1. stuck \in Closed
    OBVIOUS
  <2>2. \A c \in Closed : c \in SUBSET Slots
    OBVIOUS
  <2> QED
    BY <1>1, <2>1, <2>2, FS_FiniteSubsetsOfFinite
<1> HIDE DEF Closed
<1>3. PICK cycle \in Closed : \A c \in Closed : ~(<<c, cycle>> \in StrictSubsetOrdering(Slots))
  BY <1>2, FS_StrictSubsetOrderingWellFounded, WFMin
<1>4. cycle \in SUBSET stuck /\ cycle # {} /\ \A x \in cycle : WaitsFor(x) \cap cycle # {}
  BY DEF Closed
<1>5. \A x \in Slots : x \notin WaitsFor(x)
  BY DEF WaitsFor, EntryHolders, AlertHolders
<1>6. ASSUME NEW x \in cycle, ~\E y \in cycle : x \in WaitsFor(y)
      PROVE  FALSE
  <2> DEFINE fewer == cycle \ {x}
  <2>1. \A y \in fewer : WaitsFor(y) \cap fewer # {}
    BY <1>4, <1>6
  <2>2. fewer # {}
    BY <1>4, <1>5
  <2>3. fewer \in Closed
    BY <1>4, <2>1, <2>2 DEF Closed
  <2>4. <<fewer, cycle>> \in StrictSubsetOrdering(Slots)
    BY <1>4 DEF StrictSubsetOrdering
  <2> QED
    BY <1>3, <2>3, <2>4
<1>7. \A x \in cycle : InDeadlock(x)
  BY <1>4, <1>6 DEF InDeadlock
<1> QED
  BY <1>4, <1>7

\* With that pool the jobs of a worker never stop one another: in every state
\* with a busy slot, one of them can go on, or PostgreSQL finds a cycle to break.
THEOREM NoGridlockWithPool ==
    ASSUME PoolSuffices
    PROVE  Spec => []NoGridlock
<1>1. ConnectionFree
  BY ConnectionsSuffice
<1>2. NoGridlock
  <2> DEFINE busy == {s \in Slots : ~At(s, "idle")}
  <2>1. ASSUME busy # {}, \A s \in busy : WaitsFor(s) # {}
        PROVE  \E s \in busy : InDeadlock(s)
    <3>1. \A s \in busy : WaitsFor(s) \subseteq busy
      BY DEF WaitsFor, EntryHolders, AlertHolders, Holding, Stages, At
    <3>2. \A s \in busy : WaitsFor(s) \cap busy # {}
      BY <2>1, <3>1
    <3> HIDE DEF busy
    <3>3. busy \in SUBSET Slots
      BY DEF busy
    <3> QED
      BY <2>1, <3>2, <3>3, WaitersHaveCycle
  <2> QED
    BY <1>1, <2>1 DEF NoGridlock
<1> QED
  BY <1>2, PTL
=============================================================================
