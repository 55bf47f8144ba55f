-------------------------- MODULE MigrationsProofs --------------------------
(***************************************************************************)
(* Migration runs are safe for every number of containers, images, files    *)
(* and failures. That a file runs once and in order does not rest on the    *)
(* advisory lock: it follows from the claim, the row that the transaction   *)
(* of the file inserts first (ClaimsAgree), and from what a runner knows    *)
(* about the files behind it (Progress). That a container serves only the   *)
(* content of its own files does rest on the lock (Exclusive): a row        *)
(* without checksum is read in one statement and filled in another.         *)
(***************************************************************************)
EXTENDS Migrations, TLAPS

Loop == {"claim", "check", "backfill", "execute"}
Busy == Loop \cup {"unlock_ok", "unlock_failed"}

\* What a runner that has passed a file may rely on.
Settled(r, v) == IF lockLost THEN table[v] # NoBody ELSE table[v] = Files[r][v]

\* Where a runner is, and what it has behind it.
Progress ==
    \A r \in Runners :
        /\ At(r, "lock") => run[r].tries >= 1 /\ File(r) = 1
        /\ run[r].pc \in Loop => File(r) \in 1 .. Len(Files[r]) /\ \A w \in 1 .. File(r) - 1 : Settled(r, w)
        /\ run[r].pc \in {"unlock_ok", "serving"} => \A w \in 1 .. Len(Files[r]) : Settled(r, w)
        /\ run[r].pc \in {"check", "backfill"} => table[File(r)] # NoBody
        /\ At(r, "backfill") => lockLost \/ table[File(r)] = Unhashed

\* A version is claimed by the runner that executes it, and has no row yet.
ClaimsAgree ==
    \A r \in Runners :
        /\ \A v \in Versions : claims[v] = r <=> At(r, "execute") /\ File(r) = v
        /\ At(r, "execute") => table[File(r)] = NoBody

\* As long as no lock was lost, only its holder works.
Exclusive == lockLost \/ \A r \in Runners : run[r].pc \in Busy => lock = r

IInv == TypeOK /\ Progress /\ ClaimsAgree /\ Exclusive /\ ExecutedOnceInOrder

\* The files of an image are among the versions, and each has a body.
LEMMA FilesTyped ==
    ASSUME NEW r \in Runners
    PROVE  /\ Len(Files[r]) \in Nat \ {0} /\ LastVersion \in Nat /\ Len(Files[r]) <= LastVersion
           /\ \A v \in 1 .. Len(Files[r]) : v \in Versions /\ Files[r][v] \in Bodies
           /\ DOMAIN Files[r] = 1 .. Len(Files[r])
<1>1. Files[r] \in Seq(Bodies) /\ Len(Files[r]) > 0 /\ LastVersion \in Nat /\ Len(Files[r]) <= LastVersion
  BY MigrationsAssumption
<1> HIDE DEF LastVersion, Bodies
<1> QED
  BY <1>1 DEF Versions

\* Nothing is claimed or executed when the containers start.
LEMMA InitIInv ==
    Init => IInv
<1> SUFFICES ASSUME Init PROVE IInv
  OBVIOUS
<1> HIDE DEF LastVersion, Bodies
<1>1. TypeOK
  <2>1. FreshRun \in Run
    BY MigrationsAssumption DEF FreshRun, Run
  <2>2. table \in [Versions -> Bodies \cup {NoBody, Unhashed}] /\ MaxFaults \in Nat
    BY MigrationsAssumption DEF Init
  <2>3. executed \in [Versions -> Nat] /\ claims \in [Versions -> Runners \cup {NoRunner}] /\ run \in [Runners -> Run]
    BY <2>1 DEF Init
  <2>4. faults \in 0 .. MaxFaults
    BY <2>2 DEF Init
  <2>5. lock \in Runners \cup {NoRunner} /\ lockLost \in BOOLEAN
    BY Zenon DEF Init
  <2> QED
    BY <2>2, <2>3, <2>4, <2>5 DEF TypeOK
<1>2. Progress
  <2>1. LockTries >= 1
    BY MigrationsAssumption
  <2>2. \A r \in Runners : run[r].pc = "lock" /\ run[r].tries >= 1 /\ run[r].file = 1
    BY <2>1 DEF Init, FreshRun
  <2> QED
    BY <2>2 DEF Progress, At, File, Loop
<1>3. ClaimsAgree
  BY MigrationsAssumption DEF Init, ClaimsAgree, FreshRun, At
<1>4. Exclusive
  BY DEF Init, Exclusive, FreshRun, Busy, Loop
<1>5. ExecutedOnceInOrder
  BY MigrationsAssumption DEF Init, ExecutedOnceInOrder, Applied, Versions
<1> QED
  BY <1>1, <1>2, <1>3, <1>4, <1>5 DEF IInv

\* A row only changes from nothing or from no checksum to a body, so what a
\* runner has behind it stays settled.
LEMMA SettledStays ==
    ASSUME NEW q \in Runners, NEW w \in 1 .. Len(Files[q]), Settled(q, w),
           table'[w] = table[w] \/ (table[w] \in {NoBody, Unhashed} /\ table'[w] \in Bodies),
           lockLost => lockLost', lockLost \in BOOLEAN
    PROVE  Settled(q, w)'
<1>1. Files[q][w] \in Bodies
  BY FilesTyped
<1> QED
  BY <1>1, MigrationsAssumption DEF Settled

\* A step that changes neither rows nor claims: one runner moves, to a place
\* where it may be.
LEMMA MoveStep ==
    ASSUME IInv, NEW r \in Runners, UNCHANGED <<table, executed>>,
           run' \in [Runners -> Run], \A q \in Runners \ {r} : run'[q] = run[q],
           lockLost' \in BOOLEAN, lockLost => lockLost', lock' \in Runners \cup {NoRunner}, faults' \in 0 .. MaxFaults,
           claims' \in [Versions -> Runners \cup {NoRunner}],
           \A v \in Versions : claims[v] \notin {r, NoRunner} => claims'[v] = claims[v],
           \A v \in Versions : claims'[v] # claims[v] => claims'[v] \in {r, NoRunner},
           \A v \in Versions : claims'[v] = r <=> At(r, "execute")' /\ File(r)' = v,
           At(r, "execute")' => table[File(r)'] = NoBody,
           At(r, "lock")' => run'[r].tries >= 1 /\ File(r)' = 1,
           run'[r].pc \in Loop => File(r)' \in 1 .. Len(Files[r]) /\ \A w \in 1 .. File(r)' - 1 : Settled(r, w),
           run'[r].pc \in {"unlock_ok", "serving"} => \A w \in 1 .. Len(Files[r]) : Settled(r, w),
           run'[r].pc \in {"check", "backfill"} => table[File(r)'] # NoBody,
           At(r, "backfill")' => lockLost \/ table[File(r)'] = Unhashed,
           Exclusive'
    PROVE  IInv'
<1> HIDE DEF LastVersion, Bodies
<1> USE DEF IInv
<1>1. TypeOK'
  BY DEF TypeOK
<1>2. ASSUME NEW q \in Runners, NEW w \in 1 .. Len(Files[q]), Settled(q, w) PROVE Settled(q, w)'
  BY <1>2, SettledStays DEF TypeOK
<1>3. ClaimsAgree'
  <2>1. r # NoRunner
    BY MigrationsAssumption
  <2>2. ASSUME NEW q \in Runners \ {r}, NEW v \in Versions PROVE claims'[v] = q <=> claims[v] = q
    BY <2>2, MigrationsAssumption
  <2> QED
    BY <2>1, <2>2 DEF ClaimsAgree, At, File
<1>4. ASSUME NEW q \in Runners, run'[q].pc \in Loop
      PROVE  File(q)' \in 1 .. Len(Files[q]) /\ \A w \in 1 .. File(q)' - 1 : Settled(q, w)'
  <2>1. File(q)' \in 1 .. Len(Files[q]) /\ \A w \in 1 .. File(q)' - 1 : Settled(q, w)
    BY <1>4 DEF Progress, File
  <2>2. Len(Files[q]) \in Nat
    BY FilesTyped
  <2>3. \A w \in 1 .. File(q)' - 1 : w \in 1 .. Len(Files[q])
    BY <2>1, <2>2
  <2> QED
    BY <1>2, <2>1, <2>3
<1>5. ASSUME NEW q \in Runners, run'[q].pc \in {"unlock_ok", "serving"}
      PROVE  \A w \in 1 .. Len(Files[q]) : Settled(q, w)'
  BY <1>2, <1>5 DEF Progress
<1>6. Progress'
  BY <1>4, <1>5 DEF Progress, At, File
<1>7. ExecutedOnceInOrder'
  BY DEF ExecutedOnceInOrder, Applied
<1> QED
  BY <1>1, <1>3, <1>6, <1>7

\* NextFile: the file that a runner leaves behind is settled.
LEMMA NextFileMoves ==
    ASSUME IInv, NEW r \in Runners, run[r].pc \in Loop, NextFile(r)
    PROVE  /\ run' \in [Runners -> Run] /\ \A q \in Runners \ {r} : run'[q] = run[q]
           /\ run'[r].pc = IF File(r) = Len(Files[r]) THEN "unlock_ok" ELSE "claim"
           /\ run'[r].file = File(r) + 1 /\ File(r) \in 1 .. Len(Files[r])
           /\ File(r) # Len(Files[r]) => File(r) + 1 \in 1 .. Len(Files[r])
<1> HIDE DEF LastVersion, Bodies
<1>1. File(r) \in 1 .. Len(Files[r])
  BY DEF IInv, Progress
<1>2. Len(Files[r]) \in Nat /\ LastVersion \in Nat /\ Len(Files[r]) <= LastVersion
  BY FilesTyped
<1>3. run \in [Runners -> Run]
  BY DEF IInv, TypeOK
<1>4. File(r) + 1 \in 1 .. LastVersion + 1
  BY <1>1, <1>2
<1>5. run'[r] = [run[r] EXCEPT !.file = File(r) + 1, !.pc = IF File(r) = Len(Files[r]) THEN "unlock_ok" ELSE "claim"]
  BY <1>3 DEF NextFile, File, Run
<1>6. run' \in [Runners -> Run]
  <2>1. run'[r] \in Run
    BY <1>3, <1>4, <1>5 DEF Run
  <2>2. run' = [run EXCEPT ![r] = run'[r]]
    BY <1>3 DEF NextFile
  <2> QED
    BY <1>3, <2>1, <2>2
<1>7. \A q \in Runners \ {r} : run'[q] = run[q]
  BY <1>3 DEF NextFile
<1>8. run'[r].pc = (IF File(r) = Len(Files[r]) THEN "unlock_ok" ELSE "claim") /\ run'[r].file = File(r) + 1
  BY <1>3, <1>5 DEF Run
<1>9. File(r) # Len(Files[r]) => File(r) + 1 \in 1 .. Len(Files[r])
  BY <1>1, <1>2
<1> QED
  BY <1>1, <1>6, <1>7, <1>8, <1>9

\* The advisory lock is taken, or one more try is used up.
LEMMA AcquireLockStep ==
    ASSUME IInv, NEW r \in Runners, AcquireLock(r)
    PROVE  IInv'
<1> HIDE DEF LastVersion, Bodies
<1> USE DEF IInv
<1>0. /\ run \in [Runners -> Run] /\ run[r].pc = "lock" /\ run[r].file = 1 /\ run[r].tries >= 1
      /\ run[r].tries \in 0 .. LockTries /\ LockTries \in Nat
      /\ UNCHANGED <<table, executed, claims, faults, lockLost>>
  BY MigrationsAssumption DEF AcquireLock, TypeOK, Run, Progress, At, File
<1>1. \A v \in Versions : claims[v] # r
  BY <1>0 DEF ClaimsAgree, At
<1>2. 1 \in 1 .. Len(Files[r]) /\ r # NoRunner
  BY FilesTyped, MigrationsAssumption
<1>3. CASE lock = NoRunner /\ lock' = r /\ Goto(r, "claim")
  <2>1. run' = [run EXCEPT ![r].pc = "claim"]
    BY <1>3 DEF Goto
  <2>2. run' \in [Runners -> Run] /\ run'[r].pc = "claim" /\ run'[r].file = 1 /\ \A q \in Runners \ {r} : run'[q] = run[q]
    BY <1>0, <2>1 DEF Run
  <2>3. Exclusive'
    BY <1>0, <1>2, <1>3, <2>2, MigrationsAssumption DEF Exclusive
  <2>4. \A w \in 1 .. File(r)' - 1 : Settled(r, w)
    BY <2>2 DEF File
  <2> QED
    BY <1>0, <1>1, <1>2, <1>3, <2>2, <2>3, <2>4, MoveStep DEF TypeOK, At, File
<1>4. CASE UNCHANGED lock
           /\ run' = [run EXCEPT ![r].tries = @ - 1, ![r].pc = IF run[r].tries = 1 THEN "failed" ELSE "lock"]
  <2>1. /\ run' \in [Runners -> Run] /\ \A q \in Runners \ {r} : run'[q] = run[q]
        /\ run'[r].pc \in {"failed", "lock"} /\ run'[r].file = 1
        /\ run'[r].pc = "lock" => run'[r].tries >= 1
    <3>1. run'[r] = [run[r] EXCEPT !.tries = run[r].tries - 1, !.pc = IF run[r].tries = 1 THEN "failed" ELSE "lock"]
      BY <1>0, <1>4
    <3>2. run'[r] \in Run
      <4>1. run[r].tries - 1 \in 0 .. LockTries
        BY <1>0
      <4>2. run[r] \in Run
        BY <1>0
      <4> QED
        BY <3>1, <4>1, <4>2 DEF Run
    <3>3. run' = [run EXCEPT ![r] = run'[r]]
      BY <1>0, <1>4
    <3>4. run'[r].pc \in {"failed", "lock"} /\ run'[r].file = 1 /\ (run'[r].pc = "lock" => run'[r].tries >= 1)
      BY <1>0, <3>1 DEF Run
    <3> QED
      BY <1>0, <3>2, <3>3, <3>4
  <2>2. run'[r].pc \notin Busy
    BY <2>1 DEF Busy, Loop
  <2>3. Exclusive'
    BY <1>0, <1>4, <2>1, <2>2 DEF Exclusive
  <2> QED
    BY <1>0, <1>1, <1>4, <2>1, <2>2, <2>3, MoveStep DEF TypeOK, At, File, Busy, Loop
<1> QED
  BY <1>3, <1>4 DEF AcquireLock

\* The INSERT of the row finds nobody else's, or a row.
LEMMA ClaimStep ==
    ASSUME IInv, NEW r \in Runners, Claim(r)
    PROVE  IInv'
<1> DEFINE f == File(r)
<1> HIDE DEF LastVersion, Bodies
<1> USE DEF IInv
<1>0. /\ run \in [Runners -> Run] /\ run[r].pc = "claim" /\ f \in 1 .. Len(Files[r]) /\ f \in Versions
      /\ \A w \in 1 .. f - 1 : Settled(r, w)
      /\ claims[f] = NoRunner
      /\ UNCHANGED <<table, executed, lock, faults, lockLost>>
  BY FilesTyped DEF Claim, TypeOK, Progress, At, Loop
<1>1. \A v \in Versions : claims[v] # r
  BY <1>0 DEF ClaimsAgree, At
<1>2. ASSUME NEW pc \in {"execute", "check"}, Goto(r, pc)
      PROVE  /\ run' \in [Runners -> Run] /\ run'[r].pc = pc /\ run'[r].file = f /\ \A q \in Runners \ {r} : run'[q] = run[q]
             /\ Exclusive'
  <2>1. /\ run' \in [Runners -> Run] /\ run'[r].pc = pc /\ run'[r].file = f /\ \A q \in Runners \ {r} : run'[q] = run[q]
    BY <1>0, <1>2 DEF Goto, Run, File
  <2>2. Exclusive'
    BY <1>0, <2>1 DEF Exclusive, Busy, Loop
  <2> QED
    BY <2>1, <2>2
<1>3. CASE table[f] = NoBody /\ claims' = [claims EXCEPT ![f] = r] /\ Goto(r, "execute")
  <2>1. claims' \in [Versions -> Runners \cup {NoRunner}] /\ \A v \in Versions : claims'[v] = IF v = f THEN r ELSE claims[v]
    BY <1>0, <1>3 DEF TypeOK
  <2> QED
    BY <1>0, <1>1, <1>2, <1>3, <2>1, MoveStep DEF TypeOK, At, File
<1>4. CASE table[f] # NoBody /\ UNCHANGED claims /\ Goto(r, "check")
  BY <1>0, <1>1, <1>2, <1>4, MoveStep DEF TypeOK, At, File
<1> QED
  BY <1>3, <1>4 DEF Claim

\* The recorded checksum is missing, right or wrong.
LEMMA CheckRecordedStep ==
    ASSUME IInv, NEW r \in Runners, CheckRecorded(r)
    PROVE  IInv'
<1> DEFINE f == File(r)
<1> HIDE DEF LastVersion, Bodies
<1> USE DEF IInv
<1>0. /\ run \in [Runners -> Run] /\ run[r].pc = "check" /\ f \in 1 .. Len(Files[r])
      /\ \A w \in 1 .. f - 1 : Settled(r, w)
      /\ table[f] # NoBody
      /\ UNCHANGED <<table, executed, claims, lock, faults, lockLost>>
  BY DEF CheckRecorded, TypeOK, Progress, At, Loop
<1>1. \A v \in Versions : claims[v] # r
  BY <1>0 DEF ClaimsAgree, At
<1>2. ASSUME NEW pc \in {"backfill", "unlock_failed"}, Goto(r, pc), pc = "backfill" => table[f] = Unhashed
      PROVE  IInv'
  <2>1. /\ run' \in [Runners -> Run] /\ run'[r].pc = pc /\ run'[r].file = f /\ \A q \in Runners \ {r} : run'[q] = run[q]
    BY <1>0, <1>2 DEF Goto, Run, File
  <2>2. Exclusive'
    BY <1>0, <2>1 DEF Exclusive, Busy, Loop
  <2> QED
    BY <1>0, <1>1, <1>2, <2>1, <2>2, MoveStep DEF TypeOK, At, File
<1>3. CASE table[f] = Body(r) /\ NextFile(r)
  <2>1. Settled(r, f)
    BY <1>0, <1>3 DEF Settled, Body
  <2>2. /\ run' \in [Runners -> Run] /\ \A q \in Runners \ {r} : run'[q] = run[q]
        /\ run'[r].pc = IF f = Len(Files[r]) THEN "unlock_ok" ELSE "claim"
        /\ run'[r].file = f + 1
        /\ f # Len(Files[r]) => f + 1 \in 1 .. Len(Files[r])
    BY <1>0, <1>3, NextFileMoves DEF Loop
  <2>3. \A w \in 1 .. f : Settled(r, w)
    BY <1>0, <2>1
  <2>4. Exclusive'
    BY <1>0, <2>2 DEF Exclusive, Busy, Loop
  <2>5. f + 1 - 1 = f
    BY <1>0
  <2> QED
    BY <1>0, <1>1, <2>2, <2>3, <2>4, <2>5, MoveStep DEF TypeOK, At, File, Loop
<1> QED
  BY <1>2, <1>3 DEF CheckRecorded

\* The finally block gives the lock back; a run without failure serves.
LEMMA UnlockStep ==
    ASSUME IInv, NEW r \in Runners, Unlock(r)
    PROVE  IInv'
<1> DEFINE pc == IF At(r, "unlock_ok") /\ ~run[r].cut THEN "serving" ELSE "failed"
<1> HIDE DEF LastVersion, Bodies
<1> USE DEF IInv
<1>0. /\ run \in [Runners -> Run] /\ run[r].pc \in {"unlock_ok", "unlock_failed"}
      /\ UNCHANGED <<table, executed, claims, faults, lockLost>>
      /\ lock' = IF lock = r THEN NoRunner ELSE lock
  BY DEF Unlock, TypeOK
<1>1. \A v \in Versions : claims[v] # r
  BY <1>0 DEF ClaimsAgree, At
<1>2. run' \in [Runners -> Run] /\ run'[r].pc = pc /\ \A q \in Runners \ {r} : run'[q] = run[q]
  BY <1>0 DEF Unlock, Goto, Run
<1>3. pc \notin Busy /\ pc \in {"serving", "failed"}
  BY DEF Busy, Loop
<1>4. Exclusive'
  BY <1>0, <1>2, <1>3 DEF Exclusive
<1>5. pc = "serving" => \A w \in 1 .. Len(Files[r]) : Settled(r, w)
  BY DEF Progress, At
<1> HIDE DEF pc
<1> QED
  BY <1>0, <1>1, <1>2, <1>3, <1>4, <1>5, MoveStep DEF TypeOK, At, Busy, Loop

\* The session of a process that dies takes its lock and its claim with it.
LEMMA CrashStep ==
    ASSUME IInv, NEW r \in Runners, Crash(r)
    PROVE  IInv'
<1> HIDE DEF LastVersion, Bodies
<1> USE DEF IInv
<1>0. /\ run \in [Runners -> Run] /\ FreshRun \in Run /\ faults' \in 0 .. MaxFaults
      /\ UNCHANGED <<table, executed, lockLost>>
      /\ lock' = IF lock = r THEN NoRunner ELSE lock
      /\ claims' = [v \in Versions |-> IF claims[v] = r THEN NoRunner ELSE claims[v]]
      /\ run' = [run EXCEPT ![r] = FreshRun]
      /\ r # NoRunner /\ LockTries >= 1
  BY MigrationsAssumption DEF Crash, TypeOK, Fault, FreshRun, Run
<1>1. /\ run' \in [Runners -> Run] /\ \A q \in Runners \ {r} : run'[q] = run[q]
      /\ run'[r].pc = "lock" /\ run'[r].file = 1 /\ run'[r].tries >= 1
  BY <1>0 DEF FreshRun
<1>2. claims' \in [Versions -> Runners \cup {NoRunner}] /\ \A v \in Versions : claims'[v] # r
  BY <1>0 DEF TypeOK
<1>3. Exclusive'
  BY <1>0, <1>1 DEF Exclusive, Busy, Loop
<1> QED
  BY <1>0, <1>1, <1>2, <1>3, MoveStep DEF TypeOK, At, File, Loop

\* The lock goes while its run does not.
LEMMA LoseLockStep ==
    ASSUME IInv, NEW r \in Runners, LoseLock(r)
    PROVE  IInv'
<1> HIDE DEF LastVersion, Bodies
<1> USE DEF IInv
<1>0. /\ run \in [Runners -> Run] /\ faults' \in 0 .. MaxFaults /\ UNCHANGED <<table, executed, claims>>
      /\ lock' = NoRunner /\ lockLost' = TRUE
      /\ run' = [run EXCEPT ![r].cut = TRUE]
  BY MigrationsAssumption DEF LoseLock, TypeOK, Fault
<1>1. /\ run' \in [Runners -> Run] /\ \A q \in Runners \ {r} : run'[q] = run[q]
      /\ run'[r].pc = run[r].pc /\ run'[r].file = run[r].file /\ run'[r].tries = run[r].tries
  BY <1>0 DEF Run
<1>2. Exclusive'
  BY <1>0 DEF Exclusive
<1>3. \A v \in Versions : claims'[v] = r <=> At(r, "execute")' /\ File(r)' = v
  BY <1>0, <1>1 DEF ClaimsAgree, At, File
<1>4. At(r, "execute")' => table[File(r)'] = NoBody
  BY <1>0, <1>1 DEF ClaimsAgree, At, File
<1>5. /\ At(r, "lock")' => run'[r].tries >= 1 /\ File(r)' = 1
      /\ run'[r].pc \in Loop => File(r)' \in 1 .. Len(Files[r]) /\ \A w \in 1 .. File(r)' - 1 : Settled(r, w)
      /\ run'[r].pc \in {"unlock_ok", "serving"} => \A w \in 1 .. Len(Files[r]) : Settled(r, w)
      /\ run'[r].pc \in {"check", "backfill"} => table[File(r)'] # NoBody
      /\ At(r, "backfill")' => lockLost \/ table[File(r)'] = Unhashed
  BY <1>0, <1>1 DEF Progress, At, File
<1> QED
  BY <1>0, <1>1, <1>2, <1>3, <1>4, <1>5, MoveStep DEF TypeOK

\* The step that fills in one row: what every runner has behind it stays
\* settled, no other runner reads or holds that row as missing, and the runner
\* moves to a place where it may be.
LEMMA RecordStep ==
    ASSUME IInv, NEW r \in Runners, NEW f \in 1 .. Len(Files[r]), f = File(r),
           NEW before \in {NoBody, Unhashed}, table[f] = before,
           table' = [table EXCEPT ![f] = Files[r][f]],
           run[r].pc \in Loop,
           run' \in [Runners -> Run], \A q \in Runners \ {r} : run'[q] = run[q],
           UNCHANGED <<lock, lockLost>>, faults' \in 0 .. MaxFaults,
           claims' \in [Versions -> Runners \cup {NoRunner}],
           \A v \in Versions : claims'[v] # r /\ \A q \in Runners \ {r} : claims'[v] = q <=> claims[v] = q,
           \A q \in Runners \ {r} : claims[f] # q,
           before = Unhashed => executed' = executed,
           before = NoBody => executed' = [executed EXCEPT ![f] = @ + 1],
           \/ run'[r].pc = "unlock_failed"
           \/ /\ run'[r].pc = IF f = Len(Files[r]) THEN "unlock_ok" ELSE "claim"
              /\ run'[r].file = f + 1
    PROVE  IInv'
<1> HIDE DEF LastVersion, Bodies
<1> USE DEF IInv
<1>0. /\ f \in Versions /\ Files[r][f] \in Bodies /\ Len(Files[r]) \in Nat
      /\ table \in [Versions -> Bodies \cup {NoBody, Unhashed}]
      /\ NoBody \notin Bodies /\ Unhashed \notin Bodies /\ NoBody # Unhashed
  BY FilesTyped, MigrationsAssumption DEF TypeOK
<1>1. /\ table'[f] = Files[r][f] /\ table'[f] # NoBody
      /\ \A v \in Versions : v # f => table'[v] = table[v]
      /\ \A v \in Versions : table[v] # NoBody => table'[v] # NoBody
  BY <1>0
<1>2. TypeOK'
  <2>1. executed' \in [Versions -> Nat]
    BY <1>0 DEF TypeOK
  <2>2. table' \in [Versions -> Bodies \cup {NoBody, Unhashed}]
    BY <1>0
  <2> QED
    BY <2>1, <2>2 DEF TypeOK
<1>3. ASSUME NEW q \in Runners, NEW w \in 1 .. Len(Files[q]), Settled(q, w) PROVE Settled(q, w)'
  <2>1. w \in Versions
    BY FilesTyped
  <2>2. table'[w] = table[w] \/ (table[w] \in {NoBody, Unhashed} /\ table'[w] \in Bodies)
    BY <1>0, <1>1, <2>1
  <2> QED
    BY <1>3, <2>2, SettledStays DEF TypeOK
<1>4. Settled(r, f)'
  BY <1>1 DEF Settled
<1>5. \A w \in 1 .. f : Settled(r, w)'
  <2>1. \A w \in 1 .. f - 1 : Settled(r, w) /\ w \in 1 .. Len(Files[r])
    BY <1>0 DEF Progress
  <2> QED
    BY <1>3, <1>4, <2>1, <1>0
<1>6. ClaimsAgree'
  <2>1. run'[r].pc # "execute"
    OBVIOUS
  <2>2. ASSUME NEW q \in Runners \ {r}, run[q].pc = "execute" PROVE run[q].file # f /\ table'[run[q].file] = NoBody
    <3>1. run[q].file \in Versions /\ table[run[q].file] = NoBody /\ claims[run[q].file] = q
      BY <2>2, FilesTyped DEF ClaimsAgree, Progress, At, File, Loop
    <3> QED
      BY <1>1, <3>1
  <2> QED
    BY <2>1, <2>2 DEF ClaimsAgree, At, File
<1>7. Exclusive'
  BY DEF Exclusive, Busy
<1>8. Progress'
  <2>1. ASSUME NEW q \in Runners \ {r}, run[q].pc \in Loop
        PROVE  run[q].file \in 1 .. Len(Files[q]) /\ run[q].file \in Versions /\ \A w \in 1 .. run[q].file - 1 : Settled(q, w)'
    <3>1. run[q].file \in 1 .. Len(Files[q]) /\ \A w \in 1 .. run[q].file - 1 : Settled(q, w)
      BY <2>1 DEF Progress, File
    <3>2. Len(Files[q]) \in Nat /\ run[q].file \in Versions
      BY <3>1, FilesTyped
    <3> QED
      BY <1>3, <3>1, <3>2
  <2>2. ASSUME NEW q \in Runners \ {r}, run[q].pc \in {"unlock_ok", "serving"}
        PROVE  \A w \in 1 .. Len(Files[q]) : Settled(q, w)'
    BY <1>3, <2>2 DEF Progress
  <2>3. ASSUME NEW q \in Runners \ {r}, run[q].pc \in {"check", "backfill"} PROVE table'[run[q].file] # NoBody
    <3>1. run[q].file \in Versions
      BY <2>1, <2>3 DEF Loop
    <3> QED
      BY <1>1, <2>3, <3>1 DEF Progress, File
  <2>4. ASSUME NEW q \in Runners \ {r}, run[q].pc = "backfill" PROVE lockLost
    BY <2>4 DEF Exclusive, Busy, Loop
  <2>5. ASSUME NEW q \in Runners \ {r}
        PROVE  /\ At(q, "lock")' => run'[q].tries >= 1 /\ File(q)' = 1
               /\ run'[q].pc \in Loop => File(q)' \in 1 .. Len(Files[q]) /\ \A w \in 1 .. File(q)' - 1 : Settled(q, w)'
               /\ run'[q].pc \in {"unlock_ok", "serving"} => \A w \in 1 .. Len(Files[q]) : Settled(q, w)'
               /\ run'[q].pc \in {"check", "backfill"} => table'[File(q)'] # NoBody
               /\ At(q, "backfill")' => lockLost' \/ table'[File(q)'] = Unhashed
    BY <2>1, <2>2, <2>3, <2>4 DEF Progress, At, File
  <2>6. f + 1 - 1 = f /\ (f # Len(Files[r]) => f + 1 \in 1 .. Len(Files[r]))
    BY <1>0
  <2>7. /\ At(r, "lock")' => run'[r].tries >= 1 /\ File(r)' = 1
        /\ run'[r].pc \in Loop => File(r)' \in 1 .. Len(Files[r]) /\ \A w \in 1 .. File(r)' - 1 : Settled(r, w)'
        /\ run'[r].pc \in {"unlock_ok", "serving"} => \A w \in 1 .. Len(Files[r]) : Settled(r, w)'
        /\ run'[r].pc \in {"check", "backfill"} => table'[File(r)'] # NoBody
        /\ At(r, "backfill")' => lockLost' \/ table'[File(r)'] = Unhashed
    <3>1. CASE run'[r].pc = "unlock_failed"
      BY <3>1 DEF Loop, At
    <3>2. CASE run'[r].pc = "unlock_ok" /\ f = Len(Files[r])
      BY <1>5, <3>2 DEF Loop, At
    <3>3. CASE run'[r].pc = "claim" /\ f # Len(Files[r]) /\ run'[r].file = f + 1
      BY <1>5, <2>6, <3>3 DEF Loop, At, File
    <3> QED
      BY <3>1, <3>2, <3>3
  <2> QED
    BY <2>5, <2>7 DEF Progress
<1>9. ExecutedOnceInOrder'
  <2>1. \A w \in 1 .. f : table'[w] # NoBody
    <3>1. \A w \in 1 .. f : w \in Versions /\ Files[r][w] \in Bodies
      BY <1>0, FilesTyped
    <3> QED
      BY <1>0, <1>5, <3>1 DEF Settled
  <2>2. \A v \in Versions : table'[v] # NoBody => \A w \in 1 .. v : w \in Versions /\ table'[w] # NoBody
    <3>1. \A v \in Versions : \A w \in 1 .. v : w \in Versions
      BY MigrationsAssumption DEF Versions
    <3> QED
      BY <1>1, <2>1, <3>1 DEF ExecutedOnceInOrder, Applied
  <2>3. \A v \in Versions : executed'[v] <= 1 /\ (executed'[v] = 1 => table'[v] # NoBody)
    <3>1. CASE before = Unhashed
      BY <1>1, <3>1 DEF ExecutedOnceInOrder
    <3>2. CASE before = NoBody
      <4>1. executed[f] = 0
        BY <1>0, <3>2 DEF ExecutedOnceInOrder, TypeOK
      <4>2. executed' = [executed EXCEPT ![f] = @ + 1]
        BY <3>2
      <4> QED
        BY <1>0, <1>1, <4>1, <4>2 DEF ExecutedOnceInOrder, TypeOK
    <3> QED
      BY <3>1, <3>2
  <2> QED
    BY <2>2, <2>3 DEF ExecutedOnceInOrder, Applied
<1> QED
  BY <1>2, <1>6, <1>7, <1>8, <1>9

\* The checksum that was missing is filled in, or somebody else has done so.
LEMMA BackfillStep ==
    ASSUME IInv, NEW r \in Runners, Backfill(r)
    PROVE  IInv'
<1> DEFINE f == File(r)
<1> HIDE DEF LastVersion, Bodies
<1> USE DEF IInv
<1>0. /\ run[r].pc = "backfill" /\ run[r].pc \in Loop
      /\ f \in 1 .. Len(Files[r]) /\ f \in Versions /\ table[f] # NoBody
      /\ \A w \in 1 .. f - 1 : Settled(r, w)
      /\ lockLost \/ table[f] = Unhashed
      /\ UNCHANGED <<executed, claims, lock, faults, lockLost>>
      /\ table \in [Versions -> Bodies \cup {NoBody, Unhashed}]
      /\ table' = [table EXCEPT ![f] = IF @ = Unhashed THEN Files[r][f] ELSE @]
  BY FilesTyped DEF Backfill, TypeOK, Progress, At, Loop, Body
<1>1. \A v \in Versions : claims[v] # r
  BY <1>0 DEF ClaimsAgree, At
<1>2. /\ run' \in [Runners -> Run] /\ \A q \in Runners \ {r} : run'[q] = run[q]
      /\ run'[r].pc = IF f = Len(Files[r]) THEN "unlock_ok" ELSE "claim"
      /\ run'[r].file = f + 1
      /\ f # Len(Files[r]) => f + 1 \in 1 .. Len(Files[r])
  BY <1>0, NextFileMoves DEF Backfill
<1>3. CASE table[f] = Unhashed
  <2>1. \A q \in Runners : claims[f] # q
    BY <1>0 DEF ClaimsAgree
  <2>2. table' = [table EXCEPT ![f] = Files[r][f]] /\ NoBody # Unhashed
    BY <1>0, <1>3, MigrationsAssumption
  <2>3. faults' \in 0 .. MaxFaults /\ claims' \in [Versions -> Runners \cup {NoRunner}]
    BY <1>0 DEF TypeOK
  <2> HIDE DEF f
  <2> QED
    BY <1>0, <1>1, <1>2, <1>3, <2>1, <2>2, <2>3, RecordStep DEF f
<1>4. CASE table[f] # Unhashed
  <2>1. table' = table /\ lockLost
    BY <1>0, <1>4
  <2>2. Settled(r, f)
    BY <1>0, <2>1 DEF Settled
  <2>3. \A w \in 1 .. f : Settled(r, w)
    BY <1>0, <2>2
  <2>4. Exclusive'
    BY <1>0, <2>1 DEF Exclusive
  <2>5. f + 1 - 1 = f
    BY <1>0
  <2> QED
    BY <1>0, <1>1, <1>2, <2>1, <2>3, <2>4, <2>5, MoveStep DEF TypeOK, At, File, Loop
<1> QED
  BY <1>3, <1>4

\* The transaction of a file commits: its row was missing and the claim was the
\* runner's own.
LEMMA CommitStep ==
    ASSUME IInv, NEW r \in Runners, At(r, "execute"), CommitFile(r),
           NextFile(r) \/ Goto(r, "unlock_failed"),
           UNCHANGED <<lock, lockLost>>, faults' \in 0 .. MaxFaults
    PROVE  IInv'
<1> DEFINE f == File(r)
<1> HIDE DEF LastVersion, Bodies
<1> USE DEF IInv
<1>0. /\ run \in [Runners -> Run] /\ run[r].pc = "execute" /\ run[r].pc \in Loop
      /\ f \in 1 .. Len(Files[r]) /\ f \in Versions /\ table[f] = NoBody /\ claims[f] = r
      /\ claims \in [Versions -> Runners \cup {NoRunner}] /\ r # NoRunner /\ NoRunner \notin Runners
      /\ table' = [table EXCEPT ![f] = Files[r][f]]
      /\ executed' = [executed EXCEPT ![f] = @ + 1]
      /\ claims' = [claims EXCEPT ![f] = NoRunner]
      /\ NoBody # Unhashed
  BY FilesTyped, MigrationsAssumption DEF CommitFile, TypeOK, Progress, ClaimsAgree, At, Loop, Body
<1>1. \A v \in Versions : claims[v] = r <=> v = f
  BY <1>0 DEF ClaimsAgree, At
<1>2. /\ claims' \in [Versions -> Runners \cup {NoRunner}]
      /\ \A v \in Versions : claims'[v] # r /\ \A q \in Runners \ {r} : claims'[v] = q <=> claims[v] = q
  BY <1>0, <1>1
<1>3. /\ run' \in [Runners -> Run] /\ \A q \in Runners \ {r} : run'[q] = run[q]
      /\ \/ run'[r].pc = "unlock_failed"
         \/ /\ run'[r].pc = IF f = Len(Files[r]) THEN "unlock_ok" ELSE "claim"
            /\ run'[r].file = f + 1
  <2>1. CASE NextFile(r)
    BY <1>0, <2>1, NextFileMoves
  <2>2. CASE Goto(r, "unlock_failed")
    BY <1>0, <2>2 DEF Goto, Run
  <2> QED
    BY <2>1, <2>2
<1>4. NoBody \in {NoBody, Unhashed} /\ (NoBody = Unhashed => executed' = executed) /\ f = File(r)
  BY <1>0
<1>5. \A q \in Runners \ {r} : claims[f] # q
  BY <1>0
<1> HIDE DEF f
<1> QED
  BY <1>0, <1>2, <1>3, <1>4, <1>5, RecordStep

\* The SQL fails and the claim goes back, or the COMMIT is not answered.
LEMMA ExecuteFailsStep ==
    ASSUME IInv, NEW r \in Runners, ExecuteFails(r)
    PROVE  IInv'
<1> HIDE DEF LastVersion, Bodies
<1> USE DEF IInv
<1>0. faults' \in 0 .. MaxFaults
  BY MigrationsAssumption DEF ExecuteFails, Fault, TypeOK
<1>1. CASE CommitFile(r)
  BY <1>0, <1>1, CommitStep DEF ExecuteFails
<1>2. CASE claims' = [claims EXCEPT ![File(r)] = NoRunner] /\ UNCHANGED <<table, executed>>
  <2>1. /\ run \in [Runners -> Run] /\ run[r].pc = "execute" /\ File(r) \in Versions
        /\ UNCHANGED <<lock, lockLost>> /\ r # NoRunner
    BY FilesTyped, MigrationsAssumption DEF ExecuteFails, TypeOK, Progress, At, Loop
  <2>2. /\ run' \in [Runners -> Run] /\ run'[r].pc = "unlock_failed" /\ \A q \in Runners \ {r} : run'[q] = run[q]
    BY <2>1 DEF ExecuteFails, Goto, Run
  <2>3. \A v \in Versions : claims[v] = r <=> v = File(r)
    BY <2>1 DEF ClaimsAgree, At
  <2>4. /\ claims' \in [Versions -> Runners \cup {NoRunner}]
        /\ \A v \in Versions : claims'[v] = IF v = File(r) THEN NoRunner ELSE claims[v]
    BY <1>2, <2>1 DEF TypeOK
  <2>5. Exclusive'
    BY <2>1, <2>2 DEF Exclusive, Busy, Loop
  <2> QED
    BY <1>0, <1>2, <2>1, <2>2, <2>3, <2>4, <2>5, MoveStep DEF TypeOK, At, Loop
<1> QED
  BY <1>1, <1>2 DEF ExecuteFails

\* Every step keeps the invariant.
LEMMA NextIInv ==
    IInv /\ [Next]_vars => IInv'
<1> SUFFICES ASSUME IInv, [Next]_vars PROVE IInv'
  OBVIOUS
<1>1. CASE UNCHANGED vars
  BY <1>1 DEF vars, IInv, TypeOK, Progress, ClaimsAgree, Exclusive, ExecutedOnceInOrder, Applied, Settled, At, File
<1>2. ASSUME NEW r \in Runners, RunnerStep(r) \/ ExecuteFails(r) \/ Crash(r) \/ LoseLock(r)
      PROVE  IInv'
  <2>1. CASE AcquireLock(r)
    BY <2>1, AcquireLockStep
  <2>2. CASE Claim(r)
    BY <2>2, ClaimStep
  <2>3. CASE CheckRecorded(r)
    BY <2>3, CheckRecordedStep
  <2>4. CASE Backfill(r)
    BY <2>4, BackfillStep
  <2>5. CASE Execute(r)
    <3>1. faults' \in 0 .. MaxFaults
      BY <2>5 DEF Execute, IInv, TypeOK
    <3> QED
      BY <2>5, <3>1, CommitStep DEF Execute
  <2>6. CASE Unlock(r)
    BY <2>6, UnlockStep
  <2>7. CASE ExecuteFails(r)
    BY <2>7, ExecuteFailsStep
  <2>8. CASE Crash(r)
    BY <2>8, CrashStep
  <2>9. CASE LoseLock(r)
    BY <2>9, LoseLockStep
  <2> QED
    BY <1>2, <2>1, <2>2, <2>3, <2>4, <2>5, <2>6, <2>7, <2>8, <2>9 DEF RunnerStep
<1> QED
  BY <1>1, <1>2 DEF Next

\* No migration is executed twice, skipped or overtaken, whoever crashes and
\* even without the advisory lock: the claim of applyMigration is enough.
THEOREM FilesRunOnce ==
    Spec => []ExecutedOnceInOrder
<1>1. IInv => ExecutedOnceInOrder
  BY DEF IInv
<1> QED
  BY <1>1, InitIInv, NextIInv, PTL DEF Spec

\* A container that serves has the schema of its own image, file by file, as
\* long as no lock was lost; with a lost lock it has at least every version.
THEOREM ServedSchema ==
    Spec => []ServesItsSchema
<1>1. IInv => ServesItsSchema
  <2> SUFFICES ASSUME IInv, NEW r \in Runners, At(r, "serving"), NEW v \in DOMAIN Files[r]
               PROVE  IF lockLost THEN v \in Applied ELSE table[v] = Files[r][v]
    BY DEF ServesItsSchema
  <2>1. v \in 1 .. Len(Files[r]) /\ v \in Versions
    BY FilesTyped
  <2>2. Settled(r, v)
    BY <2>1 DEF IInv, Progress, At
  <2> QED
    BY <2>1, <2>2 DEF Settled, Applied
<1> QED
  BY <1>1, InitIInv, NextIInv, PTL DEF Spec
=============================================================================
