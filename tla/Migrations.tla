----------------------------- MODULE Migrations -----------------------------
(***************************************************************************)
(* Schema migrations of FeedPulse: several containers start at once, each   *)
(* runs `migrate.js` with the files of its own image and serves only when   *)
(* that has succeeded. A run is serialized by a session-level advisory lock *)
(* on a connection of its own; every file is claimed by the INSERT of its   *)
(* row, in the transaction that executes it. Admission has what the script  *)
(* does last, the seeding of the bootstrap API key.                         *)
(***************************************************************************)
EXTENDS Integers, Sequences

CONSTANTS
    Runners,       \* containers that run the script
    Files,         \* the bodies of each runner's files, in the order of their names
    NoBody,        \* no row in schema_migrations
    Unhashed,      \* a row without checksum, from before checksums were stored
    StartTables,   \* tables to start from
    NoRunner,      \* nobody holds a lock
    LockTries,     \* tries at the advisory lock before the run gives up
    Faults,        \* kinds of failure that may happen
    MaxFaults      \* bound: how many failures may happen

FaultKinds == {"crash", "lock_connection", "sql_error", "commit_unanswered"}

LastVersion == CHOOSE n \in {Len(Files[r]) : r \in Runners} : \A r \in Runners : Len(Files[r]) <= n

Versions == 1 .. LastVersion
Bodies == UNION {{Files[r][v] : v \in DOMAIN Files[r]} : r \in Runners}

ASSUME MigrationsAssumption ==
    /\ \A r \in Runners : Files[r] \in Seq(Bodies) /\ Len(Files[r]) > 0
    /\ LastVersion \in Nat /\ \A r \in Runners : Len(Files[r]) <= LastVersion
    /\ NoBody \notin Bodies /\ Unhashed \notin Bodies /\ NoBody # Unhashed /\ NoRunner \notin Runners
    /\ StartTables \subseteq [Versions -> Bodies \cup {NoBody, Unhashed}]
    /\ \A t \in StartTables, v \in Versions : t[v] # NoBody => \A w \in 1 .. v : t[w] # NoBody
    /\ LockTries \in Nat \ {0}
    /\ Faults \subseteq FaultKinds /\ MaxFaults \in Nat

VARIABLES
    table,     \* committed rows of schema_migrations: the checksum of each version
    executed,  \* how many times the SQL of each version has been committed
    claims,    \* the open transaction that has inserted each version's row
    lock,      \* the session that holds the advisory lock
    run,       \* each runner: where it is, at which file, the tries it has left, and
               \* whether the connection of its lock is cut
    faults,    \* failures so far
    lockLost   \* a lock has been lost while its run went on

vars == <<table, executed, claims, lock, run, faults, lockLost>>

Run == [pc: {"lock", "claim", "check", "backfill", "execute", "unlock_ok", "unlock_failed",
             "serving", "failed"},
        file: 1 .. LastVersion + 1, tries: 0 .. LockTries, cut: BOOLEAN]

FreshRun == [pc |-> "lock", file |-> 1, tries |-> LockTries, cut |-> FALSE]

Init ==
    /\ table \in StartTables
    /\ executed = [v \in Versions |-> 0]
    /\ claims = [v \in Versions |-> NoRunner]
    /\ lock = NoRunner
    /\ run = [r \in Runners |-> FreshRun]
    /\ faults = 0 /\ lockLost = FALSE

Fault(kind) ==
    /\ kind \in Faults
    /\ faults < MaxFaults
    /\ faults' = faults + 1

At(r, pc) == run[r].pc = pc
File(r) == run[r].file
Body(r) == Files[r][File(r)]
Goto(r, pc) == run' = [run EXCEPT ![r].pc = pc]

\* The next file in the order of the names, or the end of the loop.
NextFile(r) ==
    run' = [run EXCEPT ![r].file = @ + 1,
                       ![r].pc = IF File(r) = Len(Files[r]) THEN "unlock_ok" ELSE "claim"]

-----------------------------------------------------------------------------
(* applyMigrations *)

\* pg_try_advisory_lock, again after a delay until the deadline; then the table
\* is created where it is missing.
AcquireLock(r) ==
    /\ At(r, "lock")
    /\ \/ lock = NoRunner /\ lock' = r /\ Goto(r, "claim")
       \/ lock # NoRunner /\ UNCHANGED lock
          /\ run' = [run EXCEPT ![r].tries = @ - 1, ![r].pc = IF run[r].tries = 1 THEN "failed" ELSE "lock"]
    /\ UNCHANGED <<table, executed, claims, faults, lockLost>>

\* Mutant: the claim does not wait for another transaction's.
ClaimAtOnce(r) ==
    LET v == File(r)
    IN  /\ At(r, "claim")
        /\ \/ table[v] = NoBody /\ claims' = [claims EXCEPT ![v] = r] /\ Goto(r, "execute")
           \/ table[v] # NoBody /\ UNCHANGED claims /\ Goto(r, "check")
        /\ UNCHANGED <<table, executed, lock, faults, lockLost>>

\* INSERT ... ON CONFLICT DO NOTHING: it waits for an open transaction that has
\* inserted the version, and returns a row only to the first.
Claim(r) ==
    LET v == File(r)
    IN  /\ At(r, "claim") /\ claims[v] = NoRunner
        /\ \/ table[v] = NoBody /\ claims' = [claims EXCEPT ![v] = r] /\ Goto(r, "execute")
           \/ table[v] # NoBody /\ UNCHANGED claims /\ Goto(r, "check")
        /\ UNCHANGED <<table, executed, lock, faults, lockLost>>

\* Mutant: a file that was edited after it ran is passed over.
CheckLenient(r) ==
    /\ At(r, "check")
    /\ IF table[File(r)] = Unhashed THEN Goto(r, "backfill") ELSE NextFile(r)
    /\ UNCHANGED <<table, executed, claims, lock, faults, lockLost>>

\* The recorded checksum is compared with that of the file; a mismatch throws.
CheckRecorded(r) ==
    /\ At(r, "check")
    /\ \/ table[File(r)] = Unhashed /\ Goto(r, "backfill")
       \/ table[File(r)] = Body(r) /\ NextFile(r)
       \/ table[File(r)] \notin {Unhashed, Body(r)} /\ Goto(r, "unlock_failed")
    /\ UNCHANGED <<table, executed, claims, lock, faults, lockLost>>

\* UPDATE ... WHERE checksum IS NULL, whether or not that still holds.
Backfill(r) ==
    /\ At(r, "backfill")
    /\ table' = [table EXCEPT ![File(r)] = IF @ = Unhashed THEN Body(r) ELSE @]
    /\ NextFile(r)
    /\ UNCHANGED <<executed, claims, lock, faults, lockLost>>

CommitFile(r) ==
    /\ table' = [table EXCEPT ![File(r)] = Body(r)]
    /\ executed' = [executed EXCEPT ![File(r)] = @ + 1]
    /\ claims' = [claims EXCEPT ![File(r)] = NoRunner]

\* The SQL of the file and the COMMIT.
Execute(r) ==
    /\ At(r, "execute")
    /\ CommitFile(r)
    /\ NextFile(r)
    /\ UNCHANGED <<lock, faults, lockLost>>

\* Mutant: no ROLLBACK when the SQL fails.
ExecuteFailsOpen(r) ==
    /\ At(r, "execute")
    /\ \/ Fault("sql_error") /\ UNCHANGED <<table, executed, claims>>
       \/ Fault("commit_unanswered") /\ CommitFile(r)
    /\ Goto(r, "unlock_failed")
    /\ UNCHANGED <<lock, lockLost>>

\* The SQL fails and ROLLBACK takes the claim back, or the answer of the COMMIT
\* is lost. Either way the run throws.
ExecuteFails(r) ==
    /\ At(r, "execute")
    /\ \/ Fault("sql_error") /\ claims' = [claims EXCEPT ![File(r)] = NoRunner] /\ UNCHANGED <<table, executed>>
       \/ Fault("commit_unanswered") /\ CommitFile(r)
    /\ Goto(r, "unlock_failed")
    /\ UNCHANGED <<lock, lockLost>>

\* The finally block: pg_advisory_unlock on the connection that took the lock.
\* It throws when that connection is cut, and a run that has applied everything
\* fails with it.
Unlock(r) ==
    /\ run[r].pc \in {"unlock_ok", "unlock_failed"}
    /\ lock' = IF lock = r THEN NoRunner ELSE lock
    /\ Goto(r, IF At(r, "unlock_ok") /\ ~run[r].cut THEN "serving" ELSE "failed")
    /\ UNCHANGED <<table, executed, claims, faults, lockLost>>

-----------------------------------------------------------------------------
(* Failures *)

\* The session ends with the process: its lock is free and its transaction is
\* rolled back. The container is started again.
Crash(r) ==
    /\ ~At(r, "failed") /\ Fault("crash")
    /\ lock' = IF lock = r THEN NoRunner ELSE lock
    /\ claims' = [v \in Versions |-> IF claims[v] = r THEN NoRunner ELSE claims[v]]
    /\ run' = [run EXCEPT ![r] = FreshRun]
    /\ UNCHANGED <<table, executed, lockLost>>

\* The connection that holds the lock is cut while the run goes on.
LoseLock(r) ==
    /\ lock = r /\ Fault("lock_connection")
    /\ lock' = NoRunner /\ lockLost' = TRUE
    /\ run' = [run EXCEPT ![r].cut = TRUE]
    /\ UNCHANGED <<table, executed, claims>>

RunnerStep(r) ==
    \/ AcquireLock(r) \/ Claim(r) \/ CheckRecorded(r) \/ Backfill(r) \/ Execute(r)
    \/ Unlock(r)

Next == \E r \in Runners : RunnerStep(r) \/ ExecuteFails(r) \/ Crash(r) \/ LoseLock(r)

Spec == Init /\ [][Next]_vars

\* A runner that is alive goes on.
FairSpec == Spec /\ \A r \in Runners : WF_vars(RunnerStep(r))

-----------------------------------------------------------------------------
(* Properties *)

\* The types of the variables.
TypeOK ==
    /\ table \in [Versions -> Bodies \cup {NoBody, Unhashed}]
    /\ executed \in [Versions -> Nat]
    /\ claims \in [Versions -> Runners \cup {NoRunner}]
    /\ lock \in Runners \cup {NoRunner}
    /\ run \in [Runners -> Run]
    /\ faults \in 0 .. MaxFaults /\ lockLost \in BOOLEAN

Applied == {v \in Versions : table[v] # NoBody}

\* No migration is executed twice and none is skipped or overtaken, whoever
\* crashes, and even when the connection with the advisory lock is lost: the
\* comment on applyMigration, "the runner stays correct even if the advisory
\* lock is bypassed".
ExecutedOnceInOrder ==
    /\ \A v \in Versions : executed[v] <= 1
    /\ \A v \in Applied : \A w \in 1 .. v : w \in Applied
    /\ \A v \in Versions : executed[v] = 1 => table[v] # NoBody

\* A container serves only a schema with every file of its image applied, and
\* as long as the lock was never lost, with the very content of its files:
\* a file edited after it ran stops the container (MigrationChecksumMismatchError).
ServesItsSchema ==
    \A r \in Runners : At(r, "serving") =>
        \A v \in DOMAIN Files[r] :
            IF lockLost THEN v \in Applied ELSE table[v] = Files[r][v]

\* Every container comes to serve or gives up: nobody waits for a lock for ever.
RunnersEnd == \A r \in Runners : <>[](run[r].pc \in {"serving", "failed"})
=============================================================================
