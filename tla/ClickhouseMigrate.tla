-------------------------- MODULE ClickhouseMigrate --------------------------
(***************************************************************************)
(* The migration Job (clickhouse-migrate): configure, render the files,    *)
(* create the database, then have golang-migrate apply what is pending.    *)
(*                                                                         *)
(* golang-migrate is external: Up reads the recorded version, and for each *)
(* later version records it dirty, sends the statements of its file one by *)
(* one (MultiStatementEnabled) and records it clean.  Its ClickHouse lock  *)
(* is local to the process, so that two Jobs, a deployment's and the one   *)
(* before it, may overlap.  Kubernetes restarts a failed pod up to the     *)
(* Job's backoffLimit; whoever operates the system may repair a dirty      *)
(* database the way the README describes.                                  *)
(***************************************************************************)
EXTENDS Naturals, FiniteSets

CONSTANTS
    Jobs,         \* the Jobs that may run at the same time
    Latest,       \* the last migration's version; versions are 1..Latest
    Statements,   \* Statements[v]: how many statements file v splits into
    BackoffLimit, \* how often a failed pod is restarted
    MaxFailures,  \* bound: failed calls and killed pods
    MaxRepairs    \* bound: repairs by hand

ASSUME MigrateAssumption ==
    /\ Latest \in Nat \ {0}
    /\ Statements \in [1..Latest -> Nat \ {0}]
    /\ BackoffLimit \in Nat
    /\ MaxFailures \in Nat
    /\ MaxRepairs \in Nat

VARIABLES
    env,       \* env[j]: what the Job's pod finds: variables, files, certificates
    database,  \* has the database been created?
    recorded,  \* the last row of schema_migrations; version 0: no row
    applied,   \* the statements that have taken effect, as <<version, number>>
    podPc,        \* pc[j]: what the pod does next
    at,        \* at[j]: the version it is at
    next,      \* next[j]: the statement it sends next
    attempts,  \* attempts[j]: restarts so far
    failures,  \* failed calls so far
    repairs    \* repairs so far

jobVars == <<env, podPc, at, next, attempts>>
migrateVars == <<jobVars, database, recorded, applied, failures, repairs>>

Versions == 1..Latest
StatementsOf(v) == {<<v, i>> : i \in 1..Statements[v]}
UpTo(v) == UNION {StatementsOf(w) : w \in 1..v}

\* What configFromEnv, renderMigrations and loadClientTLSConfig run into.
Envs == {"good", "missingVariable", "unsafeIdentifier", "noFiles",
         "unresolvedPlaceholder", "noCertificate"}

PodSteps == {"configure", "ensureDatabase", "readVersion", "markDirty", "run",
          "markClean", "report", "succeeded", "failed"}

Migrating == {"markDirty", "run", "markClean"}

MigrateTypeOK ==
    /\ env \in [Jobs -> Envs]
    /\ database \in BOOLEAN
    /\ recorded \in [version : 0..Latest, dirty : BOOLEAN]
    /\ applied \subseteq UpTo(Latest)
    /\ podPc \in [Jobs -> PodSteps]
    /\ at \in [Jobs -> Versions]
    /\ next \in [Jobs -> Nat]
    /\ \A j \in Jobs : podPc[j] = "run" => next[j] \in 1..Statements[at[j]]
    /\ attempts \in [Jobs -> 0..BackoffLimit]
    /\ failures \in 0..MaxFailures
    /\ repairs \in 0..MaxRepairs

MigrateInit ==
    /\ env \in [Jobs -> Envs]
    /\ database = FALSE
    /\ recorded = [version |-> 0, dirty |-> FALSE]
    /\ applied = {}
    /\ podPc = [j \in Jobs |-> "configure"]
    /\ at = [j \in Jobs |-> 1]
    /\ next = [j \in Jobs |-> 1]
    /\ attempts = [j \in Jobs |-> 0]
    /\ failures = 0
    /\ repairs = 0
-----------------------------------------------------------------------------
Goto(j, step) == podPc' = [podPc EXCEPT ![j] = step]

Usable(e) == e = "good"

\* run, up to the first connection.
Configure(j) ==
    /\ podPc[j] = "configure"
    /\ Goto(j, IF Usable(env[j]) THEN "ensureDatabase" ELSE "failed")
    /\ UNCHANGED <<env, database, recorded, applied, at, next, attempts, failures, repairs>>

\* CREATE DATABASE IF NOT EXISTS
ensureDatabaseExists(j) ==
    /\ podPc[j] = "ensureDatabase"
    /\ database' = TRUE
    /\ Goto(j, "readVersion")
    /\ UNCHANGED <<env, recorded, applied, at, next, attempts, failures, repairs>>

\* Mutant: Up goes on from a dirty version.
AfterReadAnyway == IF recorded.version = Latest THEN "report" ELSE "markDirty"

\* ErrDirty fails the run; ErrNoChange does not.
AfterRead ==
    CASE recorded.dirty -> "failed"
      [] ~recorded.dirty /\ recorded.version = Latest -> "report"
      [] OTHER -> "markDirty"

ReadVersion(j) ==
    /\ podPc[j] = "readVersion"
    /\ Goto(j, AfterRead)
    /\ at' = [at EXCEPT ![j] = IF recorded.version = Latest THEN Latest ELSE recorded.version + 1]
    /\ UNCHANGED <<env, database, recorded, applied, next, attempts, failures, repairs>>

MarkDirty(j) ==
    /\ podPc[j] = "markDirty"
    /\ recorded' = [version |-> at[j], dirty |-> TRUE]
    /\ next' = [next EXCEPT ![j] = 1]
    /\ Goto(j, "run")
    /\ UNCHANGED <<env, database, applied, at, attempts, failures, repairs>>

\* Mutant: without MultiStatementEnabled only the first statement is sent.
IsLastAlways(j) == TRUE

IsLast(j) == next[j] = Statements[at[j]]

RunStatement(j) ==
    /\ podPc[j] = "run"
    /\ applied' = applied \cup {<<at[j], next[j]>>}
    /\ next' = [next EXCEPT ![j] = IF IsLast(j) THEN @ ELSE @ + 1]
    /\ Goto(j, IF IsLast(j) THEN "markClean" ELSE "run")
    /\ UNCHANGED <<env, database, recorded, at, attempts, failures, repairs>>

\* Mutant: the version is recorded clean and then run over again.
NextVersionSame(v) == v

NextVersion(v) == IF v = Latest THEN v ELSE v + 1

\* Up goes on with the next file and does not read the version again.
MarkClean(j) ==
    /\ podPc[j] = "markClean"
    /\ recorded' = [version |-> at[j], dirty |-> FALSE]
    /\ at' = [at EXCEPT ![j] = NextVersion(at[j])]
    /\ Goto(j, IF at[j] = Latest THEN "report" ELSE "markDirty")
    /\ UNCHANGED <<env, database, applied, next, attempts, failures, repairs>>

\* m.Version(): without a row it is an error; a dirty version is only logged.
Report(j) ==
    /\ podPc[j] = "report"
    /\ Goto(j, IF recorded.version = 0 THEN "failed" ELSE "succeeded")
    /\ UNCHANGED <<env, database, recorded, applied, at, next, attempts, failures, repairs>>

\* A call to ClickHouse fails, or the pod is killed.
Fail(j) ==
    /\ failures < MaxFailures
    /\ podPc[j] \notin {"configure", "succeeded", "failed"}
    /\ failures' = failures + 1
    /\ Goto(j, "failed")
    /\ UNCHANGED <<env, database, recorded, applied, at, next, attempts, repairs>>

\* A failed pod is restarted.
Restart(j) ==
    /\ podPc[j] = "failed"
    /\ attempts[j] < BackoffLimit
    /\ attempts' = [attempts EXCEPT ![j] = @ + 1]
    /\ Goto(j, "configure")
    /\ UNCHANGED <<env, database, recorded, applied, at, next, failures, repairs>>

NobodyMigrates == \A j \in Jobs : podPc[j] \notin Migrating

\* The rest of the file is applied by hand and the version recorded clean; or,
\* if nothing of it applied, the table is dropped.
Repair ==
    /\ repairs < MaxRepairs
    /\ recorded.dirty
    /\ NobodyMigrates
    /\ repairs' = repairs + 1
    /\ \/ /\ applied' = applied \cup StatementsOf(recorded.version)
          /\ recorded' = [recorded EXCEPT !.dirty = FALSE]
       \/ /\ applied \cap StatementsOf(recorded.version) = {}
          /\ recorded' = [version |-> 0, dirty |-> FALSE]
          /\ UNCHANGED applied
    /\ UNCHANGED <<jobVars, database, failures>>

Run(j) ==
    \/ Configure(j)
    \/ ensureDatabaseExists(j)
    \/ ReadVersion(j)
    \/ MarkDirty(j)
    \/ RunStatement(j)
    \/ MarkClean(j)
    \/ Report(j)

MigrateNext == (\E j \in Jobs : Run(j) \/ Fail(j) \/ Restart(j)) \/ Repair

MigrateSpec == MigrateInit /\ [][MigrateNext]_migrateVars

\* Pods run and Kubernetes restarts them; nobody has to repair anything.
FairMigrateSpec ==
    MigrateSpec /\ \A j \in Jobs : WF_migrateVars(Run(j)) /\ WF_migrateVars(Restart(j))
-----------------------------------------------------------------------------
\* A version recorded clean has all its statements applied, and so has every
\* version before it, even if Jobs overlap and one records over the other, a
\* pod dies between any two calls, and a dirty database is repaired
\* (clickhouse-migrate/main.go: applyMigrations).
VersionIsApplied ==
    ~recorded.dirty => UpTo(recorded.version) \subseteq applied

\* A pod that exits with success leaves a fully migrated database, even though
\* run ignores the dirty flag that m.Version() returns (main.go: run).
SuccessMeansMigrated ==
    \A j \in Jobs : podPc[j] = "succeeded" => applied = UpTo(Latest)

\* "Re-running is a no-op", and a dirty database blocks every later run: with
\* no Job amid a migration, one that is up to date or dirty is left as it is,
\* and no Job starts on it, until someone repairs it (main.go: applyMigrations).
LeftAlone ==
    [][NobodyMigrates /\ (recorded.dirty \/ recorded.version = Latest) /\ repairs' = repairs
         => NobodyMigrates' /\ UNCHANGED <<recorded, applied>>]_migrateVars

IsOver(j) == podPc[j] = "succeeded" \/ (podPc[j] = "failed" /\ attempts[j] = BackoffLimit)

\* In the end every Job is over.  If no call failed and one Job could be
\* configured, the database is then at the latest version and clean, even if a
\* Job gave up because it met the dirty mark of another one that was at work
\* (main.go: run, applyMigrations).
JobsEndMigrated ==
    <>[](/\ \A j \in Jobs : IsOver(j)
         /\ failures = 0 /\ (\E j \in Jobs : Usable(env[j]))
              => recorded = [version |-> Latest, dirty |-> FALSE])
=============================================================================
