----------------------------- MODULE SchemaSync -----------------------------
(***************************************************************************)
(* MetadataSyncService.syncAll, SchemaHistoryService and the Redis keys    *)
(* they share.  A call of syncAll is a member of Syncs; calls come from    *)
(* the table_definition API (which commits a change of the metadata and    *)
(* then fires syncAll without waiting for it), from boot and from a schema *)
(* event of another node (no change of their own), and from the restore    *)
(* that follows a failed run.  Calls of every instance are here together:  *)
(* they share the database and Redis and nothing else that matters here.   *)
(*                                                                         *)
(* The metadata is the set of the changes it contains, a change being      *)
(* named by the call that follows it; so are the physical schema and the   *)
(* newest row of schema_history.                                           *)
(***************************************************************************)
EXTENDS Naturals

CONSTANTS Syncs,        \* the calls of syncAll (bounds their number)
          NoSync,       \* an absent Redis key
          MaxAttempts,  \* SCHEMA_SYNC_MAX_RETRIES
          Backups,      \* whether a backup exists at the start: {TRUE}, {FALSE} or both
          Faults        \* what may go wrong: a subset of FaultKinds

FaultKinds == {"redis", "crash", "step", "expiry"}

ASSUME SyncsAssumption == NoSync \notin Syncs
ASSUME AttemptsAssumption == MaxAttempts \in Nat \ {0}
ASSUME FaultsAssumption == Faults \subseteq FaultKinds
ASSUME BackupsAssumption == Backups \subseteq BOOLEAN

VARIABLES
  latest,     \* key schema:sync:latest
  lock,       \* key schema:sync:processing_lock
  pc,         \* where each call is
  attempt,    \* the attempt of its retry loop
  kind,       \* who made the call
  outcome,    \* the status it returned
  defs,       \* the changes in table_definition and its relatives
  physical,   \* the changes in the physical schema
  history,    \* the changes in the newest row of schema_history
  hasBackup,  \* schema_history has a row
  seen,       \* the changes in the metadata a run read last
  base,       \* the physical schema a run generated its migration against
  migrating,  \* the runs whose migration is executing
  overrun,    \* history: calls whose lock ran out inside the section
  failed      \* history: calls whose run failed and was rolled back

redisVars == <<latest, lock>>
callVars  == <<pc, attempt, kind, outcome>>
dbVars    == <<defs, physical, history, hasBackup>>
runVars   == <<seen, base, migrating>>
pastVars  == <<overrun, failed>>
vars      == <<redisVars, callVars, dbVars, runVars, pastVars>>

\* The part of a call between a successful acquire and the end of release.
Section == {"checkHeld", "pull", "generate", "apply", "snapshot", "save",
            "publish", "restore", "release"}
Waiting == {"set", "acquire", "checkBusy", "wait"}
Ended   == {"returned", "crashed"}

Kinds    == {"none", "create", "update", "pull", "restoreCreate", "restoreUpdate"}
Outcomes == {"none", "completed", "skipped", "timeout", "error"}

IsRestore(s) == kind[s] \in {"restoreCreate", "restoreUpdate"}

\* The move of one call from one point to another.
Goto(s, from, to) == pc[s] = from /\ pc' = [pc EXCEPT ![s] = to]

\* A call that ends with a status, at once or by way of release.
Return(s, from, to, status) ==
  /\ Goto(s, from, to)
  /\ outcome' = [outcome EXCEPT ![s] = status]
  /\ UNCHANGED <<attempt, kind>>

Init ==
  /\ latest = NoSync /\ lock = NoSync
  /\ pc = [s \in Syncs |-> "idle"]
  /\ attempt = [s \in Syncs |-> 0]
  /\ kind = [s \in Syncs |-> "none"]
  /\ outcome = [s \in Syncs |-> "none"]
  /\ defs = {} /\ physical = {} /\ history = {}
  /\ hasBackup \in Backups
  /\ seen = [s \in Syncs |-> {}] /\ base = [s \in Syncs |-> {}]
  /\ migrating = {} /\ overrun = {} /\ failed = {}

-----------------------------------------------------------------------------
(* The call: registration, lock, retries. *)

\* A change of the metadata is committed and its syncAll starts, or a syncAll
\* without a change starts (boot, event of another node).
Request(s) ==
  /\ Goto(s, "idle", "set")
  /\ \E k \in {"create", "update", "pull"} :
       /\ kind' = [kind EXCEPT ![s] = k]
       /\ defs' = IF k = "pull" THEN defs ELSE defs \cup {s}
  /\ UNCHANGED <<redisVars, attempt, outcome, physical, history, hasBackup,
                 runVars, pastVars>>

\* Mutant: the key is set only if it is absent.
SetLatestOnce(s) ==
  /\ Goto(s, "set", "acquire")
  /\ latest' = IF latest = NoSync THEN s ELSE latest
  /\ attempt' = [attempt EXCEPT ![s] = 1]
  /\ UNCHANGED <<lock, kind, outcome, dbVars, runVars, pastVars>>

\* The call registers as the latest one.
SetLatest(s) ==
  /\ Goto(s, "set", "acquire")
  /\ latest' = s
  /\ attempt' = [attempt EXCEPT ![s] = 1]
  /\ UNCHANGED <<lock, kind, outcome, dbVars, runVars, pastVars>>

\* RedisLockService.set reads the TTL after it wrote: an error may come before
\* or after the write.
SetLatestError(s) ==
  /\ "redis" \in Faults
  /\ Return(s, "set", "returned", "error")
  /\ latest' \in {latest, s}
  /\ UNCHANGED <<lock, dbVars, runVars, pastVars>>

\* Mutant: SET without NX.
AcquireAnyway(s) ==
  /\ Goto(s, "acquire", "checkHeld")
  /\ lock' = s
  /\ UNCHANGED <<latest, attempt, kind, outcome, dbVars, runVars, pastVars>>

Acquire(s) ==
  /\ lock = NoSync
  /\ Goto(s, "acquire", "checkHeld")
  /\ lock' = s
  /\ UNCHANGED <<latest, attempt, kind, outcome, dbVars, runVars, pastVars>>

AcquireBusy(s) ==
  /\ lock # NoSync
  /\ Goto(s, "acquire", "checkBusy")
  /\ UNCHANGED <<redisVars, attempt, kind, outcome, dbVars, runVars, pastVars>>

\* Mutant: SET without NX, and the reply is lost.
AcquireErrorAnyway(s) ==
  /\ "redis" \in Faults
  /\ Return(s, "acquire", "returned", "error")
  /\ lock' \in {lock, s}
  /\ UNCHANGED <<latest, dbVars, runVars, pastVars>>

\* As with set, acquire reads the TTL after SET NX: the key may be taken by a
\* call that then reports an error and never releases it.
AcquireError(s) ==
  /\ "redis" \in Faults
  /\ Return(s, "acquire", "returned", "error")
  /\ lock' \in {lock, IF lock = NoSync THEN s ELSE lock}
  /\ UNCHANGED <<latest, dbVars, runVars, pastVars>>

\* With the lock held: still the latest, superseded, or no answer.
CheckHeldLatest(s) ==
  /\ latest = s
  /\ Goto(s, "checkHeld", "pull")
  /\ UNCHANGED <<redisVars, attempt, kind, outcome, dbVars, runVars, pastVars>>

\* Mutant: the early return is not inside the try that releases.
CheckHeldSkipAtOnce(s) ==
  /\ latest # s
  /\ Return(s, "checkHeld", "returned", "skipped")
  /\ UNCHANGED <<redisVars, dbVars, runVars, pastVars>>

CheckHeldSkip(s) ==
  /\ latest # s
  /\ Return(s, "checkHeld", "release", "skipped")
  /\ UNCHANGED <<redisVars, dbVars, runVars, pastVars>>

CheckHeldError(s) ==
  /\ "redis" \in Faults
  /\ Return(s, "checkHeld", "release", "error")
  /\ UNCHANGED <<redisVars, dbVars, runVars, pastVars>>

\* Mutant: one attempt too many.
CheckBusyWaitOnce(s) ==
  /\ latest = s
  /\ attempt[s] <= MaxAttempts
  /\ Goto(s, "checkBusy", "wait")
  /\ UNCHANGED <<redisVars, attempt, kind, outcome, dbVars, runVars, pastVars>>

\* With the lock busy: wait for the next attempt, superseded, out of attempts,
\* or no answer.
CheckBusyWait(s) ==
  /\ latest = s
  /\ attempt[s] < MaxAttempts
  /\ Goto(s, "checkBusy", "wait")
  /\ UNCHANGED <<redisVars, attempt, kind, outcome, dbVars, runVars, pastVars>>

CheckBusySkip(s) ==
  /\ latest # s
  /\ Return(s, "checkBusy", "returned", "skipped")
  /\ UNCHANGED <<redisVars, dbVars, runVars, pastVars>>

\* Mutant: the last attempt neither waits nor gives up.
CheckBusyTimeoutLate(s) ==
  /\ latest = s
  /\ attempt[s] > MaxAttempts
  /\ Return(s, "checkBusy", "returned", "timeout")
  /\ UNCHANGED <<redisVars, dbVars, runVars, pastVars>>

CheckBusyTimeout(s) ==
  /\ latest = s
  /\ attempt[s] >= MaxAttempts
  /\ Return(s, "checkBusy", "returned", "timeout")
  /\ UNCHANGED <<redisVars, dbVars, runVars, pastVars>>

CheckBusyError(s) ==
  /\ "redis" \in Faults
  /\ Return(s, "checkBusy", "returned", "error")
  /\ UNCHANGED <<redisVars, dbVars, runVars, pastVars>>

Retry(s) ==
  /\ Goto(s, "wait", "acquire")
  /\ attempt' = [attempt EXCEPT ![s] = @ + 1]
  /\ UNCHANGED <<redisVars, kind, outcome, dbVars, runVars, pastVars>>

\* Mutant: DEL without the comparison.
ReleaseUnchecked(s) ==
  /\ Goto(s, "release", "returned")
  /\ lock' = NoSync
  /\ UNCHANGED <<latest, attempt, kind, outcome, dbVars, runVars, pastVars>>

\* The finally block: compare-and-delete.  An error of Redis is swallowed.
Release(s) ==
  /\ Goto(s, "release", "returned")
  /\ lock' = IF lock = s THEN NoSync ELSE lock
  /\ UNCHANGED <<latest, attempt, kind, outcome, dbVars, runVars, pastVars>>

ReleaseError(s) ==
  /\ "redis" \in Faults
  /\ Goto(s, "release", "returned")
  /\ UNCHANGED <<redisVars, attempt, kind, outcome, dbVars, runVars, pastVars>>

-----------------------------------------------------------------------------
(* The run: syncAllInternal. *)

\* Reads the metadata and writes and builds the entity files from it.
Pull(s) ==
  /\ Goto(s, "pull", "generate")
  /\ seen' = [seen EXCEPT ![s] = defs]
  /\ UNCHANGED <<redisVars, attempt, kind, outcome, dbVars, base, migrating,
                 pastVars>>

\* cleanupOrphanedTables: before it generates the migration, a run drops the
\* tables that have no entity.  A drop that fails (on Postgres, all of them) is
\* logged.
Orphans(s) == IF IsRestore(s) THEN {} ELSE {c \in physical \ seen[s] : kind[c] = "create"}
Cleaned(s) == {physical \ dropped : dropped \in SUBSET Orphans(s)}

\* Mutant: the test of fromRestore inverted.
GenerateInverted(s) ==
  /\ Goto(s, "generate", "apply")
  /\ base' = [base EXCEPT ![s] = physical]
  /\ migrating' = IF IsRestore(s) THEN migrating \cup {s} ELSE migrating
  /\ UNCHANGED <<redisVars, attempt, kind, outcome, dbVars, seen, pastVars>>

\* Generates the migration as the difference between the entities and the
\* physical schema, then starts it together with the reloads.  A restore's run
\* generates and runs no migration.
Generate(s) ==
  /\ Goto(s, "generate", "apply")
  /\ physical' \in Cleaned(s)
  /\ base' = [base EXCEPT ![s] = physical']
  /\ migrating' = IF IsRestore(s) THEN migrating ELSE migrating \cup {s}
  /\ UNCHANGED <<redisVars, attempt, kind, outcome, defs, history, hasBackup,
                 seen, pastVars>>

\* What the migration of a run makes of the physical schema: it drops no table.
Migrated(s) ==
  (physical \ {c \in base[s] \ seen[s] : kind[c] # "create"}) \cup (seen[s] \ base[s])

\* The migration ends.  Its run may have gone on without it: see FailStep.
FinishMigration(s) ==
  /\ s \in migrating
  /\ migrating' = migrating \ {s}
  /\ physical' = Migrated(s)
  /\ UNCHANGED <<redisVars, callVars, defs, history, hasBackup, seen, base,
                 pastVars>>

\* The migration throws, with or without its statements in effect (MySQL
\* commits each DDL statement).
FailMigration(s) ==
  /\ "step" \in Faults
  /\ s \in migrating
  /\ migrating' = migrating \ {s}
  /\ physical' \in {physical, Migrated(s)}
  /\ IF pc[s] = "apply"
       THEN pc' = [pc EXCEPT ![s] = "restore"] /\ failed' = failed \cup {s}
       ELSE UNCHANGED <<pc, failed>>
  /\ UNCHANGED <<redisVars, attempt, kind, outcome, defs, history, hasBackup,
                 seen, base, overrun>>

\* Mutant: the migration is started and not awaited.
FinishApplyEarly(s) ==
  /\ Goto(s, "apply", "snapshot")
  /\ UNCHANGED <<redisVars, attempt, kind, outcome, dbVars, runVars, pastVars>>

\* Promise.all: the reloads and the migration have all succeeded.
FinishApply(s) ==
  /\ s \notin migrating
  /\ Goto(s, "apply", "snapshot")
  /\ UNCHANGED <<redisVars, attempt, kind, outcome, dbVars, runVars, pastVars>>

\* SchemaHistoryService.backup reads the metadata anew ...
Snapshot(s) ==
  /\ Goto(s, "snapshot", "save")
  /\ seen' = [seen EXCEPT ![s] = defs]
  /\ UNCHANGED <<redisVars, attempt, kind, outcome, dbVars, base, migrating,
                 pastVars>>

\* ... and saves a row, unless the newest one has the same hash.
Save(s) ==
  /\ Goto(s, "save", IF IsRestore(s) THEN "release" ELSE "publish")
  /\ history' = seen[s]
  /\ hasBackup' = TRUE
  /\ outcome' = [outcome EXCEPT ![s] = IF IsRestore(s) THEN "completed" ELSE @]
  /\ UNCHANGED <<redisVars, attempt, kind, defs, physical, runVars, pastVars>>

Publish(s) ==
  /\ Return(s, "publish", "release", "completed")
  /\ UNCHANGED <<redisVars, dbVars, runVars, pastVars>>

\* A step throws: pull, build, generate, reload, backup or publish.  A reload
\* that throws leaves the migration beside it executing: Promise.all rejects
\* without waiting for it.
FailStep(s) ==
  /\ "step" \in Faults
  /\ \E p \in {"pull", "generate", "apply", "snapshot", "save", "publish"} :
       Goto(s, p, "restore")
  /\ physical' \in IF pc[s] = "generate" THEN Cleaned(s) ELSE {physical}
  /\ failed' = failed \cup {s}
  /\ UNCHANGED <<redisVars, attempt, kind, outcome, defs, history, hasBackup,
                 runVars, overrun>>

-----------------------------------------------------------------------------
(* The restore of a failed run. *)

\* restore deletes the table of a failed create by its name; the call made by
\* an earlier restore carries the type and no name, and what the driver does
\* with a criterion of undefined (nothing, or every row) is left open.
AfterDelete(s) ==
  CASE kind[s] = "create"        -> {defs \ {s}}
    [] kind[s] = "restoreCreate" -> {defs, {}}
    [] OTHER                     -> {defs}

\* save(schema) writes the tables of the backup back: it undoes every later
\* change of theirs and leaves alone the tables created since.
Restored(d) == {c \in d : kind[c] = "create"} \cup history

\* The restore succeeds and fires a syncAll of its own, which it does not wait
\* for; the failed call returns "completed" all the same.
Restore(s) ==
  /\ hasBackup
  /\ pc[s] = "restore"
  /\ \E d \in AfterDelete(s) : defs' = Restored(d)
  /\ \E r \in Syncs :
       /\ pc[r] = "idle"
       /\ pc' = [pc EXCEPT ![s] = "release", ![r] = "set"]
       /\ kind' = [kind EXCEPT ![r] = IF kind[s] \in {"create", "restoreCreate"}
                                        THEN "restoreCreate" ELSE "restoreUpdate"]
  /\ outcome' = [outcome EXCEPT ![s] = "completed"]
  /\ UNCHANGED <<redisVars, attempt, physical, history, hasBackup, runVars,
                 pastVars>>

\* No backup to restore, or the restore throws, before or after its delete (or,
\* a bound of the model, no member of Syncs is left for the restore's call).
\* The status is the same.
RestoreNothing(s) ==
  /\ Return(s, "restore", "release", "completed")
  /\ IF hasBackup THEN defs' \in AfterDelete(s) \cup {defs}
                  ELSE defs' \in AfterDelete(s)
  /\ UNCHANGED <<redisVars, physical, history, hasBackup, runVars, pastVars>>

-----------------------------------------------------------------------------
(* The environment: TTLs and crashes. *)

\* Mutant: SET NX without PX, the key never expires.
ExpireLockNever == FALSE /\ UNCHANGED vars

ExpireLock ==
  /\ "expiry" \in Faults
  /\ lock # NoSync
  /\ lock' = NoSync
  /\ overrun' = IF pc[lock] \in Section THEN overrun \cup {lock} ELSE overrun
  /\ UNCHANGED <<latest, callVars, dbVars, runVars, failed>>

ExpireLatest ==
  /\ "expiry" \in Faults
  /\ latest # NoSync
  /\ latest' = NoSync
  /\ UNCHANGED <<lock, callVars, dbVars, runVars, pastVars>>

\* The instance of a call dies; so does its migration, applied or not, and its
\* cleanup of tables.
Crash(s) ==
  /\ "crash" \in Faults
  /\ pc[s] \in Waiting \cup Section \/ s \in migrating
  /\ pc' = [pc EXCEPT ![s] = "crashed"]
  /\ migrating' = migrating \ {s}
  /\ physical' \in CASE pc[s] = "generate" -> Cleaned(s)
                     [] s \in migrating      -> {physical, Migrated(s)}
                     [] OTHER                -> {physical}
  /\ UNCHANGED <<redisVars, attempt, kind, outcome, defs, history, hasBackup,
                 seen, base, pastVars>>

-----------------------------------------------------------------------------

\* What a call does by itself when nothing fails.
Step(s) ==
  \/ SetLatest(s) \/ Acquire(s) \/ AcquireBusy(s)
  \/ CheckHeldLatest(s) \/ CheckHeldSkip(s)
  \/ CheckBusyWait(s) \/ CheckBusySkip(s) \/ CheckBusyTimeout(s)
  \/ Retry(s) \/ Release(s)
  \/ Pull(s) \/ Generate(s) \/ FinishApply(s) \/ Snapshot(s) \/ Save(s)
  \/ Publish(s) \/ Restore(s) \/ RestoreNothing(s)

Fault(s) ==
  \/ SetLatestError(s) \/ AcquireError(s) \/ CheckHeldError(s)
  \/ CheckBusyError(s) \/ ReleaseError(s)
  \/ FailMigration(s) \/ FailStep(s) \/ Crash(s)

Next ==
  \/ \E s \in Syncs : Request(s) \/ Step(s) \/ FinishMigration(s) \/ Fault(s)
  \/ ExpireLock \/ ExpireLatest

Spec == Init /\ [][Next]_vars

\* A live process keeps executing its calls and the database its migrations;
\* Redis keeps its TTLs.  Nothing makes a request or a fault happen.
Fairness ==
  /\ \A s \in Syncs : WF_vars(Step(s)) /\ WF_vars(FinishMigration(s))
  /\ WF_vars(ExpireLock)

FairSpec == Spec /\ Fairness

-----------------------------------------------------------------------------
(* Properties. *)

\* Every variable stays in its domain; among others, no call attempts the lock
\* more than SCHEMA_SYNC_MAX_RETRIES times.
TypeOK ==
  /\ latest \in Syncs \cup {NoSync}
  /\ lock \in Syncs \cup {NoSync}
  /\ pc \in [Syncs -> {"idle"} \cup Waiting \cup Section \cup Ended]
  /\ attempt \in [Syncs -> 0..MaxAttempts]
  /\ kind \in [Syncs -> Kinds]
  /\ outcome \in [Syncs -> Outcomes]
  /\ defs \subseteq Syncs /\ physical \subseteq Syncs /\ history \subseteq Syncs
  /\ hasBackup \in BOOLEAN
  /\ seen \in [Syncs -> SUBSET Syncs] /\ base \in [Syncs -> SUBSET Syncs]
  /\ migrating \subseteq Syncs /\ overrun \subseteq Syncs /\ failed \subseteq Syncs

\* A call between its acquire and its release owns the processing lock, unless
\* the lock ran out under it: no other call's late release takes it away.
LockOwned ==
  \A s \in Syncs : pc[s] \in Section /\ s \notin overrun => lock = s

\* Two calls run at once only where one of them outlived its lock.
ExclusiveRun ==
  \A s, t \in Syncs :
    s # t /\ pc[s] \in Section /\ pc[t] \in Section => s \in overrun \/ t \in overrun

\* Two migrations execute at once only where one run outlived its lock, or was
\* rolled back while its migration was still executing.
ExclusiveMigration ==
  \A s, t \in migrating : s # t => s \in overrun \cup failed \/ t \in overrun \cup failed

\* Every early return of the section goes through release: without an error
\* of Redis or a crash, a taken lock has a call at work behind it.
LockAccounted ==
  Faults \cap {"redis", "crash"} = {} /\ lock # NoSync => pc[lock] \in Section

\* No run outlived its lock and no call of a restore failed in its turn: the
\* delete of that call's own restore names no table
\* (schema-history.service.ts:83), and a change it takes away may come back
\* from the backup while a rolled back migration still removes it.
Orderly == overrun = {} /\ \A r \in failed : ~IsRestore(r)

\* Superseding is sound inside the locks, whatever the TTL of the latest key
\* does: once a latest call of the API ran to its end, every change still in the
\* metadata whose own call gave up in its favour, ran, or timed out is in the
\* physical schema.
LatestCoversAll ==
  Orderly =>
    \A s \in Syncs \ failed :
      latest = s /\ outcome[s] = "completed" /\ ~IsRestore(s) =>
        \A c \in defs : outcome[c] \in {"skipped", "completed", "timeout"} => c \in physical

\* A run that came to its end without a fault of its own has its change in the
\* physical schema for as long as the metadata contains it: neither the cleanup
\* of a later run nor a migration still executing after its rollback drops it.
CompletedIsMigrated ==
  Orderly => \A s \in defs \ failed : outcome[s] = "completed" => s \in physical

\* The calls implement the lease of LeaseLock: no step but the holder's own or
\* the TTL ends a lease, and only a free key is granted.
Lease == INSTANCE LeaseLock WITH
           Clients <- Syncs, Nobody <- NoSync, holder <- lock,
           inside <- {s \in Syncs : pc[s] \in Section}, late <- overrun
ImplementsLease == Lease!LeaseSpec

\* Every call of syncAll ends: the retry loop is bounded whatever holds the
\* lock, and whether or not its TTL ever ends.
EveryCallEnds == \A s \in Syncs : pc[s] # "idle" ~> pc[s] \in Ended

\* No crash and no lost reply keeps the lock taken for good.
LockIsFreed == \A s \in Syncs : lock = s ~> lock # s

Quiet == migrating = {} /\ \A s \in Syncs : pc[s] \in {"idle"} \cup Ended

\* docs/API.md:567-578: creating or modifying a table "automatically" creates
\* and runs its migration.  Refuted: the call of the newest change gives up
\* after SCHEMA_SYNC_MAX_RETRIES while an older run is still at work.
AcceptedIsMigrated == Quiet => defs \subseteq physical
=============================================================================
