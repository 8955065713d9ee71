------------------------------ MODULE Bootstrap ------------------------------
(***************************************************************************)
(* The start of the instances: initializeDatabase of main.ts (entities of  *)
(* the snapshot, TypeORM synchronize), then BootstrapService.              *)
(* onApplicationBootstrap: on an installation that is not initialised      *)
(* CoreInitService writes the snapshot's metadata in one transaction;      *)
(* always DefaultDataService upserts the default records, each with a find *)
(* and then an insert or update; then the schema is synchronised.  The     *)
(* instances share the database and may start together.                    *)
(*                                                                         *)
(* The metadata of the system tables is a set of columns: those of the     *)
(* snapshot and custom ones added through the API.  syncAll (SchemaSync)   *)
(* is here the one step that makes the physical schema equal to them.      *)
(***************************************************************************)
EXTENDS Naturals, Sequences, FiniteSets

CONSTANTS Instances,
          Snapshot, Custom,        \* columns of data/snapshot.json; custom columns
          Defaults,                \* the default records of init.json, in their order
          Setting,                 \* the one of setting_definition
          UniqueRecords,           \* those whose table has a unique constraint
          Needs,                   \* the default records each one is skipped without
          MaxFaults                \* bound: errors and crashes

Records == {Defaults[n] : n \in DOMAIN Defaults}

ASSUME RecordsAssumption ==
  /\ Defaults \in Seq(Records) /\ Setting \in Records \ UniqueRecords
  /\ UniqueRecords \subseteq Records /\ Needs \in [Records -> SUBSET Records]
\* What a record needs (a route, a method) comes before it in init.json and needs
\* nothing itself.
ASSUME NeedsAssumption ==
  \A n \in DOMAIN Defaults : \A k \in Needs[Defaults[n]] :
    Needs[k] = {} /\ \E m \in 1..(n - 1) : Defaults[m] = k
ASSUME ColumnsAssumption == Snapshot # {} /\ Snapshot \cap Custom = {}
ASSUME InstancesAssumption == IsFiniteSet(Instances)
ASSUME FaultsAssumption == MaxFaults \in Nat

VARIABLES
  physical, \* columns of the system tables in the database
  meta,     \* column_definition of the system tables
  rows,     \* how many rows each default record has
  isInit,   \* isInit of the setting rows, in the order of their ids
  bootLock, \* global:boot is held
  pc,       \* where each instance is
  seen,     \* the metadata its transaction has read
  next,     \* the default record it is at
  found,    \* whether its find returned a row (and, of the setting, its isInit)
  first,    \* it boots an installation it has found not initialised
  faults,
  raced,    \* history: records inserted while another instance was about to, too
  missed,   \* history: records whose upsert failed
  torn      \* history: a start has recreated the schema of an installation that
            \* was initialised by the time its bootstrap read isInit

database == <<physical, meta, rows, isInit>>
progress == <<seen, next, found, first>>
past     == <<raced, missed, torn>>
vars     == <<database, bootLock, pc, progress, faults, past>>

Booting == {"initDb", "schema", "read", "create", "commit", "find", "write",
            "sync", "reread", "mark", "lock", "syncBoot"}

Init ==
  /\ physical = {} /\ meta = {}
  /\ rows = [k \in Records |-> 0] /\ isInit = <<>>
  /\ bootLock = FALSE
  /\ pc = [i \in Instances |-> "down"]
  /\ seen = [i \in Instances |-> {}]
  /\ next = [i \in Instances |-> 0]
  /\ found = [i \in Instances |-> "absent"]
  /\ first = [i \in Instances |-> FALSE]
  /\ faults = 0
  /\ raced = {} /\ missed = {} /\ torn = FALSE

-----------------------------------------------------------------------------

Goto(i, from, to) == pc[i] = from /\ pc' = [pc EXCEPT ![i] = to]

Fault == faults < MaxFaults /\ faults' = faults + 1

\* A step that only moves on, one that fails, and the end of a process.
Advance(i, from, to) ==
  Goto(i, from, to) /\ UNCHANGED <<database, bootLock, progress, faults, past>>
Fail(i, from, to) ==
  Goto(i, from, to) /\ Fault /\ UNCHANGED <<database, bootLock, progress, past>>
Exit(i, from, to) ==
  /\ Goto(i, from, to)
  /\ seen' = [seen EXCEPT ![i] = {}]
  /\ next' = [next EXCEPT ![i] = 0]
  /\ found' = [found EXCEPT ![i] = "absent"]
  /\ first' = [first EXCEPT ![i] = FALSE]
  /\ UNCHANGED <<database, bootLock, past>>

Initialised == isInit # <<>> /\ isInit[1]

\* A process is started, or started again by its supervisor.
Start(i) ==
  /\ pc[i] \in {"down", "failed"}
  /\ pc' = [pc EXCEPT ![i] = "initDb"]
  /\ UNCHANGED <<database, bootLock, progress, faults, past>>

-----------------------------------------------------------------------------
(* initializeDatabase of scripts/init-db.ts, whose errors main.ts logs. *)

CheckInitialised(i) == Advance(i, "initDb", IF Initialised THEN "read" ELSE "schema")

\* The entities of the snapshot are written over the files and synchronised:
\* what the physical tables have beyond them is dropped.
WriteSchema(i) ==
  /\ Goto(i, "schema", "read")
  /\ physical' = Snapshot
  /\ first' = [first EXCEPT ![i] = TRUE]
  /\ UNCHANGED <<meta, rows, isInit, bootLock, seen, next, found, faults, past>>

WriteSchemaError(i) == Fail(i, "schema", "read")

-----------------------------------------------------------------------------
(* onApplicationBootstrap *)

ReadSetting(i) ==
  /\ Goto(i, "read", IF Initialised THEN "find" ELSE "create")
  /\ physical # {}
  /\ first' = [first EXCEPT ![i] = ~Initialised]
  /\ next' = [next EXCEPT ![i] = 1]
  /\ torn' = (torn \/ (first[i] /\ Initialised))
  /\ UNCHANGED <<database, bootLock, seen, found, faults, raced, missed>>

ReadSettingError(i) == Exit(i, "read", "failed") /\ physical = {} /\ UNCHANGED faults

\* createInitMetadata: one transaction that reads what there is, ...
BeginMetadata(i) ==
  /\ Goto(i, "create", "commit")
  /\ seen' = [seen EXCEPT ![i] = meta]
  /\ UNCHANGED <<database, bootLock, next, found, first, faults, past>>

\* ... inserts what is missing and removes what the snapshot does not have.
CommitMetadata(i) ==
  /\ Goto(i, "commit", "find")
  /\ (Snapshot \ seen[i]) \cap meta = {}
  /\ meta' = (meta \cup Snapshot) \ (seen[i] \ Snapshot)
  /\ seen' = [seen EXCEPT ![i] = {}]
  /\ UNCHANGED <<physical, rows, isInit, bootLock, next, found, first, faults, past>>

\* Mutant for BootRecovers: the transaction is tried again on what it had read.
CommitDuplicateRetried(i) ==
  Advance(i, "commit", "commit") /\ (Snapshot \ seen[i]) \cap meta # {}

\* Another instance has inserted the same names meanwhile: rollback, rethrow.
CommitDuplicate(i) ==
  Exit(i, "commit", "failed") /\ (Snapshot \ seen[i]) \cap meta # {} /\ UNCHANGED faults

\* Mutant for ServesComplete: the error of the transaction is logged, not thrown.
CommitMetadataErrorLogged(i) == Fail(i, "commit", "find")

CommitMetadataError(i) == Exit(i, "commit", "failed") /\ Fault

-----------------------------------------------------------------------------
(* insertAllDefaultRecords: transformRecords, getUniqueIdentifier, findOne,  *)
(* then insert or update of one record after the other.                      *)

Record(i) == Defaults[next[i]]

\* After the last record.
Upserted(i) == IF next[i] < Len(Defaults) THEN "find" ELSE IF first[i] THEN "sync" ELSE "lock"
NextRecord(i) ==
  LET more == next[i] < Len(Defaults) IN
  /\ next' = [next EXCEPT ![i] = IF more THEN @ + 1 ELSE 0]
  /\ first' = [first EXCEPT ![i] = more /\ @]
  /\ found' = [found EXCEPT ![i] = "absent"]

\* Mutant for DuplicatesOnlyRaced: the record is looked up by all its fields.
FindRecordByFields(i) ==
  LET k == Record(i) IN
  /\ Goto(i, "find", "write")
  /\ \A n \in Needs[k] : rows[n] > 0
  /\ found' = [found EXCEPT ![i] = IF rows[k] = 0 \/ (k = Setting /\ isInit[1])
                                   THEN "absent" ELSE "same"]
  /\ UNCHANGED <<database, bootLock, seen, next, first, faults, past>>

FindRecord(i) ==
  LET k == Record(i) IN
  /\ Goto(i, "find", "write")
  /\ \A n \in Needs[k] : rows[n] > 0
  /\ found' = [found EXCEPT ![i] = IF rows[k] = 0 THEN "absent"
                                   ELSE IF k = Setting /\ isInit[1] THEN "changed" ELSE "same"]
  /\ UNCHANGED <<database, bootLock, seen, next, first, faults, past>>

\* transformRecords drops a hook or handler whose route or method is missing.
SkipRecord(i) ==
  /\ Goto(i, "find", Upserted(i)) /\ NextRecord(i)
  /\ \E n \in Needs[Record(i)] : rows[n] = 0
  /\ UNCHANGED <<database, bootLock, seen, faults, past>>

\* A duplicate of a unique record is an error of that record alone.
InsertRecord(i) ==
  LET k == Record(i) IN
  /\ Goto(i, "write", Upserted(i)) /\ NextRecord(i)
  /\ found[i] = "absent"
  /\ rows' = IF k \in UniqueRecords /\ rows[k] > 0 THEN rows ELSE [rows EXCEPT ![k] = @ + 1]
  /\ isInit' = IF k = Setting THEN Append(isInit, FALSE) ELSE isInit
  /\ raced' = IF \E j \in Instances \ {i} :
                   pc[j] = "write" /\ Record(j) = k /\ found[j] = "absent"
                THEN raced \cup ({k} \ UniqueRecords) ELSE raced
  /\ UNCHANGED <<physical, meta, bootLock, seen, faults, missed, torn>>

\* The default setting has isInit = false, and isInit is one of the fields
\* SettingDefinitionProcessor compares and writes back.
UpdateRecord(i) ==
  /\ Goto(i, "write", Upserted(i)) /\ NextRecord(i)
  /\ found[i] # "absent"
  /\ isInit' = IF found[i] = "changed" THEN [isInit EXCEPT ![1] = FALSE] ELSE isInit
  /\ UNCHANGED <<physical, meta, rows, bootLock, seen, faults, past>>

\* process() catches the error of a record and goes on with the next one.
UpsertError(i) ==
  /\ pc[i] \in {"find", "write"} /\ Goto(i, pc[i], Upserted(i)) /\ NextRecord(i)
  /\ Fault
  /\ missed' = missed \cup {Record(i)}
  /\ UNCHANGED <<database, bootLock, seen, raced, torn>>

-----------------------------------------------------------------------------
(* The end of a first boot, and of any other. *)

\* Mutant for SettledIsSynced: the entities are generated from the snapshot.
SyncSnapshot(i) ==
  /\ \/ Goto(i, "sync", "reread")
     \/ Goto(i, "syncBoot", "serving")
  /\ physical' = Snapshot
  /\ UNCHANGED <<meta, rows, isInit, bootLock, progress, faults, past>>

\* syncAll returns its errors as a status nobody looks at.
Sync(i) ==
  /\ \/ Goto(i, "sync", "reread")
     \/ Goto(i, "syncBoot", "serving")
  /\ physical' = meta
  /\ UNCHANGED <<meta, rows, isInit, bootLock, progress, faults, past>>

SyncError(i) == Fail(i, "sync", "reread") \/ Fail(i, "syncBoot", "serving")

RereadSetting(i) == Advance(i, "reread", IF isInit = <<>> THEN "failed" ELSE "mark")

MarkInitialised(i) ==
  /\ Goto(i, "mark", "serving")
  /\ isInit' = [isInit EXCEPT ![1] = TRUE]
  /\ UNCHANGED <<physical, meta, rows, bootLock, progress, faults, past>>

\* The lock is never released: it runs out.
AcquireBootLock(i) ==
  /\ Goto(i, "lock", "syncBoot") /\ ~bootLock
  /\ bootLock' = TRUE
  /\ UNCHANGED <<database, progress, faults, past>>

BootLockBusy(i) == Advance(i, "lock", "serving") /\ bootLock

ExpireBootLock ==
  /\ bootLock /\ bootLock' = FALSE
  /\ UNCHANGED <<database, pc, progress, faults, past>>

-----------------------------------------------------------------------------
(* The environment. *)

\* A custom column added through the API of an instance that serves.
AddColumn ==
  /\ \E i \in Instances : pc[i] = "serving"
  /\ \E c \in Custom \ meta :
       meta' = meta \cup {c} /\ physical' = physical \cup {c}
  /\ UNCHANGED <<rows, isInit, bootLock, pc, progress, faults, past>>

\* A deployment stops a serving instance; a crash stops one that boots.
Stop(i) == Advance(i, "serving", "down")
Crash(i) == pc[i] \in Booting /\ Exit(i, pc[i], "down") /\ Fault

BootStep(i) ==
  \/ CheckInitialised(i) \/ WriteSchema(i)      \/ WriteSchemaError(i)
  \/ ReadSetting(i)      \/ ReadSettingError(i)
  \/ BeginMetadata(i)    \/ CommitMetadata(i)   \/ CommitDuplicate(i) \/ CommitMetadataError(i)
  \/ FindRecord(i)       \/ SkipRecord(i)       \/ InsertRecord(i)
  \/ UpdateRecord(i)     \/ UpsertError(i)
  \/ Sync(i)             \/ SyncError(i)        \/ RereadSetting(i)   \/ MarkInitialised(i)
  \/ AcquireBootLock(i)  \/ BootLockBusy(i)

Next ==
  \/ \E i \in Instances : Start(i) \/ BootStep(i) \/ Stop(i) \/ Crash(i)
  \/ AddColumn \/ ExpireBootLock

Spec == Init /\ [][Next]_vars

\* A process that runs goes on, and its supervisor starts it again when it has
\* failed (docs/ADMIN_GUIDE.md runs it with --restart unless-stopped).
Fairness == \A i \in Instances : WF_vars(BootStep(i)) /\ WF_vars(Start(i))

FairSpec == Spec /\ Fairness

-----------------------------------------------------------------------------
(* Properties. *)

\* Counters, sets and records stay in their domains, the rows of the setting
\* are those isInit lists, and no unique record has two rows.
TypeOK ==
  /\ physical \subseteq Snapshot \cup Custom /\ meta \subseteq Snapshot \cup Custom
  /\ rows \in [Records -> 0..Cardinality(Instances)]
  /\ isInit \in Seq(BOOLEAN) /\ Len(isInit) = rows[Setting]
  /\ \A k \in UniqueRecords : rows[k] <= 1
  /\ bootLock \in BOOLEAN
  /\ pc \in [Instances -> Booting \cup {"down", "failed", "serving"}]
  /\ next \in [Instances -> 0..Len(Defaults) + 1]
  /\ torn \in BOOLEAN /\ raced \cup missed \subseteq Records
  /\ found \in [Instances -> {"absent", "same", "changed"}]
  /\ faults \in 0..MaxFaults

\* However often and in whatever order instances boot, a default record has
\* more than one row only if two of them upserted it at the same time.
DuplicatesOnlyRaced == \A k \in Records : rows[k] > 1 => k \in raced

\* An instance that serves does so on a complete installation: the metadata of
\* the whole snapshot, and every default record but those whose own upsert, or
\* that of a record they need, failed.
ServesComplete ==
  (\E i \in Instances : pc[i] = "serving") =>
     /\ Snapshot \subseteq meta
     /\ \A k \in Records : rows[k] = 0 => ({k} \cup Needs[k]) \cap missed # {}

\* When every instance serves and nothing has failed, the physical tables have
\* the columns the metadata names, whoever booted beside whom and whether or not
\* its boot skipped the synchronisation.  The exception is a start that has read
\* isInit twice with two results: it drops the custom columns and may then leave
\* their synchronisation to an instance that has done its own before.
SettledIsSynced ==
  (\A i \in Instances : pc[i] = "serving") /\ faults = 0 /\ ~torn => physical = meta

\* Every boot that starts leads to an instance that serves, through the failures
\* and the conflicts of first boots.
BootRecovers == \A i \in Instances : pc[i] \in Booting ~> pc[i] = "serving"

\* scripts/init-db.ts:501: an installation that is initialised stays so, and the
\* setup is skipped.  Refuted: the setting's upsert writes isInit of init.json back
\* at every boot (setting-definition.processor.ts:12).
StaysInitialised == [][Initialised => Initialised']_vars
=============================================================================
