-------------------------- MODULE BootstrapProofs --------------------------
(***************************************************************************)
(* Theorems about Bootstrap, for every set of instances, every list of     *)
(* default records and any number of failures.                             *)
(*                                                                         *)
(* That a record is inserted twice only by a race is not inductive by      *)
(* itself.  What carries it is that an instance whose find came before the *)
(* insert of another one was already about to insert at that moment, so    *)
(* that the insert recorded the race (Overtaken).                          *)
(*                                                                         *)
(* That an instance serves on a complete installation rests on what it has *)
(* settled at each record (Complete), and that the physical tables end as  *)
(* the metadata says on who still has to synchronise them (Owes, Synced):  *)
(* a first boot whose transaction is overtaken leaves that debt to the one *)
(* that overtook it.                                                       *)
(*                                                                         *)
(* That a record has a row per instance at most needs those that are about *)
(* to insert it to be counted with its rows (RowsBounded).                 *)
(***************************************************************************)
EXTENDS Bootstrap, TLAPS, FiniteSetTheorems, SequenceTheorems

\* The progress of an instance through the default records.
Progress ==
  /\ pc \in [Instances -> Booting \cup {"down", "failed", "serving"}]
  /\ next \in [Instances -> Nat]
  /\ found \in [Instances -> {"absent", "same", "changed"}]
  /\ first \in [Instances -> BOOLEAN]
  /\ rows \in [Records -> Nat]
  /\ \A i \in Instances :
       pc[i] \in {"create", "commit", "find", "write"} => next[i] \in DOMAIN Defaults

\* An instance that is about to insert a record that is there by now was raced.
Overtaken ==
  \A i \in Instances :
    pc[i] = "write" /\ found[i] = "absent" /\ rows[Record(i)] > 0
      => Record(i) \in raced \cup UniqueRecords

\* A unique record has one row.
UniqueOnce == \A k \in UniqueRecords : rows[k] <= 1

RaceInv == Progress /\ UniqueOnce /\ Overtaken /\ DuplicatesOnlyRaced

-----------------------------------------------------------------------------

LEMMA FirstRecord == 1 \in DOMAIN Defaults
<1>1. Defaults \in Seq(Records) /\ Setting \in Records
  BY RecordsAssumption
<1>2. PICK n \in DOMAIN Defaults : Setting = Defaults[n]
  BY <1>1 DEF Records
<1>3. Len(Defaults) \in Nat /\ DOMAIN Defaults = 1..Len(Defaults)
  BY <1>1
<1> QED
  BY <1>2, <1>3

\* The record an instance is at is one of the default records.
LEMMA RecordType ==
  ASSUME Progress, NEW i \in Instances, pc[i] \in {"find", "write"}
  PROVE  Record(i) \in Records
BY DEF Progress, Record, Records

\* The steps through the records keep their counter in the list.
LEMMA NextRecordType ==
  ASSUME Progress, NEW i \in Instances, NextRecord(i), pc[i] \in {"find", "write"},
         Goto(i, pc[i], Upserted(i)), rows' \in [Records -> Nat]
  PROVE  Progress'
<1>1. Len(Defaults) \in Nat /\ DOMAIN Defaults = 1..Len(Defaults)
  BY RecordsAssumption
<1>2. next[i] \in 1..Len(Defaults)
  BY <1>1 DEF Progress
<1>3. next' \in [Instances -> Nat] /\ \A j \in Instances \ {i} : next'[j] = next[j]
  BY <1>1, <1>2 DEF Progress, NextRecord
<1>4. Upserted(i) = "find" => next'[i] \in 1..Len(Defaults)
  BY <1>1, <1>2 DEF Progress, NextRecord, Upserted
<1>5. Upserted(i) \in {"find", "sync", "lock"}
  BY DEF Upserted
<1>6. pc' = [pc EXCEPT ![i] = Upserted(i)]
  BY DEF Goto
<1>7. pc' \in [Instances -> Booting \cup {"down", "failed", "serving"}]
  BY <1>5, <1>6 DEF Progress, Booting
<1>8. found' \in [Instances -> {"absent", "same", "changed"}]
  BY DEF Progress, NextRecord
<1>9. first' \in [Instances -> BOOLEAN]
  <2>1. first' = [first EXCEPT ![i] = next[i] < Len(Defaults) /\ first[i]]
    BY DEF Progress, NextRecord
  <2>2. (next[i] < Len(Defaults) /\ first[i]) \in BOOLEAN
    OBVIOUS
  <2> QED
    BY <2>1, <2>2, Zenon DEF Progress
<1>10. \A j \in Instances :
        pc'[j] \in {"create", "commit", "find", "write"} => next'[j] \in DOMAIN Defaults
  BY <1>1, <1>3, <1>4, <1>5, <1>6 DEF Progress
<1> QED
  BY <1>3, <1>7, <1>8, <1>9, <1>10 DEF Progress

\* A step that writes no record and starts no insert leaves the races alone.
LEMMA Undisturbed ==
  ASSUME RaceInv, Progress', rows' = rows, raced' = raced,
         \A j \in Instances : pc'[j] = "write" /\ found'[j] = "absent" =>
           pc[j] = "write" /\ found[j] = "absent" /\ next'[j] = next[j]
  PROVE  RaceInv'
<1>1. UniqueOnce' /\ DuplicatesOnlyRaced'
  BY DEF RaceInv, UniqueOnce, DuplicatesOnlyRaced
<1>2. Overtaken'
  BY DEF RaceInv, Overtaken, Record
<1> QED
  BY <1>1, <1>2 DEF RaceInv

LEMMA FindRaces ==
  ASSUME RaceInv, NEW i \in Instances, FindRecord(i)
  PROVE  RaceInv'
<1> USE DEF RaceInv, FindRecord, Goto
<1>1. Record(i) \in Records /\ rows[Record(i)] \in Nat
  BY RecordType DEF Progress
<1>2. /\ pc[i] = "find" /\ pc' = [pc EXCEPT ![i] = "write"]
      /\ UNCHANGED <<rows, next, first, raced>>
  BY DEF database, past
<1>3. found'[i] = "absent" => rows[Record(i)] = 0
  BY DEF Progress
<1>4. \A j \in Instances \ {i} : pc'[j] = pc[j] /\ found'[j] = found[j]
  BY <1>2 DEF Progress
<1>5. Progress'
  BY <1>2 DEF Progress, Booting
<1>6. UniqueOnce' /\ DuplicatesOnlyRaced'
  BY <1>2 DEF UniqueOnce, DuplicatesOnlyRaced
<1>7. Overtaken'
  <2> SUFFICES ASSUME NEW j \in Instances, pc'[j] = "write", found'[j] = "absent",
                      rows[Record(j)] > 0
               PROVE  Record(j) \in raced \cup UniqueRecords
    BY <1>2 DEF Overtaken, Record
  <2>1. j # i
    BY <1>1, <1>3
  <2> QED
    BY <2>1, <1>4 DEF Overtaken
<1> QED
  BY <1>5, <1>6, <1>7

LEMMA InsertRaces ==
  ASSUME RaceInv, NEW i \in Instances, InsertRecord(i)
  PROVE  RaceInv'
<1> DEFINE k == Record(i)
<1>1. /\ pc[i] = "write" /\ found[i] = "absent" /\ NextRecord(i)
      /\ Goto(i, pc[i], Upserted(i))
      /\ rows' = IF k \in UniqueRecords /\ rows[k] > 0 THEN rows ELSE [rows EXCEPT ![k] = @ + 1]
      /\ raced' = IF \E j \in Instances \ {i} :
                       pc[j] = "write" /\ Record(j) = k /\ found[j] = "absent"
                    THEN raced \cup ({k} \ UniqueRecords) ELSE raced
  BY DEF InsertRecord, Goto
<1>2. k \in Records /\ rows \in [Records -> Nat]
  BY <1>1, RecordType DEF RaceInv, Progress
<1>3. rows' \in [Records -> Nat]
  BY <1>1, <1>2
<1>4. Progress'
  BY <1>1, <1>3, NextRecordType DEF RaceInv
<1>5. \A l \in Records \ {k} : rows'[l] = rows[l]
  BY <1>1, <1>2
<1>6. raced \subseteq raced'
  BY <1>1
<1>7. UniqueOnce'
  BY <1>1, <1>2, <1>5, RecordsAssumption DEF RaceInv, UniqueOnce
<1>8. DuplicatesOnlyRaced'
  <2> SUFFICES ASSUME NEW l \in Records, rows'[l] > 1 PROVE l \in raced'
    BY DEF DuplicatesOnlyRaced
  <2>1. CASE l # k
    BY <2>1, <1>5, <1>6 DEF RaceInv, DuplicatesOnlyRaced
  <2>2. CASE l = k
    <3>1. k \notin UniqueRecords
      BY <2>2, <1>3, <1>7 DEF UniqueOnce
    <3>2. rows[k] > 0
      BY <2>2, <3>1, <1>1, <1>2
    <3>3. k \in raced
      BY <3>1, <3>2, <1>1 DEF RaceInv, Overtaken
    <3> QED
      BY <2>2, <3>3, <1>6
  <2> QED
    BY <2>1, <2>2
<1>9. Overtaken'
  <2> SUFFICES ASSUME NEW j \in Instances, pc'[j] = "write", found'[j] = "absent",
                      rows'[Record(j)'] > 0
               PROVE  Record(j)' \in raced' \cup UniqueRecords
    BY DEF Overtaken
  <2>1. pc' = [pc EXCEPT ![i] = Upserted(i)] /\ Upserted(i) # "write"
    BY <1>1 DEF Goto, Upserted
  <2>2. j # i
    BY <2>1 DEF RaceInv, Progress
  <2>3. pc[j] = "write" /\ found[j] = "absent" /\ next'[j] = next[j]
    BY <2>1, <2>2, <1>1 DEF RaceInv, Progress, NextRecord
  <2>4. Record(j)' = Record(j) /\ Record(j) \in Records
    BY <2>3, RecordType DEF RaceInv, Record
  <2>5. CASE Record(j) = k
    <3>1. \E h \in Instances \ {i} : pc[h] = "write" /\ Record(h) = k /\ found[h] = "absent"
      BY <2>2, <2>3, <2>5
    <3>2. raced' = raced \cup ({k} \ UniqueRecords)
      BY <3>1, <1>1
    <3> QED
      BY <2>4, <2>5, <3>2
  <2>6. CASE Record(j) # k
    BY <2>3, <2>4, <2>6, <1>5, <1>6 DEF RaceInv, Overtaken
  <2> QED
    BY <2>5, <2>6
<1> QED
  BY <1>4, <1>7, <1>8, <1>9 DEF RaceInv

\* The other ends of an upsert.
LEMMA SkipRaces ==
  ASSUME RaceInv, NEW i \in Instances, SkipRecord(i) \/ UpdateRecord(i) \/ UpsertError(i)
  PROVE  RaceInv'
<1>1. /\ pc[i] \in {"find", "write"} /\ NextRecord(i) /\ Goto(i, pc[i], Upserted(i))
      /\ UNCHANGED <<rows, raced>>
  BY DEF SkipRecord, UpdateRecord, UpsertError, Goto, database, past
<1>2. Progress'
  BY <1>1, NextRecordType DEF RaceInv, Progress
<1>3. pc' = [pc EXCEPT ![i] = Upserted(i)] /\ Upserted(i) # "write"
  BY <1>1 DEF Goto, Upserted
<1>4. \A j \in Instances : pc'[j] = "write" =>
        pc[j] = "write" /\ found'[j] = found[j] /\ next'[j] = next[j]
  BY <1>1, <1>3 DEF RaceInv, Progress, NextRecord
<1> QED
  BY <1>1, <1>2, <1>4, Undisturbed

-----------------------------------------------------------------------------

LEMMA InitRaces == Init => RaceInv
<1> SUFFICES ASSUME Init PROVE RaceInv
  OBVIOUS
<1>1. Progress
  BY DEF Init, Progress
<1>2. UniqueOnce /\ DuplicatesOnlyRaced
  BY RecordsAssumption DEF Init, UniqueOnce, DuplicatesOnlyRaced
<1>3. Overtaken
  BY DEF Init, Overtaken
<1> QED
  BY <1>1, <1>2, <1>3 DEF RaceInv

\* The end of a process.
LEMMA ExitRaces ==
  ASSUME RaceInv, NEW i \in Instances, NEW from, NEW to \in {"down", "failed"}, Exit(i, from, to)
  PROVE  RaceInv'
<1>1. /\ pc' = [pc EXCEPT ![i] = to] /\ next' = [next EXCEPT ![i] = 0]
      /\ found' = [found EXCEPT ![i] = "absent"] /\ first' = [first EXCEPT ![i] = FALSE]
      /\ UNCHANGED <<rows, raced>>
  BY DEF Exit, Goto, database, past
<1>2. Progress'
  BY <1>1 DEF RaceInv, Progress
<1> QED
  BY <1>1, <1>2, Undisturbed DEF RaceInv, Progress

\* A step that moves an instance on outside the upserts, with or without effect on
\* the metadata and the physical tables.
LEMMA MoveRaces ==
  ASSUME RaceInv, NEW i \in Instances, NEW from, NEW to, Goto(i, from, to),
         \/ to \in Booting \ {"find", "write", "create", "commit"}
         \/ to \in {"down", "failed", "serving"},
         UNCHANGED <<rows, next, found, raced>>, first' \in [Instances -> BOOLEAN]
  PROVE  RaceInv'
<1>1. pc' = [pc EXCEPT ![i] = to]
  BY DEF Goto
<1>2. Progress'
  BY <1>1 DEF RaceInv, Progress
<1> QED
  BY <1>1, <1>2, Undisturbed DEF RaceInv, Progress

LEMMA ReadRaces ==
  ASSUME RaceInv, NEW i \in Instances, ReadSetting(i)
  PROVE  RaceInv'
<1>1. /\ pc' = [pc EXCEPT ![i] = IF Initialised THEN "find" ELSE "create"]
      /\ next' = [next EXCEPT ![i] = 1] /\ first' = [first EXCEPT ![i] = ~Initialised]
      /\ UNCHANGED <<rows, found, raced>>
  BY DEF ReadSetting, Goto, database
<1>2. first' \in [Instances -> BOOLEAN]
  <2>1. (~Initialised) \in BOOLEAN
    OBVIOUS
  <2> QED
    BY <1>1, <2>1, Zenon DEF RaceInv, Progress
<1>3. Progress'
  BY <1>1, <1>2, FirstRecord DEF RaceInv, Progress, Booting
<1> QED
  BY <1>1, <1>3, Undisturbed DEF RaceInv, Progress

\* The transaction of the metadata comes before the first record.
LEMMA MetadataRaces ==
  ASSUME RaceInv, NEW i \in Instances,
         BeginMetadata(i) \/ CommitMetadata(i)
  PROVE  RaceInv'
<1>1. /\ \/ pc[i] = "create" /\ pc' = [pc EXCEPT ![i] = "commit"]
         \/ pc[i] = "commit" /\ pc' = [pc EXCEPT ![i] = "find"]
      /\ UNCHANGED <<rows, next, found, first, raced>>
  BY DEF BeginMetadata, CommitMetadata, Goto, database, past
<1>2. Progress'
  BY <1>1 DEF RaceInv, Progress, Booting
<1> QED
  BY <1>1, <1>2, Undisturbed DEF RaceInv, Progress

LEMMA BootRaces ==
  ASSUME RaceInv, NEW i \in Instances, BootStep(i)
  PROVE  RaceInv'
<1> USE DEF Advance, Fail, database, progress, past
<1>0. first \in [Instances -> BOOLEAN]
  BY DEF RaceInv, Progress
<1>1. CASE CheckInitialised(i)
  BY <1>0, <1>1, MoveRaces DEF CheckInitialised, Booting
<1>2. CASE WriteSchema(i)
  BY <1>0, <1>2, MoveRaces DEF WriteSchema, Booting
<1>3. CASE WriteSchemaError(i)
  BY <1>0, <1>3, MoveRaces DEF WriteSchemaError, Booting
<1>4. CASE ReadSetting(i)
  BY <1>4, ReadRaces
<1>5. CASE ReadSettingError(i) \/ CommitDuplicate(i) \/ CommitMetadataError(i)
  BY <1>5, ExitRaces DEF ReadSettingError, CommitDuplicate, CommitMetadataError
<1>6. CASE BeginMetadata(i) \/ CommitMetadata(i)
  BY <1>6, MetadataRaces
<1>7. CASE FindRecord(i)
  BY <1>7, FindRaces
<1>8. CASE InsertRecord(i)
  BY <1>8, InsertRaces
<1>9. CASE SkipRecord(i) \/ UpdateRecord(i) \/ UpsertError(i)
  BY <1>9, SkipRaces
<1>10. CASE Sync(i)
  BY <1>0, <1>10, MoveRaces DEF Sync, Booting
<1>11. CASE SyncError(i)
  BY <1>0, <1>11, MoveRaces DEF SyncError, Booting
<1>12. CASE RereadSetting(i)
  BY <1>0, <1>12, MoveRaces DEF RereadSetting, Booting
<1>13. CASE MarkInitialised(i)
  BY <1>0, <1>13, MoveRaces DEF MarkInitialised, Booting
<1>14. CASE AcquireBootLock(i)
  BY <1>0, <1>14, MoveRaces DEF AcquireBootLock, Booting
<1>15. CASE BootLockBusy(i)
  BY <1>0, <1>15, MoveRaces DEF BootLockBusy, Booting
<1> QED
  BY <1>1, <1>2, <1>3, <1>4, <1>5, <1>6, <1>7, <1>8, <1>9, <1>10, <1>11, <1>12, <1>13,
     <1>14, <1>15 DEF BootStep

LEMMA NextRaces == RaceInv /\ [Next]_vars => RaceInv'
<1> SUFFICES ASSUME RaceInv, [Next]_vars PROVE RaceInv'
  OBVIOUS
<1> USE DEF database, progress, past
<1>0. first \in [Instances -> BOOLEAN]
  BY DEF RaceInv, Progress
<1>1. ASSUME NEW i \in Instances, Start(i) PROVE RaceInv'
  <2>1. Goto(i, pc[i], "initDb") /\ UNCHANGED <<rows, next, found, raced, first>>
    BY <1>1 DEF Start, Goto
  <2> QED
    BY <1>0, <2>1, MoveRaces DEF Booting
<1>2. ASSUME NEW i \in Instances, BootStep(i) PROVE RaceInv'
  BY <1>2, BootRaces
<1>3. ASSUME NEW i \in Instances, Stop(i) PROVE RaceInv'
  BY <1>0, <1>3, MoveRaces DEF Stop, Advance
<1>4. ASSUME NEW i \in Instances, Crash(i) PROVE RaceInv'
  BY <1>4, ExitRaces DEF Crash
<1>5. CASE AddColumn
  BY <1>5, Undisturbed DEF AddColumn, RaceInv, Progress
<1>6. CASE ExpireBootLock
  BY <1>6, Undisturbed DEF ExpireBootLock, RaceInv, Progress
<1>7. CASE UNCHANGED vars
  BY <1>7, Undisturbed DEF vars, RaceInv, Progress
<1> QED
  BY <1>1, <1>2, <1>3, <1>4, <1>5, <1>6, <1>7 DEF Next

\* A default record has more than one row only if two instances upserted it at the
\* same time, for any number of instances, records, failures and restarts.
THEOREM OnlyRacesDuplicate == Spec => []DuplicatesOnlyRaced
<1>1. RaceInv => DuplicatesOnlyRaced
  BY DEF RaceInv
<1> QED
  BY <1>1, InitRaces, NextRaces, PTL DEF Spec

-----------------------------------------------------------------------------
(* What a boot leaves behind. *)

\* The record is there, or its upsert failed, or that of one it needs did.
Settled(k) == rows[k] > 0 \/ ({k} \cup Needs[k]) \cap missed # {}

AtRecords == {"find", "write"}
Beyond    == {"sync", "reread", "mark", "lock", "syncBoot", "serving"}

\* An instance past the metadata has the snapshot's, and has settled the records
\* it has been at, from the first.
CompleteAt(i) ==
  /\ pc[i] \in {"create", "commit"} => next[i] = 1
  /\ pc[i] \in AtRecords \cup Beyond => Snapshot \subseteq meta
  /\ pc[i] \in AtRecords => \A n \in 1..(next[i] - 1) : Settled(Defaults[n])
  /\ pc[i] = "write" /\ found[i] # "absent" => rows[Record(i)] > 0
  /\ pc[i] \in Beyond => \A k \in Records : Settled(k)

Complete ==
  /\ Initialised => Snapshot \subseteq meta
  /\ \A i \in Instances : CompleteAt(i)

\* An instance that will synchronise before it serves: a first boot, unless its
\* transaction has read too little to be committed.
Owes(i) ==
  \/ pc[i] = "sync" \/ pc[i] = "create"
  \/ pc[i] \in {"read", "find", "write"} /\ first[i]
  \/ pc[i] = "commit" /\ (Snapshot \ seen[i]) \cap meta = {}

FirstPlaces == {"read", "create", "commit"} \cup AtRecords

FirstAt(i) ==
  /\ first[i] => pc[i] \in FirstPlaces
  /\ pc[i] \in {"create", "commit"} => first[i]
  /\ pc[i] = "read" /\ first[i] => physical # {}

\* Where the physical tables are not what the metadata says, somebody is going to
\* synchronise them.
Synced ==
  /\ faults \in Nat
  /\ \A i \in Instances : FirstAt(i)
  /\ faults = 0 /\ ~torn => physical = meta \/ \E i \in Instances : Owes(i)

Seen == DOMAIN seen = Instances

-----------------------------------------------------------------------------

LEMMA InitComplete == Init => Complete
BY DEF Init, Complete, CompleteAt, AtRecords, Beyond, Initialised

\* Rows, failures and the metadata of the snapshot only grow, so a step of an
\* instance takes nothing from the others.
LEMMA StillComplete ==
  ASSUME Progress, Complete, NEW i \in Instances,
         \A j \in Instances \ {i} : pc'[j] = pc[j] /\ next'[j] = next[j] /\ found'[j] = found[j],
         \A k \in Records : rows[k] > 0 => rows'[k] > 0,
         missed \subseteq missed',
         Snapshot \subseteq meta => Snapshot \subseteq meta',
         Initialised' => Initialised \/ pc[i] \in AtRecords \cup Beyond,
         CompleteAt(i)'
  PROVE  Complete'
<1>1. Snapshot \subseteq meta' \/ ~Initialised'
  BY DEF Complete, CompleteAt
<1>2. \A k \in Records : Settled(k) => Settled(k)'
  BY DEF Settled
<1>3. ASSUME NEW j \in Instances \ {i}
      PROVE  CompleteAt(j)'
  <2>1. CompleteAt(j) /\ pc'[j] = pc[j] /\ next'[j] = next[j] /\ found'[j] = found[j]
    BY DEF Complete
  <2>2. pc[j] \in AtRecords => \A n \in 1..(next[j] - 1) : Defaults[n] \in Records
    <3> SUFFICES ASSUME pc[j] \in AtRecords, NEW n \in 1..(next[j] - 1)
                 PROVE  n \in DOMAIN Defaults
      BY DEF Records
    <3>1. next[j] \in DOMAIN Defaults
      BY DEF Progress, AtRecords
    <3>2. Len(Defaults) \in Nat /\ DOMAIN Defaults = 1..Len(Defaults)
      BY RecordsAssumption
    <3> QED
      BY <3>1, <3>2
  <2>3. pc[j] = "write" => Record(j)' = Record(j) /\ Record(j) \in Records
    BY <2>1, RecordType DEF Record
  <2> QED
    BY <1>2, <2>1, <2>2, <2>3 DEF CompleteAt
<1> QED
  BY <1>1, <1>3 DEF Complete

\* Steps that only move an instance on outside the records, and the ends of processes.
LEMMA MoveComplete ==
  ASSUME Progress, Complete, NEW i \in Instances, NEW to, pc' = [pc EXCEPT ![i] = to],
         \/ to \notin AtRecords \cup Beyond /\ (to \in {"create", "commit"} => next'[i] = 1)
         \/ to \in Beyond /\ pc[i] \in Beyond
         \/ to = "find" /\ next'[i] = 1 /\ Snapshot \subseteq meta',
         \A j \in Instances \ {i} : next'[j] = next[j] /\ found'[j] = found[j],
         rows' = rows, missed \subseteq missed',
         Snapshot \subseteq meta => Snapshot \subseteq meta',
         Initialised' => Initialised \/ pc[i] \in AtRecords \cup Beyond
  PROVE  Complete'
<1>1. pc'[i] = to /\ \A j \in Instances \ {i} : pc'[j] = pc[j]
  BY DEF Progress
<1>2. CompleteAt(i)'
  <2>1. CASE to \notin AtRecords \cup Beyond /\ (to \in {"create", "commit"} => next'[i] = 1)
    BY <1>1, <2>1 DEF CompleteAt, AtRecords
  <2>2. CASE to \in Beyond /\ pc[i] \in Beyond
    BY <1>1, <2>2 DEF CompleteAt, Complete, Settled, AtRecords, Beyond
  <2>3. CASE to = "find" /\ next'[i] = 1 /\ Snapshot \subseteq meta'
    <3>1. 1..(next'[i] - 1) = {}
      BY <2>3
    <3> QED
      BY <1>1, <2>3, <3>1 DEF CompleteAt, AtRecords, Beyond
  <2> QED
    BY <2>1, <2>2, <2>3
<1> QED
  BY <1>1, <1>2, StillComplete

\* Once the record it was at is settled, an instance goes on with the next one or,
\* after the last, beyond them.
LEMMA RecordComplete ==
  ASSUME Progress, Complete, NEW i \in Instances, pc[i] \in AtRecords,
         NextRecord(i), Goto(i, pc[i], Upserted(i)),
         \A l \in Records : rows[l] > 0 => rows'[l] > 0,
         missed \subseteq missed', meta' = meta,
         NEW k \in Records, k = Record(i), Settled(k)'
  PROVE  Complete'
<1>1. Len(Defaults) \in Nat /\ DOMAIN Defaults = 1..Len(Defaults)
  BY RecordsAssumption
<1>2. next[i] \in 1..Len(Defaults)
  BY <1>1 DEF Progress, AtRecords
<1>3. pc'[i] = Upserted(i) /\ \A j \in Instances \ {i} : pc'[j] = pc[j]
  BY DEF Progress, Goto
<1>4. \A j \in Instances \ {i} : next'[j] = next[j] /\ found'[j] = found[j]
  BY DEF Progress, NextRecord
<1>5. \A l \in Records : Settled(l) => Settled(l)'
  BY DEF Settled
<1>6. \A n \in 1..(next[i] - 1) : Settled(Defaults[n])'
  <2>1. \A n \in 1..(next[i] - 1) : Settled(Defaults[n]) /\ Defaults[n] \in Records
    BY <1>1, <1>2 DEF Complete, CompleteAt, Records
  <2> QED
    BY <1>5, <2>1
<1>7. \A n \in 1..next[i] : Settled(Defaults[n])'
  <2> SUFFICES ASSUME NEW n \in 1..next[i]
               PROVE  Settled(Defaults[n])'
    OBVIOUS
  <2>1. CASE n = next[i]
    BY <2>1 DEF Record
  <2>2. CASE n # next[i]
    <3>1. n \in 1..(next[i] - 1)
      BY <1>2, <2>2
    <3> QED
      BY <1>6, <3>1
  <2> QED
    BY <2>1, <2>2
<1>8. Snapshot \subseteq meta'
  BY DEF Complete, CompleteAt
<1>9. CompleteAt(i)'
  <2>1. CASE next[i] < Len(Defaults)
    <3>1. pc'[i] = "find" /\ next'[i] = next[i] + 1
      BY <1>3, <2>1 DEF Upserted, NextRecord, Progress
    <3>2. 1..(next'[i] - 1) = 1..next[i]
      BY <1>2, <3>1
    <3> QED
      BY <1>7, <1>8, <3>1, <3>2 DEF CompleteAt, Beyond
  <2>2. CASE ~(next[i] < Len(Defaults))
    <3>1. pc'[i] \in {"sync", "lock"} /\ next[i] = Len(Defaults)
      BY <1>2, <1>1, <1>3, <2>2 DEF Upserted
    <3>2. \A l \in Records : Settled(l)'
      BY <1>1, <1>7, <3>1 DEF Records
    <3> QED
      BY <1>8, <3>1, <3>2 DEF CompleteAt, AtRecords
  <2> QED
    BY <2>1, <2>2
<1> QED
  BY <1>3, <1>4, <1>8, <1>9, StillComplete

\* A record is skipped for want of one that came before it and was not missing for
\* want of another.
LEMMA SkipComplete ==
  ASSUME Progress, Complete, NEW i \in Instances, SkipRecord(i)
  PROVE  Complete'
<1>1. /\ pc[i] = "find" /\ NextRecord(i) /\ Goto(i, pc[i], Upserted(i))
      /\ UNCHANGED <<rows, missed, meta>>
  BY DEF SkipRecord, Goto, database, past
<1>2. PICK n \in Needs[Record(i)] : rows[n] = 0
  BY DEF SkipRecord
<1>3. next[i] \in DOMAIN Defaults
  BY <1>1 DEF Progress
<1>4. Needs[n] = {} /\ \E m \in 1..(next[i] - 1) : Defaults[m] = n
  BY <1>3, NeedsAssumption DEF Record
<1>5. Settled(n)
  BY <1>1, <1>4 DEF Complete, CompleteAt, AtRecords
<1>6. n \in missed
  BY <1>2, <1>4, <1>5 DEF Settled
<1>7. PICK k \in Records : k = Record(i)
  BY <1>1, RecordType
<1>8. Settled(k)'
  BY <1>1, <1>2, <1>6, <1>7 DEF Settled
<1> QED
  BY <1>1, <1>7, <1>8, RecordComplete DEF AtRecords

LEMMA UpsertComplete ==
  ASSUME Progress, Complete, NEW i \in Instances,
         InsertRecord(i) \/ UpdateRecord(i) \/ UpsertError(i)
  PROVE  Complete'
<1>1. /\ pc[i] \in AtRecords /\ NextRecord(i) /\ Goto(i, pc[i], Upserted(i))
      /\ meta' = meta /\ missed \subseteq missed'
  BY DEF InsertRecord, UpdateRecord, UpsertError, Goto, AtRecords, database, past
<1>2. PICK k \in Records : k = Record(i)
  BY <1>1, RecordType DEF AtRecords
<1>3. rows \in [Records -> Nat]
  BY DEF Progress
<1>4. \A l \in Records : rows[l] > 0 => rows'[l] > 0
  <2>1. rows' \in {rows, [rows EXCEPT ![k] = @ + 1]}
    BY <1>2 DEF InsertRecord, UpdateRecord, UpsertError, database
  <2> QED
    BY <1>3, <2>1
<1>5. Settled(k)'
  <2>1. CASE InsertRecord(i)
    <3>1. rows'[k] > 0
      BY <2>1, <1>2, <1>3 DEF InsertRecord
    <3> QED
      BY <3>1 DEF Settled
  <2>2. CASE UpdateRecord(i)
    <3>1. pc[i] = "write" /\ found[i] # "absent" /\ rows' = rows
      BY <2>2 DEF UpdateRecord, Goto
    <3> QED
      BY <3>1, <1>2 DEF Settled, Complete, CompleteAt
  <2>3. CASE UpsertError(i)
    BY <2>3, <1>2 DEF UpsertError, Settled
  <2> QED
    BY <2>1, <2>2, <2>3
<1> QED
  BY <1>1, <1>2, <1>4, <1>5, RecordComplete

LEMMA FindComplete ==
  ASSUME Progress, Complete, NEW i \in Instances, FindRecord(i)
  PROVE  Complete'
<1>1. /\ pc[i] = "find" /\ pc'[i] = "write"
      /\ \A j \in Instances \ {i} : pc'[j] = pc[j] /\ found'[j] = found[j]
      /\ UNCHANGED <<rows, isInit, meta, next, missed>>
  BY DEF FindRecord, Goto, Progress, database, past
<1>2. Record(i)' = Record(i) /\ Record(i) \in Records
  BY <1>1, RecordType DEF Record
<1>3. found'[i] # "absent" => rows'[Record(i)'] > 0
  BY <1>1, <1>2 DEF FindRecord, Progress
<1>4. CompleteAt(i)'
  BY <1>1, <1>3 DEF CompleteAt, Complete, AtRecords, Beyond, Settled
<1> QED
  BY <1>1, <1>4, StillComplete DEF Initialised

LEMMA BootComplete ==
  ASSUME Progress, Complete, NEW i \in Instances, BootStep(i)
  PROVE  Complete'
<1> USE DEF Advance, Fail, Goto, Exit, Initialised, database, progress, past, AtRecords, Beyond
<1>1. CASE CheckInitialised(i) \/ WriteSchema(i) \/ WriteSchemaError(i)
  BY <1>1, MoveComplete DEF CheckInitialised, WriteSchema, WriteSchemaError
<1>11. CASE BeginMetadata(i)
  BY <1>11, MoveComplete DEF BeginMetadata, Complete, CompleteAt
<1>2. CASE ReadSetting(i)
  <2>1. /\ \A j \in Instances \ {i} : next'[j] = next[j] /\ found'[j] = found[j]
        /\ next'[i] = 1 /\ UNCHANGED <<rows, isInit, meta, missed>>
    BY <1>2 DEF ReadSetting, Progress
  <2>2. pc' = [pc EXCEPT ![i] = IF Initialised THEN "find" ELSE "create"]
    BY <1>2 DEF ReadSetting
  <2>3. CASE Initialised
    <3>1. Snapshot \subseteq meta' /\ pc' = [pc EXCEPT ![i] = "find"]
      BY <2>1, <2>2, <2>3 DEF Complete
    <3> QED
      BY <2>1, <3>1, MoveComplete
  <2>4. CASE ~Initialised
    <3>1. pc' = [pc EXCEPT ![i] = "create"]
      BY <2>2, <2>4
    <3> QED
      BY <2>1, <3>1, MoveComplete
  <2> QED
    BY <2>3, <2>4
<1>3. CASE ReadSettingError(i) \/ CommitDuplicate(i) \/ CommitMetadataError(i)
  <2>1. /\ \A j \in Instances \ {i} : next'[j] = next[j] /\ found'[j] = found[j]
        /\ pc' = [pc EXCEPT ![i] = "failed"] /\ UNCHANGED <<rows, isInit, meta, missed>>
    BY <1>3 DEF ReadSettingError, CommitDuplicate, CommitMetadataError, Progress
  <2> QED
    BY <2>1, MoveComplete
<1>4. CASE CommitMetadata(i)
  <2>1. /\ pc' = [pc EXCEPT ![i] = "find"] /\ UNCHANGED <<rows, isInit, missed, found>>
        /\ Snapshot \subseteq meta' /\ next' = next /\ next[i] = 1
    BY <1>4 DEF CommitMetadata, Complete, CompleteAt
  <2>2. \A j \in Instances \ {i} : pc'[j] = pc[j]
    BY <2>1 DEF Progress
  <2> QED
    BY <2>1, <2>2, MoveComplete
<1>5. CASE FindRecord(i)
  BY <1>5, FindComplete
<1>6. CASE SkipRecord(i)
  BY <1>6, SkipComplete
<1>7. CASE InsertRecord(i) \/ UpdateRecord(i) \/ UpsertError(i)
  BY <1>7, UpsertComplete
<1>8. CASE Sync(i) \/ SyncError(i)
  BY <1>8, MoveComplete DEF Sync, SyncError
<1>9. CASE RereadSetting(i) \/ MarkInitialised(i)
  BY <1>9, MoveComplete DEF RereadSetting, MarkInitialised
<1>10. CASE AcquireBootLock(i) \/ BootLockBusy(i)
  BY <1>10, MoveComplete DEF AcquireBootLock, BootLockBusy
<1> QED
  BY <1>1, <1>2, <1>3, <1>4, <1>5, <1>6, <1>7, <1>8, <1>9, <1>10, <1>11 DEF BootStep

LEMMA NextComplete == Progress /\ Complete /\ [Next]_vars => Complete'
<1> SUFFICES ASSUME Progress, Complete, [Next]_vars
             PROVE  Complete'
  OBVIOUS
<1> USE DEF Initialised, database, progress, past, AtRecords, Beyond
<1>1. ASSUME NEW i \in Instances, Start(i) \/ Stop(i)
      PROVE  Complete'
  BY <1>1, MoveComplete DEF Start, Stop, Advance, Goto
<1>2. ASSUME NEW i \in Instances, BootStep(i)
      PROVE  Complete'
  BY <1>2, BootComplete
<1>3. ASSUME NEW i \in Instances, Crash(i)
      PROVE  Complete'
  <2>1. /\ \A j \in Instances \ {i} : next'[j] = next[j] /\ found'[j] = found[j]
        /\ pc' = [pc EXCEPT ![i] = "down"] /\ UNCHANGED <<rows, isInit, meta, missed>>
    BY <1>3 DEF Crash, Exit, Goto, Progress
  <2> QED
    BY <2>1, MoveComplete
<1>4. CASE AddColumn \/ ExpireBootLock \/ UNCHANGED vars
  <2>1. Snapshot \subseteq meta => Snapshot \subseteq meta'
    BY <1>4 DEF AddColumn, ExpireBootLock, vars
  <2>2. UNCHANGED <<rows, isInit, pc, next, found, missed>>
    BY <1>4 DEF AddColumn, ExpireBootLock, vars
  <2>3. ASSUME NEW i \in Instances
        PROVE  CompleteAt(i)'
    BY <2>1, <2>2 DEF Complete, CompleteAt, Settled, Record
  <2> QED
    BY <2>1, <2>2, <2>3 DEF Complete
<1> QED
  BY <1>1, <1>2, <1>3, <1>4 DEF Next

\* An instance that serves does so on a complete installation, whoever booted
\* beside it, failed or crashed (BootstrapService.onApplicationBootstrap).
THEOREM ServingIsComplete == Spec => []ServesComplete
<1>1. Complete => ServesComplete
  BY DEF Complete, CompleteAt, ServesComplete, Settled, Beyond
<1>2. RaceInv => Progress
  BY DEF RaceInv
<1> QED
  BY <1>1, <1>2, InitRaces, NextRaces, InitComplete, NextComplete, PTL DEF Spec

-----------------------------------------------------------------------------

LEMMA NextSeen == Seen /\ [Next]_vars => Seen'
<1> SUFFICES ASSUME Seen, [Next]_vars
             PROVE  Seen'
  OBVIOUS
<1> USE DEF Seen, Advance, Fail, Exit, database, progress
<1>1. ASSUME NEW i \in Instances, BootStep(i)
      PROVE  Seen'
  <2>1. CASE CheckInitialised(i) \/ WriteSchema(i) \/ WriteSchemaError(i) \/ ReadSetting(i)
    BY <2>1 DEF CheckInitialised, WriteSchema, WriteSchemaError, ReadSetting
  <2>2. CASE \/ ReadSettingError(i) \/ BeginMetadata(i) \/ CommitMetadata(i)
             \/ CommitDuplicate(i) \/ CommitMetadataError(i)
    BY <2>2 DEF ReadSettingError, BeginMetadata, CommitMetadata, CommitDuplicate,
       CommitMetadataError
  <2>3. CASE FindRecord(i) \/ SkipRecord(i) \/ InsertRecord(i) \/ UpdateRecord(i) \/ UpsertError(i)
    BY <2>3 DEF FindRecord, SkipRecord, InsertRecord, UpdateRecord, UpsertError
  <2>4. CASE \/ Sync(i) \/ SyncError(i) \/ RereadSetting(i) \/ MarkInitialised(i)
             \/ AcquireBootLock(i) \/ BootLockBusy(i)
    BY <2>4 DEF Sync, SyncError, RereadSetting, MarkInitialised, AcquireBootLock, BootLockBusy
  <2> QED
    BY <1>1, <2>1, <2>2, <2>3, <2>4 DEF BootStep
<1>2. ASSUME NEW i \in Instances, Start(i) \/ Stop(i) \/ Crash(i)
      PROVE  Seen'
  BY <1>2 DEF Start, Stop, Crash
<1>3. CASE AddColumn \/ ExpireBootLock \/ UNCHANGED vars
  BY <1>3 DEF AddColumn, ExpireBootLock, vars
<1> QED
  BY <1>1, <1>2, <1>3 DEF Next

LEMMA InitSynced == Init => Synced /\ Seen
BY DEF Init, Seen, Synced, FirstAt, FirstPlaces, AtRecords

\* A step of one instance that leaves the tables and the metadata alone.
LEMMA StillSynced ==
  ASSUME Synced, NEW i \in Instances, UNCHANGED <<physical, meta>>,
         \A j \in Instances \ {i} : pc'[j] = pc[j] /\ first'[j] = first[j] /\ seen'[j] = seen[j],
         faults' \in Nat, faults' >= faults, torn => torn',
         FirstAt(i)', faults' = 0 /\ ~torn' /\ Owes(i) => Owes(i)'
  PROVE  Synced'
<1>1. \A j \in Instances : FirstAt(j)'
  <2> SUFFICES ASSUME NEW j \in Instances \ {i}
               PROVE  FirstAt(j)'
    OBVIOUS
  <2> QED
    BY DEF Synced, FirstAt
<1>2. \A j \in Instances \ {i} : Owes(j) => Owes(j)'
  BY DEF Owes
<1>3. faults' = 0 /\ ~torn' => faults = 0 /\ ~torn
  BY DEF Synced
<1> QED
  BY <1>1, <1>2, <1>3 DEF Synced

\* The ends of processes and the steps of those that are not first.
LEMMA MoveSynced ==
  ASSUME Progress, Synced, NEW i \in Instances, NEW to, pc' = [pc EXCEPT ![i] = to],
         UNCHANGED <<physical, meta>>,
         \A j \in Instances \ {i} : first'[j] = first[j] /\ seen'[j] = seen[j],
         faults' \in Nat, faults' >= faults, torn' = torn,
         ~first'[i], to \notin {"create", "commit"},
         faults' = 0 => ~Owes(i) \/ to = "sync"
  PROVE  Synced'
<1>1. pc'[i] = to /\ \A j \in Instances \ {i} : pc'[j] = pc[j]
  BY DEF Progress
<1>2. FirstAt(i)'
  BY <1>1 DEF FirstAt
<1>3. to = "sync" => Owes(i)'
  BY <1>1 DEF Owes
<1> QED
  BY <1>1, <1>2, <1>3, StillSynced

LEMMA ReadSynced ==
  ASSUME Progress, Synced, NEW i \in Instances, ReadSetting(i)
  PROVE  Synced'
<1>1. /\ pc[i] = "read" /\ pc' = [pc EXCEPT ![i] = IF Initialised THEN "find" ELSE "create"]
      /\ first' = [first EXCEPT ![i] = ~Initialised] /\ torn' = (torn \/ (first[i] /\ Initialised))
      /\ UNCHANGED <<physical, meta, seen, faults>>
  BY DEF ReadSetting, Goto, database
<1>2. \A j \in Instances \ {i} : pc'[j] = pc[j] /\ first'[j] = first[j] /\ seen'[j] = seen[j]
  BY <1>1 DEF Progress
<1>3. faults' \in Nat /\ faults' >= faults
  BY <1>1 DEF Synced
<1>4. CASE Initialised
  <2>1. pc'[i] = "find" /\ ~first'[i]
    BY <1>1, <1>4 DEF Progress
  <2>2. FirstAt(i)' /\ (Owes(i) => torn')
    BY <1>1, <1>4, <2>1 DEF FirstAt, Owes
  <2> QED
    BY <1>1, <1>2, <1>3, <2>2, StillSynced
<1>5. CASE ~Initialised
  <2>1. pc'[i] = "create" /\ first'[i]
    BY <1>1, <1>5 DEF Progress
  <2>2. FirstAt(i)' /\ Owes(i)'
    BY <2>1 DEF FirstAt, Owes, FirstPlaces
  <2> QED
    BY <1>1, <1>2, <1>3, <2>2, StillSynced
<1> QED
  BY <1>4, <1>5

\* A commit makes the instance owe a synchronisation, whoever else is overtaken.
LEMMA CommitSynced ==
  ASSUME Progress, Synced, NEW i \in Instances, CommitMetadata(i)
  PROVE  Synced'
<1>1. /\ pc[i] = "commit" /\ pc' = [pc EXCEPT ![i] = "find"]
      /\ UNCHANGED <<physical, first, faults, torn>>
  BY DEF CommitMetadata, Goto, past
<1>2. first[i] /\ pc'[i] = "find"
  BY <1>1 DEF Synced, FirstAt, Progress
<1>3. \A j \in Instances : FirstAt(j)'
  BY <1>1, <1>2 DEF Synced, FirstAt, FirstPlaces, AtRecords, Progress
<1>4. Owes(i)'
  BY <1>1, <1>2 DEF Owes
<1> QED
  BY <1>1, <1>3, <1>4 DEF Synced

\* An instance that owes goes on to the next record or, after the last, to its
\* synchronisation.
LEMMA RecordSynced ==
  ASSUME Progress, Synced, NEW i \in Instances, pc[i] \in AtRecords,
         NextRecord(i), Goto(i, pc[i], Upserted(i)),
         UNCHANGED <<physical, meta, seen, torn>>, faults' \in Nat, faults' >= faults
  PROVE  Synced'
<1>1. pc'[i] = Upserted(i) /\ \A j \in Instances \ {i} : pc'[j] = pc[j]
  BY DEF Progress, Goto
<1>2. \A j \in Instances \ {i} : first'[j] = first[j] /\ seen'[j] = seen[j]
  BY DEF Progress, NextRecord
<1>3. CASE next[i] < Len(Defaults)
  <2>1. pc'[i] = "find" /\ first'[i] = first[i]
    BY <1>1, <1>3 DEF Upserted, NextRecord, Progress
  <2>2. FirstAt(i)' /\ (Owes(i) => Owes(i)')
    BY <2>1 DEF FirstAt, Owes, FirstPlaces, AtRecords
  <2> QED
    BY <1>1, <1>2, <2>2, StillSynced
<1>4. CASE ~(next[i] < Len(Defaults))
  <2>1. ~first'[i] /\ pc'[i] = IF first[i] THEN "sync" ELSE "lock"
    BY <1>1, <1>4 DEF Upserted, NextRecord, Progress
  <2>2. FirstAt(i)' /\ (Owes(i) => Owes(i)')
    BY <2>1 DEF FirstAt, Owes, AtRecords
  <2> QED
    BY <1>1, <1>2, <2>2, StillSynced
<1> QED
  BY <1>3, <1>4

LEMMA BootSynced ==
  ASSUME Progress, Seen, Complete, Synced, NEW i \in Instances, BootStep(i)
  PROVE  Synced'
<1> USE DEF Seen, Advance, Fail, Goto, Exit, Fault, database, progress, past
<1>0. /\ faults \in Nat /\ (first[i] => pc[i] \in FirstPlaces)
      /\ (pc[i] \in {"create", "commit"} => first[i])
      /\ (pc[i] = "read" /\ first[i] => physical # {})
  BY DEF Synced, FirstAt
<1>1. CASE CheckInitialised(i) \/ WriteSchemaError(i)
  <2>1. ~first'[i] /\ ~Owes(i)
    BY <1>0, <1>1 DEF CheckInitialised, WriteSchemaError, FirstPlaces, AtRecords, Owes
  <2> QED
    BY <1>0, <1>1, <2>1, MoveSynced DEF CheckInitialised, WriteSchemaError
<1>2. CASE WriteSchema(i)
  <2>1. pc'[i] = "read" /\ first'[i] /\ physical' # {} /\ faults' = faults
    BY <1>2, ColumnsAssumption DEF WriteSchema, Progress
  <2>2. \A j \in Instances : FirstAt(j)'
    BY <1>2, <2>1 DEF WriteSchema, Synced, FirstAt, FirstPlaces, Progress
  <2>3. Owes(i)'
    BY <2>1 DEF Owes
  <2> QED
    BY <1>0, <2>1, <2>2, <2>3 DEF Synced
<1>3. CASE ReadSetting(i)
  BY <1>3, ReadSynced
<1>4. CASE ReadSettingError(i) \/ CommitDuplicate(i) \/ CommitMetadataError(i)
  <2>1. /\ \A j \in Instances \ {i} : first'[j] = first[j] /\ seen'[j] = seen[j]
        /\ ~first'[i] /\ pc' = [pc EXCEPT ![i] = "failed"] /\ UNCHANGED <<physical, meta, torn>>
        /\ faults' \in {faults, faults + 1}
    BY <1>4 DEF ReadSettingError, CommitDuplicate, CommitMetadataError, Progress
  <2>2. faults' \in Nat /\ faults' >= faults
    BY <1>0, <2>1
  <2>3. faults' = 0 => ~Owes(i)
    BY <1>0, <1>4 DEF ReadSettingError, CommitDuplicate, CommitMetadataError, Owes
  <2> QED
    BY <2>1, <2>2, <2>3, MoveSynced
<1>5. CASE BeginMetadata(i)
  <2>1. /\ pc'[i] = "commit" /\ seen'[i] = meta /\ pc[i] = "create"
        /\ \A j \in Instances \ {i} : pc'[j] = pc[j] /\ first'[j] = first[j] /\ seen'[j] = seen[j]
        /\ UNCHANGED <<physical, meta, torn, faults, first>>
    <3>1. seen'[i] = meta /\ \A j \in Instances \ {i} : seen'[j] = seen[j]
      BY <1>5 DEF BeginMetadata
    <3> QED
      BY <1>5, <3>1 DEF BeginMetadata, Progress
  <2>2. FirstAt(i)' /\ Owes(i)'
    BY <1>0, <2>1 DEF FirstAt, Owes, FirstPlaces
  <2> QED
    BY <1>0, <2>1, <2>2, StillSynced
<1>6. CASE CommitMetadata(i)
  BY <1>6, CommitSynced
<1>7. CASE FindRecord(i)
  <2>1. /\ pc[i] = "find" /\ pc'[i] = "write" /\ \A j \in Instances \ {i} : pc'[j] = pc[j]
        /\ UNCHANGED <<physical, meta, seen, first, torn, faults>>
    BY <1>7 DEF FindRecord, Progress
  <2>2. FirstAt(i)' /\ (Owes(i) => Owes(i)')
    BY <1>0, <2>1 DEF FirstAt, Owes, FirstPlaces, AtRecords
  <2> QED
    BY <1>0, <2>1, <2>2, StillSynced
<1>8. CASE SkipRecord(i) \/ InsertRecord(i) \/ UpdateRecord(i) \/ UpsertError(i)
  <2>1. /\ pc[i] \in AtRecords /\ NextRecord(i) /\ Goto(i, pc[i], Upserted(i))
        /\ UNCHANGED <<physical, meta, seen, torn>>
    BY <1>8 DEF SkipRecord, InsertRecord, UpdateRecord, UpsertError, AtRecords
  <2>2. faults' \in {faults, faults + 1}
    BY <1>8 DEF SkipRecord, InsertRecord, UpdateRecord, UpsertError
  <2>3. faults' \in Nat /\ faults' >= faults
    BY <1>0, <2>2
  <2> QED
    BY <2>1, <2>3, RecordSynced
<1>9. CASE Sync(i)
  <2>1. pc[i] \in Beyond
    BY <1>9 DEF Sync, Beyond
  <2>2. physical' = meta /\ meta' = meta /\ physical' # {}
    BY <1>9, <2>1, ColumnsAssumption DEF Sync, Complete, CompleteAt
  <2>3. \A j \in Instances : FirstAt(j)'
    BY <1>9, <2>2 DEF Sync, Synced, FirstAt, FirstPlaces, AtRecords, Progress
  <2> QED
    BY <1>0, <1>9, <2>2, <2>3 DEF Sync, Synced
<1>10. CASE SyncError(i)
  <2>1. /\ ~first'[i] /\ faults' = faults + 1 /\ UNCHANGED <<physical, meta, seen, first, torn>>
    BY <1>0, <1>10 DEF SyncError, FirstPlaces, AtRecords
  <2>2. faults' \in Nat /\ faults' >= faults /\ faults' # 0
    BY <1>0, <2>1
  <2> QED
    BY <1>10, <2>1, <2>2, MoveSynced DEF SyncError
<1>11. CASE RereadSetting(i) \/ MarkInitialised(i) \/ AcquireBootLock(i) \/ BootLockBusy(i)
  <2>1. /\ ~first'[i] /\ ~Owes(i) /\ UNCHANGED <<physical, meta, seen, first, torn, faults>>
    BY <1>0, <1>11 DEF RereadSetting, MarkInitialised, AcquireBootLock, BootLockBusy,
       FirstPlaces, AtRecords, Owes
  <2>2. PICK to \in {"failed", "mark", "serving", "syncBoot"} : pc' = [pc EXCEPT ![i] = to]
    BY <1>11 DEF RereadSetting, MarkInitialised, AcquireBootLock, BootLockBusy
  <2>3. faults' \in Nat /\ faults' >= faults
    BY <1>0, <2>1
  <2>4. to \notin {"create", "commit"}
    BY <2>2
  <2> HIDE DEF Goto
  <2> QED
    BY <2>1, <2>2, <2>3, <2>4, MoveSynced
<1> QED
  BY <1>1, <1>2, <1>3, <1>4, <1>5, <1>6, <1>7, <1>8, <1>9, <1>10, <1>11 DEF BootStep

LEMMA NextSynced == Progress /\ Seen /\ Complete /\ Synced /\ [Next]_vars => Synced'
<1> SUFFICES ASSUME Progress, Seen, Complete, Synced, [Next]_vars
             PROVE  Synced'
  OBVIOUS
<1> USE DEF database, progress, past
<1>0. faults \in Nat
  BY DEF Synced
<1>1. ASSUME NEW i \in Instances, Start(i) \/ Stop(i)
      PROVE  Synced'
  <2>1. ~first'[i] /\ ~Owes(i) /\ UNCHANGED <<physical, meta, seen, first, torn, faults>>
    BY <1>1 DEF Start, Stop, Advance, Goto, Synced, FirstAt, FirstPlaces, AtRecords, Owes
  <2> QED
    BY <1>0, <1>1, <2>1, MoveSynced DEF Start, Stop, Advance, Goto
<1>2. ASSUME NEW i \in Instances, BootStep(i)
      PROVE  Synced'
  BY <1>2, BootSynced
<1>3. ASSUME NEW i \in Instances, Crash(i)
      PROVE  Synced'
  <2>1. /\ \A j \in Instances \ {i} : first'[j] = first[j] /\ seen'[j] = seen[j]
        /\ ~first'[i] /\ pc' = [pc EXCEPT ![i] = "down"] /\ UNCHANGED <<physical, meta, torn>>
        /\ faults' = faults + 1
    BY <1>3 DEF Crash, Exit, Goto, Fault, Progress, Seen
  <2>2. faults' \in Nat /\ faults' >= faults /\ faults' # 0
    BY <1>0, <2>1
  <2> QED
    BY <2>1, <2>2, MoveSynced
<1>4. CASE AddColumn
  <2>1. PICK c \in Custom : meta' = meta \cup {c} /\ physical' = physical \cup {c}
    BY <1>4 DEF AddColumn
  <2>2. UNCHANGED <<pc, seen, first, faults, torn>>
    BY <1>4 DEF AddColumn
  <2>3. \A i \in Instances : (FirstAt(i) => FirstAt(i)') /\ (Owes(i) => Owes(i)')
    BY <2>1, <2>2, ColumnsAssumption DEF FirstAt, Owes
  <2> QED
    BY <2>1, <2>2, <2>3 DEF Synced
<1>5. CASE ExpireBootLock \/ UNCHANGED vars
  BY <1>5 DEF ExpireBootLock, vars, Synced, FirstAt, Owes
<1> QED
  BY <1>1, <1>2, <1>3, <1>4, <1>5 DEF Next

\* When every instance serves and nothing has failed, the physical tables have the
\* columns the metadata names, whoever booted beside whom and whether or not its
\* boot skipped the synchronisation (BootstrapService, initializeDatabase).
THEOREM BootsEndSynced == Spec => []SettledIsSynced
<1>1. Synced => SettledIsSynced
  BY DEF Synced, SettledIsSynced, Owes
<1>2. RaceInv => Progress
  BY DEF RaceInv
<1> QED
  BY <1>1, <1>2, InitRaces, NextRaces, InitComplete, NextComplete, InitSynced, NextSeen,
     NextSynced, PTL DEF Spec

-----------------------------------------------------------------------------
(* Types. *)

\* The instances that are about to insert a record.
Inserting(k) == {i \in Instances : pc[i] = "write" /\ found[i] = "absent" /\ Record(i) = k}

\* An instance inserts a record once at most that it has found absent, and finds no
\* record absent that has a row.
RowsBounded == \A k \in Records : rows[k] + Cardinality(Inserting(k)) <= Cardinality(Instances)

\* The columns there may be, and what the rest of the state is made of.
Columns == Snapshot \cup Custom

BootTypes ==
  /\ physical \subseteq Columns /\ meta \subseteq Columns
  /\ isInit \in Seq(BOOLEAN) /\ Len(isInit) = rows[Setting]
  /\ bootLock \in BOOLEAN /\ torn \in BOOLEAN
  /\ raced \subseteq Records /\ missed \subseteq Records
  /\ next \in [Instances -> 0..Len(Defaults) + 1]
  /\ faults \in 0..MaxFaults

\* They are some of the instances.
LEMMA InsertingFinite ==
  ASSUME NEW k
  PROVE  /\ Inserting(k) \subseteq Instances /\ IsFiniteSet(Inserting(k))
         /\ Cardinality(Inserting(k)) \in Nat
         /\ Cardinality(Inserting(k)) <= Cardinality(Instances)
<1>1. Inserting(k) \subseteq Instances
  BY DEF Inserting
<1> QED
  BY <1>1, InstancesAssumption, FS_Subset, FS_CardinalityType

\* A step that inserts nothing and starts no insert.
LEMMA StillBounded ==
  ASSUME Progress, RowsBounded, rows' = rows,
         \A j \in Instances : pc'[j] = "write" /\ found'[j] = "absent" =>
           pc[j] = "write" /\ found[j] = "absent" /\ next'[j] = next[j]
  PROVE  RowsBounded'
<1> SUFFICES ASSUME NEW k \in Records
             PROVE  rows[k] + Cardinality(Inserting(k)') <= Cardinality(Instances)
  BY DEF RowsBounded
<1>1. Inserting(k)' \subseteq Inserting(k)
  BY DEF Inserting, Record
<1>2. /\ Cardinality(Inserting(k)') <= Cardinality(Inserting(k))
      /\ Cardinality(Inserting(k)') \in Nat
  BY <1>1, InsertingFinite, FS_Subset, FS_CardinalityType
<1>3. Cardinality(Inserting(k)) \in Nat /\ Cardinality(Instances) \in Nat /\ rows[k] \in Nat
  BY InsertingFinite, InstancesAssumption, FS_CardinalityType DEF Progress
<1> QED
  BY <1>2, <1>3 DEF RowsBounded

\* A find that returns no row makes the instance one of those about to insert.
LEMMA FindBounded ==
  ASSUME Progress, RowsBounded, NEW i \in Instances, FindRecord(i)
  PROVE  RowsBounded'
<1> DEFINE k == Record(i)
<1>1. /\ pc[i] = "find" /\ pc' = [pc EXCEPT ![i] = "write"]
      /\ UNCHANGED <<rows, next>>
      /\ \A j \in Instances \ {i} : pc'[j] = pc[j] /\ found'[j] = found[j]
  BY DEF FindRecord, Goto, database, Progress
<1>2. found'[i] = "absent" => rows[k] = 0
  BY RecordType, <1>1 DEF FindRecord, Progress
<1> SUFFICES ASSUME NEW l \in Records
             PROVE  rows[l] + Cardinality(Inserting(l)') <= Cardinality(Instances)
  BY <1>1 DEF RowsBounded
<1>3. /\ Cardinality(Inserting(l)) \in Nat /\ Cardinality(Instances) \in Nat /\ rows[l] \in Nat
      /\ Inserting(l)' \subseteq Instances
      /\ Cardinality(Inserting(l)') \in Nat /\ Cardinality(Inserting(l)') <= Cardinality(Instances)
  <2>1. Inserting(l)' \subseteq Instances
    BY DEF Inserting
  <2> QED
    BY <2>1, InsertingFinite, InstancesAssumption, FS_Subset, FS_CardinalityType DEF Progress
<1>4. CASE l = k /\ found'[i] = "absent"
  BY <1>2, <1>3, <1>4
<1>5. CASE l # k \/ found'[i] # "absent"
  <2>1. Inserting(l)' \subseteq Inserting(l)
    BY <1>1, <1>5 DEF Inserting, Record
  <2>2. Cardinality(Inserting(l)') <= Cardinality(Inserting(l))
    BY <2>1, InsertingFinite, FS_Subset
  <2> QED
    BY <1>3, <2>2 DEF RowsBounded
<1> QED
  BY <1>4, <1>5

\* An insert adds a row for the one instance that is no longer about to.
LEMMA InsertBounded ==
  ASSUME Progress, RowsBounded, NEW i \in Instances, InsertRecord(i)
  PROVE  RowsBounded'
<1> DEFINE k == Record(i)
<1>1. /\ pc[i] = "write" /\ found[i] = "absent" /\ pc' = [pc EXCEPT ![i] = Upserted(i)]
      /\ \/ rows' = rows
         \/ rows' = [rows EXCEPT ![k] = @ + 1]
  BY DEF InsertRecord, Goto
<1>2. Upserted(i) # "write" /\ k \in Records
  BY <1>1, RecordType DEF Upserted
<1>3. \A j \in Instances \ {i} : pc'[j] = pc[j] /\ found'[j] = found[j] /\ next'[j] = next[j]
  BY <1>1 DEF InsertRecord, NextRecord, Progress
<1>4. \A l \in Records : Inserting(l)' = Inserting(l) \ {i}
  BY <1>1, <1>2, <1>3 DEF Inserting, Record, Progress
<1> SUFFICES ASSUME NEW l \in Records
             PROVE  rows'[l] + Cardinality(Inserting(l)') <= Cardinality(Instances)
  BY DEF RowsBounded
<1>5. /\ IsFiniteSet(Inserting(l)) /\ Cardinality(Inserting(l)) \in Nat
      /\ Cardinality(Instances) \in Nat /\ rows[l] \in Nat
      /\ Cardinality(Inserting(l)') \in Nat /\ Cardinality(Inserting(l)') <= Cardinality(Inserting(l))
  BY <1>4, InsertingFinite, InstancesAssumption, FS_Subset, FS_CardinalityType DEF Progress
<1>6. CASE l # k
  <2>1. rows'[l] = rows[l]
    BY <1>1, <1>2, <1>6 DEF Progress
  <2> QED
    BY <1>5, <2>1 DEF RowsBounded
<1>7. CASE l = k
  <2>1. i \in Inserting(l)
    BY <1>1, <1>7 DEF Inserting
  <2>2. Cardinality(Inserting(l)') = Cardinality(Inserting(l)) - 1
    BY <1>4, <2>1, InsertingFinite, FS_RemoveElement
  <2>3. rows'[l] = rows[l] \/ rows'[l] = rows[l] + 1
    BY <1>1, <1>7 DEF Progress
  <2> QED
    BY <1>5, <2>2, <2>3 DEF RowsBounded
<1> QED
  BY <1>6, <1>7

\* All steps together.
LEMMA BoundedNext == Progress /\ Progress' /\ RowsBounded /\ [Next]_vars => RowsBounded'
<1> SUFFICES ASSUME Progress, Progress', RowsBounded, [Next]_vars PROVE RowsBounded'
  OBVIOUS
<1> USE DEF Advance, Fail, Exit, database, progress, past, Goto
<1>1. ASSUME NEW i \in Instances,
             \/ CheckInitialised(i) \/ WriteSchema(i) \/ WriteSchemaError(i) \/ ReadSetting(i)
             \/ ReadSettingError(i) \/ BeginMetadata(i) \/ CommitMetadata(i) \/ CommitDuplicate(i)
             \/ CommitMetadataError(i)
      PROVE  RowsBounded'
  <2>1. rows' = rows
    BY <1>1 DEF CheckInitialised, WriteSchema, WriteSchemaError, ReadSetting, ReadSettingError,
       BeginMetadata, CommitMetadata, CommitDuplicate, CommitMetadataError
  <2>2. \A j \in Instances : pc'[j] = "write" /\ found'[j] = "absent" =>
          pc[j] = "write" /\ found[j] = "absent" /\ next'[j] = next[j]
    BY <1>1 DEF CheckInitialised, WriteSchema, WriteSchemaError, ReadSetting, ReadSettingError,
       BeginMetadata, CommitMetadata, CommitDuplicate, CommitMetadataError, Progress
  <2> QED
    BY <2>1, <2>2, StillBounded
<1>2. ASSUME NEW i \in Instances, SkipRecord(i) \/ UpdateRecord(i) \/ UpsertError(i)
      PROVE  RowsBounded'
  <2>1. /\ rows' = rows /\ NextRecord(i)
        /\ pc' = [pc EXCEPT ![i] = Upserted(i)] /\ Upserted(i) # "write"
    BY <1>2 DEF SkipRecord, UpdateRecord, UpsertError, Upserted
  <2>2. \A j \in Instances : pc'[j] = "write" /\ found'[j] = "absent" =>
          pc[j] = "write" /\ found[j] = "absent" /\ next'[j] = next[j]
    BY <2>1 DEF NextRecord, Progress
  <2> QED
    BY <2>1, <2>2, StillBounded
<1>3. ASSUME NEW i \in Instances,
             \/ Sync(i) \/ SyncError(i) \/ RereadSetting(i) \/ MarkInitialised(i)
             \/ AcquireBootLock(i) \/ BootLockBusy(i) \/ Start(i) \/ Stop(i) \/ Crash(i)
      PROVE  RowsBounded'
  <2>1. rows' = rows
    BY <1>3 DEF Sync, SyncError, RereadSetting, MarkInitialised, AcquireBootLock, BootLockBusy,
       Start, Stop, Crash
  <2>2. \A j \in Instances : pc'[j] = "write" /\ found'[j] = "absent" =>
          pc[j] = "write" /\ found[j] = "absent" /\ next'[j] = next[j]
    BY <1>3 DEF Sync, SyncError, RereadSetting, MarkInitialised, AcquireBootLock, BootLockBusy,
       Start, Stop, Crash, Progress
  <2> QED
    BY <2>1, <2>2, StillBounded
<1>4. CASE AddColumn \/ ExpireBootLock \/ UNCHANGED vars
  BY <1>4, StillBounded DEF AddColumn, ExpireBootLock, vars
<1> QED
  BY <1>1, <1>2, <1>3, <1>4, FindBounded, InsertBounded DEF Next, BootStep

-----------------------------------------------------------------------------

\* Every instance keeps to the list of the default records.
LEMMA NextInList ==
  ASSUME BootTypes, NEW i \in Instances,
         \/ next' = next \/ next' = [next EXCEPT ![i] = 0] \/ next' = [next EXCEPT ![i] = 1]
         \/ NextRecord(i)
  PROVE  next' \in [Instances -> 0..Len(Defaults) + 1]
<1>1. Len(Defaults) \in Nat
  BY RecordsAssumption
<1>2. CASE NextRecord(i)
  <2>1. next' = [next EXCEPT ![i] = IF next[i] < Len(Defaults) THEN next[i] + 1 ELSE 0]
    BY <1>2 DEF NextRecord
  <2>2. next[i] \in 0..Len(Defaults) + 1
    BY DEF BootTypes
  <2>3. (IF next[i] < Len(Defaults) THEN next[i] + 1 ELSE 0) \in 0..Len(Defaults) + 1
    BY <1>1, <2>2
  <2> QED
    BY <2>1, <2>3 DEF BootTypes
<1> QED
  BY <1>1, <1>2 DEF BootTypes

\* The setting's rows are changed in place.
LEMMA InitInPlace ==
  ASSUME isInit \in Seq(BOOLEAN), NEW b \in BOOLEAN
  PROVE  [isInit EXCEPT ![1] = b] \in Seq(BOOLEAN) /\ Len([isInit EXCEPT ![1] = b]) = Len(isInit)
<1>1. CASE 1 \in 1..Len(isInit)
  BY <1>1, ExceptSeq
<1>2. CASE 1 \notin 1..Len(isInit)
  <2>1. DOMAIN isInit = 1..Len(isInit) /\ isInit = [n \in DOMAIN isInit |-> isInit[n]]
    BY LenProperties
  <2>2. [isInit EXCEPT ![1] = b] = [n \in DOMAIN isInit |-> IF n = 1 THEN b ELSE isInit[n]]
    OBVIOUS
  <2>3. \A n \in DOMAIN isInit : n # 1
    BY <1>2, <2>1
  <2>4. [isInit EXCEPT ![1] = b] = isInit
    BY <2>1, <2>2, <2>3
  <2> QED
    BY <2>4
<1> QED
  BY <1>1, <1>2

\* The steps of a record.
LEMMA RecordTypes ==
  ASSUME Progress, BootTypes, NEW i \in Instances,
         FindRecord(i) \/ SkipRecord(i) \/ InsertRecord(i) \/ UpdateRecord(i) \/ UpsertError(i)
  PROVE  BootTypes'
<1> USE DEF database, past
<1>1. pc[i] \in {"find", "write"} /\ Record(i) \in Records
  BY RecordType DEF FindRecord, SkipRecord, InsertRecord, UpdateRecord, UpsertError, Goto
<1>2. next' \in [Instances -> 0..Len(Defaults) + 1]
  BY NextInList DEF FindRecord, SkipRecord, InsertRecord, UpdateRecord, UpsertError
<1>3. UNCHANGED <<physical, meta, bootLock, torn>>
  BY DEF FindRecord, SkipRecord, InsertRecord, UpdateRecord, UpsertError
<1>4. raced' \subseteq Records /\ missed' \subseteq Records
  BY <1>1 DEF FindRecord, SkipRecord, InsertRecord, UpdateRecord, UpsertError, BootTypes
<1>5. faults' \in 0..MaxFaults
  <2>1. faults' = faults \/ Fault
    BY DEF FindRecord, SkipRecord, InsertRecord, UpdateRecord, UpsertError
  <2> QED
    BY <2>1, FaultsAssumption DEF Fault, BootTypes
<1>6. isInit' \in Seq(BOOLEAN) /\ Len(isInit') = rows'[Setting]
  <2>1. CASE InsertRecord(i)
    <3>1. /\ isInit \in Seq(BOOLEAN) /\ Len(isInit) = rows[Setting] /\ rows \in [Records -> Nat]
          /\ Setting \in Records /\ Setting \notin UniqueRecords
      BY RecordsAssumption DEF BootTypes, Progress
    <3>2. CASE Record(i) = Setting
      <4>1. isInit' = Append(isInit, FALSE) /\ rows' = [rows EXCEPT ![Setting] = @ + 1]
        BY <2>1, <3>1, <3>2 DEF InsertRecord
      <4> QED
        BY <3>1, <4>1
    <3>3. CASE Record(i) # Setting
      <4>1. isInit' = isInit /\ rows'[Setting] = rows[Setting]
        BY <2>1, <3>1, <3>3, <1>1 DEF InsertRecord
      <4> QED
        BY <3>1, <4>1
    <3> QED
      BY <3>2, <3>3
  <2>2. CASE UpdateRecord(i)
    BY <2>2, InitInPlace DEF UpdateRecord, BootTypes
  <2>3. CASE FindRecord(i) \/ SkipRecord(i) \/ UpsertError(i)
    BY <2>3 DEF FindRecord, SkipRecord, UpsertError, BootTypes
  <2> QED
    BY <2>1, <2>2, <2>3
<1> QED
  BY <1>2, <1>3, <1>4, <1>5, <1>6 DEF BootTypes

\* All steps together.
LEMMA BootTypesNext == Progress /\ BootTypes /\ [Next]_vars => BootTypes'
<1> SUFFICES ASSUME Progress, BootTypes, [Next]_vars PROVE BootTypes'
  OBVIOUS
<1> USE DEF Advance, Fail, Exit, database, progress, past
<1>1. ASSUME NEW i \in Instances,
             \/ CheckInitialised(i) \/ WriteSchemaError(i) \/ ReadSettingError(i) \/ BeginMetadata(i)
             \/ CommitDuplicate(i) \/ CommitMetadataError(i) \/ SyncError(i) \/ RereadSetting(i)
             \/ BootLockBusy(i) \/ Start(i) \/ Stop(i) \/ Crash(i)
      PROVE  BootTypes'
  <2>1. UNCHANGED <<physical, meta, isInit, rows, bootLock, raced, missed, torn>>
    BY <1>1 DEF CheckInitialised, WriteSchemaError, ReadSettingError, BeginMetadata, CommitDuplicate,
       CommitMetadataError, SyncError, RereadSetting, BootLockBusy, Start, Stop, Crash
  <2>2. next' = next \/ next' = [next EXCEPT ![i] = 0]
    BY <1>1 DEF CheckInitialised, WriteSchemaError, ReadSettingError, BeginMetadata, CommitDuplicate,
       CommitMetadataError, SyncError, RereadSetting, BootLockBusy, Start, Stop, Crash
  <2>3. faults' = faults \/ Fault
    BY <1>1 DEF CheckInitialised, WriteSchemaError, ReadSettingError, BeginMetadata, CommitDuplicate,
       CommitMetadataError, SyncError, RereadSetting, BootLockBusy, Start, Stop, Crash
  <2>4. faults' \in 0..MaxFaults
    BY <2>3, FaultsAssumption DEF Fault, BootTypes
  <2>5. next' \in [Instances -> 0..Len(Defaults) + 1]
    BY <2>2, NextInList
  <2> QED
    BY <2>1, <2>4, <2>5 DEF BootTypes
<1>2. ASSUME NEW i \in Instances, WriteSchema(i) \/ Sync(i)
      PROVE  BootTypes'
  BY <1>2 DEF WriteSchema, Sync, BootTypes, Columns
<1>3. ASSUME NEW i \in Instances, ReadSetting(i)
      PROVE  BootTypes'
  <2>1. next' = [next EXCEPT ![i] = 1]
    BY <1>3 DEF ReadSetting
  <2>2. next' \in [Instances -> 0..Len(Defaults) + 1]
    BY <2>1, NextInList
  <2>3. torn' \in BOOLEAN
    BY <1>3 DEF ReadSetting
  <2>4. UNCHANGED <<physical, meta, isInit, rows, bootLock, raced, missed, faults>>
    BY <1>3 DEF ReadSetting
  <2> QED
    BY <2>2, <2>3, <2>4 DEF BootTypes
<1>4. ASSUME NEW i \in Instances, CommitMetadata(i)
      PROVE  BootTypes'
  BY <1>4 DEF CommitMetadata, BootTypes, Columns
<1>5. ASSUME NEW i \in Instances, MarkInitialised(i)
      PROVE  BootTypes'
  BY <1>5, InitInPlace DEF MarkInitialised, BootTypes
<1>6. ASSUME NEW i \in Instances, AcquireBootLock(i)
      PROVE  BootTypes'
  BY <1>6 DEF AcquireBootLock, BootTypes
<1>7. CASE AddColumn
  BY <1>7 DEF AddColumn, BootTypes, Columns
<1>8. CASE ExpireBootLock \/ UNCHANGED vars
  BY <1>8 DEF ExpireBootLock, vars, BootTypes
<1> QED
  BY <1>1, <1>2, <1>3, <1>4, <1>5, <1>6, <1>7, <1>8, RecordTypes DEF Next, BootStep

\* The types of Bootstrap; in particular, a record without a unique key gets a row per
\* instance at most, however often the instances fail and start again, one with a
\* unique key one row, and isInit is that of the setting's rows.
THEOREM BootTyped == Spec => []TypeOK
<1>1. Init => RowsBounded /\ BootTypes
  <2> SUFFICES ASSUME Init PROVE RowsBounded /\ BootTypes
    OBVIOUS
  <2>1. RowsBounded
    <3> SUFFICES ASSUME NEW k \in Records
                 PROVE  rows[k] + Cardinality(Inserting(k)) <= Cardinality(Instances)
      BY DEF RowsBounded
    <3>1. rows[k] = 0
      BY DEF Init
    <3> QED
      BY <3>1, InsertingFinite
  <2>2. next \in [Instances -> 0..Len(Defaults) + 1]
    BY RecordsAssumption DEF Init
  <2>3. isInit \in Seq(BOOLEAN) /\ Len(isInit) = 0
    BY EmptySeq DEF Init
  <2>4. rows[Setting] = 0
    BY RecordsAssumption DEF Init
  <2>5. faults \in 0..MaxFaults
    BY FaultsAssumption DEF Init
  <2>6. /\ physical \subseteq Columns /\ meta \subseteq Columns
        /\ raced \subseteq Records /\ missed \subseteq Records
    BY DEF Init
  <2>7. bootLock \in BOOLEAN /\ torn \in BOOLEAN
    BY DEF Init
  <2> QED
    BY <2>1, <2>2, <2>3, <2>4, <2>5, <2>6, <2>7 DEF BootTypes
<1>2. RaceInv /\ RowsBounded /\ BootTypes => TypeOK
  <2> SUFFICES ASSUME RaceInv, RowsBounded, BootTypes PROVE TypeOK
    OBVIOUS
  <2>1. \A k \in Records : rows[k] \in 0..Cardinality(Instances)
    BY InsertingFinite, InstancesAssumption, FS_CardinalityType DEF RowsBounded, RaceInv, Progress
  <2>2. rows \in [Records -> 0..Cardinality(Instances)]
    BY <2>1 DEF RaceInv, Progress
  <2>3. pc \in [Instances -> Booting \cup {"down", "failed", "serving"}]
    BY DEF RaceInv, Progress
  <2>4. found \in [Instances -> {"absent", "same", "changed"}]
    BY DEF RaceInv, Progress
  <2>5. \A k \in UniqueRecords : rows[k] <= 1
    BY DEF RaceInv, UniqueOnce
  <2>6. /\ physical \subseteq Snapshot \cup Custom /\ meta \subseteq Snapshot \cup Custom
        /\ raced \cup missed \subseteq Records
    BY DEF BootTypes, Columns
  <2>7. /\ isInit \in Seq(BOOLEAN) /\ Len(isInit) = rows[Setting]
        /\ bootLock \in BOOLEAN /\ torn \in BOOLEAN
        /\ next \in [Instances -> 0..Len(Defaults) + 1] /\ faults \in 0..MaxFaults
    BY DEF BootTypes
  <2> QED
    BY <2>2, <2>3, <2>4, <2>5, <2>6, <2>7 DEF TypeOK
<1>3. RaceInv /\ RowsBounded /\ BootTypes /\ [Next]_vars => (RaceInv /\ RowsBounded /\ BootTypes)'
  <2> SUFFICES ASSUME RaceInv, RowsBounded, BootTypes, [Next]_vars
               PROVE  RaceInv' /\ RowsBounded' /\ BootTypes'
    OBVIOUS
  <2>1. RaceInv'
    BY NextRaces
  <2>2. Progress /\ Progress'
    BY <2>1 DEF RaceInv
  <2> QED
    BY <2>1, <2>2, BoundedNext, BootTypesNext
<1> QED
  BY <1>1, <1>2, <1>3, InitRaces, PTL DEF Spec

=============================================================================
