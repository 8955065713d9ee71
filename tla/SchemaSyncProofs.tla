-------------------------- MODULE SchemaSyncProofs --------------------------
(***************************************************************************)
(* Theorems about SchemaSync, for every finite or infinite set of calls,   *)
(* every number of attempts and every choice of faults.                    *)
(*                                                                         *)
(* LockOwned is inductive together with TypeOK: a call enters the section  *)
(* only by writing its own id under an absent key, and the two actions     *)
(* that change the key while others are inside (Release by compare-and-    *)
(* delete, ExpireLock) either leave another call's key alone or record its *)
(* holder in overrun.  ExclusiveRun and the refinement of LeaseLock follow  *)
(* from it.                                                                *)
(*                                                                         *)
(* LockAccounted is inductive as it stands.  ExclusiveMigration needs that *)
(* a migration executes at the step that awaits it, unless its run failed  *)
(* or outlived its lock (MigratesInApply).                                 *)
(*                                                                         *)
(* LatestCoversAll and CompletedIsMigrated follow from RunInv: in orderly  *)
(* behaviours a backup holds only changes of the metadata (BackedUp), so   *)
(* no change returns to it once it left; a run that pulled knows all that  *)
(* others migrated or still migrate (Fresh); so neither its cleanup nor    *)
(* its migration, even one still executing after its rollback, drops what  *)
(* the metadata contains (Spares); a run then keeps what it owes to its    *)
(* own change (Own) and to those it supersedes (Covers).                   *)
(***************************************************************************)
EXTENDS SchemaSync, TLAPS

\* A step of some call or of the environment.
LEMMA NextCases ==
  ASSUME Next
  PROVE  \/ \E s \in Syncs : Request(s)
         \/ \E s \in Syncs : Step(s)
         \/ \E s \in Syncs : FinishMigration(s)
         \/ \E s \in Syncs : Fault(s)
         \/ ExpireLock
         \/ ExpireLatest
BY DEF Next

-----------------------------------------------------------------------------
(* Type correctness.  The bound of attempt is not inductive by itself: a     *)
(* call that waits still has an attempt left.                              *)

WaitsBeforeLast == \A s \in Syncs : pc[s] = "wait" => attempt[s] < MaxAttempts

TypeInv == TypeOK /\ WaitsBeforeLast

LEMMA InitType == Init => TypeInv
<1> SUFFICES ASSUME Init PROVE TypeInv
  OBVIOUS
<1>1. hasBackup \in BOOLEAN
  BY BackupsAssumption DEF Init
<1>2. /\ pc \in [Syncs -> {"idle"} \cup Waiting \cup Section \cup Ended]
      /\ kind \in [Syncs -> Kinds]
      /\ outcome \in [Syncs -> Outcomes]
  BY DEF Init, Kinds, Outcomes
<1>3. attempt \in [Syncs -> 0..MaxAttempts]
  BY AttemptsAssumption DEF Init
<1>4. WaitsBeforeLast
  BY DEF Init, WaitsBeforeLast
<1> QED
  BY <1>1, <1>2, <1>3, <1>4 DEF Init, TypeInv, TypeOK

LEMMA MigratedType ==
  ASSUME TypeOK, NEW s \in Syncs
  PROVE  Migrated(s) \in SUBSET Syncs
BY DEF TypeOK, Migrated

\* So does its cleanup of tables (cleanupOrphanedTables).
LEMMA CleanedType ==
  ASSUME TypeOK, NEW s \in Syncs, NEW p \in Cleaned(s)
  PROVE  p \in SUBSET Syncs
BY DEF TypeOK, Cleaned

LEMMA DeleteType ==
  ASSUME TypeOK, NEW s \in Syncs, NEW d \in AfterDelete(s)
  PROVE  d \in SUBSET Syncs
BY DEF TypeOK, AfterDelete

LEMMA StepType ==
  ASSUME TypeInv, NEW s \in Syncs, Step(s)
  PROVE  TypeInv'
<1> USE AttemptsAssumption DEF TypeInv, WaitsBeforeLast, TypeOK, Goto, Return,
        Waiting, Section, Ended, Kinds, Outcomes, redisVars, callVars, dbVars, runVars, pastVars
<1>1. CASE SetLatest(s)         BY <1>1 DEF SetLatest
<1>2. CASE Acquire(s)           BY <1>2 DEF Acquire
<1>3. CASE AcquireBusy(s)       BY <1>3 DEF AcquireBusy
<1>4. CASE CheckHeldLatest(s)   BY <1>4 DEF CheckHeldLatest
<1>5. CASE CheckHeldSkip(s)     BY <1>5 DEF CheckHeldSkip
<1>6. CASE CheckBusyWait(s)     BY <1>6 DEF CheckBusyWait
<1>7. CASE CheckBusySkip(s)     BY <1>7 DEF CheckBusySkip
<1>8. CASE CheckBusyTimeout(s)  BY <1>8 DEF CheckBusyTimeout
<1>9. CASE Retry(s)             BY <1>9 DEF Retry
<1>10. CASE Release(s)          BY <1>10 DEF Release
<1>11. CASE Pull(s)             BY <1>11 DEF Pull
<1>12. CASE Generate(s)         BY <1>12, CleanedType DEF Generate
<1>13. CASE FinishApply(s)      BY <1>13 DEF FinishApply
<1>14. CASE Snapshot(s)         BY <1>14 DEF Snapshot
<1>15. CASE Save(s)             BY <1>15 DEF Save
<1>16. CASE Publish(s)          BY <1>16 DEF Publish
<1>17. CASE Restore(s)          BY <1>17, DeleteType DEF Restore, Restored
<1>18. CASE RestoreNothing(s)   BY <1>18, DeleteType DEF RestoreNothing
<1> QED
  BY <1>1, <1>2, <1>3, <1>4, <1>5, <1>6, <1>7, <1>8, <1>9, <1>10, <1>11, <1>12,
     <1>13, <1>14, <1>15, <1>16, <1>17, <1>18 DEF Step

LEMMA FaultType ==
  ASSUME TypeInv, NEW s \in Syncs, Fault(s)
  PROVE  TypeInv'
<1> USE AttemptsAssumption DEF TypeInv, WaitsBeforeLast, TypeOK, Goto, Return,
        Waiting, Section, Ended, Kinds, Outcomes, redisVars, callVars, dbVars,
        runVars, pastVars
<1>1. CASE SetLatestError(s)  BY <1>1 DEF SetLatestError
<1>2. CASE AcquireError(s)    BY <1>2 DEF AcquireError
<1>3. CASE CheckHeldError(s)  BY <1>3 DEF CheckHeldError
<1>4. CASE CheckBusyError(s)  BY <1>4 DEF CheckBusyError
<1>5. CASE ReleaseError(s)    BY <1>5 DEF ReleaseError
<1>6. CASE FailMigration(s)   BY <1>6, MigratedType DEF FailMigration
<1>7. CASE FailStep(s)        BY <1>7, CleanedType DEF FailStep
<1>8. CASE Crash(s)           BY <1>8, MigratedType, CleanedType DEF Crash
<1> QED
  BY <1>1, <1>2, <1>3, <1>4, <1>5, <1>6, <1>7, <1>8 DEF Fault

LEMMA NextType == TypeInv /\ [Next]_vars => TypeInv'
<1> SUFFICES ASSUME TypeInv, [Next]_vars PROVE TypeInv'
  OBVIOUS
<1> USE DEF TypeInv, WaitsBeforeLast, TypeOK, redisVars, callVars, dbVars,
        runVars, pastVars
<1>1. CASE \E s \in Syncs : Request(s)
  BY <1>1 DEF Request, Goto, Waiting, Kinds
<1>2. CASE \E s \in Syncs : Step(s)
  BY <1>2, StepType
<1>3. CASE \E s \in Syncs : FinishMigration(s)
  BY <1>3, MigratedType DEF FinishMigration
<1>4. CASE \E s \in Syncs : Fault(s)
  BY <1>4, FaultType
<1>5. CASE ExpireLock
  BY <1>5 DEF ExpireLock
<1>6. CASE ExpireLatest
  BY <1>6 DEF ExpireLatest
<1>7. CASE UNCHANGED vars
  BY <1>7 DEF vars
<1> QED
  BY <1>1, <1>2, <1>3, <1>4, <1>5, <1>6, <1>7, NextCases

\* Every reachable state is of its type, and no call counts more attempts than
\* SCHEMA_SYNC_MAX_RETRIES.
THEOREM TypeCorrect == Spec => []TypeOK
<1>1. TypeInv => TypeOK
  BY DEF TypeInv
<1> QED
  BY <1>1, InitType, NextType, PTL DEF Spec

-----------------------------------------------------------------------------
(* Ownership of the processing lock. *)

\* A step of call s leaves the key of another holder alone, and leaves s in the
\* section only with the key its own.
LEMMA StepOwned ==
  ASSUME TypeOK, LockOwned, NEW s \in Syncs, Step(s)
  PROVE  LockOwned'
<1> USE SyncsAssumption DEF TypeOK, LockOwned, Goto, Return, Section, redisVars,
        callVars, pastVars
<1>1. CASE SetLatest(s)         BY <1>1 DEF SetLatest
<1>2. CASE Acquire(s)           BY <1>2 DEF Acquire
<1>3. CASE AcquireBusy(s)       BY <1>3 DEF AcquireBusy
<1>4. CASE CheckHeldLatest(s)   BY <1>4 DEF CheckHeldLatest
<1>5. CASE CheckHeldSkip(s)     BY <1>5 DEF CheckHeldSkip
<1>6. CASE CheckBusyWait(s)     BY <1>6 DEF CheckBusyWait
<1>7. CASE CheckBusySkip(s)     BY <1>7 DEF CheckBusySkip
<1>8. CASE CheckBusyTimeout(s)  BY <1>8 DEF CheckBusyTimeout
<1>9. CASE Retry(s)             BY <1>9 DEF Retry
<1>10. CASE Release(s)          BY <1>10 DEF Release
<1>11. CASE Pull(s)             BY <1>11 DEF Pull
<1>12. CASE Generate(s)         BY <1>12 DEF Generate
<1>13. CASE FinishApply(s)      BY <1>13 DEF FinishApply
<1>14. CASE Snapshot(s)         BY <1>14 DEF Snapshot
<1>15. CASE Save(s)             BY <1>15 DEF Save
<1>16. CASE Publish(s)          BY <1>16 DEF Publish
<1>17. CASE Restore(s)          BY <1>17 DEF Restore
<1>18. CASE RestoreNothing(s)   BY <1>18 DEF RestoreNothing
<1> QED
  BY <1>1, <1>2, <1>3, <1>4, <1>5, <1>6, <1>7, <1>8, <1>9, <1>10, <1>11, <1>12,
     <1>13, <1>14, <1>15, <1>16, <1>17, <1>18 DEF Step

LEMMA FaultOwned ==
  ASSUME TypeOK, LockOwned, NEW s \in Syncs, Fault(s)
  PROVE  LockOwned'
<1> USE SyncsAssumption DEF TypeOK, LockOwned, Goto, Return, Section, redisVars,
        callVars, pastVars
<1>1. CASE SetLatestError(s)  BY <1>1 DEF SetLatestError
<1>2. CASE AcquireError(s)    BY <1>2 DEF AcquireError
<1>3. CASE CheckHeldError(s)  BY <1>3 DEF CheckHeldError
<1>4. CASE CheckBusyError(s)  BY <1>4 DEF CheckBusyError
<1>5. CASE ReleaseError(s)    BY <1>5 DEF ReleaseError
<1>6. CASE FailMigration(s)   BY <1>6 DEF FailMigration
<1>7. CASE FailStep(s)        BY <1>7 DEF FailStep
<1>8. CASE Crash(s)           BY <1>8 DEF Crash
<1> QED
  BY <1>1, <1>2, <1>3, <1>4, <1>5, <1>6, <1>7, <1>8 DEF Fault

LEMMA NextOwned == TypeOK /\ LockOwned /\ [Next]_vars => LockOwned'
<1> SUFFICES ASSUME TypeOK, LockOwned, [Next]_vars PROVE LockOwned'
  OBVIOUS
<1> USE DEF LockOwned, redisVars, callVars, pastVars
<1>1. CASE \E s \in Syncs : Request(s)
  BY <1>1 DEF TypeOK, Request, Goto, Section
<1>2. CASE \E s \in Syncs : Step(s)
  BY <1>2, StepOwned
<1>3. CASE \E s \in Syncs : FinishMigration(s)
  BY <1>3 DEF FinishMigration
<1>4. CASE \E s \in Syncs : Fault(s)
  BY <1>4, FaultOwned
<1>5. CASE ExpireLock
  BY <1>5 DEF ExpireLock
<1>6. CASE ExpireLatest
  BY <1>6 DEF ExpireLatest
<1>7. CASE UNCHANGED vars
  BY <1>7 DEF vars
<1> QED
  BY <1>1, <1>2, <1>3, <1>4, <1>5, <1>6, <1>7, NextCases

\* A call inside the section owns the processing lock unless its TTL ran out.
THEOREM LockOwnership == Spec => []LockOwned
<1>1. Init => LockOwned
  BY DEF Init, LockOwned, Section
<1> QED
  BY <1>1, NextOwned, TypeCorrect, PTL DEF Spec

\* Two calls are inside the section together only if one of them outlived its
\* lock.
THEOREM MutualExclusion == Spec => []ExclusiveRun
<1>1. LockOwned => ExclusiveRun
  BY DEF LockOwned, ExclusiveRun
<1> QED
  BY <1>1, LockOwnership, PTL

-----------------------------------------------------------------------------
(* A taken lock has a call behind it. *)

LEMMA StepAccounted ==
  ASSUME TypeOK, LockAccounted, NEW s \in Syncs, Step(s)
  PROVE  LockAccounted'
<1> USE SyncsAssumption DEF TypeOK, LockAccounted, Goto, Return, Section, redisVars,
        callVars, pastVars
<1>1. CASE SetLatest(s)          BY <1>1 DEF SetLatest
<1>2. CASE Acquire(s)            BY <1>2 DEF Acquire
<1>3. CASE AcquireBusy(s)        BY <1>3 DEF AcquireBusy
<1>4. CASE CheckHeldLatest(s)    BY <1>4 DEF CheckHeldLatest
<1>5. CASE CheckHeldSkip(s)      BY <1>5 DEF CheckHeldSkip
<1>6. CASE CheckBusyWait(s)      BY <1>6 DEF CheckBusyWait
<1>7. CASE CheckBusySkip(s)      BY <1>7 DEF CheckBusySkip
<1>8. CASE CheckBusyTimeout(s)   BY <1>8 DEF CheckBusyTimeout
<1>9. CASE Retry(s)              BY <1>9 DEF Retry
<1>10. CASE Release(s)           BY <1>10 DEF Release
<1>11. CASE Pull(s)              BY <1>11 DEF Pull
<1>12. CASE Generate(s)          BY <1>12 DEF Generate
<1>13. CASE FinishApply(s)       BY <1>13 DEF FinishApply
<1>14. CASE Snapshot(s)          BY <1>14 DEF Snapshot
<1>15. CASE Save(s)              BY <1>15 DEF Save
<1>16. CASE Publish(s)           BY <1>16 DEF Publish
<1>17. CASE Restore(s)           BY <1>17 DEF Restore
<1>18. CASE RestoreNothing(s)    BY <1>18 DEF RestoreNothing
<1> QED
  BY <1>1, <1>2, <1>3, <1>4, <1>5, <1>6, <1>7, <1>8, <1>9, <1>10, <1>11,
     <1>12, <1>13, <1>14, <1>15, <1>16, <1>17, <1>18 DEF Step

LEMMA FaultAccounted ==
  ASSUME TypeOK, LockAccounted, NEW s \in Syncs, Fault(s)
  PROVE  LockAccounted'
<1> USE SyncsAssumption DEF TypeOK, LockAccounted, Goto, Return, Section, redisVars,
        callVars, pastVars
<1>1. CASE SetLatestError(s)     BY <1>1 DEF SetLatestError
<1>2. CASE AcquireError(s)       BY <1>2 DEF AcquireError
<1>3. CASE CheckHeldError(s)     BY <1>3 DEF CheckHeldError
<1>4. CASE CheckBusyError(s)     BY <1>4 DEF CheckBusyError
<1>5. CASE ReleaseError(s)       BY <1>5 DEF ReleaseError
<1>6. CASE FailMigration(s)      BY <1>6 DEF FailMigration
<1>7. CASE FailStep(s)           BY <1>7 DEF FailStep
<1>8. CASE Crash(s)              BY <1>8 DEF Crash
<1> QED
  BY <1>1, <1>2, <1>3, <1>4, <1>5, <1>6, <1>7, <1>8 DEF Fault

LEMMA NextAccounted == TypeOK /\ LockAccounted /\ [Next]_vars => LockAccounted'
<1> SUFFICES ASSUME TypeOK, LockAccounted, [Next]_vars PROVE LockAccounted'
  OBVIOUS
<1> USE DEF LockAccounted, redisVars, callVars
<1>1. CASE \E s \in Syncs : Request(s)
  BY <1>1 DEF TypeOK, Request, Goto, Section
<1>2. CASE \E s \in Syncs : Step(s)
  BY <1>2, StepAccounted
<1>3. CASE \E s \in Syncs : FinishMigration(s)
  BY <1>3 DEF FinishMigration
<1>4. CASE \E s \in Syncs : Fault(s)
  BY <1>4, FaultAccounted
<1>5. CASE ExpireLock
  BY <1>5 DEF ExpireLock
<1>6. CASE ExpireLatest
  BY <1>6 DEF ExpireLatest
<1>7. CASE UNCHANGED vars
  BY <1>7 DEF vars
<1> QED
  BY <1>1, <1>2, <1>3, <1>4, <1>5, <1>6, <1>7, NextCases

\* No early return of the section forgets the lock: without an error of Redis or
\* a crash a taken lock has its call inside the section.
THEOREM NoForgottenLock == Spec => []LockAccounted
<1>1. Init => LockAccounted
  BY DEF Init, LockAccounted
<1> QED
  BY <1>1, NextAccounted, TypeCorrect, PTL DEF Spec

-----------------------------------------------------------------------------
(* Migrations exclude each other.  A migration executes while its run is at  *)
(* the step that awaits it, unless that run has been rolled back without it. *)

MigratesInApply == \A s \in migrating \ (overrun \cup failed) : pc[s] = "apply"

LEMMA StepMigrates ==
  ASSUME TypeOK, MigratesInApply, NEW s \in Syncs, Step(s)
  PROVE  MigratesInApply'
<1> USE DEF TypeOK, MigratesInApply, Goto, Return, redisVars, callVars, runVars,
        pastVars
<1>1. CASE SetLatest(s)          BY <1>1 DEF SetLatest
<1>2. CASE Acquire(s)            BY <1>2 DEF Acquire
<1>3. CASE AcquireBusy(s)        BY <1>3 DEF AcquireBusy
<1>4. CASE CheckHeldLatest(s)    BY <1>4 DEF CheckHeldLatest
<1>5. CASE CheckHeldSkip(s)      BY <1>5 DEF CheckHeldSkip
<1>6. CASE CheckBusyWait(s)      BY <1>6 DEF CheckBusyWait
<1>7. CASE CheckBusySkip(s)      BY <1>7 DEF CheckBusySkip
<1>8. CASE CheckBusyTimeout(s)   BY <1>8 DEF CheckBusyTimeout
<1>9. CASE Retry(s)              BY <1>9 DEF Retry
<1>10. CASE Release(s)           BY <1>10 DEF Release
<1>11. CASE Pull(s)              BY <1>11 DEF Pull
<1>12. CASE Generate(s)          BY <1>12 DEF Generate
<1>13. CASE FinishApply(s)       BY <1>13 DEF FinishApply
<1>14. CASE Snapshot(s)          BY <1>14 DEF Snapshot
<1>15. CASE Save(s)              BY <1>15 DEF Save
<1>16. CASE Publish(s)           BY <1>16 DEF Publish
<1>17. CASE Restore(s)           BY <1>17 DEF Restore
<1>18. CASE RestoreNothing(s)    BY <1>18 DEF RestoreNothing
<1> QED
  BY <1>1, <1>2, <1>3, <1>4, <1>5, <1>6, <1>7, <1>8, <1>9, <1>10, <1>11,
     <1>12, <1>13, <1>14, <1>15, <1>16, <1>17, <1>18 DEF Step

LEMMA FaultMigrates ==
  ASSUME TypeOK, MigratesInApply, NEW s \in Syncs, Fault(s)
  PROVE  MigratesInApply'
<1> USE DEF TypeOK, MigratesInApply, Goto, Return, redisVars, callVars, runVars,
        pastVars
<1>1. CASE SetLatestError(s)     BY <1>1 DEF SetLatestError
<1>2. CASE AcquireError(s)       BY <1>2 DEF AcquireError
<1>3. CASE CheckHeldError(s)     BY <1>3 DEF CheckHeldError
<1>4. CASE CheckBusyError(s)     BY <1>4 DEF CheckBusyError
<1>5. CASE ReleaseError(s)       BY <1>5 DEF ReleaseError
<1>6. CASE FailMigration(s)      BY <1>6 DEF FailMigration
<1>7. CASE FailStep(s)           BY <1>7 DEF FailStep
<1>8. CASE Crash(s)              BY <1>8 DEF Crash
<1> QED
  BY <1>1, <1>2, <1>3, <1>4, <1>5, <1>6, <1>7, <1>8 DEF Fault

LEMMA NextMigrates == TypeOK /\ MigratesInApply /\ [Next]_vars => MigratesInApply'
<1> SUFFICES ASSUME TypeOK, MigratesInApply, [Next]_vars PROVE MigratesInApply'
  OBVIOUS
<1> USE DEF MigratesInApply, callVars, runVars, pastVars
<1>1. CASE \E s \in Syncs : Request(s)
  BY <1>1 DEF TypeOK, Request, Goto
<1>2. CASE \E s \in Syncs : Step(s)
  BY <1>2, StepMigrates
<1>3. CASE \E s \in Syncs : FinishMigration(s)
  BY <1>3 DEF FinishMigration
<1>4. CASE \E s \in Syncs : Fault(s)
  BY <1>4, FaultMigrates
<1>5. CASE ExpireLock
  BY <1>5 DEF ExpireLock
<1>6. CASE ExpireLatest
  BY <1>6 DEF ExpireLatest
<1>7. CASE UNCHANGED vars
  BY <1>7 DEF vars
<1> QED
  BY <1>1, <1>2, <1>3, <1>4, <1>5, <1>6, <1>7, NextCases

\* Two migrations execute together only if one of their runs outlived its lock or
\* was rolled back while its migration went on.
THEOREM MigrationsExclude == Spec => []ExclusiveMigration
<1>1. Init => MigratesInApply
  BY DEF Init, MigratesInApply
<1>2. TypeOK /\ MigratesInApply /\ LockOwned => ExclusiveMigration
  <2> SUFFICES ASSUME TypeOK, MigratesInApply, LockOwned,
                      NEW s \in migrating \ (overrun \cup failed),
                      NEW t \in migrating \ (overrun \cup failed)
               PROVE  s = t
    BY DEF ExclusiveMigration
  <2>1. s \in Syncs /\ t \in Syncs /\ pc[s] = "apply" /\ pc[t] = "apply"
    BY DEF TypeOK, MigratesInApply
  <2> QED
    BY <2>1 DEF LockOwned, Section
<1> QED
  BY <1>1, <1>2, NextMigrates, TypeCorrect, LockOwnership, PTL DEF Spec

-----------------------------------------------------------------------------
(* The calls implement LeaseLock. *)

Inside == {s \in Syncs : pc[s] \in Section}

\* A step that keeps the key and everybody's side of the section is a stutter
\* of the lease.
LEMMA LeaseStutter ==
  ASSUME UNCHANGED <<lock, overrun>>,
         \A t \in Syncs : pc'[t] \in Section <=> pc[t] \in Section
  PROVE  UNCHANGED Lease!leaseVars
<1>1. Inside' = Inside
  BY DEF Inside
<1> QED
  BY <1>1 DEF Inside, Lease!leaseVars

\* What one call does to the set of the calls inside.
LEMMA LeaseInside ==
  ASSUME NEW s \in Syncs,
         \A t \in Syncs \ {s} : pc'[t] \in Section <=> pc[t] \in Section
  PROVE  /\ pc'[s] \in Section => Inside' = Inside \cup {s}
         /\ pc'[s] \notin Section => Inside' = Inside \ {s}
BY DEF Inside

LEMMA LeaseStep ==
  ASSUME TypeOK, NEW s \in Syncs, Step(s)
  PROVE  [Lease!Next]_(Lease!leaseVars)
<1> USE DEF TypeOK, Goto, Return, redisVars, callVars, pastVars
<1>1. CASE Acquire(s)
  <2>1. /\ lock = NoSync /\ lock' = s /\ overrun' = overrun
        /\ pc'[s] \in Section
        /\ \A t \in Syncs \ {s} : pc'[t] \in Section <=> pc[t] \in Section
    BY <1>1 DEF Acquire, Section
  <2>2. Inside' = Inside \cup {s}
    BY <2>1, LeaseInside
  <2>3. Lease!Enter(s)
    BY <2>1, <2>2 DEF Lease!Enter, Inside
  <2> QED
    BY <2>3 DEF Lease!Next
<1>2. CASE Release(s)
  <2>1. /\ lock' = IF lock = s THEN NoSync ELSE lock
        /\ overrun' = overrun
        /\ pc[s] \in Section /\ pc'[s] \notin Section
        /\ \A t \in Syncs \ {s} : pc'[t] \in Section <=> pc[t] \in Section
    BY <1>2 DEF Release, Section
  <2>2. Inside' = Inside \ {s} /\ s \in Inside
    BY <2>1, LeaseInside DEF Inside
  <2>3. Lease!Leave(s)
    BY <2>1, <2>2 DEF Lease!Leave, Inside
  <2> QED
    BY <2>3 DEF Lease!Next
<1>3. CASE Step(s) /\ ~Acquire(s) /\ ~Release(s)
  <2>1. UNCHANGED <<lock, overrun>>
    BY <1>3 DEF Step, SetLatest, AcquireBusy, CheckHeldLatest, CheckHeldSkip,
       CheckBusyWait, CheckBusySkip, CheckBusyTimeout, Retry, Pull, Generate,
       FinishApply, Snapshot, Save, Publish, Restore, RestoreNothing
  <2>2. \A t \in Syncs : pc'[t] \in Section <=> pc[t] \in Section
    <3> USE DEF Section
    <3>1. CASE SetLatest(s) \/ AcquireBusy(s) \/ Retry(s) \/ CheckBusyWait(s)
               \/ CheckBusySkip(s) \/ CheckBusyTimeout(s)
      BY <3>1 DEF SetLatest, AcquireBusy, Retry, CheckBusyWait, CheckBusySkip,
         CheckBusyTimeout
    <3>2. CASE CheckHeldLatest(s) \/ CheckHeldSkip(s) \/ Pull(s) \/ Generate(s)
               \/ FinishApply(s) \/ Snapshot(s)
      BY <3>2 DEF CheckHeldLatest, CheckHeldSkip, Pull, Generate, FinishApply,
         Snapshot
    <3>3. CASE Save(s) \/ Publish(s) \/ RestoreNothing(s)
      BY <3>3 DEF Save, Publish, RestoreNothing
    <3>4. CASE Restore(s)
      BY <3>4 DEF Restore
    <3> QED
      BY <1>3, <3>1, <3>2, <3>3, <3>4 DEF Step
  <2> QED
    BY <2>1, <2>2, LeaseStutter
<1> QED
  BY <1>1, <1>2, <1>3

LEMMA LeaseFault ==
  ASSUME TypeOK, NEW s \in Syncs, Fault(s)
  PROVE  [Lease!Next]_(Lease!leaseVars)
<1> USE DEF TypeOK, Goto, Return, redisVars, callVars, pastVars
<1>1. CASE AcquireError(s)
  <2>1. /\ overrun' = overrun
        /\ \A t \in Syncs : pc'[t] \in Section <=> pc[t] \in Section
    BY <1>1 DEF AcquireError, Section
  <2>2. CASE lock' = lock
    BY <2>1, <2>2, LeaseStutter
  <2>3. CASE lock' # lock
    <3>1. lock = NoSync /\ lock' = s
      BY <1>1, <2>3 DEF AcquireError
    <3>2. Inside' = Inside
      BY <2>1 DEF Inside
    <3>3. Lease!Leak(s)
      BY <2>1, <3>1, <3>2 DEF Lease!Leak, Inside
    <3> QED
      BY <3>3 DEF Lease!Next
  <2> QED
    BY <2>2, <2>3
<1>2. CASE ReleaseError(s) \/ (Crash(s) /\ pc[s] \in Section)
  <2>1. /\ UNCHANGED <<lock, overrun>>
        /\ pc[s] \in Section /\ pc'[s] \notin Section
        /\ \A t \in Syncs \ {s} : pc'[t] \in Section <=> pc[t] \in Section
    BY <1>2 DEF ReleaseError, Crash, Section
  <2>2. Inside' = Inside \ {s} /\ s \in Inside
    BY <2>1, LeaseInside DEF Inside
  <2>3. Lease!Abandon(s)
    BY <2>1, <2>2 DEF Lease!Abandon, Inside
  <2> QED
    BY <2>3 DEF Lease!Next
<1>3. CASE Crash(s) /\ pc[s] \notin Section
  <2>1. /\ UNCHANGED <<lock, overrun>>
        /\ \A t \in Syncs : pc'[t] \in Section <=> pc[t] \in Section
    BY <1>3 DEF Crash, Section
  <2> QED
    BY <2>1, LeaseStutter
<1>4. CASE SetLatestError(s) \/ CheckHeldError(s) \/ CheckBusyError(s)
           \/ FailMigration(s) \/ FailStep(s)
  <2>1. /\ UNCHANGED <<lock, overrun>>
        /\ \A t \in Syncs : pc'[t] \in Section <=> pc[t] \in Section
    BY <1>4 DEF SetLatestError, CheckHeldError, CheckBusyError, FailMigration,
       FailStep, Section
  <2> QED
    BY <2>1, LeaseStutter
<1> QED
  BY <1>1, <1>2, <1>3, <1>4 DEF Fault

LEMMA LeaseNext == TypeOK /\ [Next]_vars => [Lease!Next]_(Lease!leaseVars)
<1> SUFFICES ASSUME TypeOK, [Next]_vars
             PROVE  [Lease!Next]_(Lease!leaseVars)
  OBVIOUS
<1>1. CASE \E s \in Syncs : Request(s)
  <2>1. /\ UNCHANGED <<lock, overrun>>
        /\ \A t \in Syncs : pc'[t] \in Section <=> pc[t] \in Section
    BY <1>1 DEF TypeOK, Request, Goto, Section, redisVars, pastVars
  <2> QED
    BY <2>1, LeaseStutter
<1>2. CASE \E s \in Syncs : Step(s)
  BY <1>2, LeaseStep
<1>3. CASE \E s \in Syncs : FinishMigration(s)
  <2>1. UNCHANGED <<lock, overrun, pc>>
    BY <1>3 DEF FinishMigration, redisVars, callVars, pastVars
  <2> QED
    BY <2>1, LeaseStutter
<1>4. CASE \E s \in Syncs : Fault(s)
  BY <1>4, LeaseFault
<1>5. CASE ExpireLock
  <2>1. /\ lock # NoSync /\ lock' = NoSync /\ UNCHANGED pc
        /\ overrun' = IF pc[lock] \in Section THEN overrun \cup {lock} ELSE overrun
    BY <1>5 DEF ExpireLock, callVars
  <2>2. overrun' = overrun \cup (Inside \cap {lock})
    BY <2>1 DEF TypeOK, Inside
  <2>3. Inside' = Inside
    BY <2>1 DEF Inside
  <2>4. Lease!Expire
    BY <2>1, <2>2, <2>3 DEF Lease!Expire, Inside
  <2> QED
    BY <2>4 DEF Lease!Next
<1>6. CASE ExpireLatest
  <2>1. UNCHANGED <<lock, overrun, pc>>
    BY <1>6 DEF ExpireLatest, callVars, pastVars
  <2> QED
    BY <2>1, LeaseStutter
<1>7. CASE UNCHANGED vars
  <2>1. UNCHANGED <<lock, overrun, pc>>
    BY <1>7 DEF vars, redisVars, callVars, pastVars
  <2> QED
    BY <2>1, LeaseStutter
<1> QED
  BY <1>1, <1>2, <1>3, <1>4, <1>5, <1>6, <1>7, NextCases

\* The processing lock of syncAll is a lease: a step grants it only when it is
\* free, and only its holder or its TTL ends it.
THEOREM LockIsALease == Spec => ImplementsLease
<1>1. Init => Lease!Init
  BY DEF Init, Lease!Init, Section
<1> QED
  BY <1>1, LeaseNext, TypeCorrect, PTL DEF Spec, ImplementsLease, Lease!LeaseSpec

-----------------------------------------------------------------------------
(* What the runs promise.  The argument is about the changes that are in the *)
(* metadata: one that is in the physical schema too stays there.           *)

\* The changes that somebody made.
Requested == {c \in Syncs : pc[c] # "idle" /\ kind[c] \in {"create", "update"}}

\* Nothing but such changes is ever in the database or in what a run read.
Named ==
  /\ defs \subseteq Requested /\ physical \subseteq Requested /\ history \subseteq Requested
  /\ \A s \in Syncs : seen[s] \subseteq Requested /\ base[s] \subseteq Requested

\* Where a call has to be to have failed, to migrate or to have a status.
Stages ==
  /\ \A s \in failed : pc[s] \in {"restore", "release"} \cup Ended
  /\ \A s \in Syncs : pc[s] = "restore" => s \in failed
  /\ \A s \in migrating : pc[s] \in {"apply", "restore", "release"} \cup Ended
  /\ \A s \in Syncs : outcome[s] # "none" => pc[s] \in {"release"} \cup Ended

\* The tables whose create failed: its rollback deletes them, and they may be
\* in a backup of a run that read the metadata before.
Undone == {c \in failed : kind[c] = "create"}

\* A restore brings nothing back but those.
BackedUp ==
  /\ history \subseteq defs \cup Undone
  /\ \A s \in Syncs : pc[s] = "save" => seen[s] \subseteq defs \cup Undone

\* Between its pull and its migration a run knows of every change that is in
\* the physical schema or on the way to it.
Fresh ==
  \A s \in Syncs : pc[s] = "generate" =>
    \A c \in defs : (c \in physical \/ \E m \in migrating : c \in seen[m]) => c \in seen[s]

\* An executing migration, also of a run rolled back meanwhile, removes nothing
\* that the metadata contains.
Spares ==
  \A m \in migrating : \A c \in base[m] \ seen[m] : kind[c] # "create" => c \notin defs

\* A change is in the physical schema or the migration of s will put it there.
Migrates(s, c) == c \in physical \/ (s \in migrating /\ c \in seen[s] /\ c \notin base[s])

\* The migration of s is over, and s did not fail before.
Migration(s) == outcome[s] = "completed" \/ pc[s] \in {"snapshot", "save", "publish"}

\* A run takes care of the change its own call made.
Own ==
  \A s \in defs \ failed :
    /\ pc[s] = "generate" => s \in seen[s]
    /\ pc[s] = "apply" => Migrates(s, s)
    /\ Migration(s) => s \in physical

\* The call wrote the latest key and got the answer.
Registered(c) ==
  \/ pc[c] \in (Waiting \cup Section) \ {"set"}
  \/ outcome[c] \in {"skipped", "completed", "timeout"}

\* What follows the check of the latest key.
Running == Section \ {"checkHeld", "release"}

\* What the run of s, the latest one, does about every registered change; and
\* no other run follows it.
Covered(s) ==
  /\ pc[s] = "generate" => \A c \in defs : Registered(c) => c \in seen[s]
  /\ pc[s] = "apply" => \A c \in defs : Registered(c) => Migrates(s, c)
  /\ Migration(s) => \A c \in defs : Registered(c) => c \in physical
  /\ pc[s] \in {"generate", "apply"} \/ Migration(s) =>
       \A t \in Syncs \ {s} : pc[t] \notin Running

Covers == \A s \in Syncs \ failed : latest = s /\ ~IsRestore(s) => Covered(s)

Promises == BackedUp /\ Fresh /\ Spares /\ Own /\ Covers

RunInv == Named /\ Stages /\ (Orderly => Promises)

\* What a call does outside the run changes its own place and status and the
\* two keys only.
Turn(s) ==
  \/ SetLatest(s) \/ Acquire(s) \/ AcquireBusy(s)
  \/ CheckHeldLatest(s) \/ CheckHeldSkip(s)
  \/ CheckBusyWait(s) \/ CheckBusySkip(s) \/ CheckBusyTimeout(s)
  \/ Retry(s) \/ Release(s)
  \/ SetLatestError(s) \/ AcquireError(s) \/ CheckHeldError(s)
  \/ CheckBusyError(s) \/ ReleaseError(s)

LEMMA TurnKeeps ==
  ASSUME TypeOK, NEW s \in Syncs, Turn(s)
  PROVE  /\ UNCHANGED <<kind, defs, physical, history, seen, base, migrating,
                        overrun, failed>>
         /\ \A t \in Syncs \ {s} : pc'[t] = pc[t] /\ outcome'[t] = outcome[t]
         /\ pc[s] \in Waiting \cup {"checkHeld", "release"}
         /\ pc'[s] \in (Waiting \ {"set"}) \cup {"checkHeld", "pull", "release", "returned"}
         /\ pc'[s] \in Waiting => outcome'[s] = outcome[s]
         /\ pc[s] \in Waiting => pc'[s] \in Waiting \cup {"checkHeld", "returned"}
         /\ outcome'[s] = outcome[s]
              \/ (outcome'[s] \in {"skipped", "timeout", "error"} /\ pc'[s] \in {"release", "returned"})
<1> USE DEF TypeOK, Goto, Return, Waiting, redisVars, callVars, dbVars, runVars,
        pastVars
<1>1. CASE SetLatest(s)         BY <1>1 DEF SetLatest
<1>2. CASE Acquire(s)           BY <1>2 DEF Acquire
<1>3. CASE AcquireBusy(s)       BY <1>3 DEF AcquireBusy
<1>4. CASE CheckHeldLatest(s)   BY <1>4 DEF CheckHeldLatest
<1>5. CASE CheckHeldSkip(s)     BY <1>5 DEF CheckHeldSkip
<1>6. CASE CheckBusyWait(s)     BY <1>6 DEF CheckBusyWait
<1>7. CASE CheckBusySkip(s)     BY <1>7 DEF CheckBusySkip
<1>8. CASE CheckBusyTimeout(s)  BY <1>8 DEF CheckBusyTimeout
<1>9. CASE Retry(s)             BY <1>9 DEF Retry
<1>10. CASE Release(s)          BY <1>10 DEF Release
<1>11. CASE SetLatestError(s)   BY <1>11 DEF SetLatestError
<1>12. CASE AcquireError(s)     BY <1>12 DEF AcquireError
<1>13. CASE CheckHeldError(s)   BY <1>13 DEF CheckHeldError
<1>14. CASE CheckBusyError(s)   BY <1>14 DEF CheckBusyError
<1>15. CASE ReleaseError(s)     BY <1>15 DEF ReleaseError
<1> QED
  BY <1>1, <1>2, <1>3, <1>4, <1>5, <1>6, <1>7, <1>8, <1>9, <1>10, <1>11, <1>12,
     <1>13, <1>14, <1>15 DEF Turn

\* It registers only by writing the latest key, and runs only as the latest.
LEMMA TurnRegisters ==
  ASSUME TypeOK, NEW s \in Syncs, Turn(s)
  PROVE  /\ pc'[s] = "pull" => latest = s /\ latest' = s
         /\ pc[s] = "set" => latest' = s \/ outcome'[s] = "error"
         /\ latest' # latest => latest' = s /\ pc[s] = "set"
<1> USE DEF TypeOK, Goto, Return, redisVars, callVars
<1>1. CASE SetLatest(s)         BY <1>1 DEF SetLatest
<1>2. CASE Acquire(s)           BY <1>2 DEF Acquire
<1>3. CASE AcquireBusy(s)       BY <1>3 DEF AcquireBusy
<1>4. CASE CheckHeldLatest(s)   BY <1>4 DEF CheckHeldLatest
<1>5. CASE CheckHeldSkip(s)     BY <1>5 DEF CheckHeldSkip
<1>6. CASE CheckBusyWait(s)     BY <1>6 DEF CheckBusyWait
<1>7. CASE CheckBusySkip(s)     BY <1>7 DEF CheckBusySkip
<1>8. CASE CheckBusyTimeout(s)  BY <1>8 DEF CheckBusyTimeout
<1>9. CASE Retry(s)             BY <1>9 DEF Retry
<1>10. CASE Release(s)          BY <1>10 DEF Release
<1>11. CASE SetLatestError(s)   BY <1>11 DEF SetLatestError
<1>12. CASE AcquireError(s)     BY <1>12 DEF AcquireError
<1>13. CASE CheckHeldError(s)   BY <1>13 DEF CheckHeldError
<1>14. CASE CheckBusyError(s)   BY <1>14 DEF CheckBusyError
<1>15. CASE ReleaseError(s)     BY <1>15 DEF ReleaseError
<1> QED
  BY <1>1, <1>2, <1>3, <1>4, <1>5, <1>6, <1>7, <1>8, <1>9, <1>10, <1>11, <1>12,
     <1>13, <1>14, <1>15 DEF Turn

\* What a run does, and what happens to it.
Work(s) ==
  \/ Pull(s) \/ Generate(s) \/ FinishApply(s) \/ Snapshot(s) \/ Save(s)
  \/ Publish(s) \/ FailStep(s) \/ Restore(s) \/ RestoreNothing(s)

LEMMA Moves ==
  ASSUME [Next]_vars
  PROVE  \/ \E s \in Syncs : Request(s)
         \/ \E s \in Syncs : Turn(s)
         \/ \E s \in Syncs : Work(s)
         \/ \E s \in Syncs : FinishMigration(s)
         \/ \E s \in Syncs : FailMigration(s)
         \/ \E s \in Syncs : Crash(s)
         \/ UNCHANGED <<pc, kind, outcome, defs, physical, history, seen, base,
                        migrating, failed>>
            /\ overrun \subseteq overrun' /\ latest' \in {latest, NoSync}
<1>1. CASE \E s \in Syncs : Step(s)
  BY <1>1 DEF Step, Turn, Work
<1>2. CASE \E s \in Syncs : Fault(s)
  BY <1>2 DEF Fault, Turn, Work
<1>3. CASE ExpireLock
  BY <1>3 DEF ExpireLock, callVars, dbVars, runVars
<1>4. CASE ExpireLatest
  BY <1>4 DEF ExpireLatest, callVars, dbVars, runVars, pastVars
<1>5. CASE UNCHANGED vars
  BY <1>5 DEF vars, redisVars, callVars, dbVars, runVars, pastVars
<1> QED
  BY <1>1, <1>2, <1>3, <1>4, <1>5, NextCases

-----------------------------------------------------------------------------
(* The two parts that hold whatever happened. *)

LEMMA NamedStep ==
  ASSUME TypeOK, Named, [Next]_vars
  PROVE  Named'
<1> USE DEF TypeOK, Named, Requested, Goto, Return, dbVars, runVars
<1>1. CASE \E s \in Syncs : Request(s)
  BY <1>1 DEF Request
<1>2. CASE \E s \in Syncs : Turn(s)
  <2> PICK s \in Syncs : Turn(s)
    BY <1>2
  <2>1. \A t \in Syncs : pc[t] # "idle" => pc'[t] # "idle"
    BY TurnKeeps DEF Waiting
  <2> QED
    BY <2>1, TurnKeeps
<1>3. CASE \E s \in Syncs : Work(s)
  <2> PICK s \in Syncs : Work(s)
    BY <1>3
  <2>1. CASE Pull(s)            BY <2>1 DEF Pull
  <2>2. CASE Generate(s)        BY <2>2 DEF Generate, Cleaned
  <2>3. CASE FinishApply(s)     BY <2>3 DEF FinishApply
  <2>4. CASE Snapshot(s)        BY <2>4 DEF Snapshot
  <2>5. CASE Save(s)            BY <2>5 DEF Save
  <2>6. CASE Publish(s)         BY <2>6 DEF Publish
  <2>7. CASE FailStep(s)        BY <2>7 DEF FailStep, Cleaned
  <2>8. CASE Restore(s)         BY <2>8 DEF Restore, Restored, AfterDelete
  <2>9. CASE RestoreNothing(s)  BY <2>9 DEF RestoreNothing, AfterDelete
  <2> QED
    BY <2>1, <2>2, <2>3, <2>4, <2>5, <2>6, <2>7, <2>8, <2>9 DEF Work
<1>4. CASE \E s \in Syncs : FinishMigration(s)
  BY <1>4 DEF FinishMigration, Migrated, callVars
<1>5. CASE \E s \in Syncs : FailMigration(s)
  BY <1>5 DEF FailMigration, Migrated
<1>6. CASE \E s \in Syncs : Crash(s)
  BY <1>6 DEF Crash, Migrated, Cleaned, Section, Waiting
<1>7. CASE UNCHANGED <<pc, kind, defs, physical, history, seen, base>>
  BY <1>7
<1> QED
  BY <1>1, <1>2, <1>3, <1>4, <1>5, <1>6, <1>7, Moves

LEMMA StagesStep ==
  ASSUME TypeOK, Stages, [Next]_vars
  PROVE  Stages'
<1> USE DEF TypeOK, Stages, Goto, Return, Ended, runVars, pastVars
<1>1. CASE \E s \in Syncs : Request(s)
  BY <1>1 DEF Request
<1>2. CASE \E s \in Syncs : Turn(s)
  <2> PICK s \in Syncs : Turn(s)
    BY <1>2
  <2>1. UNCHANGED <<failed, migrating>>
    BY TurnKeeps
  <2>2. /\ pc[s] \in Waiting \cup {"checkHeld", "release"}
        /\ \A t \in Syncs \ {s} : pc'[t] = pc[t] /\ outcome'[t] = outcome[t]
    BY TurnKeeps
  <2>3. pc[s] = "release" => pc'[s] \in {"release", "returned"}
    BY DEF Turn, SetLatest, Acquire, AcquireBusy, CheckHeldLatest, CheckHeldSkip,
       CheckBusyWait, CheckBusySkip, CheckBusyTimeout, Retry, Release,
       SetLatestError, AcquireError, CheckHeldError, CheckBusyError, ReleaseError
  <2>4. outcome'[s] # "none" => pc'[s] \in {"release", "returned"}
    BY <2>2, <2>3, TurnKeeps DEF Waiting
  <2>5. pc'[s] # "restore"
    BY TurnKeeps DEF Waiting
  <2> QED
    BY <2>1, <2>2, <2>3, <2>4, <2>5 DEF Waiting
<1>3. CASE \E s \in Syncs : Work(s)
  <2> PICK s \in Syncs : Work(s)
    BY <1>3
  <2>1. CASE Pull(s)            BY <2>1 DEF Pull, callVars
  <2>2. CASE Generate(s)        BY <2>2 DEF Generate
  <2>3. CASE FinishApply(s)     BY <2>3 DEF FinishApply
  <2>4. CASE Snapshot(s)        BY <2>4 DEF Snapshot
  <2>5. CASE Save(s)            BY <2>5 DEF Save
  <2>6. CASE Publish(s)         BY <2>6 DEF Publish
  <2>7. CASE FailStep(s)        BY <2>7 DEF FailStep
  <2>8. CASE Restore(s)         BY <2>8 DEF Restore
  <2>9. CASE RestoreNothing(s)  BY <2>9 DEF RestoreNothing
  <2> QED
    BY <2>1, <2>2, <2>3, <2>4, <2>5, <2>6, <2>7, <2>8, <2>9 DEF Work
<1>4. CASE \E s \in Syncs : FinishMigration(s)
  BY <1>4 DEF FinishMigration, callVars
<1>5. CASE \E s \in Syncs : FailMigration(s)
  BY <1>5 DEF FailMigration
<1>6. CASE \E s \in Syncs : Crash(s)
  BY <1>6 DEF Crash
<1>7. CASE UNCHANGED <<pc, outcome, migrating, failed>>
  BY <1>7
<1> QED
  BY <1>1, <1>2, <1>3, <1>4, <1>5, <1>6, <1>7, Moves

\* What made a behaviour disorderly is never forgotten.
LEMMA OrderlyBefore ==
  ASSUME TypeOK, Stages, [Next]_vars, Orderly'
  PROVE  Orderly
<1>1. overrun \subseteq overrun' /\ failed \subseteq failed'
  <2>1. CASE \E s \in Syncs : Request(s)
    BY <2>1 DEF Request, pastVars
  <2>2. CASE \E s \in Syncs : Turn(s)
    BY <2>2, TurnKeeps
  <2>3. CASE \E s \in Syncs : Work(s)
    BY <2>3 DEF Work, Pull, Generate, FinishApply, Snapshot, Save, Publish,
       FailStep, Restore, RestoreNothing, pastVars
  <2>4. CASE \E s \in Syncs : FinishMigration(s) \/ FailMigration(s) \/ Crash(s)
    BY <2>4 DEF FinishMigration, FailMigration, Crash, pastVars
  <2> QED
    BY <2>1, <2>2, <2>3, <2>4, Moves
<1>2. \A t \in Syncs : pc[t] # "idle" => kind'[t] = kind[t]
  <2>1. CASE \E s \in Syncs : Request(s)
    BY <2>1 DEF TypeOK, Request, Goto
  <2>2. CASE \E s \in Syncs : Turn(s)
    BY <2>2, TurnKeeps
  <2>3. CASE \E s \in Syncs : Work(s)
    BY <2>3 DEF TypeOK, Work, Pull, Generate, FinishApply, Snapshot, Save, Publish,
       FailStep, Restore, RestoreNothing, Return, callVars
  <2>4. CASE \E s \in Syncs : FinishMigration(s) \/ FailMigration(s) \/ Crash(s)
    BY <2>4 DEF FinishMigration, FailMigration, Crash, callVars
  <2> QED
    BY <2>1, <2>2, <2>3, <2>4, Moves
<1>3. \A t \in failed : t \in Syncs /\ pc[t] # "idle"
  BY DEF TypeOK, Stages, Ended
<1> QED
  BY <1>1, <1>2, <1>3 DEF Orderly, IsRestore

-----------------------------------------------------------------------------
(* The parts that hold of the orderly behaviours. *)

\* Two calls are in the section only if they are one.
LEMMA Alone ==
  ASSUME LockOwned, Orderly, NEW s \in Syncs, NEW t \in Syncs,
         pc[s] \in Section, pc[t] \in Section
  PROVE  s = t
BY DEF LockOwned, Orderly

\* A failed call is one of the API or of boot, so its restore deletes at most
\* its own table.
LEMMA DeletesOwn ==
  ASSUME TypeOK, Stages, Orderly, NEW s \in Syncs, pc[s] = "restore",
         NEW d \in AfterDelete(s)
  PROVE  /\ s \in failed
         /\ \/ d = defs
            \/ kind[s] = "create" /\ d = defs \ {s}
BY DEF Stages, Orderly, IsRestore, AfterDelete

\* The cleanup of a run, also an incomplete one, drops no table of the metadata.
LEMMA CleanedKeeps ==
  ASSUME TypeOK, Fresh, NEW s \in Syncs, pc[s] = "generate", NEW p \in Cleaned(s)
  PROVE  p \subseteq physical /\ physical \cap defs \subseteq p
BY DEF Fresh, Cleaned, Orphans

\* Nor does a migration.
LEMMA MigratedKeeps ==
  ASSUME TypeOK, Spares, NEW m \in migrating
  PROVE  /\ physical \cap defs \subseteq Migrated(m)
         /\ Migrated(m) \subseteq physical \cup seen[m]
         /\ seen[m] \ base[m] \subseteq Migrated(m)
BY DEF Spares, Migrated

LEMMA BackedUpStep ==
  ASSUME TypeOK, LockOwned, Stages, Orderly, BackedUp, [Next]_vars, Orderly'
  PROVE  BackedUp'
<1> USE DEF TypeOK, BackedUp, Undone, Goto, Return, dbVars, runVars, pastVars
<1>1. CASE \E s \in Syncs : Request(s)
  BY <1>1 DEF Request, Stages, Ended
<1>2. CASE \E s \in Syncs : Turn(s)
  <2> PICK s \in Syncs : Turn(s)
    BY <1>2
  <2>1. pc'[s] # "save"
    BY TurnKeeps DEF Waiting
  <2> QED
    BY <2>1, TurnKeeps
<1>3. CASE \E s \in Syncs : Work(s)
  <2> PICK s \in Syncs : Work(s)
    BY <1>3
  <2>1. CASE Pull(s)
    BY <2>1 DEF Pull, callVars
  <2>2. CASE Generate(s)
    BY <2>2 DEF Generate
  <2>3. CASE FinishApply(s)
    BY <2>3 DEF FinishApply
  <2>4. CASE Snapshot(s)
    BY <2>4 DEF Snapshot
  <2>5. CASE Save(s)
    BY <2>5 DEF Save
  <2>6. CASE Publish(s)
    BY <2>6 DEF Publish, callVars
  <2>7. CASE FailStep(s)
    BY <2>7 DEF FailStep
  <2>8. CASE Restore(s)
    <3>1. \A t \in Syncs : pc[t] # "save"
      BY <2>8, Alone DEF Restore, Section
    <3>2. /\ history' = history /\ history \subseteq defs'
          /\ \A t \in Syncs : pc'[t] = "save" => pc[t] = "save"
      BY <2>8 DEF Restore, Restored
    <3> QED
      BY <3>1, <3>2
  <2>9. CASE RestoreNothing(s)
    <3>1. \A t \in Syncs : pc[t] # "save"
      BY <2>9, Alone DEF RestoreNothing, Section
    <3>2. /\ UNCHANGED <<history, kind, failed>>
          /\ \A t \in Syncs : pc'[t] = "save" => pc[t] = "save"
          /\ pc[s] = "restore" /\ defs' \in AfterDelete(s) \cup {defs}
      BY <2>9 DEF RestoreNothing
    <3>3. defs \subseteq defs' \cup Undone
      BY <3>2, DeletesOwn
    <3> QED
      BY <3>1, <3>2, <3>3
  <2> QED
    BY <2>1, <2>2, <2>3, <2>4, <2>5, <2>6, <2>7, <2>8, <2>9 DEF Work
<1>4. CASE \E s \in Syncs : FinishMigration(s)
  BY <1>4 DEF FinishMigration, callVars
<1>5. CASE \E s \in Syncs : FailMigration(s)
  BY <1>5 DEF FailMigration
<1>6. CASE \E s \in Syncs : Crash(s)
  BY <1>6 DEF Crash
<1>7. CASE UNCHANGED <<pc, kind, defs, history, seen, failed>>
  BY <1>7
<1> QED
  BY <1>1, <1>2, <1>3, <1>4, <1>5, <1>6, <1>7, Moves

LEMMA FreshStep ==
  ASSUME TypeOK, LockOwned, Named, Stages, Orderly, Fresh, Spares, [Next]_vars
  PROVE  Fresh'
<1> USE DEF TypeOK, Fresh, Goto, Return, dbVars, runVars
<1>1. CASE \E s \in Syncs : Request(s)
  BY <1>1 DEF Request, Named, Requested
<1>2. CASE \E s \in Syncs : Turn(s)
  <2> PICK s \in Syncs : Turn(s)
    BY <1>2
  <2>1. pc'[s] # "generate"
    BY TurnKeeps DEF Waiting
  <2> QED
    BY <2>1, TurnKeeps
<1>3. CASE \E s \in Syncs : Work(s)
  <2> PICK s \in Syncs : Work(s)
    BY <1>3
  <2>1. \A t \in Syncs \ {s} : pc[t] # "generate"
    BY Alone DEF Work, Pull, Generate, FinishApply, Snapshot, Save, Publish,
       FailStep, Restore, RestoreNothing, Section
  <2>2. CASE Pull(s)
    BY <2>1, <2>2 DEF Pull, callVars
  <2>3. CASE ~Pull(s)
    <3>1. \A t \in Syncs : pc'[t] # "generate"
      BY <2>1, <2>3 DEF Work, Generate, FinishApply, Snapshot, Save, Publish,
         FailStep, Restore, RestoreNothing
    <3> QED
      BY <3>1
  <2> QED
    BY <2>2, <2>3
<1>4. CASE \E s \in Syncs : FinishMigration(s)
  BY <1>4, MigratedKeeps DEF FinishMigration, callVars
<1>5. CASE \E s \in Syncs : FailMigration(s)
  BY <1>5, MigratedKeeps DEF FailMigration
<1>6. CASE \E s \in Syncs : Crash(s)
  <2> PICK s \in Syncs : Crash(s)
    BY <1>6
  <2>1. physical' \subseteq physical \cup (IF s \in migrating THEN seen[s] ELSE {})
    BY CleanedKeeps, MigratedKeeps DEF Crash
  <2> QED
    BY <2>1 DEF Crash
<1>7. CASE UNCHANGED <<pc, defs, physical, seen, migrating>>
  BY <1>7
<1> QED
  BY <1>1, <1>2, <1>3, <1>4, <1>5, <1>6, <1>7, Moves

LEMMA SparesStep ==
  ASSUME TypeOK, LockOwned, Named, Stages, Orderly, BackedUp, Fresh, Spares,
         [Next]_vars
  PROVE  Spares'
<1> USE DEF TypeOK, Spares, Goto, Return, dbVars, runVars
<1>1. CASE \E s \in Syncs : Request(s)
  BY <1>1 DEF Request, Named, Requested
<1>2. CASE \E s \in Syncs : Turn(s)
  BY <1>2, TurnKeeps
<1>3. CASE \E s \in Syncs : Work(s)
  <2> PICK s \in Syncs : Work(s)
    BY <1>3
  <2>1. CASE Pull(s)
    BY <2>1 DEF Pull, callVars, Stages, Ended
  <2>2. CASE Generate(s)
    BY <2>2, CleanedKeeps DEF Generate, Fresh
  <2>3. CASE FinishApply(s)
    BY <2>3 DEF FinishApply
  <2>4. CASE Snapshot(s)
    BY <2>4 DEF Snapshot, Stages, Ended
  <2>5. CASE Save(s)
    BY <2>5 DEF Save
  <2>6. CASE Publish(s)
    BY <2>6 DEF Publish
  <2>7. CASE FailStep(s)
    BY <2>7 DEF FailStep
  <2>8. CASE Restore(s)
    <3>1. pc[s] = "restore" /\ UNCHANGED <<seen, base, migrating>>
      BY <2>8 DEF Restore
    <3>2. \A c \in Syncs : pc[c] # "idle" => kind'[c] = kind[c]
      BY <2>8 DEF Restore
    <3>3. \A d \in AfterDelete(s) : d \subseteq defs
      BY <3>1, DeletesOwn
    <3>4. defs' \subseteq defs \cup history
      BY <2>8, <3>3 DEF Restore, Restored
    <3>5. \A c \in defs' \ defs : kind[c] = "create"
      BY <3>4 DEF BackedUp, Undone
    <3>6. \A m \in migrating : \A c \in base[m] : c \in Syncs /\ pc[c] # "idle"
      BY DEF Named, Requested
    <3> QED
      BY <3>1, <3>2, <3>5, <3>6
  <2>9. CASE RestoreNothing(s)
    <3>1. defs' \subseteq defs
      BY <2>9, DeletesOwn DEF RestoreNothing
    <3> QED
      BY <2>9, <3>1 DEF RestoreNothing
  <2> QED
    BY <2>1, <2>2, <2>3, <2>4, <2>5, <2>6, <2>7, <2>8, <2>9 DEF Work
<1>4. CASE \E s \in Syncs : FinishMigration(s)
  BY <1>4 DEF FinishMigration, callVars
<1>5. CASE \E s \in Syncs : FailMigration(s)
  BY <1>5 DEF FailMigration
<1>6. CASE \E s \in Syncs : Crash(s)
  BY <1>6 DEF Crash
<1>7. CASE UNCHANGED <<kind, defs, seen, base, migrating>>
  BY <1>7
<1> QED
  BY <1>1, <1>2, <1>3, <1>4, <1>5, <1>6, <1>7, Moves

\* The change of a call that does not fail is never taken out of the metadata
\* and brought back.
LEMMA NothingReturns ==
  ASSUME TypeOK, Stages, Orderly, BackedUp, NEW s \in Syncs, Work(s)
  PROVE  /\ defs' \subseteq defs \cup failed
         /\ failed \subseteq failed'
<1> USE DEF TypeOK, Goto, Return, dbVars, pastVars
<1>1. CASE Restore(s)
  <2>1. \A d \in AfterDelete(s) : d \subseteq defs
    BY <1>1, DeletesOwn DEF Restore
  <2>2. defs' \subseteq defs \cup history
    BY <1>1, <2>1 DEF Restore, Restored
  <2> QED
    BY <1>1, <2>2 DEF Restore, BackedUp, Undone
<1>2. CASE RestoreNothing(s)
  <2>1. pc[s] = "restore" /\ failed' = failed /\ defs' \in AfterDelete(s) \cup {defs}
    BY <1>2 DEF RestoreNothing
  <2>2. \A d \in AfterDelete(s) : d \subseteq defs
    BY <2>1, DeletesOwn
  <2> QED
    BY <2>1, <2>2
<1>3. CASE Work(s) /\ ~Restore(s) /\ ~RestoreNothing(s)
  BY <1>3 DEF Work, Pull, Generate, FinishApply, Snapshot, Save, Publish, FailStep
<1> QED
  BY <1>1, <1>2, <1>3

LEMMA OwnStep ==
  ASSUME TypeOK, Named, Stages, Orderly, BackedUp, Fresh, Spares, Own, [Next]_vars
  PROVE  Own'
<1> USE DEF TypeOK, Own, Migrates, Migration, Goto, Return, dbVars, runVars, pastVars
<1>1. CASE \E s \in Syncs : Request(s)
  BY <1>1 DEF Request, Stages, Ended
<1>2. CASE \E s \in Syncs : Turn(s)
  <2> PICK s \in Syncs : Turn(s)
    BY <1>2
  <2>1. pc'[s] \notin {"generate", "apply", "snapshot", "save", "publish"}
    BY TurnKeeps DEF Waiting
  <2> QED
    BY <2>1, TurnKeeps
<1>3. CASE \E s \in Syncs : Work(s)
  <2> PICK s \in Syncs : Work(s)
    BY <1>3
  <2>1. CASE Pull(s)
    BY <2>1 DEF Pull, callVars, Stages, Ended
  <2>2. CASE Generate(s)
    <3>1. /\ pc[s] = "generate" /\ pc' = [pc EXCEPT ![s] = "apply"]
          /\ physical' \in Cleaned(s)
          /\ UNCHANGED <<outcome, defs, seen, failed>>
          /\ base' = [base EXCEPT ![s] = physical']
          /\ migrating \subseteq migrating'
          /\ ~IsRestore(s) => s \in migrating'
      BY <2>2 DEF Generate
    <3>2. physical \cap defs \subseteq physical'
      BY <3>1, CleanedKeeps
    <3>3. s \in defs => ~IsRestore(s)
      BY DEF Named, Requested, IsRestore
    <3>4. outcome[s] # "completed"
      BY <3>1 DEF Stages, Ended
    <3> QED
      BY <3>1, <3>2, <3>3, <3>4
  <2>3. CASE FinishApply(s)
    BY <2>3 DEF FinishApply
  <2>4. CASE Snapshot(s)
    BY <2>4 DEF Snapshot
  <2>5. CASE Save(s)
    BY <2>5 DEF Save
  <2>6. CASE Publish(s)
    BY <2>6 DEF Publish
  <2>7. CASE FailStep(s)
    <3>1. /\ failed' = failed \cup {s}
          /\ \A t \in Syncs \ {s} : pc'[t] = pc[t]
          /\ UNCHANGED <<outcome, defs, seen, base, migrating>>
      BY <2>7 DEF FailStep
    <3>2. physical \cap defs \subseteq physical'
      BY <2>7, CleanedKeeps DEF FailStep
    <3> QED
      BY <3>1, <3>2
  <2>8. CASE Restore(s)
    <3>1. /\ pc[s] = "restore"
          /\ UNCHANGED <<physical, seen, base, migrating, failed>>
          /\ \A t \in Syncs \ {s} : outcome'[t] = outcome[t]
          /\ \A t \in Syncs \ {s} : pc'[t] = pc[t] \/ pc'[t] = "set"
      BY <2>8 DEF Restore
    <3>2. s \in failed /\ defs' \subseteq defs \cup failed
      BY <2>8, <3>1, NothingReturns DEF Stages
    <3> QED
      BY <3>1, <3>2
  <2>9. CASE RestoreNothing(s)
    <3>1. /\ pc[s] = "restore"
          /\ UNCHANGED <<physical, seen, base, migrating, failed>>
          /\ \A t \in Syncs \ {s} : outcome'[t] = outcome[t] /\ pc'[t] = pc[t]
      BY <2>9 DEF RestoreNothing
    <3>2. s \in failed /\ defs' \subseteq defs \cup failed
      BY <2>9, <3>1, NothingReturns DEF Stages
    <3> QED
      BY <3>1, <3>2
  <2> QED
    BY <2>1, <2>2, <2>3, <2>4, <2>5, <2>6, <2>7, <2>8, <2>9 DEF Work
<1>4. CASE \E s \in Syncs : FinishMigration(s)
  <2> PICK s \in Syncs : FinishMigration(s)
    BY <1>4
  <2>1. /\ s \in migrating /\ migrating' = migrating \ {s}
        /\ physical' = Migrated(s)
        /\ UNCHANGED <<pc, outcome, defs, seen, base, failed>>
    BY DEF FinishMigration, callVars
  <2>2. physical \cap defs \subseteq physical' /\ seen[s] \ base[s] \subseteq physical'
    BY <2>1, MigratedKeeps
  <2> QED
    BY <2>1, <2>2
<1>5. CASE \E s \in Syncs : FailMigration(s)
  <2> PICK s \in Syncs : FailMigration(s)
    BY <1>5
  <2>1. /\ s \in migrating /\ migrating' = migrating \ {s}
        /\ physical' \in {physical, Migrated(s)}
        /\ failed \subseteq failed'
        /\ pc[s] = "apply" => s \in failed'
        /\ pc[s] # "apply" => pc' = pc
        /\ \A t \in Syncs \ {s} : pc'[t] = pc[t]
        /\ UNCHANGED <<outcome, defs, seen, base>>
    BY DEF FailMigration
  <2>2. physical \cap defs \subseteq physical'
    BY <2>1, MigratedKeeps
  <2> QED
    BY <2>1, <2>2
<1>6. CASE \E s \in Syncs : Crash(s)
  <2> PICK s \in Syncs : Crash(s)
    BY <1>6
  <2>1. /\ migrating' = migrating \ {s}
        /\ pc' = [pc EXCEPT ![s] = "crashed"]
        /\ UNCHANGED <<outcome, defs, seen, base, failed>>
    BY DEF Crash
  <2>2. physical \cap defs \subseteq physical'
    BY CleanedKeeps, MigratedKeeps DEF Crash
  <2> QED
    BY <2>1, <2>2
<1>7. CASE UNCHANGED <<pc, outcome, defs, physical, seen, base, migrating, failed>>
  BY <1>7
<1> QED
  BY <1>1, <1>2, <1>3, <1>4, <1>5, <1>6, <1>7, Moves

\* The latest call's own work.
LEMMA CoversWork ==
  ASSUME TypeOK, LockOwned, Stages, Orderly, Fresh, NEW s \in Syncs, Work(s),
         s \notin failed', ~IsRestore(s), Covered(s)
  PROVE  Covered(s)'
<1> USE DEF TypeOK, Covered, Migrates, Migration, Registered, Goto, Return, dbVars, runVars,
        pastVars
<1>1. CASE Pull(s)
  <2>1. \A t \in Syncs \ {s} : pc[t] \notin Running
    BY <1>1, Alone DEF Pull, Running, Section
  <2>2. outcome[s] # "completed"
    BY <1>1 DEF Pull, Stages, Ended
  <2> QED
    BY <1>1, <2>1, <2>2 DEF Pull, callVars
<1>2. CASE Generate(s)
  <2>1. /\ pc[s] = "generate" /\ pc' = [pc EXCEPT ![s] = "apply"]
        /\ physical' \in Cleaned(s)
        /\ UNCHANGED <<outcome, defs, seen>>
        /\ base' = [base EXCEPT ![s] = physical']
        /\ s \in migrating'
    BY <1>2 DEF Generate
  <2>2. outcome[s] # "completed"
    BY <2>1 DEF Stages, Ended
  <2>3. \A c \in Syncs : Registered(c)' => Registered(c)
    BY <2>1 DEF Section
  <2>4. \A c \in defs' : Registered(c)' => Migrates(s, c)'
    BY <2>1, <2>3
  <2>5. \A t \in Syncs \ {s} : pc'[t] \notin Running
    BY <2>1
  <2> QED
    BY <2>1, <2>2, <2>4, <2>5
<1>3. CASE FinishApply(s) \/ Snapshot(s) \/ Save(s) \/ Publish(s)
  <2>1. /\ UNCHANGED <<defs, physical>>
        /\ pc[s] \in {"apply", "snapshot", "save", "publish"}
        /\ pc[s] = "apply" => s \notin migrating
        /\ pc'[s] \in {"snapshot", "save", "publish", "release"}
        /\ \A t \in Syncs \ {s} : pc'[t] = pc[t] /\ outcome'[t] = outcome[t]
    BY <1>3 DEF FinishApply, Snapshot, Save, Publish, IsRestore
  <2>2. \A c \in Syncs : Registered(c)' => Registered(c)
    BY <2>1 DEF Section
  <2> QED
    BY <2>1, <2>2
<1>4. CASE FailStep(s)
  BY <1>4 DEF FailStep
<1>5. CASE Restore(s) \/ RestoreNothing(s)
  BY <1>5 DEF Restore, RestoreNothing, Stages
<1> QED
  BY <1>1, <1>2, <1>3, <1>4, <1>5 DEF Work

LEMMA CoversStep ==
  ASSUME TypeOK, LockOwned, Named, Stages, Orderly, Fresh, Spares, Covers, [Next]_vars
  PROVE  Covers'
<1> USE DEF TypeOK, Covered, Migrates, Migration, Registered, Goto, Return, dbVars, runVars,
        pastVars
<1> SUFFICES ASSUME NEW s \in Syncs, s \notin failed', latest' = s, ~IsRestore(s)'
             PROVE  Covered(s)'
  BY DEF Covers
<1>1. s \notin failed /\ latest = s /\ ~IsRestore(s) => Covered(s)
  BY DEF Covers
<1>2. CASE \E x \in Syncs : Request(x)
  BY <1>1, <1>2 DEF Request, Stages, Ended, IsRestore, redisVars, Running, Section, Waiting
<1>3. CASE \E x \in Syncs : Turn(x)
  <2> PICK x \in Syncs : Turn(x)
    BY <1>3
  <2>1. /\ UNCHANGED <<kind, defs, physical, seen, base, migrating, failed>>
        /\ \A t \in Syncs \ {x} : pc'[t] = pc[t] /\ outcome'[t] = outcome[t]
        /\ pc[x] \in Waiting \cup {"checkHeld", "release"}
        /\ pc'[x] \in (Waiting \ {"set"}) \cup {"checkHeld", "pull", "release", "returned"}
    BY TurnKeeps
  <2>2. CASE x = s
    <3>1. outcome'[s] = "completed" => outcome[s] = "completed" /\ pc[s] = "release"
      BY <2>1, <2>2, TurnKeeps DEF Stages, Waiting, Ended
    <3>2. outcome'[s] = "completed" => Covered(s)
      BY <1>1, <2>1, <2>2, <3>1, TurnRegisters DEF IsRestore
    <3>3. pc'[s] \notin {"generate", "apply", "snapshot", "save", "publish"}
      BY <2>1, <2>2 DEF Waiting
    <3> QED
      BY <2>1, <2>2, <3>1, <3>2, <3>3
  <2>3. CASE x # s
    <3>1. Covered(s)
      BY <1>1, <2>1, <2>3, TurnRegisters DEF IsRestore
    <3>2. Registered(x)' => Registered(x)
      <4>1. CASE pc[x] = "set"
        <5>1. outcome[x] = "none" /\ outcome'[x] = "error"
          BY <2>3, <4>1, TurnRegisters DEF Stages, Ended
        <5>2. pc'[x] = "returned"
          BY <4>1, <5>1, TurnKeeps DEF Waiting
        <5> QED
          BY <5>1, <5>2 DEF Waiting, Section
      <4>2. CASE pc[x] # "set"
        BY <2>1, <4>2 DEF Section
      <4> QED
        BY <4>1, <4>2
    <3>3. pc'[x] \notin Running
      BY <2>1, <2>3, TurnRegisters DEF Running, Section, Waiting
    <3> QED
      BY <2>1, <2>3, <3>1, <3>2, <3>3
  <2> QED
    BY <2>2, <2>3
<1>4. CASE \E x \in Syncs : Work(x)
  <2> PICK x \in Syncs : Work(x)
    BY <1>4
  <2>1. /\ latest' = latest /\ failed \subseteq failed'
        /\ pc[x] \in Running
        /\ \A t \in Syncs \ {x} : pc'[t] = pc[t] \/ (pc[t] = "idle" /\ pc'[t] = "set")
        /\ \A t \in Syncs \ {x} : outcome'[t] = outcome[t]
        /\ \A t \in Syncs : pc[t] # "idle" => kind'[t] = kind[t]
    BY DEF Work, Pull, Generate, FinishApply, Snapshot, Save, Publish, FailStep,
       Restore, RestoreNothing, Running, Section, redisVars, callVars
  <2>2. CASE x = s
    <3>1. ~IsRestore(s)
      BY <2>1, <2>2 DEF IsRestore, Running, Section
    <3> QED
      BY <1>1, <2>1, <2>2, <3>1, CoversWork
  <2>3. CASE x # s
    <3>1. CASE pc[s] = "idle"
      <4>1. outcome[s] = "none"
        BY <3>1 DEF Stages, Ended
      <4> QED
        BY <2>1, <2>3, <3>1, <4>1
    <3>2. CASE pc[s] # "idle"
      <4>1. Covered(s)
        BY <1>1, <2>1, <3>2 DEF IsRestore
      <4> QED
        BY <2>1, <2>3, <3>2, <4>1
    <3> QED
      BY <3>1, <3>2
  <2> QED
    BY <2>2, <2>3
<1>5. CASE \E x \in Syncs : FinishMigration(x)
  <2> PICK x \in Syncs : FinishMigration(x)
    BY <1>5
  <2>1. /\ x \in migrating /\ migrating' = migrating \ {x}
        /\ physical' = Migrated(x)
        /\ UNCHANGED <<latest, pc, kind, outcome, defs, seen, base, failed>>
    BY DEF FinishMigration, callVars, redisVars
  <2>2. physical \cap defs \subseteq physical' /\ seen[x] \ base[x] \subseteq physical'
    BY <2>1, MigratedKeeps
  <2>3. Covered(s)
    BY <1>1, <2>1 DEF IsRestore
  <2> QED
    BY <2>1, <2>2, <2>3
<1>6. CASE \E x \in Syncs : FailMigration(x)
  <2> PICK x \in Syncs : FailMigration(x)
    BY <1>6
  <2>1. /\ x \in migrating /\ migrating' = migrating \ {x}
        /\ physical' \in {physical, Migrated(x)}
        /\ failed \subseteq failed'
        /\ pc[x] = "apply" => x \in failed' /\ pc'[x] = "restore"
        /\ pc[x] # "apply" => pc' = pc
        /\ \A t \in Syncs \ {x} : pc'[t] = pc[t]
        /\ UNCHANGED <<latest, kind, outcome, defs, seen, base>>
    BY DEF FailMigration, redisVars
  <2>2. physical \cap defs \subseteq physical'
    BY <2>1, MigratedKeeps
  <2>3. Covered(s)
    BY <1>1, <2>1 DEF IsRestore
  <2>4. \A c \in Syncs : Registered(c)' => Registered(c)
    BY <2>1 DEF Section
  <2>5. \A t \in Syncs : pc'[t] \in Running => pc[t] \in Running
    BY <2>1 DEF Running, Section
  <2>6. x = s => pc[s] \in {"restore", "release"} \cup Ended /\ pc' = pc
    BY <2>1 DEF Stages
  <2> QED
    BY <2>1, <2>2, <2>3, <2>4, <2>5, <2>6 DEF Ended
<1>7. CASE \E x \in Syncs : Crash(x)
  <2> PICK x \in Syncs : Crash(x)
    BY <1>7
  <2>1. /\ migrating' = migrating \ {x}
        /\ pc' = [pc EXCEPT ![x] = "crashed"]
        /\ UNCHANGED <<latest, kind, outcome, defs, seen, base, failed>>
    BY DEF Crash, redisVars
  <2>2. physical \cap defs \subseteq physical'
    BY CleanedKeeps, MigratedKeeps DEF Crash
  <2>3. Covered(s)
    BY <1>1, <2>1 DEF IsRestore
  <2>4. \A c \in Syncs : Registered(c)' => Registered(c)
    BY <2>1 DEF Section, Waiting
  <2>5. \A t \in Syncs : pc'[t] \in Running => pc[t] \in Running
    BY <2>1 DEF Running, Section
  <2> QED
    BY <2>1, <2>2, <2>3, <2>4, <2>5
<1>8. CASE UNCHANGED <<pc, kind, outcome, defs, physical, seen, base, migrating,
                       failed>> /\ latest' \in {latest, NoSync}
  BY <1>1, <1>8, SyncsAssumption DEF IsRestore
<1> QED
  BY <1>2, <1>3, <1>4, <1>5, <1>6, <1>7, <1>8, Moves

LEMMA RunStep == TypeOK /\ LockOwned /\ RunInv /\ [Next]_vars => RunInv'
<1> SUFFICES ASSUME TypeOK, LockOwned, RunInv, [Next]_vars PROVE RunInv'
  OBVIOUS
<1>1. Named' /\ Stages'
  BY NamedStep, StagesStep DEF RunInv
<1>2. ASSUME Orderly' PROVE Promises'
  <2>1. Orderly /\ Promises
    BY <1>2, OrderlyBefore DEF RunInv
  <2> QED
    BY <1>2, <2>1, BackedUpStep, FreshStep, SparesStep, OwnStep, CoversStep
       DEF RunInv, Promises
<1> QED
  BY <1>1, <1>2 DEF RunInv

LEMMA InitRun == Init => RunInv
BY DEF Init, RunInv, Named, Stages, Promises, BackedUp, Fresh, Spares, Own, Covers,
   Covered, Migration

\* No run that came to its end loses the change of its own call.
THEOREM RunsMigrateTheirOwn == Spec => []CompletedIsMigrated
<1>1. RunInv => CompletedIsMigrated
  BY DEF RunInv, Promises, Own, Migration, CompletedIsMigrated
<1> QED
  BY <1>1, InitRun, RunStep, TypeCorrect, LockOwnership, PTL DEF Spec

\* The run of the latest call leaves no change of a call that gave up in its
\* favour behind.
THEOREM SupersedingIsSound == Spec => []LatestCoversAll
<1>1. RunInv => LatestCoversAll
  BY DEF RunInv, Promises, Covers, Covered, Migration, Registered, LatestCoversAll
<1> QED
  BY <1>1, InitRun, RunStep, TypeCorrect, LockOwnership, PTL DEF Spec
=============================================================================
