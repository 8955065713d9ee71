--------------------------- MODULE FileStoreProofs ---------------------------
(***************************************************************************)
(* What FileStore promises, for every set of requests and any number of    *)
(* faults: no interleaving loses a stored file (RowHasFile), files whose   *)
(* changes did not overlap are consistent (Consistent), nothing is left    *)
(* behind (NoLitter) and streams are whole (StreamIsWhole).                *)
(*                                                                         *)
(* RowHasFile is not inductive.  A replacement puts back what it has       *)
(* unlinked only because its own upload is still on disk and its backup    *)
(* has content, unless another one has the same path for its own (Ready,   *)
(* Named); the paths of uploads that are not yet, or never, rows are their *)
(* requests' own (Private); and a row that comes back under a deletion was *)
(* written by a replacement that overlapped it (Overlap, MetDelete).  The  *)
(* other three rest on a second invariant, WholeInv.                       *)
(***************************************************************************)
EXTENDS FileStore, TLAPS

Replacing == {"backup", "exists", "unlink", "copy", "find", "update", "updated",
              "dropUpload", "dropBackup", "restore", "restored"}

\* Where a request is says what it does, and to which file.
Ops ==
  \A r \in Requests :
    /\ pc[r] \in {"save", "saved", "rollback"} => op[r] = "upload"
    /\ pc[r] \in Replacing                     => op[r] = "replace"
    /\ pc[r] \in {"deleteRow", "deleteFile"}   => op[r] = "delete"
    /\ pc[r] \in {"stat", "send"}              => op[r] = "stream"
    /\ pc[r] = "write"                         => op[r] \in {"upload", "replace"}
    /\ op[r] = "upload"                        => file[r] = r

\* Until it is a row, and for ever if it is none, an upload's path is its own.
Own(r) ==
  \/ op[r] # "upload"
  \/ pc[r] \in {"write", "save"}
  \/ pc[r] = "rollback" /\ r \notin torn

Private ==
  \A r \in Requests :
    Own(r) => row[r] = None /\ \A q \in Requests : file[q] = r => q = r /\ op[r] = "upload"

\* A replacement has a backup path from its backup on, named by the first that
\* took it; those that have one in common were at work on one file together.
Shared(r) == \E q \in Requests \ {r} : backupPath[q] = backupPath[r]

Named ==
  \A r \in Requests :
    /\ backupPath[r] # None => op[r] = "replace" /\ pc[r] \notin {"write", "backup"}
    /\ pc[r] \in Replacing \ {"backup"} => backupPath[r] # None
    /\ backupPath[r] # None => backupPath[backupPath[r]] = backupPath[r]
    /\ \A q \in Requests \ {r} :
         backupPath[r] # None /\ backupPath[q] = backupPath[r] =>
           file[q] = file[r] /\ r \in mixed /\ q \in mixed

\* What a replacement, or the row of an upload, is going to need is there.
Ready ==
  \A r \in Requests :
    /\ pc[r] \in {"save"} \cup (Replacing \ {"dropBackup", "restore", "restored"}) => disk[r] # None
    /\ pc[r] \in Replacing \ {"backup", "dropBackup", "restored"} =>
         backup[backupPath[r]] # None \/ Shared(r)

\* Requests that are at work on one file, one of them changing it, are mixed.
Overlap ==
  \A r, q \in Requests :
    /\ r # q /\ Busy(r) /\ Busy(q) /\ file[r] = file[q]
    /\ op[r] # "stream" \/ op[q] # "stream"
    => r \in mixed /\ q \in mixed

\* A deletion and a replacement of f that overlapped.
Met(f) == \E r, q \in WritersOf(f) \cap mixed : op[r] = "replace" /\ op[q] = "delete"

\* A row that a replacement has found, and that is gone, was deleted meanwhile; a
\* row that is there again before its file is deleted was written meanwhile.
MetDelete ==
  \A r \in Requests :
    /\ pc[r] = "update" /\ row[file[r]] = None     => Met(file[r])
    /\ pc[r] = "deleteFile" /\ row[file[r]] # None => Met(file[r])

Base == TypeOK /\ Ops
Safe == Private /\ Named /\ Ready /\ Overlap /\ MetDelete

StoreInv == Base /\ Safe /\ RowHasFile

-----------------------------------------------------------------------------
(* Types, and what requests do. *)

LEMMA ServeUploadBase ==
  ASSUME Base, NEW r \in Requests, ServeUpload(r)
  PROVE  Base'
<1> USE NamesAssumption, FaultsAssumption DEF Base, TypeOK, Ops, Content,
        Files, Operations, Steps, Ends, Replacing, Goto, Resolve, Reject,
        Tear, Advance, PutFile, PutRow, PutBackup, Fault, store, served, past
<1>1. CASE WriteUpload(r)       BY <1>1 DEF WriteUpload
<1>2. CASE WriteUploadError(r)  BY <1>2 DEF WriteUploadError
<1>3. CASE SaveRow(r)           BY <1>3 DEF SaveRow
<1>4. CASE SaveRowError(r)      BY <1>4 DEF SaveRowError
<1>5. CASE ReturnSaved(r)       BY <1>5 DEF ReturnSaved
<1>6. CASE ReturnSavedError(r)  BY <1>6 DEF ReturnSavedError
<1>7. CASE Rollback(r)          BY <1>7 DEF Rollback
<1>8. CASE RollbackError(r)     BY <1>8 DEF RollbackError
<1> QED
  BY <1>1, <1>2, <1>3, <1>4, <1>5, <1>6, <1>7, <1>8 DEF ServeUpload

\* From its backup on, a replacement has a backup path.
LEMMA HasPath ==
  ASSUME Base, Named, NEW r \in Requests, pc[r] \in Replacing \ {"backup"}
  PROVE  backupPath[r] \in Requests
  BY DEF Base, TypeOK, Named

LEMMA ServeReplaceBase ==
  ASSUME Base, Named, NEW r \in Requests, ServeReplace(r)
  PROVE  Base'
<1> USE NamesAssumption, FaultsAssumption DEF Base, TypeOK, Ops, Content,
        Files, Operations, Steps, Ends, Replacing, Goto, Resolve, Reject,
        Tear, Advance, PutFile, PutRow, PutBackup, Fault, store, served, past
<1>1. CASE Backup(r)              BY <1>1 DEF Backup, PathsNow
<1>2. CASE BackupRefused(r)       BY <1>2 DEF BackupRefused
<1>3. CASE BackupError(r)         BY <1>3 DEF BackupError
<1>4. CASE ReplaceExists(r)       BY <1>4 DEF ReplaceExists
<1>5. CASE UnlinkOld(r)           BY <1>5 DEF UnlinkOld
<1>6. CASE UnlinkOldGone(r)       BY <1>6 DEF UnlinkOldGone
<1>7. CASE UnlinkOldError(r)      BY <1>7 DEF UnlinkOldError
<1>8. CASE CopyNew(r)             BY <1>8 DEF CopyNew
<1>9. CASE CopyNewError(r)        BY <1>9 DEF CopyNewError
<1>10. CASE FindRow(r)            BY <1>10 DEF FindRow
<1>11. CASE FindRowError(r)       BY <1>11 DEF FindRowError
<1>12. CASE UpdateRow(r)          BY <1>12 DEF UpdateRow
<1>13. CASE UpdateRowError(r)     BY <1>13 DEF UpdateRowError
<1>14. CASE ReturnUpdated(r)      BY <1>14 DEF ReturnUpdated
<1>15. CASE ReturnUpdatedError(r) BY <1>15 DEF ReturnUpdatedError
<1>16. CASE DropUpload(r)         BY <1>16 DEF DropUpload
<1>17. CASE DropUploadError(r)    BY <1>17 DEF DropUploadError
<1>18. CASE DropBackup(r)         BY <1>18, HasPath DEF DropBackup
<1>19. CASE DropBackupError(r)    BY <1>19 DEF DropBackupError
<1>20. CASE Restore(r)            BY <1>20, HasPath DEF Restore
<1>21. CASE RestoreError(r)       BY <1>21 DEF RestoreError
<1>22. CASE DropRestored(r)       BY <1>22, HasPath DEF DropRestored
<1>23. CASE DropRestoredError(r)  BY <1>23 DEF DropRestoredError
<1>24. CASE RestoreMissing(r)     BY <1>24, HasPath DEF RestoreMissing
<1> QED
  BY <1>1, <1>2, <1>3, <1>4, <1>5, <1>6, <1>7, <1>8, <1>9, <1>10, <1>11,
     <1>12, <1>13, <1>14, <1>15, <1>16, <1>17, <1>18, <1>19, <1>20, <1>21,
     <1>22, <1>23, <1>24 DEF ServeReplace

LEMMA ServeDeleteBase ==
  ASSUME Base, NEW r \in Requests, ServeDelete(r)
  PROVE  Base'
<1> USE NamesAssumption, FaultsAssumption DEF Base, TypeOK, Ops, Content,
        Files, Operations, Steps, Ends, Replacing, Goto, Resolve, Reject,
        Tear, Advance, PutFile, PutRow, PutBackup, Fault, store, served, past
<1>1. CASE DeleteRow(r)        BY <1>1 DEF DeleteRow
<1>2. CASE DeleteRowGone(r)    BY <1>2 DEF DeleteRowGone
<1>3. CASE DeleteRowError(r)   BY <1>3 DEF DeleteRowError
<1>4. CASE DeleteFile(r)       BY <1>4 DEF DeleteFile
<1>5. CASE DeleteFileError(r)  BY <1>5 DEF DeleteFileError
<1>6. CASE DeleteFileUnlocated(r)  BY <1>6 DEF DeleteFileUnlocated
<1> QED
  BY <1>1, <1>2, <1>3, <1>4, <1>5, <1>6 DEF ServeDelete

LEMMA ServeStreamBase ==
  ASSUME Base, NEW r \in Requests, ServeStream(r)
  PROVE  Base'
<1> USE NamesAssumption, FaultsAssumption DEF Base, TypeOK, Ops, Content,
        Files, Operations, Steps, Ends, Replacing, Goto, Resolve, Reject,
        Tear, Advance, PutFile, PutRow, PutBackup, Fault, store, served, past
<1>1. CASE StatFile(r)  BY <1>1 DEF StatFile
<1>2. CASE Send(r)      BY <1>2 DEF Send
<1> QED
  BY <1>1, <1>2 DEF ServeStream

-----------------------------------------------------------------------------
(* Uploads that are no rows are private. *)

LEMMA ServeUploadPrivate ==
  ASSUME StoreInv, NEW r \in Requests, ServeUpload(r)
  PROVE  Private'
<1> USE NamesAssumption DEF StoreInv, Base, TypeOK, Ops, Safe, Content, Files,
        Replacing, Private, Own, Goto, Resolve, Reject, Tear, Advance,
        PutFile, PutRow, PutBackup, Fault, store, served, past
<1>1. CASE WriteUpload(r)       BY <1>1 DEF WriteUpload
<1>2. CASE WriteUploadError(r)  BY <1>2 DEF WriteUploadError
<1>3. CASE SaveRow(r)           BY <1>3 DEF SaveRow
<1>4. CASE SaveRowError(r)      BY <1>4 DEF SaveRowError
<1>5. CASE ReturnSaved(r)       BY <1>5 DEF ReturnSaved
<1>6. CASE ReturnSavedError(r)  BY <1>6 DEF ReturnSavedError
<1>7. CASE Rollback(r)          BY <1>7 DEF Rollback
<1>8. CASE RollbackError(r)     BY <1>8 DEF RollbackError
<1> QED
  BY <1>1, <1>2, <1>3, <1>4, <1>5, <1>6, <1>7, <1>8 DEF ServeUpload

LEMMA ServeReplacePrivate ==
  ASSUME StoreInv, NEW r \in Requests, ServeReplace(r)
  PROVE  Private'
<1> USE NamesAssumption DEF StoreInv, Base, TypeOK, Ops, Safe, Content, Files,
        Replacing, Private, Own, Goto, Resolve, Reject, Tear, Advance,
        PutFile, PutRow, PutBackup, Fault, store, served, past
<1>1. CASE Backup(r)              BY <1>1 DEF Backup, PathsNow
<1>2. CASE BackupRefused(r)       BY <1>2 DEF BackupRefused
<1>3. CASE BackupError(r)         BY <1>3 DEF BackupError
<1>4. CASE ReplaceExists(r)       BY <1>4 DEF ReplaceExists
<1>5. CASE UnlinkOld(r)           BY <1>5 DEF UnlinkOld
<1>6. CASE UnlinkOldGone(r)       BY <1>6 DEF UnlinkOldGone
<1>7. CASE UnlinkOldError(r)      BY <1>7 DEF UnlinkOldError
<1>8. CASE CopyNew(r)             BY <1>8 DEF CopyNew
<1>9. CASE CopyNewError(r)        BY <1>9 DEF CopyNewError
<1>10. CASE FindRow(r)            BY <1>10 DEF FindRow
<1>11. CASE FindRowError(r)       BY <1>11 DEF FindRowError
<1>12. CASE UpdateRow(r)          BY <1>12 DEF UpdateRow
<1>13. CASE UpdateRowError(r)     BY <1>13 DEF UpdateRowError
<1>14. CASE ReturnUpdated(r)      BY <1>14 DEF ReturnUpdated
<1>15. CASE ReturnUpdatedError(r) BY <1>15 DEF ReturnUpdatedError
<1>16. CASE DropUpload(r)         BY <1>16 DEF DropUpload
<1>17. CASE DropUploadError(r)    BY <1>17 DEF DropUploadError
<1>18. CASE DropBackup(r)         BY <1>18 DEF DropBackup
<1>19. CASE DropBackupError(r)    BY <1>19 DEF DropBackupError
<1>20. CASE Restore(r)            BY <1>20 DEF Restore
<1>21. CASE RestoreError(r)       BY <1>21 DEF RestoreError
<1>22. CASE DropRestored(r)       BY <1>22 DEF DropRestored
<1>23. CASE DropRestoredError(r)  BY <1>23 DEF DropRestoredError
<1>24. CASE RestoreMissing(r)     BY <1>24 DEF RestoreMissing
<1> QED
  BY <1>1, <1>2, <1>3, <1>4, <1>5, <1>6, <1>7, <1>8, <1>9, <1>10, <1>11,
     <1>12, <1>13, <1>14, <1>15, <1>16, <1>17, <1>18, <1>19, <1>20, <1>21,
     <1>22, <1>23, <1>24 DEF ServeReplace

LEMMA ServeDeletePrivate ==
  ASSUME StoreInv, NEW r \in Requests, ServeDelete(r)
  PROVE  Private'
<1> USE NamesAssumption DEF StoreInv, Base, TypeOK, Ops, Safe, Content, Files,
        Replacing, Private, Own, Goto, Resolve, Reject, Tear, Advance,
        PutFile, PutRow, PutBackup, Fault, store, served, past
<1>1. CASE DeleteRow(r)        BY <1>1 DEF DeleteRow
<1>2. CASE DeleteRowGone(r)    BY <1>2 DEF DeleteRowGone
<1>3. CASE DeleteRowError(r)   BY <1>3 DEF DeleteRowError
<1>4. CASE DeleteFile(r)       BY <1>4 DEF DeleteFile
<1>5. CASE DeleteFileError(r)  BY <1>5 DEF DeleteFileError
<1>6. CASE DeleteFileUnlocated(r)  BY <1>6 DEF DeleteFileUnlocated
<1> QED
  BY <1>1, <1>2, <1>3, <1>4, <1>5, <1>6 DEF ServeDelete

LEMMA ServeStreamPrivate ==
  ASSUME StoreInv, NEW r \in Requests, ServeStream(r)
  PROVE  Private'
<1> USE NamesAssumption DEF StoreInv, Base, TypeOK, Ops, Safe, Content, Files,
        Replacing, Private, Own, Goto, Resolve, Reject, Tear, Advance,
        PutFile, PutRow, PutBackup, Fault, store, served, past
<1>1. CASE StatFile(r)  BY <1>1 DEF StatFile
<1>2. CASE Send(r)      BY <1>2 DEF Send
<1> QED
  BY <1>1, <1>2 DEF ServeStream

-----------------------------------------------------------------------------
(* Backup paths are named by the first, and shared only by requests that meet. *)

LEMMA ServeUploadNamed ==
  ASSUME StoreInv, NEW r \in Requests, ServeUpload(r)
  PROVE  Named'
<1> USE NamesAssumption DEF StoreInv, Base, TypeOK, Ops, Safe, Content, Files,
        Replacing, Steps, Busy, Overlap, Named, Goto, Resolve, Reject, Tear, Advance,
        PutFile, PutRow, PutBackup, Fault, store, served, past
<1>1. CASE WriteUpload(r)       BY <1>1 DEF WriteUpload
<1>2. CASE WriteUploadError(r)  BY <1>2 DEF WriteUploadError
<1>3. CASE SaveRow(r)           BY <1>3 DEF SaveRow
<1>4. CASE SaveRowError(r)      BY <1>4 DEF SaveRowError
<1>5. CASE ReturnSaved(r)       BY <1>5 DEF ReturnSaved
<1>6. CASE ReturnSavedError(r)  BY <1>6 DEF ReturnSavedError
<1>7. CASE Rollback(r)          BY <1>7 DEF Rollback
<1>8. CASE RollbackError(r)     BY <1>8 DEF RollbackError
<1> QED
  BY <1>1, <1>2, <1>3, <1>4, <1>5, <1>6, <1>7, <1>8 DEF ServeUpload

LEMMA ServeReplaceNamed ==
  ASSUME StoreInv, NEW r \in Requests, ServeReplace(r)
  PROVE  Named'
<1> USE NamesAssumption DEF StoreInv, Base, TypeOK, Ops, Safe, Content, Files,
        Replacing, Steps, Busy, Overlap, Named, Goto, Resolve, Reject, Tear, Advance,
        PutFile, PutRow, PutBackup, Fault, store, served, past
<1>1. CASE Backup(r)              BY <1>1 DEF Backup, PathsNow
<1>2. CASE BackupRefused(r)       BY <1>2 DEF BackupRefused
<1>3. CASE BackupError(r)         BY <1>3 DEF BackupError
<1>4. CASE ReplaceExists(r)       BY <1>4 DEF ReplaceExists
<1>5. CASE UnlinkOld(r)           BY <1>5 DEF UnlinkOld
<1>6. CASE UnlinkOldGone(r)       BY <1>6 DEF UnlinkOldGone
<1>7. CASE UnlinkOldError(r)      BY <1>7 DEF UnlinkOldError
<1>8. CASE CopyNew(r)             BY <1>8 DEF CopyNew
<1>9. CASE CopyNewError(r)        BY <1>9 DEF CopyNewError
<1>10. CASE FindRow(r)            BY <1>10 DEF FindRow
<1>11. CASE FindRowError(r)       BY <1>11 DEF FindRowError
<1>12. CASE UpdateRow(r)          BY <1>12 DEF UpdateRow
<1>13. CASE UpdateRowError(r)     BY <1>13 DEF UpdateRowError
<1>14. CASE ReturnUpdated(r)      BY <1>14 DEF ReturnUpdated
<1>15. CASE ReturnUpdatedError(r) BY <1>15 DEF ReturnUpdatedError
<1>16. CASE DropUpload(r)         BY <1>16 DEF DropUpload
<1>17. CASE DropUploadError(r)    BY <1>17 DEF DropUploadError
<1>18. CASE DropBackup(r)         BY <1>18, HasPath DEF DropBackup
<1>19. CASE DropBackupError(r)    BY <1>19 DEF DropBackupError
<1>20. CASE Restore(r)            BY <1>20, HasPath DEF Restore
<1>21. CASE RestoreError(r)       BY <1>21 DEF RestoreError
<1>22. CASE DropRestored(r)       BY <1>22, HasPath DEF DropRestored
<1>23. CASE DropRestoredError(r)  BY <1>23 DEF DropRestoredError
<1>24. CASE RestoreMissing(r)     BY <1>24, HasPath DEF RestoreMissing
<1> QED
  BY <1>1, <1>2, <1>3, <1>4, <1>5, <1>6, <1>7, <1>8, <1>9, <1>10, <1>11,
     <1>12, <1>13, <1>14, <1>15, <1>16, <1>17, <1>18, <1>19, <1>20, <1>21,
     <1>22, <1>23, <1>24 DEF ServeReplace

LEMMA ServeDeleteNamed ==
  ASSUME StoreInv, NEW r \in Requests, ServeDelete(r)
  PROVE  Named'
<1> USE NamesAssumption DEF StoreInv, Base, TypeOK, Ops, Safe, Content, Files,
        Replacing, Steps, Busy, Overlap, Named, Goto, Resolve, Reject, Tear, Advance,
        PutFile, PutRow, PutBackup, Fault, store, served, past
<1>1. CASE DeleteRow(r)        BY <1>1 DEF DeleteRow
<1>2. CASE DeleteRowGone(r)    BY <1>2 DEF DeleteRowGone
<1>3. CASE DeleteRowError(r)   BY <1>3 DEF DeleteRowError
<1>4. CASE DeleteFile(r)       BY <1>4 DEF DeleteFile
<1>5. CASE DeleteFileError(r)  BY <1>5 DEF DeleteFileError
<1>6. CASE DeleteFileUnlocated(r)  BY <1>6 DEF DeleteFileUnlocated
<1> QED
  BY <1>1, <1>2, <1>3, <1>4, <1>5, <1>6 DEF ServeDelete

LEMMA ServeStreamNamed ==
  ASSUME StoreInv, NEW r \in Requests, ServeStream(r)
  PROVE  Named'
<1> USE NamesAssumption DEF StoreInv, Base, TypeOK, Ops, Safe, Content, Files,
        Replacing, Steps, Busy, Overlap, Named, Goto, Resolve, Reject, Tear, Advance,
        PutFile, PutRow, PutBackup, Fault, store, served, past
<1>1. CASE StatFile(r)  BY <1>1 DEF StatFile
<1>2. CASE Send(r)      BY <1>2 DEF Send
<1> QED
  BY <1>1, <1>2 DEF ServeStream

-----------------------------------------------------------------------------
(* What is needed later is there. *)

LEMMA ServeUploadReady ==
  ASSUME StoreInv, NEW r \in Requests, ServeUpload(r)
  PROVE  Ready'
<1> USE NamesAssumption DEF StoreInv, Base, TypeOK, Ops, Safe, Content, Files,
        Replacing, Private, Own, Named, Shared, Ready, Goto, Resolve, Reject, Tear, Advance,
        PutFile, PutRow, PutBackup, Fault, store, served, past
<1>1. CASE WriteUpload(r)       BY <1>1 DEF WriteUpload
<1>2. CASE WriteUploadError(r)  BY <1>2 DEF WriteUploadError
<1>3. CASE SaveRow(r)           BY <1>3 DEF SaveRow
<1>4. CASE SaveRowError(r)      BY <1>4 DEF SaveRowError
<1>5. CASE ReturnSaved(r)       BY <1>5 DEF ReturnSaved
<1>6. CASE ReturnSavedError(r)  BY <1>6 DEF ReturnSavedError
<1>7. CASE Rollback(r)          BY <1>7 DEF Rollback
<1>8. CASE RollbackError(r)     BY <1>8 DEF RollbackError
<1> QED
  BY <1>1, <1>2, <1>3, <1>4, <1>5, <1>6, <1>7, <1>8 DEF ServeUpload

LEMMA ServeReplaceReady ==
  ASSUME StoreInv, NEW r \in Requests, ServeReplace(r)
  PROVE  Ready'
<1> USE NamesAssumption DEF StoreInv, Base, TypeOK, Ops, Safe, Content, Files,
        Replacing, Private, Own, Named, Shared, Ready, Goto, Resolve, Reject, Tear, Advance,
        PutFile, PutRow, PutBackup, Fault, store, served, past
<1>1. CASE Backup(r)              BY <1>1 DEF Backup, PathsNow
<1>2. CASE BackupRefused(r)       BY <1>2 DEF BackupRefused
<1>3. CASE BackupError(r)         BY <1>3 DEF BackupError
<1>4. CASE ReplaceExists(r)       BY <1>4 DEF ReplaceExists
<1>5. CASE UnlinkOld(r)           BY <1>5 DEF UnlinkOld
<1>6. CASE UnlinkOldGone(r)       BY <1>6 DEF UnlinkOldGone
<1>7. CASE UnlinkOldError(r)      BY <1>7 DEF UnlinkOldError
<1>8. CASE CopyNew(r)             BY <1>8 DEF CopyNew
<1>9. CASE CopyNewError(r)        BY <1>9 DEF CopyNewError
<1>10. CASE FindRow(r)            BY <1>10 DEF FindRow
<1>11. CASE FindRowError(r)       BY <1>11 DEF FindRowError
<1>12. CASE UpdateRow(r)          BY <1>12 DEF UpdateRow
<1>13. CASE UpdateRowError(r)     BY <1>13 DEF UpdateRowError
<1>14. CASE ReturnUpdated(r)      BY <1>14 DEF ReturnUpdated
<1>15. CASE ReturnUpdatedError(r) BY <1>15 DEF ReturnUpdatedError
<1>16. CASE DropUpload(r)         BY <1>16 DEF DropUpload
<1>17. CASE DropUploadError(r)    BY <1>17 DEF DropUploadError
<1>18. CASE DropBackup(r)         BY <1>18, HasPath DEF DropBackup
<1>19. CASE DropBackupError(r)    BY <1>19 DEF DropBackupError
<1>20. CASE Restore(r)            BY <1>20, HasPath DEF Restore
<1>21. CASE RestoreError(r)       BY <1>21 DEF RestoreError
<1>22. CASE DropRestored(r)       BY <1>22, HasPath DEF DropRestored
<1>23. CASE DropRestoredError(r)  BY <1>23 DEF DropRestoredError
<1>24. CASE RestoreMissing(r)     BY <1>24, HasPath DEF RestoreMissing
<1> QED
  BY <1>1, <1>2, <1>3, <1>4, <1>5, <1>6, <1>7, <1>8, <1>9, <1>10, <1>11,
     <1>12, <1>13, <1>14, <1>15, <1>16, <1>17, <1>18, <1>19, <1>20, <1>21,
     <1>22, <1>23, <1>24 DEF ServeReplace

LEMMA ServeDeleteReady ==
  ASSUME StoreInv, NEW r \in Requests, ServeDelete(r)
  PROVE  Ready'
<1> USE NamesAssumption DEF StoreInv, Base, TypeOK, Ops, Safe, Content, Files,
        Replacing, Private, Own, Named, Shared, Ready, Goto, Resolve, Reject, Tear, Advance,
        PutFile, PutRow, PutBackup, Fault, store, served, past
<1>1. CASE DeleteRow(r)        BY <1>1 DEF DeleteRow
<1>2. CASE DeleteRowGone(r)    BY <1>2 DEF DeleteRowGone
<1>3. CASE DeleteRowError(r)   BY <1>3 DEF DeleteRowError
<1>4. CASE DeleteFile(r)       BY <1>4 DEF DeleteFile
<1>5. CASE DeleteFileError(r)  BY <1>5 DEF DeleteFileError
<1>6. CASE DeleteFileUnlocated(r)  BY <1>6 DEF DeleteFileUnlocated
<1> QED
  BY <1>1, <1>2, <1>3, <1>4, <1>5, <1>6 DEF ServeDelete

LEMMA ServeStreamReady ==
  ASSUME StoreInv, NEW r \in Requests, ServeStream(r)
  PROVE  Ready'
<1> USE NamesAssumption DEF StoreInv, Base, TypeOK, Ops, Safe, Content, Files,
        Replacing, Private, Own, Named, Shared, Ready, Goto, Resolve, Reject, Tear, Advance,
        PutFile, PutRow, PutBackup, Fault, store, served, past
<1>1. CASE StatFile(r)  BY <1>1 DEF StatFile
<1>2. CASE Send(r)      BY <1>2 DEF Send
<1> QED
  BY <1>1, <1>2 DEF ServeStream

-----------------------------------------------------------------------------
(* Requests that overlap are mixed. *)

LEMMA ServeUploadOverlap ==
  ASSUME StoreInv, NEW r \in Requests, ServeUpload(r)
  PROVE  Overlap'
<1> USE NamesAssumption DEF StoreInv, Base, TypeOK, Ops, Safe, Content, Files,
        Replacing, Steps, Busy, Overlap, Goto, Resolve, Reject, Tear, Advance,
        PutFile, PutRow, PutBackup, Fault, store, served, past
<1>1. CASE WriteUpload(r)       BY <1>1 DEF WriteUpload
<1>2. CASE WriteUploadError(r)  BY <1>2 DEF WriteUploadError
<1>3. CASE SaveRow(r)           BY <1>3 DEF SaveRow
<1>4. CASE SaveRowError(r)      BY <1>4 DEF SaveRowError
<1>5. CASE ReturnSaved(r)       BY <1>5 DEF ReturnSaved
<1>6. CASE ReturnSavedError(r)  BY <1>6 DEF ReturnSavedError
<1>7. CASE Rollback(r)          BY <1>7 DEF Rollback
<1>8. CASE RollbackError(r)     BY <1>8 DEF RollbackError
<1> QED
  BY <1>1, <1>2, <1>3, <1>4, <1>5, <1>6, <1>7, <1>8 DEF ServeUpload

LEMMA ServeReplaceOverlap ==
  ASSUME StoreInv, NEW r \in Requests, ServeReplace(r)
  PROVE  Overlap'
<1> USE NamesAssumption DEF StoreInv, Base, TypeOK, Ops, Safe, Content, Files,
        Replacing, Steps, Busy, Overlap, Goto, Resolve, Reject, Tear, Advance,
        PutFile, PutRow, PutBackup, Fault, store, served, past
<1>1. CASE Backup(r)              BY <1>1 DEF Backup, PathsNow
<1>2. CASE BackupRefused(r)       BY <1>2 DEF BackupRefused
<1>3. CASE BackupError(r)         BY <1>3 DEF BackupError
<1>4. CASE ReplaceExists(r)       BY <1>4 DEF ReplaceExists
<1>5. CASE UnlinkOld(r)           BY <1>5 DEF UnlinkOld
<1>6. CASE UnlinkOldGone(r)       BY <1>6 DEF UnlinkOldGone
<1>7. CASE UnlinkOldError(r)      BY <1>7 DEF UnlinkOldError
<1>8. CASE CopyNew(r)             BY <1>8 DEF CopyNew
<1>9. CASE CopyNewError(r)        BY <1>9 DEF CopyNewError
<1>10. CASE FindRow(r)            BY <1>10 DEF FindRow
<1>11. CASE FindRowError(r)       BY <1>11 DEF FindRowError
<1>12. CASE UpdateRow(r)          BY <1>12 DEF UpdateRow
<1>13. CASE UpdateRowError(r)     BY <1>13 DEF UpdateRowError
<1>14. CASE ReturnUpdated(r)      BY <1>14 DEF ReturnUpdated
<1>15. CASE ReturnUpdatedError(r) BY <1>15 DEF ReturnUpdatedError
<1>16. CASE DropUpload(r)         BY <1>16 DEF DropUpload
<1>17. CASE DropUploadError(r)    BY <1>17 DEF DropUploadError
<1>18. CASE DropBackup(r)         BY <1>18 DEF DropBackup
<1>19. CASE DropBackupError(r)    BY <1>19 DEF DropBackupError
<1>20. CASE Restore(r)            BY <1>20 DEF Restore
<1>21. CASE RestoreError(r)       BY <1>21 DEF RestoreError
<1>22. CASE DropRestored(r)       BY <1>22 DEF DropRestored
<1>23. CASE DropRestoredError(r)  BY <1>23 DEF DropRestoredError
<1>24. CASE RestoreMissing(r)     BY <1>24 DEF RestoreMissing
<1> QED
  BY <1>1, <1>2, <1>3, <1>4, <1>5, <1>6, <1>7, <1>8, <1>9, <1>10, <1>11,
     <1>12, <1>13, <1>14, <1>15, <1>16, <1>17, <1>18, <1>19, <1>20, <1>21,
     <1>22, <1>23, <1>24 DEF ServeReplace

LEMMA ServeDeleteOverlap ==
  ASSUME StoreInv, NEW r \in Requests, ServeDelete(r)
  PROVE  Overlap'
<1> USE NamesAssumption DEF StoreInv, Base, TypeOK, Ops, Safe, Content, Files,
        Replacing, Steps, Busy, Overlap, Goto, Resolve, Reject, Tear, Advance,
        PutFile, PutRow, PutBackup, Fault, store, served, past
<1>1. CASE DeleteRow(r)        BY <1>1 DEF DeleteRow
<1>2. CASE DeleteRowGone(r)    BY <1>2 DEF DeleteRowGone
<1>3. CASE DeleteRowError(r)   BY <1>3 DEF DeleteRowError
<1>4. CASE DeleteFile(r)       BY <1>4 DEF DeleteFile
<1>5. CASE DeleteFileError(r)  BY <1>5 DEF DeleteFileError
<1>6. CASE DeleteFileUnlocated(r)  BY <1>6 DEF DeleteFileUnlocated
<1> QED
  BY <1>1, <1>2, <1>3, <1>4, <1>5, <1>6 DEF ServeDelete

LEMMA ServeStreamOverlap ==
  ASSUME StoreInv, NEW r \in Requests, ServeStream(r)
  PROVE  Overlap'
<1> USE NamesAssumption DEF StoreInv, Base, TypeOK, Ops, Safe, Content, Files,
        Replacing, Steps, Busy, Overlap, Goto, Resolve, Reject, Tear, Advance,
        PutFile, PutRow, PutBackup, Fault, store, served, past
<1>1. CASE StatFile(r)  BY <1>1 DEF StatFile
<1>2. CASE Send(r)      BY <1>2 DEF Send
<1> QED
  BY <1>1, <1>2 DEF ServeStream

-----------------------------------------------------------------------------
(* Replacements that meet deletions. *)

LEMMA ServeUploadMetDelete ==
  ASSUME StoreInv, NEW r \in Requests, ServeUpload(r)
  PROVE  MetDelete'
<1> USE NamesAssumption DEF StoreInv, Base, TypeOK, Ops, Safe, Content, Files,
        Replacing, Steps, Busy, Private, Own, Overlap, MetDelete, Met,
        WritersOf, Goto, Resolve, Reject, Tear, Advance, PutFile, PutRow,
        PutBackup, Fault, store, served, past
<1>1. CASE WriteUpload(r)       BY <1>1 DEF WriteUpload
<1>2. CASE WriteUploadError(r)  BY <1>2 DEF WriteUploadError
<1>3. CASE SaveRow(r)           BY <1>3 DEF SaveRow
<1>4. CASE SaveRowError(r)      BY <1>4 DEF SaveRowError
<1>5. CASE ReturnSaved(r)       BY <1>5 DEF ReturnSaved
<1>6. CASE ReturnSavedError(r)  BY <1>6 DEF ReturnSavedError
<1>7. CASE Rollback(r)          BY <1>7 DEF Rollback
<1>8. CASE RollbackError(r)     BY <1>8 DEF RollbackError
<1> QED
  BY <1>1, <1>2, <1>3, <1>4, <1>5, <1>6, <1>7, <1>8 DEF ServeUpload

LEMMA ServeReplaceMetDelete ==
  ASSUME StoreInv, NEW r \in Requests, ServeReplace(r)
  PROVE  MetDelete'
<1> USE NamesAssumption DEF StoreInv, Base, TypeOK, Ops, Safe, Content, Files,
        Replacing, Steps, Busy, Private, Own, Overlap, MetDelete, Met,
        WritersOf, Goto, Resolve, Reject, Tear, Advance, PutFile, PutRow,
        PutBackup, Fault, store, served, past
<1>1. CASE Backup(r)              BY <1>1 DEF Backup, PathsNow
<1>2. CASE BackupRefused(r)       BY <1>2 DEF BackupRefused
<1>3. CASE BackupError(r)         BY <1>3 DEF BackupError
<1>4. CASE ReplaceExists(r)       BY <1>4 DEF ReplaceExists
<1>5. CASE UnlinkOld(r)           BY <1>5 DEF UnlinkOld
<1>6. CASE UnlinkOldGone(r)       BY <1>6 DEF UnlinkOldGone
<1>7. CASE UnlinkOldError(r)      BY <1>7 DEF UnlinkOldError
<1>8. CASE CopyNew(r)             BY <1>8 DEF CopyNew
<1>9. CASE CopyNewError(r)        BY <1>9 DEF CopyNewError
<1>10. CASE FindRow(r)            BY <1>10 DEF FindRow
<1>11. CASE FindRowError(r)       BY <1>11 DEF FindRowError
<1>12. CASE UpdateRow(r)          BY <1>12 DEF UpdateRow
<1>13. CASE UpdateRowError(r)     BY <1>13 DEF UpdateRowError
<1>14. CASE ReturnUpdated(r)      BY <1>14 DEF ReturnUpdated
<1>15. CASE ReturnUpdatedError(r) BY <1>15 DEF ReturnUpdatedError
<1>16. CASE DropUpload(r)         BY <1>16 DEF DropUpload
<1>17. CASE DropUploadError(r)    BY <1>17 DEF DropUploadError
<1>18. CASE DropBackup(r)         BY <1>18 DEF DropBackup
<1>19. CASE DropBackupError(r)    BY <1>19 DEF DropBackupError
<1>20. CASE Restore(r)            BY <1>20 DEF Restore
<1>21. CASE RestoreError(r)       BY <1>21 DEF RestoreError
<1>22. CASE DropRestored(r)       BY <1>22 DEF DropRestored
<1>23. CASE DropRestoredError(r)  BY <1>23 DEF DropRestoredError
<1>24. CASE RestoreMissing(r)     BY <1>24 DEF RestoreMissing
<1> QED
  BY <1>1, <1>2, <1>3, <1>4, <1>5, <1>6, <1>7, <1>8, <1>9, <1>10, <1>11,
     <1>12, <1>13, <1>14, <1>15, <1>16, <1>17, <1>18, <1>19, <1>20, <1>21,
     <1>22, <1>23, <1>24 DEF ServeReplace

LEMMA ServeDeleteMetDelete ==
  ASSUME StoreInv, NEW r \in Requests, ServeDelete(r)
  PROVE  MetDelete'
<1> USE NamesAssumption DEF StoreInv, Base, TypeOK, Ops, Safe, Content, Files,
        Replacing, Steps, Busy, Private, Own, Overlap, MetDelete, Met,
        WritersOf, Goto, Resolve, Reject, Tear, Advance, PutFile, PutRow,
        PutBackup, Fault, store, served, past
<1>1. CASE DeleteRow(r)        BY <1>1 DEF DeleteRow
<1>2. CASE DeleteRowGone(r)    BY <1>2 DEF DeleteRowGone
<1>3. CASE DeleteRowError(r)   BY <1>3 DEF DeleteRowError
<1>4. CASE DeleteFile(r)       BY <1>4 DEF DeleteFile
<1>5. CASE DeleteFileError(r)  BY <1>5 DEF DeleteFileError
<1>6. CASE DeleteFileUnlocated(r)  BY <1>6 DEF DeleteFileUnlocated
<1> QED
  BY <1>1, <1>2, <1>3, <1>4, <1>5, <1>6 DEF ServeDelete

LEMMA ServeStreamMetDelete ==
  ASSUME StoreInv, NEW r \in Requests, ServeStream(r)
  PROVE  MetDelete'
<1> USE NamesAssumption DEF StoreInv, Base, TypeOK, Ops, Safe, Content, Files,
        Replacing, Steps, Busy, Private, Own, Overlap, MetDelete, Met,
        WritersOf, Goto, Resolve, Reject, Tear, Advance, PutFile, PutRow,
        PutBackup, Fault, store, served, past
<1>1. CASE StatFile(r)  BY <1>1 DEF StatFile
<1>2. CASE Send(r)      BY <1>2 DEF Send
<1> QED
  BY <1>1, <1>2 DEF ServeStream

-----------------------------------------------------------------------------
(* Rows have files. *)

LEMMA ServeUploadRowHasFile ==
  ASSUME StoreInv, NEW r \in Requests, ServeUpload(r)
  PROVE  RowHasFile'
<1> USE NamesAssumption DEF StoreInv, Base, TypeOK, Ops, Safe, Content, Files,
        Replacing, Private, Own, Ready, MetDelete, RowHasFile, Robbed, Swapping, Met,
        WritersOf, Goto, Resolve, Reject, Tear, Advance, PutFile, PutRow,
        PutBackup, Fault, store, served, past
<1>1. CASE WriteUpload(r)       BY <1>1 DEF WriteUpload
<1>2. CASE WriteUploadError(r)  BY <1>2 DEF WriteUploadError
<1>3. CASE SaveRow(r)           BY <1>3 DEF SaveRow
<1>4. CASE SaveRowError(r)      BY <1>4 DEF SaveRowError
<1>5. CASE ReturnSaved(r)       BY <1>5 DEF ReturnSaved
<1>6. CASE ReturnSavedError(r)  BY <1>6 DEF ReturnSavedError
<1>7. CASE Rollback(r)          BY <1>7 DEF Rollback
<1>8. CASE RollbackError(r)     BY <1>8 DEF RollbackError
<1> QED
  BY <1>1, <1>2, <1>3, <1>4, <1>5, <1>6, <1>7, <1>8 DEF ServeUpload

LEMMA UpdateRowHasFile ==
  ASSUME StoreInv, NEW r \in Requests, UpdateRow(r)
  PROVE  RowHasFile'
<1>1. /\ pc[r] = "update" /\ pc \in [Requests -> Steps \cup Ends \cup {"new"}]
      /\ pc' = [pc EXCEPT ![r] = "updated"]
      /\ UNCHANGED <<disk, backupPath, op, file, torn, mixed>>
  BY DEF UpdateRow, Resolve, Goto, PutRow, past, StoreInv, Base, TypeOK
<1>2. \A f \in Files \ {file[r]} : row'[f] = row[f]
  BY DEF UpdateRow, PutRow, StoreInv, Base, TypeOK
<1>3. \A f \in Files : WritersOf(f)' = WritersOf(f)
  BY <1>1 DEF WritersOf
<1>4. ASSUME NEW q \in Requests, Swapping(q) \/ q \in torn \/ Robbed(q)
      PROVE  Swapping(q)' \/ q \in torn' \/ Robbed(q)'
  <2>1. CASE q = r
    BY <1>1, <1>4, <2>1 DEF Swapping, Robbed
  <2>2. CASE q # r
    BY <1>1, <1>4, <2>2 DEF Swapping, Robbed
  <2> QED
    BY <2>1, <2>2
<1> SUFFICES ASSUME NEW f \in Files, row'[f] # None, disk[f] = None
             PROVE  \/ \E q \in WritersOf(f) : Swapping(q) \/ q \in torn \/ Robbed(q)
                    \/ Met(f)
  BY <1>1, <1>3, <1>4 DEF RowHasFile, WritersOf, Met
<1>5. CASE row[f] # None
  BY <1>5 DEF StoreInv, RowHasFile, Met
<1>6. CASE row[f] = None
  BY <1>1, <1>2, <1>6 DEF StoreInv, Safe, MetDelete
<1> QED
  BY <1>5, <1>6

LEMMA ServeReplaceRowHasFile ==
  ASSUME StoreInv, NEW r \in Requests, ServeReplace(r)
  PROVE  RowHasFile'
<1> USE NamesAssumption DEF StoreInv, Base, TypeOK, Ops, Safe, Content, Files,
        Replacing, Private, Own, Ready, MetDelete, RowHasFile, Robbed, Swapping, Met,
        WritersOf, Goto, Resolve, Reject, Tear, Advance, PutFile, PutRow,
        PutBackup, Fault, store, served, past
<1>1. CASE Backup(r)              BY <1>1 DEF Backup, PathsNow, Named, Shared
<1>2. CASE BackupRefused(r)       BY <1>2 DEF BackupRefused
<1>3. CASE BackupError(r)         BY <1>3 DEF BackupError
<1>4. CASE ReplaceExists(r)       BY <1>4 DEF ReplaceExists
<1>5. CASE UnlinkOld(r)           BY <1>5 DEF UnlinkOld
<1>6. CASE UnlinkOldGone(r)       BY <1>6 DEF UnlinkOldGone
<1>7. CASE UnlinkOldError(r)      BY <1>7 DEF UnlinkOldError
<1>8. CASE CopyNew(r)             BY <1>8 DEF CopyNew
<1>9. CASE CopyNewError(r)        BY <1>9 DEF CopyNewError
<1>10. CASE FindRow(r)            BY <1>10 DEF FindRow
<1>11. CASE FindRowError(r)       BY <1>11 DEF FindRowError
<1>12. CASE UpdateRow(r)          BY <1>12, UpdateRowHasFile
<1>13. CASE UpdateRowError(r)     BY <1>13 DEF UpdateRowError
<1>14. CASE ReturnUpdated(r)      BY <1>14 DEF ReturnUpdated
<1>15. CASE ReturnUpdatedError(r) BY <1>15 DEF ReturnUpdatedError
<1>16. CASE DropUpload(r)         BY <1>16 DEF DropUpload
<1>17. CASE DropUploadError(r)    BY <1>17 DEF DropUploadError
<1>18. CASE DropBackup(r)         BY <1>18, HasPath DEF DropBackup
<1>19. CASE DropBackupError(r)    BY <1>19 DEF DropBackupError
<1>20. CASE Restore(r)            BY <1>20, HasPath DEF Restore
<1>21. CASE RestoreError(r)       BY <1>21 DEF RestoreError
<1>22. CASE DropRestored(r)       BY <1>22, HasPath DEF DropRestored
<1>23. CASE DropRestoredError(r)  BY <1>23 DEF DropRestoredError
<1>24. CASE RestoreMissing(r)     BY <1>24, HasPath DEF RestoreMissing, Named, Shared
<1> QED
  BY <1>1, <1>2, <1>3, <1>4, <1>5, <1>6, <1>7, <1>8, <1>9, <1>10, <1>11,
     <1>12, <1>13, <1>14, <1>15, <1>16, <1>17, <1>18, <1>19, <1>20, <1>21,
     <1>22, <1>23, <1>24 DEF ServeReplace

LEMMA ServeDeleteRowHasFile ==
  ASSUME StoreInv, NEW r \in Requests, ServeDelete(r)
  PROVE  RowHasFile'
<1> USE NamesAssumption DEF StoreInv, Base, TypeOK, Ops, Safe, Content, Files,
        Replacing, Private, Own, Ready, MetDelete, RowHasFile, Robbed, Swapping, Met,
        WritersOf, Goto, Resolve, Reject, Tear, Advance, PutFile, PutRow,
        PutBackup, Fault, store, served, past
<1>1. CASE DeleteRow(r)        BY <1>1 DEF DeleteRow
<1>2. CASE DeleteRowGone(r)    BY <1>2 DEF DeleteRowGone
<1>3. CASE DeleteRowError(r)   BY <1>3 DEF DeleteRowError
<1>4. CASE DeleteFile(r)       BY <1>4 DEF DeleteFile
<1>5. CASE DeleteFileError(r)  BY <1>5 DEF DeleteFileError
<1>6. CASE DeleteFileUnlocated(r)  BY <1>6 DEF DeleteFileUnlocated
<1> QED
  BY <1>1, <1>2, <1>3, <1>4, <1>5, <1>6 DEF ServeDelete

LEMMA ServeStreamRowHasFile ==
  ASSUME StoreInv, NEW r \in Requests, ServeStream(r)
  PROVE  RowHasFile'
<1> USE NamesAssumption DEF StoreInv, Base, TypeOK, Ops, Safe, Content, Files,
        Replacing, Private, Own, Ready, MetDelete, RowHasFile, Robbed, Swapping, Met,
        WritersOf, Goto, Resolve, Reject, Tear, Advance, PutFile, PutRow,
        PutBackup, Fault, store, served, past
<1>1. CASE StatFile(r)  BY <1>1 DEF StatFile
<1>2. CASE Send(r)      BY <1>2 DEF Send
<1> QED
  BY <1>1, <1>2 DEF ServeStream

-----------------------------------------------------------------------------
(* A request starts, or the process dies. *)

LEMMA ReceiveBase ==
  ASSUME StoreInv, NEW r \in Requests, Receive(r)
  PROVE  Base'
<1> USE NamesAssumption DEF StoreInv, Base, TypeOK, Ops, Safe, Content, Files,
        Replacing, Begin, Meets, Operations, Steps, Ends, Busy, Goto, store,
        served, past, Private
<1>1. ASSUME NEW f \in Files, Replace(r, f)
      PROVE  Base'
      BY <1>1 DEF Replace
<1>2. ASSUME NEW f \in Files, Delete(r, f)
      PROVE  Base'
      BY <1>2 DEF Delete
<1>3. ASSUME NEW f \in Files, Stream(r, f)
      PROVE  Base'
      BY <1>3 DEF Stream
<1>4. CASE Upload(r)  BY <1>4 DEF Upload
<1> QED
  BY <1>1, <1>2, <1>3, <1>4 DEF Receive

LEMMA ReceivePrivate ==
  ASSUME StoreInv, NEW r \in Requests, Receive(r)
  PROVE  Private'
<1> USE NamesAssumption DEF StoreInv, Base, TypeOK, Ops, Safe, Content, Files,
        Replacing, Begin, Meets, Operations, Steps, Ends, Busy, Goto, store,
        served, past, Private, Own
<1>1. ASSUME NEW f \in Files, Replace(r, f)
      PROVE  Private'
      BY <1>1 DEF Replace
<1>2. ASSUME NEW f \in Files, Delete(r, f)
      PROVE  Private'
      BY <1>2 DEF Delete
<1>3. ASSUME NEW f \in Files, Stream(r, f)
      PROVE  Private'
      BY <1>3 DEF Stream
<1>4. CASE Upload(r)  BY <1>4 DEF Upload
<1> QED
  BY <1>1, <1>2, <1>3, <1>4 DEF Receive

LEMMA ReceiveNamed ==
  ASSUME StoreInv, NEW r \in Requests, Receive(r)
  PROVE  Named'
<1> USE NamesAssumption DEF StoreInv, Base, TypeOK, Ops, Safe, Content, Files,
        Replacing, Begin, Meets, Operations, Steps, Ends, Busy, Goto, store,
        served, past, Named
<1>1. ASSUME NEW f \in Files, Replace(r, f)
      PROVE  Named'
      BY <1>1 DEF Replace
<1>2. ASSUME NEW f \in Files, Delete(r, f)
      PROVE  Named'
      BY <1>2 DEF Delete
<1>3. ASSUME NEW f \in Files, Stream(r, f)
      PROVE  Named'
      BY <1>3 DEF Stream
<1>4. CASE Upload(r)  BY <1>4 DEF Upload
<1> QED
  BY <1>1, <1>2, <1>3, <1>4 DEF Receive

LEMMA ReceiveReady ==
  ASSUME StoreInv, NEW r \in Requests, Receive(r)
  PROVE  Ready'
<1> USE NamesAssumption DEF StoreInv, Base, TypeOK, Ops, Safe, Content, Files,
        Replacing, Begin, Meets, Operations, Steps, Ends, Busy, Goto, store,
        served, past, Named, Shared, Ready
<1>1. ASSUME NEW f \in Files, Replace(r, f)
      PROVE  Ready'
      BY <1>1 DEF Replace
<1>2. ASSUME NEW f \in Files, Delete(r, f)
      PROVE  Ready'
      BY <1>2 DEF Delete
<1>3. ASSUME NEW f \in Files, Stream(r, f)
      PROVE  Ready'
      BY <1>3 DEF Stream
<1>4. CASE Upload(r)  BY <1>4 DEF Upload
<1> QED
  BY <1>1, <1>2, <1>3, <1>4 DEF Receive

LEMMA ReceiveOverlap ==
  ASSUME StoreInv, NEW r \in Requests, Receive(r)
  PROVE  Overlap'
<1> USE NamesAssumption DEF StoreInv, Base, TypeOK, Ops, Safe, Content, Files,
        Replacing, Begin, Meets, Operations, Steps, Ends, Busy, Goto, store,
        served, past, Overlap
<1>1. ASSUME NEW f \in Files, Replace(r, f)
      PROVE  Overlap'
      BY <1>1 DEF Replace
<1>2. ASSUME NEW f \in Files, Delete(r, f)
      PROVE  Overlap'
      BY <1>2 DEF Delete
<1>3. ASSUME NEW f \in Files, Stream(r, f)
      PROVE  Overlap'
      BY <1>3 DEF Stream
<1>4. CASE Upload(r)  BY <1>4 DEF Upload
<1> QED
  BY <1>1, <1>2, <1>3, <1>4 DEF Receive

LEMMA ReceiveMetDelete ==
  ASSUME StoreInv, NEW r \in Requests, Receive(r)
  PROVE  MetDelete'
<1> USE NamesAssumption DEF StoreInv, Base, TypeOK, Ops, Safe, Content, Files,
        Replacing, Begin, Meets, Operations, Steps, Ends, Busy, Goto, store,
        served, past, MetDelete, Met, WritersOf
<1>1. ASSUME NEW f \in Files, Replace(r, f)
      PROVE  MetDelete'
      BY <1>1 DEF Replace
<1>2. ASSUME NEW f \in Files, Delete(r, f)
      PROVE  MetDelete'
      BY <1>2 DEF Delete
<1>3. ASSUME NEW f \in Files, Stream(r, f)
      PROVE  MetDelete'
      BY <1>3 DEF Stream
<1>4. CASE Upload(r)  BY <1>4 DEF Upload
<1> QED
  BY <1>1, <1>2, <1>3, <1>4 DEF Receive

LEMMA ReceiveRowHasFile ==
  ASSUME StoreInv, NEW r \in Requests, Receive(r)
  PROVE  RowHasFile'
<1> USE NamesAssumption DEF StoreInv, Base, TypeOK, Ops, Safe, Content, Files,
        Replacing, Begin, Meets, Operations, Steps, Ends, Busy, Goto, store,
        served, past, RowHasFile, Robbed, Swapping, Met, WritersOf
<1>1. ASSUME NEW f \in Files, Replace(r, f)
      PROVE  RowHasFile'
      BY <1>1 DEF Replace
<1>2. ASSUME NEW f \in Files, Delete(r, f)
      PROVE  RowHasFile'
      BY <1>2 DEF Delete
<1>3. ASSUME NEW f \in Files, Stream(r, f)
      PROVE  RowHasFile'
      BY <1>3 DEF Stream
<1>4. CASE Upload(r)  BY <1>4 DEF Upload
<1> QED
  BY <1>1, <1>2, <1>3, <1>4 DEF Receive

LEMMA CrashBase ==
  ASSUME StoreInv, Crash
  PROVE  Base'
  BY NamesAssumption, FaultsAssumption DEF Crash, Fault, StoreInv, Base,
     TypeOK, Ops, Safe, Content, Files, Replacing, Operations, Steps, Ends,
     Busy, store, served, past

LEMMA CrashPrivate ==
  ASSUME StoreInv, Crash
  PROVE  Private'
  BY NamesAssumption, FaultsAssumption DEF Crash, Fault, StoreInv, Base,
     TypeOK, Ops, Safe, Content, Files, Replacing, Operations, Steps, Ends,
     Busy, store, served, past, Private, Own

LEMMA CrashNamed ==
  ASSUME StoreInv, Crash
  PROVE  Named'
  BY NamesAssumption, FaultsAssumption DEF Crash, Fault, StoreInv, Base,
     TypeOK, Ops, Safe, Content, Files, Replacing, Operations, Steps, Ends,
     Busy, store, served, past, Named

LEMMA CrashReady ==
  ASSUME StoreInv, Crash
  PROVE  Ready'
  BY NamesAssumption, FaultsAssumption DEF Crash, Fault, StoreInv, Base,
     TypeOK, Ops, Safe, Content, Files, Replacing, Operations, Steps, Ends,
     Busy, store, served, past, Named, Shared, Ready

LEMMA CrashOverlap ==
  ASSUME StoreInv, Crash
  PROVE  Overlap'
  BY NamesAssumption, FaultsAssumption DEF Crash, Fault, StoreInv, Base,
     TypeOK, Ops, Safe, Content, Files, Replacing, Operations, Steps, Ends,
     Busy, store, served, past, Overlap

LEMMA CrashMetDelete ==
  ASSUME StoreInv, Crash
  PROVE  MetDelete'
  BY NamesAssumption, FaultsAssumption DEF Crash, Fault, StoreInv, Base,
     TypeOK, Ops, Safe, Content, Files, Replacing, Operations, Steps, Ends,
     Busy, store, served, past, MetDelete, Met, WritersOf

LEMMA CrashRowHasFile ==
  ASSUME StoreInv, Crash
  PROVE  RowHasFile'
  BY NamesAssumption, FaultsAssumption DEF Crash, Fault, StoreInv, Base,
     TypeOK, Ops, Safe, Content, Files, Replacing, Operations, Steps, Ends,
     Busy, store, served, past, RowHasFile, Named, Robbed, Swapping, Met, WritersOf

-----------------------------------------------------------------------------
(* The invariant, and the theorems. *)

LEMMA InitInv == Init => StoreInv
<1> SUFFICES ASSUME Init
             PROVE  StoreInv
  OBVIOUS
<1> USE NamesAssumption, FaultsAssumption DEF Init, Files, Content, Operations, Steps, Ends,
        Replacing
<1>1. Base       BY DEF Base, TypeOK, Ops
<1>2. Private    BY DEF Private
<1>3. Ready      BY DEF Ready
<1>7. Named      BY DEF Named
<1>4. Overlap    BY DEF Overlap, Busy
<1>5. MetDelete  BY DEF MetDelete
<1>6. RowHasFile BY DEF RowHasFile
<1> QED
  BY <1>1, <1>2, <1>3, <1>4, <1>5, <1>6, <1>7 DEF StoreInv, Safe

LEMMA StutterInv == StoreInv /\ UNCHANGED vars => StoreInv'
  BY DEF vars, store, served, past, StoreInv, Base, TypeOK, Ops, Safe, Private, Own, Named, Shared,
         Ready, Overlap, Busy, MetDelete, Met, WritersOf, RowHasFile, Robbed, Swapping

LEMMA NextInv == StoreInv /\ [Next]_vars => StoreInv'
<1> SUFFICES ASSUME StoreInv, [Next]_vars
             PROVE  StoreInv'
  OBVIOUS
<1>1. ASSUME NEW r \in Requests, Receive(r)
      PROVE  StoreInv'
  BY <1>1, ReceiveBase, ReceivePrivate, ReceiveNamed, ReceiveReady, ReceiveOverlap,
     ReceiveMetDelete, ReceiveRowHasFile DEF StoreInv, Safe
<1>2. ASSUME NEW r \in Requests, ServeUpload(r)
      PROVE  StoreInv'
  BY <1>2, ServeUploadBase, ServeUploadPrivate, ServeUploadNamed, ServeUploadReady,
     ServeUploadOverlap, ServeUploadMetDelete, ServeUploadRowHasFile
     DEF StoreInv, Safe
<1>3. ASSUME NEW r \in Requests, ServeReplace(r)
      PROVE  StoreInv'
  BY <1>3, ServeReplaceBase, ServeReplacePrivate, ServeReplaceNamed, ServeReplaceReady,
     ServeReplaceOverlap, ServeReplaceMetDelete, ServeReplaceRowHasFile
     DEF StoreInv, Safe
<1>4. ASSUME NEW r \in Requests, ServeDelete(r)
      PROVE  StoreInv'
  BY <1>4, ServeDeleteBase, ServeDeletePrivate, ServeDeleteNamed, ServeDeleteReady,
     ServeDeleteOverlap, ServeDeleteMetDelete, ServeDeleteRowHasFile
     DEF StoreInv, Safe
<1>5. ASSUME NEW r \in Requests, ServeStream(r)
      PROVE  StoreInv'
  BY <1>5, ServeStreamBase, ServeStreamPrivate, ServeStreamNamed, ServeStreamReady,
     ServeStreamOverlap, ServeStreamMetDelete, ServeStreamRowHasFile
     DEF StoreInv, Safe
<1>6. CASE Crash
  BY <1>6, CrashBase, CrashPrivate, CrashNamed, CrashReady, CrashOverlap, CrashMetDelete,
     CrashRowHasFile DEF StoreInv, Safe
<1>7. CASE UNCHANGED vars
  BY <1>7, StutterInv
<1> QED
  BY <1>1, <1>2, <1>3, <1>4, <1>5, <1>6, <1>7 DEF Next

LEMMA StoreInvariant == Spec => []StoreInv
  BY InitInv, NextInv, PTL DEF Spec

\* The rows, the disk and the state of the requests keep their types.
THEOREM FilesTyped == Spec => []TypeOK
<1>1. StoreInv => TypeOK
  BY DEF StoreInv, Base
<1> QED
  BY <1>1, StoreInvariant, PTL

\* No interleaving of uploads, replacements, deletions and streams, no error of
\* the disk or the database, and no crash loses the file of a row, but for the
\* four cases RowHasFile names (FileManagementService, FileController).
THEOREM NoFileIsLost == Spec => []RowHasFile
<1>1. StoreInv => RowHasFile
  BY DEF StoreInv
<1> QED
  BY <1>1, StoreInvariant, PTL

-----------------------------------------------------------------------------
(***************************************************************************)
(* Consistent, NoLitter and StreamIsWhole need more: what is at the path   *)
(* of each upload and in each backup (Paths, Held), how row, file and      *)
(* backup follow the one request that changes a file while nothing else    *)
(* does (Follows), and that a stream reads a file at rest (Streams).       *)
(***************************************************************************)

\* A backup is there only while its replacement may need it.
Held ==
  \A path \in Requests :
    backup[path] # None =>
      \E r \in Requests : backupPath[r] = path /\ (pc[r] \in Replacing \ {"backup"} \/ r \in torn)

\* An upload not yet written, dropped, or of a request that uploads nothing.
Unused(r) ==
  \/ pc[r] \in {"new", "write", "dropBackup"}
  \/ op[r] \in {"delete", "stream"}
  \/ op[r] = "replace" /\ pc[r] = "done"

\* A request's upload is at its path while it is needed, and is dropped.
Paths ==
  \A r \in Requests :
    /\ pc[r] \in {"save"} \cup (Replacing \ {"dropBackup", "restored", "restore"}) => disk[r] = r
    /\ Unused(r) /\ r \notin torn => disk[r] = None

\* Only requests that overlapped none on f, and tore nothing, have changed f.
Clean(f) == WritersOf(f) \cap (mixed \cup torn) = {}

\* The steps before which the row and the file of a request differ.
Between == {"save", "rollback", "copy", "find", "update", "restore", "deleteFile"}

\* What those steps and the ones that lead to them find.
Pending(r) ==
  /\ pc[r] \in {"rollback", "deleteFile"} => row[file[r]] = None
  /\ pc[r] \in {"exists", "unlink", "copy", "find", "update", "restore"} =>
       backup[backupPath[r]] = row[file[r]]
  /\ pc[r] \in {"find", "update"} => disk[file[r]] = r

Follows ==
  /\ \A f \in Stored :
       Clean(f) /\ (\A r \in WritersOf(f) : pc[r] \notin Between) => row[f] = disk[f]
  /\ \A r \in Requests : op[r] # "stream" /\ Clean(file[r]) => Pending(r)

\* A stream nobody disturbs reads metadata and content that belong together.
Streams ==
  \A r \in Requests :
    op[r] = "stream" /\ r \notin mixed /\ Clean(file[r]) =>
      /\ pc[r] \in {"stat", "send"} =>
           headers[r] # None /\ headers[r] = row[file[r]] /\ headers[r] = disk[file[r]]
      /\ pc[r] = "done" => body[r] = headers[r]
      /\ pc[r] # "failed"

WholeInv == Held /\ Paths /\ Follows /\ Streams

Serve(r) == ServeUpload(r) \/ ServeReplace(r) \/ ServeDelete(r) \/ ServeStream(r)

\* What a step of r leaves alone.
Others(r) ==
  /\ UNCHANGED <<op, file, mixed>> /\ torn \subseteq torn'
  /\ \A q \in Requests \ {r} :
       /\ pc'[q] = pc[q] /\ headers'[q] = headers[q] /\ body'[q] = body[q]
       /\ backupPath'[q] = backupPath[q]
       /\ backupPath[q] # None /\ q \notin mixed => backup'[backupPath[q]] = backup[backupPath[q]]
  /\ \A f \in Stored \ {file[r]} : row'[f] = row[f] /\ disk'[f] = disk[f]

\* A request that changes a file and is not mixed is the only one at work on it.
LEMMA AloneOnFile ==
  ASSUME StoreInv, NEW r \in Requests, NEW q \in Requests \ {r}, Busy(r), op[r] # "stream",
         r \notin mixed, file[q] = file[r]
  PROVE  ~Busy(q)
  BY DEF StoreInv, Safe, Overlap

\* Requests are at work on stored files.
LEMMA WritesStored ==
  ASSUME StoreInv, NEW r \in Requests, Busy(r)
  PROVE  file[r] \in Stored
  BY NamesAssumption DEF StoreInv, Safe, Base, TypeOK, Ops, Private, Own, Stored, Files, Content,
     Busy, Steps

-----------------------------------------------------------------------------
(* What the steps of a request leave alone. *)

LEMMA ServeUploadOthers ==
  ASSUME StoreInv, NEW r \in Requests, ServeUpload(r)
  PROVE  Others(r)
<1> USE NamesAssumption DEF StoreInv, Base, TypeOK, Ops, Safe, Content, Files,
        Replacing, Stored, Others, Goto, Resolve, Reject, Tear, Advance,
        PutFile, PutRow, PutBackup, Fault, store, served, past
<1>1. CASE WriteUpload(r)       BY <1>1 DEF WriteUpload
<1>2. CASE WriteUploadError(r)  BY <1>2 DEF WriteUploadError
<1>3. CASE SaveRow(r)           BY <1>3 DEF SaveRow
<1>4. CASE SaveRowError(r)      BY <1>4 DEF SaveRowError
<1>5. CASE ReturnSaved(r)       BY <1>5 DEF ReturnSaved
<1>6. CASE ReturnSavedError(r)  BY <1>6 DEF ReturnSavedError
<1>7. CASE Rollback(r)          BY <1>7 DEF Rollback
<1>8. CASE RollbackError(r)     BY <1>8 DEF RollbackError
<1> QED
  BY <1>1, <1>2, <1>3, <1>4, <1>5, <1>6, <1>7, <1>8 DEF ServeUpload

LEMMA ServeReplaceOthers ==
  ASSUME StoreInv, NEW r \in Requests, ServeReplace(r)
  PROVE  Others(r)
<1> USE NamesAssumption DEF StoreInv, Base, TypeOK, Ops, Safe, Content, Files,
        Replacing, Stored, Others, Named, Overlap, Busy, Steps, Goto, Resolve, Reject, Tear, Advance,
        PutFile, PutRow, PutBackup, Fault, store, served, past
<1>1. CASE Backup(r)              BY <1>1 DEF Backup, PathsNow
<1>2. CASE BackupRefused(r)       BY <1>2 DEF BackupRefused
<1>3. CASE BackupError(r)         BY <1>3 DEF BackupError
<1>4. CASE ReplaceExists(r)       BY <1>4 DEF ReplaceExists
<1>5. CASE UnlinkOld(r)           BY <1>5 DEF UnlinkOld
<1>6. CASE UnlinkOldGone(r)       BY <1>6 DEF UnlinkOldGone
<1>7. CASE UnlinkOldError(r)      BY <1>7 DEF UnlinkOldError
<1>8. CASE CopyNew(r)             BY <1>8 DEF CopyNew
<1>9. CASE CopyNewError(r)        BY <1>9 DEF CopyNewError
<1>10. CASE FindRow(r)            BY <1>10 DEF FindRow
<1>11. CASE FindRowError(r)       BY <1>11 DEF FindRowError
<1>12. CASE UpdateRow(r)          BY <1>12 DEF UpdateRow
<1>13. CASE UpdateRowError(r)     BY <1>13 DEF UpdateRowError
<1>14. CASE ReturnUpdated(r)      BY <1>14 DEF ReturnUpdated
<1>15. CASE ReturnUpdatedError(r) BY <1>15 DEF ReturnUpdatedError
<1>16. CASE DropUpload(r)         BY <1>16 DEF DropUpload
<1>17. CASE DropUploadError(r)    BY <1>17 DEF DropUploadError
<1>18. CASE DropBackup(r)         BY <1>18, HasPath DEF DropBackup
<1>19. CASE DropBackupError(r)    BY <1>19 DEF DropBackupError
<1>20. CASE Restore(r)            BY <1>20, HasPath DEF Restore
<1>21. CASE RestoreError(r)       BY <1>21 DEF RestoreError
<1>22. CASE DropRestored(r)       BY <1>22, HasPath DEF DropRestored
<1>23. CASE DropRestoredError(r)  BY <1>23 DEF DropRestoredError
<1>24. CASE RestoreMissing(r)     BY <1>24, HasPath DEF RestoreMissing
<1> QED
  BY <1>1, <1>2, <1>3, <1>4, <1>5, <1>6, <1>7, <1>8, <1>9, <1>10, <1>11,
     <1>12, <1>13, <1>14, <1>15, <1>16, <1>17, <1>18, <1>19, <1>20, <1>21,
     <1>22, <1>23, <1>24 DEF ServeReplace

LEMMA ServeDeleteOthers ==
  ASSUME StoreInv, NEW r \in Requests, ServeDelete(r)
  PROVE  Others(r)
<1> USE NamesAssumption DEF StoreInv, Base, TypeOK, Ops, Safe, Content, Files,
        Replacing, Stored, Others, Goto, Resolve, Reject, Tear, Advance,
        PutFile, PutRow, PutBackup, Fault, store, served, past
<1>1. CASE DeleteRow(r)        BY <1>1 DEF DeleteRow
<1>2. CASE DeleteRowGone(r)    BY <1>2 DEF DeleteRowGone
<1>3. CASE DeleteRowError(r)   BY <1>3 DEF DeleteRowError
<1>4. CASE DeleteFile(r)       BY <1>4 DEF DeleteFile
<1>5. CASE DeleteFileError(r)  BY <1>5 DEF DeleteFileError
<1>6. CASE DeleteFileUnlocated(r)  BY <1>6 DEF DeleteFileUnlocated
<1> QED
  BY <1>1, <1>2, <1>3, <1>4, <1>5, <1>6 DEF ServeDelete

LEMMA ServeStreamOthers ==
  ASSUME StoreInv, NEW r \in Requests, ServeStream(r)
  PROVE  Others(r)
<1> USE NamesAssumption DEF StoreInv, Base, TypeOK, Ops, Safe, Content, Files,
        Replacing, Stored, Others, Goto, Resolve, Reject, Tear, Advance,
        PutFile, PutRow, PutBackup, Fault, store, served, past
<1>1. CASE StatFile(r)  BY <1>1 DEF StatFile
<1>2. CASE Send(r)      BY <1>2 DEF Send
<1> QED
  BY <1>1, <1>2 DEF ServeStream

-----------------------------------------------------------------------------
(* Backups are dropped. *)

LEMMA ServeUploadHeld ==
  ASSUME StoreInv, WholeInv, NEW r \in Requests, ServeUpload(r)
  PROVE  Held'
<1> USE NamesAssumption DEF StoreInv, Base, TypeOK, Ops, Safe, Content, Files,
        Replacing, WholeInv, Held, Goto, Resolve, Reject, Tear, Advance,
        PutFile, PutRow, PutBackup, Fault, store, served, past
<1>1. CASE WriteUpload(r)       BY <1>1 DEF WriteUpload
<1>2. CASE WriteUploadError(r)  BY <1>2 DEF WriteUploadError
<1>3. CASE SaveRow(r)           BY <1>3 DEF SaveRow
<1>4. CASE SaveRowError(r)      BY <1>4 DEF SaveRowError
<1>5. CASE ReturnSaved(r)       BY <1>5 DEF ReturnSaved
<1>6. CASE ReturnSavedError(r)  BY <1>6 DEF ReturnSavedError
<1>7. CASE Rollback(r)          BY <1>7 DEF Rollback
<1>8. CASE RollbackError(r)     BY <1>8 DEF RollbackError
<1> QED
  BY <1>1, <1>2, <1>3, <1>4, <1>5, <1>6, <1>7, <1>8 DEF ServeUpload

LEMMA ServeReplaceHeld ==
  ASSUME StoreInv, WholeInv, NEW r \in Requests, ServeReplace(r)
  PROVE  Held'
<1> USE NamesAssumption DEF StoreInv, Base, TypeOK, Ops, Safe, Content, Files,
        Replacing, Steps, Busy, WholeInv, Held, Named, Goto, Resolve, Reject, Tear, Advance,
        PutFile, PutRow, PutBackup, Fault, store, served, past
<1>1. CASE Backup(r)              BY <1>1 DEF Backup, PathsNow
<1>2. CASE BackupRefused(r)       BY <1>2 DEF BackupRefused
<1>3. CASE BackupError(r)         BY <1>3 DEF BackupError
<1>4. CASE ReplaceExists(r)       BY <1>4 DEF ReplaceExists
<1>5. CASE UnlinkOld(r)           BY <1>5 DEF UnlinkOld
<1>6. CASE UnlinkOldGone(r)       BY <1>6 DEF UnlinkOldGone
<1>7. CASE UnlinkOldError(r)      BY <1>7 DEF UnlinkOldError
<1>8. CASE CopyNew(r)             BY <1>8 DEF CopyNew
<1>9. CASE CopyNewError(r)        BY <1>9 DEF CopyNewError
<1>10. CASE FindRow(r)            BY <1>10 DEF FindRow
<1>11. CASE FindRowError(r)       BY <1>11 DEF FindRowError
<1>12. CASE UpdateRow(r)          BY <1>12 DEF UpdateRow
<1>13. CASE UpdateRowError(r)     BY <1>13 DEF UpdateRowError
<1>14. CASE ReturnUpdated(r)      BY <1>14 DEF ReturnUpdated
<1>15. CASE ReturnUpdatedError(r) BY <1>15 DEF ReturnUpdatedError
<1>16. CASE DropUpload(r)         BY <1>16 DEF DropUpload
<1>17. CASE DropUploadError(r)    BY <1>17 DEF DropUploadError
<1>18. CASE DropBackup(r)         BY <1>18, HasPath DEF DropBackup
<1>19. CASE DropBackupError(r)    BY <1>19 DEF DropBackupError
<1>20. CASE Restore(r)            BY <1>20, HasPath DEF Restore
<1>21. CASE RestoreError(r)       BY <1>21 DEF RestoreError
<1>22. CASE DropRestored(r)       BY <1>22, HasPath DEF DropRestored
<1>23. CASE DropRestoredError(r)  BY <1>23 DEF DropRestoredError
<1>24. CASE RestoreMissing(r)     BY <1>24, HasPath DEF RestoreMissing
<1> QED
  BY <1>1, <1>2, <1>3, <1>4, <1>5, <1>6, <1>7, <1>8, <1>9, <1>10, <1>11,
     <1>12, <1>13, <1>14, <1>15, <1>16, <1>17, <1>18, <1>19, <1>20, <1>21,
     <1>22, <1>23, <1>24 DEF ServeReplace

LEMMA ServeDeleteHeld ==
  ASSUME StoreInv, WholeInv, NEW r \in Requests, ServeDelete(r)
  PROVE  Held'
<1> USE NamesAssumption DEF StoreInv, Base, TypeOK, Ops, Safe, Content, Files,
        Replacing, WholeInv, Held, Goto, Resolve, Reject, Tear, Advance,
        PutFile, PutRow, PutBackup, Fault, store, served, past
<1>1. CASE DeleteRow(r)        BY <1>1 DEF DeleteRow
<1>2. CASE DeleteRowGone(r)    BY <1>2 DEF DeleteRowGone
<1>3. CASE DeleteRowError(r)   BY <1>3 DEF DeleteRowError
<1>4. CASE DeleteFile(r)       BY <1>4 DEF DeleteFile
<1>5. CASE DeleteFileError(r)  BY <1>5 DEF DeleteFileError
<1>6. CASE DeleteFileUnlocated(r)  BY <1>6 DEF DeleteFileUnlocated
<1> QED
  BY <1>1, <1>2, <1>3, <1>4, <1>5, <1>6 DEF ServeDelete

LEMMA ServeStreamHeld ==
  ASSUME StoreInv, WholeInv, NEW r \in Requests, ServeStream(r)
  PROVE  Held'
<1> USE NamesAssumption DEF StoreInv, Base, TypeOK, Ops, Safe, Content, Files,
        Replacing, WholeInv, Held, Goto, Resolve, Reject, Tear, Advance,
        PutFile, PutRow, PutBackup, Fault, store, served, past
<1>1. CASE StatFile(r)  BY <1>1 DEF StatFile
<1>2. CASE Send(r)      BY <1>2 DEF Send
<1> QED
  BY <1>1, <1>2 DEF ServeStream

-----------------------------------------------------------------------------
(* Uploads are dropped. *)

LEMMA ServeUploadPaths ==
  ASSUME StoreInv, WholeInv, NEW r \in Requests, ServeUpload(r)
  PROVE  Paths'
<1> USE NamesAssumption DEF StoreInv, Base, TypeOK, Ops, Safe, Content, Files,
        Replacing, WholeInv, Paths, Unused, Private, Own, Goto, Resolve,
        Reject, Tear, Advance, PutFile, PutRow, PutBackup, Fault, store,
        served, past
<1>1. CASE WriteUpload(r)       BY <1>1 DEF WriteUpload
<1>2. CASE WriteUploadError(r)  BY <1>2 DEF WriteUploadError
<1>3. CASE SaveRow(r)           BY <1>3 DEF SaveRow
<1>4. CASE SaveRowError(r)      BY <1>4 DEF SaveRowError
<1>5. CASE ReturnSaved(r)       BY <1>5 DEF ReturnSaved
<1>6. CASE ReturnSavedError(r)  BY <1>6 DEF ReturnSavedError
<1>7. CASE Rollback(r)          BY <1>7 DEF Rollback
<1>8. CASE RollbackError(r)     BY <1>8 DEF RollbackError
<1> QED
  BY <1>1, <1>2, <1>3, <1>4, <1>5, <1>6, <1>7, <1>8 DEF ServeUpload

LEMMA ServeReplacePaths ==
  ASSUME StoreInv, WholeInv, NEW r \in Requests, ServeReplace(r)
  PROVE  Paths'
<1> USE NamesAssumption DEF StoreInv, Base, TypeOK, Ops, Safe, Content, Files,
        Replacing, WholeInv, Paths, Unused, Private, Own, Goto, Resolve,
        Reject, Tear, Advance, PutFile, PutRow, PutBackup, Fault, store,
        served, past
<1>1. CASE Backup(r)              BY <1>1 DEF Backup, PathsNow
<1>2. CASE BackupRefused(r)       BY <1>2 DEF BackupRefused
<1>3. CASE BackupError(r)         BY <1>3 DEF BackupError
<1>4. CASE ReplaceExists(r)       BY <1>4 DEF ReplaceExists
<1>5. CASE UnlinkOld(r)           BY <1>5 DEF UnlinkOld
<1>6. CASE UnlinkOldGone(r)       BY <1>6 DEF UnlinkOldGone
<1>7. CASE UnlinkOldError(r)      BY <1>7 DEF UnlinkOldError
<1>8. CASE CopyNew(r)             BY <1>8 DEF CopyNew
<1>9. CASE CopyNewError(r)        BY <1>9 DEF CopyNewError
<1>10. CASE FindRow(r)            BY <1>10 DEF FindRow
<1>11. CASE FindRowError(r)       BY <1>11 DEF FindRowError
<1>12. CASE UpdateRow(r)          BY <1>12 DEF UpdateRow
<1>13. CASE UpdateRowError(r)     BY <1>13 DEF UpdateRowError
<1>14. CASE ReturnUpdated(r)      BY <1>14 DEF ReturnUpdated
<1>15. CASE ReturnUpdatedError(r) BY <1>15 DEF ReturnUpdatedError
<1>16. CASE DropUpload(r)         BY <1>16 DEF DropUpload
<1>17. CASE DropUploadError(r)    BY <1>17 DEF DropUploadError
<1>18. CASE DropBackup(r)         BY <1>18 DEF DropBackup
<1>19. CASE DropBackupError(r)    BY <1>19 DEF DropBackupError
<1>20. CASE Restore(r)            BY <1>20 DEF Restore
<1>21. CASE RestoreError(r)       BY <1>21 DEF RestoreError
<1>22. CASE DropRestored(r)       BY <1>22 DEF DropRestored
<1>23. CASE DropRestoredError(r)  BY <1>23 DEF DropRestoredError
<1>24. CASE RestoreMissing(r)     BY <1>24 DEF RestoreMissing
<1> QED
  BY <1>1, <1>2, <1>3, <1>4, <1>5, <1>6, <1>7, <1>8, <1>9, <1>10, <1>11,
     <1>12, <1>13, <1>14, <1>15, <1>16, <1>17, <1>18, <1>19, <1>20, <1>21,
     <1>22, <1>23, <1>24 DEF ServeReplace

LEMMA ServeDeletePaths ==
  ASSUME StoreInv, WholeInv, NEW r \in Requests, ServeDelete(r)
  PROVE  Paths'
<1> USE NamesAssumption DEF StoreInv, Base, TypeOK, Ops, Safe, Content, Files,
        Replacing, WholeInv, Paths, Unused, Private, Own, Goto, Resolve,
        Reject, Tear, Advance, PutFile, PutRow, PutBackup, Fault, store,
        served, past
<1>1. CASE DeleteRow(r)        BY <1>1 DEF DeleteRow
<1>2. CASE DeleteRowGone(r)    BY <1>2 DEF DeleteRowGone
<1>3. CASE DeleteRowError(r)   BY <1>3 DEF DeleteRowError
<1>4. CASE DeleteFile(r)       BY <1>4 DEF DeleteFile
<1>5. CASE DeleteFileError(r)  BY <1>5 DEF DeleteFileError
<1>6. CASE DeleteFileUnlocated(r)  BY <1>6 DEF DeleteFileUnlocated
<1> QED
  BY <1>1, <1>2, <1>3, <1>4, <1>5, <1>6 DEF ServeDelete

LEMMA ServeStreamPaths ==
  ASSUME StoreInv, WholeInv, NEW r \in Requests, ServeStream(r)
  PROVE  Paths'
<1> USE NamesAssumption DEF StoreInv, Base, TypeOK, Ops, Safe, Content, Files,
        Replacing, WholeInv, Paths, Unused, Private, Own, Goto, Resolve,
        Reject, Tear, Advance, PutFile, PutRow, PutBackup, Fault, store,
        served, past
<1>1. CASE StatFile(r)  BY <1>1 DEF StatFile
<1>2. CASE Send(r)      BY <1>2 DEF Send
<1> QED
  BY <1>1, <1>2 DEF ServeStream

-----------------------------------------------------------------------------
(* Row, file and backup follow the request that changes the file. *)

\* Before a step after which nothing is pending, row and file agree.
AtRest(r) == pc[r] \notin Between => row[file[r]] = disk[file[r]]

LEMMA QuietBefore ==
  ASSUME StoreInv, Follows, NEW r \in Requests, Busy(r), op[r] # "stream", Clean(file[r])
  PROVE  AtRest(r)
<1> USE DEF Clean, WritersOf
<1>1. file[r] \in Stored
  BY WritesStored
<1>2. op[r] \in {"upload", "replace", "delete"}
  BY DEF StoreInv, Base, TypeOK, Operations, Busy, Steps
<1>3. r \notin mixed
  BY <1>2
<1>4. \A q \in WritersOf(file[r]) : q # r => ~Busy(q)
  BY <1>3, AloneOnFile
<1>5. \A q \in WritersOf(file[r]) : q # r => pc[q] \notin Between
  BY <1>4 DEF Busy, Between, Steps
<1> QED
  BY <1>1, <1>5 DEF Follows, AtRest

LEMMA ServeUploadAtRest ==
  ASSUME StoreInv, Paths, Follows, NEW r \in Requests, ServeUpload(r), Clean(file[r])'
  PROVE  Pending(r)' /\ AtRest(r)'
<1> USE NamesAssumption DEF StoreInv, Base, TypeOK, Ops, Safe, Content, Files,
        Replacing, Private, Own, Ready, Paths, Follows, Pending, AtRest,
        Between, Clean, WritersOf, Goto, Resolve, Reject, Tear, Advance,
        PutFile, PutRow, PutBackup, Fault, store, served, past
<1>1. Clean(file[r]) /\ op[r] # "stream" /\ Busy(r) => AtRest(r)
  BY QuietBefore
<1>2. op[r] # "stream" /\ Busy(r)
  BY DEF ServeUpload, Busy, Steps, WriteUpload, WriteUploadError, SaveRow, SaveRowError,
     ReturnSaved, ReturnSavedError, Rollback, RollbackError
<1>3. CASE WriteUpload(r)       BY <1>1, <1>2, <1>3 DEF WriteUpload
<1>4. CASE WriteUploadError(r)  BY <1>1, <1>2, <1>4 DEF WriteUploadError
<1>5. CASE SaveRow(r)           BY <1>1, <1>2, <1>5 DEF SaveRow
<1>6. CASE SaveRowError(r)      BY <1>1, <1>2, <1>6 DEF SaveRowError
<1>7. CASE ReturnSaved(r)       BY <1>1, <1>2, <1>7 DEF ReturnSaved
<1>8. CASE ReturnSavedError(r)  BY <1>1, <1>2, <1>8 DEF ReturnSavedError
<1>9. CASE Rollback(r)          BY <1>1, <1>2, <1>9 DEF Rollback
<1>10. CASE RollbackError(r)    BY <1>1, <1>2, <1>10 DEF RollbackError
<1> QED
  BY <1>3, <1>4, <1>5, <1>6, <1>7, <1>8, <1>9, <1>10 DEF ServeUpload

LEMMA ServeReplaceAtRest ==
  ASSUME StoreInv, Paths, Follows, NEW r \in Requests, ServeReplace(r), Clean(file[r])'
  PROVE  Pending(r)' /\ AtRest(r)'
<1> USE NamesAssumption DEF StoreInv, Base, TypeOK, Ops, Safe, Content, Files,
        Replacing, Private, Own, Named, Shared, Ready, Paths, Follows, Pending, AtRest,
        Between, Clean, WritersOf, Goto, Resolve, Reject, Tear, Advance,
        PutFile, PutRow, PutBackup, Fault, store, served, past
<1>1. Clean(file[r]) /\ op[r] # "stream" /\ Busy(r) => AtRest(r)
  BY QuietBefore
<1>2. op[r] # "stream" /\ Busy(r)
  BY DEF ServeReplace, Busy, Steps, Backup, BackupRefused, BackupError, ReplaceExists,
     UnlinkOld, UnlinkOldGone, UnlinkOldError, CopyNew, CopyNewError, FindRow, FindRowError,
     UpdateRow, UpdateRowError, ReturnUpdated, ReturnUpdatedError, DropUpload,
     DropUploadError, DropBackup, DropBackupError, Restore, RestoreMissing, RestoreError, DropRestored,
     DropRestoredError
<1>3. CASE Backup(r)              BY <1>1, <1>2, <1>3 DEF Backup, PathsNow
<1>4. CASE BackupRefused(r)       BY <1>1, <1>2, <1>4 DEF BackupRefused
<1>5. CASE BackupError(r)         BY <1>1, <1>2, <1>5 DEF BackupError
<1>6. CASE ReplaceExists(r)       BY <1>1, <1>2, <1>6 DEF ReplaceExists
<1>7. CASE UnlinkOld(r)           BY <1>1, <1>2, <1>7 DEF UnlinkOld
<1>8. CASE UnlinkOldGone(r)       BY <1>1, <1>2, <1>8 DEF UnlinkOldGone
<1>9. CASE UnlinkOldError(r)      BY <1>1, <1>2, <1>9 DEF UnlinkOldError
<1>10. CASE CopyNew(r)            BY <1>1, <1>2, <1>10 DEF CopyNew
<1>11. CASE CopyNewError(r)       BY <1>1, <1>2, <1>11 DEF CopyNewError
<1>12. CASE FindRow(r)            BY <1>1, <1>2, <1>12 DEF FindRow
<1>13. CASE FindRowError(r)       BY <1>1, <1>2, <1>13 DEF FindRowError
<1>14. CASE UpdateRow(r)          BY <1>1, <1>2, <1>14 DEF UpdateRow
<1>15. CASE UpdateRowError(r)     BY <1>1, <1>2, <1>15 DEF UpdateRowError
<1>16. CASE ReturnUpdated(r)      BY <1>1, <1>2, <1>16 DEF ReturnUpdated
<1>17. CASE ReturnUpdatedError(r) BY <1>1, <1>2, <1>17 DEF ReturnUpdatedError
<1>18. CASE DropUpload(r)         BY <1>1, <1>2, <1>18 DEF DropUpload
<1>19. CASE DropUploadError(r)    BY <1>1, <1>2, <1>19 DEF DropUploadError
<1>20. CASE DropBackup(r)         BY <1>1, <1>2, <1>20, HasPath DEF DropBackup
<1>21. CASE DropBackupError(r)    BY <1>1, <1>2, <1>21 DEF DropBackupError
<1>22. CASE Restore(r)            BY <1>1, <1>2, <1>22, HasPath DEF Restore
<1>23. CASE RestoreError(r)       BY <1>1, <1>2, <1>23 DEF RestoreError
<1>24. CASE DropRestored(r)       BY <1>1, <1>2, <1>24, HasPath DEF DropRestored
<1>25. CASE DropRestoredError(r)  BY <1>1, <1>2, <1>25 DEF DropRestoredError
<1>26. CASE RestoreMissing(r)     BY <1>1, <1>2, <1>26, HasPath DEF RestoreMissing
<1> QED
  BY <1>3, <1>4, <1>5, <1>6, <1>7, <1>8, <1>9, <1>10, <1>11, <1>12, <1>13,
     <1>14, <1>15, <1>16, <1>17, <1>18, <1>19, <1>20, <1>21, <1>22, <1>23,
     <1>24, <1>25, <1>26 DEF ServeReplace

LEMMA ServeDeleteAtRest ==
  ASSUME StoreInv, Paths, Follows, NEW r \in Requests, ServeDelete(r), Clean(file[r])'
  PROVE  Pending(r)' /\ AtRest(r)'
<1> USE NamesAssumption DEF StoreInv, Base, TypeOK, Ops, Safe, Content, Files,
        Replacing, Private, Own, Ready, Paths, Follows, Pending, AtRest,
        Between, Clean, WritersOf, Goto, Resolve, Reject, Tear, Advance,
        PutFile, PutRow, PutBackup, Fault, store, served, past
<1>1. Clean(file[r]) /\ op[r] # "stream" /\ Busy(r) => AtRest(r)
  BY QuietBefore
<1>2. op[r] # "stream" /\ Busy(r)
  BY DEF ServeDelete, Busy, Steps, DeleteRow, DeleteRowGone, DeleteRowError, DeleteFile,
     DeleteFileError, DeleteFileUnlocated
<1>3. CASE DeleteRow(r)        BY <1>1, <1>2, <1>3 DEF DeleteRow
<1>4. CASE DeleteRowGone(r)    BY <1>1, <1>2, <1>4 DEF DeleteRowGone
<1>5. CASE DeleteRowError(r)   BY <1>1, <1>2, <1>5 DEF DeleteRowError
<1>6. CASE DeleteFile(r)       BY <1>1, <1>2, <1>6 DEF DeleteFile
<1>7. CASE DeleteFileError(r)  BY <1>1, <1>2, <1>7 DEF DeleteFileError
<1>8. CASE DeleteFileUnlocated(r)  BY <1>1, <1>2, <1>8 DEF DeleteFileUnlocated
<1> QED
  BY <1>3, <1>4, <1>5, <1>6, <1>7, <1>8 DEF ServeDelete

LEMMA ServeAtRest ==
  ASSUME StoreInv, WholeInv, NEW r \in Requests, Serve(r), op[r] # "stream", Clean(file[r])'
  PROVE  Pending(r)' /\ AtRest(r)'
<1>1. ~ServeStream(r)
  BY DEF ServeStream, StatFile, Send, Advance, Resolve, Goto, StoreInv, Base, Ops
<1> QED
  BY <1>1, ServeUploadAtRest, ServeReplaceAtRest, ServeDeleteAtRest DEF Serve, WholeInv

LEMMA ServeOthers ==
  ASSUME StoreInv, NEW r \in Requests, Serve(r)
  PROVE  Others(r) /\ Busy(r)
<1>1. Others(r)
  BY ServeUploadOthers, ServeReplaceOthers, ServeDeleteOthers, ServeStreamOthers DEF Serve
<1>2. Busy(r)
  BY DEF Serve, Busy, Steps, Goto, Resolve, Reject, Tear, Advance,
     ServeUpload, ServeReplace, ServeDelete, ServeStream, WriteUpload,
     WriteUploadError, SaveRow, SaveRowError, ReturnSaved, ReturnSavedError,
     Rollback, RollbackError, Backup, BackupRefused, BackupError,
     ReplaceExists, UnlinkOld, UnlinkOldGone, UnlinkOldError, CopyNew,
     CopyNewError, FindRow, FindRowError, UpdateRow, UpdateRowError,
     ReturnUpdated, ReturnUpdatedError, DropUpload, DropUploadError,
     DropBackup, DropBackupError, Restore, RestoreMissing, RestoreError, DropRestored,
     DropRestoredError, DeleteRow, DeleteRowGone, DeleteRowError, DeleteFile,
     DeleteFileError, DeleteFileUnlocated, StatFile, Send
<1> QED
  BY <1>1, <1>2

LEMMA StreamLeaves ==
  ASSUME StoreInv, NEW r \in Requests, Serve(r), op[r] = "stream"
  PROVE  UNCHANGED store
<1>1. ServeStream(r)
  BY DEF Serve, ServeUpload, ServeReplace, ServeDelete, StoreInv, Base, Ops,
     Replacing, Goto, Resolve, Reject, Tear, Advance, WriteUpload,
     WriteUploadError, SaveRow, SaveRowError, ReturnSaved, ReturnSavedError,
     Rollback, RollbackError, Backup, BackupRefused, BackupError,
     ReplaceExists, UnlinkOld, UnlinkOldGone, UnlinkOldError, CopyNew,
     CopyNewError, FindRow, FindRowError, UpdateRow, UpdateRowError,
     ReturnUpdated, ReturnUpdatedError, DropUpload, DropUploadError,
     DropBackup, DropBackupError, Restore, RestoreMissing, RestoreError, DropRestored,
     DropRestoredError, DeleteRow, DeleteRowGone, DeleteRowError, DeleteFile,
     DeleteFileError, DeleteFileUnlocated
<1> QED
  BY <1>1 DEF ServeStream, StatFile, Send, Advance, Resolve, Goto, store

LEMMA ServeFollows ==
  ASSUME StoreInv, WholeInv, NEW r \in Requests, Serve(r)
  PROVE  Follows'
<1>1. Others(r) /\ Busy(r)
  BY ServeOthers
<1>2. file[r] \in Stored
  BY <1>1, WritesStored
<1>3. \A f : Clean(f)' => Clean(f)
  BY <1>1 DEF Others, Clean, WritersOf
<1>4. Stored' = Stored /\ \A f : WritersOf(f)' = WritersOf(f)
  BY <1>1 DEF Others, Stored, WritersOf
<1>5. op[r] # "stream" => \A q \in WritersOf(file[r]) :
        Clean(file[r]) /\ q # r => ~Busy(q)
  <2> SUFFICES ASSUME op[r] # "stream", NEW q \in WritersOf(file[r]), Clean(file[r]), q # r
               PROVE  ~Busy(q)
    OBVIOUS
  <2>1. r \in WritersOf(file[r])
    BY <1>1 DEF WritersOf, StoreInv, Base, TypeOK, Operations, Busy, Steps
  <2> QED
    BY <1>1, <2>1, AloneOnFile DEF Clean, WritersOf
<1>6. ASSUME NEW f \in Stored, Clean(f)', \A q \in WritersOf(f) : pc'[q] \notin Between
      PROVE  row'[f] = disk'[f]
  <2>1. CASE f # file[r]
    <3>1. r \notin WritersOf(f)
      BY <2>1 DEF WritersOf
    <3>2. \A q \in WritersOf(f) : pc[q] \notin Between
      BY <1>1, <1>6, <3>1 DEF Others, WritersOf
    <3> QED
      BY <1>1, <1>3, <1>6, <2>1, <3>2 DEF Others, WholeInv, Follows
  <2>2. CASE f = file[r] /\ op[r] # "stream"
    <3>1. r \in WritersOf(f)
      BY <1>1, <2>2 DEF WritersOf, StoreInv, Base, TypeOK, Operations, Busy, Steps
    <3>2. AtRest(r)'
      BY <1>1, <1>6, <2>2, ServeAtRest DEF Others
    <3> QED
      BY <1>1, <1>6, <2>2, <3>1, <3>2 DEF AtRest, Others
  <2>3. CASE f = file[r] /\ op[r] = "stream"
    <3>1. row' = row /\ disk' = disk
      BY <2>3, StreamLeaves DEF store
    <3>2. r \notin WritersOf(f)
      BY <2>3 DEF WritersOf
    <3>3. \A q \in WritersOf(f) : pc[q] \notin Between
      BY <1>1, <1>6, <3>2 DEF Others, WritersOf
    <3> QED
      BY <1>3, <1>6, <3>1, <3>3 DEF WholeInv, Follows
  <2> QED
    BY <2>1, <2>2, <2>3
<1>7. ASSUME NEW q \in Requests, op[q] # "stream", Clean(file[q])'
      PROVE  Pending(q)'
  <2>1. CASE q = r
    BY <1>1, <1>7, <2>1, ServeAtRest DEF Others
  <2>2. CASE q # r /\ ~Busy(q)
    BY <1>1, <2>2 DEF Others, Pending, Busy, Steps
  <2>3. CASE q # r /\ Busy(q)
    <3>1. Pending(q) /\ Clean(file[q])
      BY <1>1, <1>3, <1>7 DEF Others, Clean, WritersOf, WholeInv, Follows
    <3>2. q \in WritersOf(file[q])
      BY <1>7, <2>3 DEF WritersOf, StoreInv, Base, TypeOK, Operations, Busy, Steps
    <3>3. CASE file[q] # file[r]
      <4>1. file[q] \in Stored
        BY <2>3, WritesStored
      <4> QED
        BY <1>1, <2>3, <3>1, <3>2, <3>3, <4>1, HasPath
           DEF Others, Pending, Clean, Replacing, StoreInv, Safe, Named
    <3>4. CASE file[q] = file[r]
      <4>1. op[r] = "stream"
        BY <1>1, <1>5, <2>3, <3>1, <3>2, <3>4
      <4>2. row' = row /\ disk' = disk /\ backup' = backup
        BY <4>1, StreamLeaves DEF store
      <4> QED
        BY <1>1, <2>3, <3>1, <4>2 DEF Others, Pending
    <3> QED
      BY <3>3, <3>4
  <2> QED
    BY <2>1, <2>2, <2>3
<1> QED
  BY <1>1, <1>4, <1>6, <1>7 DEF Follows, Others

LEMMA ServeStreams ==
  ASSUME StoreInv, WholeInv, NEW r \in Requests, Serve(r)
  PROVE  Streams'
<1> SUFFICES ASSUME NEW q \in Requests, op[q] = "stream", q \notin mixed, Clean(file[q])'
             PROVE  /\ pc'[q] \in {"stat", "send"} =>
                         /\ headers'[q] # None
                         /\ headers'[q] = row'[file[q]] /\ headers'[q] = disk'[file[q]]
                    /\ pc'[q] = "done" => body'[q] = headers'[q]
                    /\ pc'[q] # "failed"
  BY ServeOthers DEF Others, Streams
<1>1. Others(r) /\ Busy(r)
  BY ServeOthers
<1>2. Clean(file[q])
  BY <1>1 DEF Others, Clean, WritersOf
<1>3. CASE q = r
  <2>1. ServeStream(r)
    BY <1>3 DEF Serve, ServeUpload, ServeReplace, ServeDelete, StoreInv, Base,
       Ops, Replacing, Goto, Resolve, Reject, Tear, Advance, WriteUpload,
       WriteUploadError, SaveRow, SaveRowError, ReturnSaved, ReturnSavedError,
       Rollback, RollbackError, Backup, BackupRefused, BackupError,
       ReplaceExists, UnlinkOld, UnlinkOldGone, UnlinkOldError, CopyNew,
       CopyNewError, FindRow, FindRowError, UpdateRow, UpdateRowError,
       ReturnUpdated, ReturnUpdatedError, DropUpload, DropUploadError,
       DropBackup, DropBackupError, Restore, RestoreMissing, RestoreError, DropRestored,
       DropRestoredError, DeleteRow, DeleteRowGone, DeleteRowError,
       DeleteFile, DeleteFileError, DeleteFileUnlocated
  <2> QED
    BY <1>2, <1>3, <2>1 DEF WholeInv, Streams, ServeStream, StatFile, Send, Advance, Resolve,
       Goto, store, served, StoreInv, Base, TypeOK
<1>4. CASE q # r
  <2>1. CASE file[q] # file[r] \/ ~Busy(q)
    <3>1. Busy(q) => file[q] \in Stored
      BY WritesStored
    <3> QED
      BY <1>1, <1>2, <1>4, <2>1, <3>1 DEF Others, WholeInv, Streams, Busy, Steps
  <2>2. CASE file[q] = file[r] /\ Busy(q)
    <3>1. op[r] = "stream"
      BY <1>1, <1>4, <2>2 DEF StoreInv, Safe, Overlap
    <3>2. row' = row /\ disk' = disk
      BY <3>1, StreamLeaves DEF store
    <3> QED
      BY <1>1, <1>2, <1>4, <3>2 DEF Others, WholeInv, Streams
  <2> QED
    BY <2>1, <2>2
<1> QED
  BY <1>3, <1>4

-----------------------------------------------------------------------------
(* A request starts: a file it is the only one to change is at rest. *)

LEMMA ReceiveHeld ==
  ASSUME StoreInv, WholeInv, NEW r \in Requests, Receive(r)
  PROVE  Held'
  BY NamesAssumption DEF Receive, Upload, Replace, Delete, Stream, Begin, Goto, store, WholeInv,
     Held, StoreInv, Base, TypeOK, Replacing

LEMMA ReceivePaths ==
  ASSUME StoreInv, WholeInv, NEW r \in Requests, Receive(r)
  PROVE  Paths'
  BY NamesAssumption DEF Receive, Upload, Replace, Delete, Stream, Begin, Goto, store, WholeInv,
     Paths, Unused, StoreInv, Base, TypeOK, Replacing

\* What a request that starts leaves alone, and whom it meets.
LEMMA ReceiveBegins ==
  ASSUME StoreInv, NEW r \in Requests, Receive(r)
  PROVE  \E what \in Operations \ {"none"}, f \in Files, first \in {"write", "deleteRow", "stat"} :
           /\ Begin(r, what, f, first)
           /\ what = "upload" => f = r
           /\ what # "upload" => row[f] # None
           /\ first = "stat" <=> what = "stream"
           /\ headers' = IF what = "stream" THEN [headers EXCEPT ![r] = row[f]] ELSE headers
<1>1. ASSUME NEW f \in Files, Replace(r, f)
      PROVE  /\ Begin(r, "replace", f, "write") /\ row[f] # None /\ headers' = headers
  BY <1>1 DEF Replace
<1>2. ASSUME NEW f \in Files, Delete(r, f)
      PROVE  /\ Begin(r, "delete", f, "deleteRow") /\ row[f] # None /\ headers' = headers
  BY <1>2 DEF Delete
<1>3. ASSUME NEW f \in Files, Stream(r, f)
      PROVE  /\ Begin(r, "stream", f, "stat") /\ row[f] # None
             /\ headers' = [headers EXCEPT ![r] = row[f]]
  BY <1>3 DEF Stream
<1>4. CASE Upload(r)
  <2>1. Begin(r, "upload", r, "write") /\ headers' = headers
    BY <1>4 DEF Upload
  <2> QED
    BY <2>1 DEF Operations, Files
<1> QED
  BY <1>1, <1>2, <1>3, <1>4 DEF Receive, Operations

LEMMA ReceiveFollows ==
  ASSUME StoreInv, WholeInv, NEW r \in Requests, Receive(r)
  PROVE  Follows' /\ Streams'
<1>1. PICK what \in Operations \ {"none"}, f \in Files, first \in {"write", "deleteRow", "stat"} :
        /\ Begin(r, what, f, first)
        /\ what = "upload" => f = r
        /\ what # "upload" => row[f] # None
        /\ first = "stat" <=> what = "stream"
        /\ headers' = IF what = "stream" THEN [headers EXCEPT ![r] = row[f]] ELSE headers
  BY ReceiveBegins
<1> USE DEF StoreInv, Base, TypeOK
<1>2. /\ pc[r] = "new" /\ op[r] = "none" /\ file[r] = None
      /\ pc' = [pc EXCEPT ![r] = first] /\ op' = [op EXCEPT ![r] = what]
      /\ file' = [file EXCEPT ![r] = f] /\ mixed \subseteq mixed' /\ torn' = torn
      /\ row' = row /\ disk' = disk /\ backup' = backup /\ backupPath' = backupPath /\ body' = body
      /\ Meets(r, f, what) \cup (IF Meets(r, f, what) = {} THEN {} ELSE {r}) \subseteq mixed'
  BY <1>1 DEF Begin, Goto, store
<1>3. \A g : Clean(g)' => Clean(g)
  BY <1>2 DEF Clean, WritersOf
<1>4. \A g \in Stored' : g \in Stored \/ (g = r /\ what = "upload")
  <2> SUFFICES ASSUME NEW g \in Files, g # Seed, op'[g] = "upload", g # r
               PROVE  op[g] = "upload"
    BY <1>2 DEF Stored
  <2> QED
    BY <1>2 DEF Files
<1>5. ASSUME NEW g \in Stored', Clean(g)', \A q \in WritersOf(g)' : pc'[q] \notin Between
      PROVE  row'[g] = disk'[g]
  <2>1. CASE g \in Stored
    <3>1. \A q \in WritersOf(g) : q \in WritersOf(g)' /\ pc'[q] = pc[q]
      BY <1>2 DEF WritersOf
    <3> QED
      BY <1>2, <1>3, <1>5, <2>1, <3>1 DEF WholeInv, Follows
  <2>2. CASE g = r /\ what = "upload"
    <3>1. r \notin torn
      BY <1>1, <1>2, <1>5, <2>2 DEF Clean, WritersOf
    <3>2. disk[r] = None /\ row[r] = None
      BY <1>2, <3>1 DEF WholeInv, Paths, Unused, Safe, Private, Own
    <3> QED
      BY <1>2, <2>2, <3>2
  <2> QED
    BY <1>4, <2>1, <2>2
<1>6. ASSUME NEW q \in Requests, op'[q] # "stream", Clean(file[q])'
      PROVE  Pending(q)'
  <2>1. CASE q = r
    BY <1>2, <2>1 DEF Pending
  <2>2. CASE q # r
    BY <1>2, <1>3, <1>6, <2>2 DEF WholeInv, Follows, Pending, Clean, WritersOf
  <2> QED
    BY <2>1, <2>2
<1>7. ASSUME NEW q \in Requests, op'[q] = "stream", q \notin mixed', Clean(file[q])'
      PROVE  /\ pc'[q] \in {"stat", "send"} =>
                  /\ headers'[q] # None
                  /\ headers'[q] = row'[file'[q]] /\ headers'[q] = disk'[file'[q]]
             /\ pc'[q] = "done" => body'[q] = headers'[q]
             /\ pc'[q] # "failed"
  <2>1. CASE q = r
    <3>1. what = "stream" /\ file'[r] = f
      BY <1>2, <1>7, <2>1
    <3>2. f \in Stored
      BY <1>1, <3>1 DEF Safe, Private, Own, Stored, Files
    <3>3. Clean(f) /\ \A w \in WritersOf(f) : pc[w] \notin Between
      <4>1. Clean(f)
        BY <1>3, <1>2, <1>7, <2>1 DEF Clean, WritersOf
      <4>2. Meets(r, f, what) = {}
        BY <1>2, <1>7, <2>1
      <4> QED
        BY <1>2, <4>1, <4>2 DEF Meets, WritersOf, Busy, Between, Steps
    <3>4. row[f] = disk[f]
      BY <3>2, <3>3 DEF WholeInv, Follows
    <3> QED
      BY <1>1, <1>2, <2>1, <3>1, <3>4
  <2>2. CASE q # r
    <3>1. op[q] = "stream" /\ q \notin mixed /\ file'[q] = file[q] /\ pc'[q] = pc[q]
      BY <1>2, <1>7, <2>2
    <3>2. Clean(file[q])
      BY <1>3, <1>7, <3>1 DEF Clean, WritersOf
    <3>3. headers'[q] = headers[q] /\ body'[q] = body[q]
      BY <1>1, <1>2, <2>2
    <3> QED
      BY <1>2, <3>1, <3>2, <3>3 DEF WholeInv, Streams
  <2> QED
    BY <2>1, <2>2
<1> QED
  BY <1>5, <1>6, <1>7 DEF Follows, Streams

-----------------------------------------------------------------------------
(* The process dies: what it was changing is torn. *)

LEMMA CrashWhole ==
  ASSUME StoreInv, WholeInv, Crash
  PROVE  WholeInv'
<1> USE NamesAssumption DEF Crash, store, served, StoreInv, Base, TypeOK, WholeInv
<1>1. Held' /\ Paths'
  BY DEF Held, Paths, Unused, Busy, Steps, Replacing
<1>2. \A f : Clean(f)' => Clean(f) /\ \A q \in WritersOf(f) : ~Busy(q)
  BY DEF Clean, WritersOf
<1>3. ASSUME NEW f \in Stored, Clean(f)'
      PROVE  row'[f] = disk'[f]
  BY <1>2, <1>3 DEF Follows, Busy, Between, Steps
<1>4. ASSUME NEW r \in Requests
      PROVE  Pending(r)'
  BY DEF Pending, Busy, Steps
<1>5. Follows'
  BY <1>3, <1>4 DEF Follows, Stored
<1>6. Streams'
  BY <1>2 DEF Streams, Busy, Steps, Clean, WritersOf
<1> QED
  BY <1>1, <1>5, <1>6

LEMMA InitWhole == Init => WholeInv
  BY NamesAssumption DEF Init, WholeInv, Held, Paths, Unused, Follows, Pending, Clean, WritersOf,
     Stored, Streams, Replacing, Files

LEMMA StutterWhole == WholeInv /\ UNCHANGED vars => WholeInv'
  BY DEF vars, store, served, past, WholeInv, Held, Paths, Unused, Follows, Pending, Clean,
     WritersOf, Stored, Streams

LEMMA NextWhole == StoreInv /\ WholeInv /\ [Next]_vars => WholeInv'
<1> SUFFICES ASSUME StoreInv, WholeInv, [Next]_vars
             PROVE  WholeInv'
  OBVIOUS
<1>1. ASSUME NEW r \in Requests, Receive(r)
      PROVE  WholeInv'
  BY <1>1, ReceiveHeld, ReceivePaths, ReceiveFollows DEF WholeInv
<1>2. ASSUME NEW r \in Requests, Serve(r)
      PROVE  WholeInv'
  <2>1. Held'
    BY <1>2, ServeUploadHeld, ServeReplaceHeld, ServeDeleteHeld, ServeStreamHeld DEF Serve
  <2>2. Paths'
    BY <1>2, ServeUploadPaths, ServeReplacePaths, ServeDeletePaths, ServeStreamPaths DEF Serve
  <2> QED
    BY <1>2, <2>1, <2>2, ServeFollows, ServeStreams DEF WholeInv
<1> QED
  BY <1>1, <1>2, CrashWhole, StutterWhole DEF Next, Serve

LEMMA WholeInvariant == Spec => []WholeInv
  BY InitWhole, NextWhole, StoreInvariant, PTL DEF Spec

\* Once the requests on a file are over, and none of them overlapped another one
\* or had its cleanup fail, row and file agree, whatever failed before the commit.
THEOREM FilesConsistent == Spec => []Consistent
<1>1. WholeInv => Consistent
  BY DEF WholeInv, Follows, Consistent, Clean, Between, Ends
<1> QED
  BY <1>1, WholeInvariant, PTL

\* Requests that end leave no backup, and those that succeed no temporary upload.
THEOREM NothingIsLittered == Spec => []NoLitter
<1>1. StoreInv /\ WholeInv => NoLitter
  BY DEF StoreInv, Base, TypeOK, Operations, WholeInv, Held, Paths, Unused, NoLitter, Stored,
     Replacing, Files, Busy, Steps
<1> QED
  BY <1>1, StoreInvariant, WholeInvariant, PTL

\* A stream that no change of its file overlaps sends what its headers describe.
THEOREM StreamsAreWhole == Spec => []StreamIsWhole
<1>1. WholeInv => StreamIsWhole
  BY DEF WholeInv, Streams, StreamIsWhole, Clean
<1> QED
  BY <1>1, WholeInvariant, PTL
=============================================================================
