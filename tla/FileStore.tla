------------------------------ MODULE FileStore ------------------------------
(***************************************************************************)
(* FileController and FileManagementService: a stored file is a row of     *)
(* file_definition and a physical file at the location the row names.      *)
(* Requests upload, replace, delete and stream files; each of their steps  *)
(* is one await, and nothing locks the pair of row and file.               *)
(*                                                                         *)
(* A file is named by the request that uploaded it (or by Seed, one that   *)
(* was there before); so is its path, processFileUpload never reuses a     *)
(* name, and so is its content.  disk holds every upload path: the files   *)
(* and the temporary uploads of replacements.  All requests are served by  *)
(* one process, which keeps its files on its own disk.                     *)
(*                                                                         *)
(* A backup's path is the file's with the millisecond appended, so         *)
(* replacements of one file that reach backupFile in the same millisecond  *)
(* have one backup between them; the path is named by the first of them.   *)
(***************************************************************************)
EXTENDS Naturals

CONSTANTS Requests,
          Seed,      \* the file stored before the first request
          None,      \* no row, no file, no content
          MaxFaults  \* bound: errors of the disk or the database, crashes

ASSUME NamesAssumption == Seed \notin Requests /\ None \notin Requests \cup {Seed}
ASSUME FaultsAssumption == MaxFaults \in Nat

Files   == Requests \cup {Seed}
Content == Files \cup {None}

VARIABLES
  row,     \* the metadata of each file: the upload it describes
  disk,    \* the content at each upload path
  backup,  \* the content at each .backup path
  backupPath, \* the backup path of each request
  op,      \* what each request does
  file,    \* the file it does it to
  pc,      \* where it is
  headers, \* the metadata a stream has read
  body,    \* the content a stream has sent
  faults,  \* faults so far
  mixed,   \* history: requests that overlapped another one on their file
  torn     \* history: requests whose cleanup, restore or read-back failed, and
           \* deletions that did not know where the file is

store == <<row, disk, backup>>
served == <<headers, body>>
past  == <<mixed, torn>>
vars  == <<store, backupPath, op, file, pc, served, faults, past>>

Operations == {"none", "upload", "replace", "delete", "stream"}
Ends       == {"done", "failed", "crashed"}
Steps      == {"write", "save", "saved", "rollback", "backup", "exists", "unlink",
               "copy", "find", "update", "updated", "dropUpload", "dropBackup",
               "restore", "restored", "deleteRow", "deleteFile", "stat", "send"}

Busy(r) == pc[r] \in Steps

Init ==
  /\ row    = [f \in Files |-> IF f = Seed THEN Seed ELSE None]
  /\ disk   = row
  /\ backup = [r \in Requests |-> None]
  /\ backupPath = [r \in Requests |-> None]
  /\ op     = [r \in Requests |-> "none"]
  /\ file   = [r \in Requests |-> None]
  /\ pc     = [r \in Requests |-> "new"]
  /\ headers = [r \in Requests |-> None]
  /\ body   = [r \in Requests |-> None]
  /\ faults = 0
  /\ mixed  = {} /\ torn = {}

-----------------------------------------------------------------------------
(* Parts of the steps. *)

Goto(r, from, to) == pc[r] = from /\ pc' = [pc EXCEPT ![r] = to]

PutFile(path, content) == disk' = [disk EXCEPT ![path] = content] /\ UNCHANGED <<row, backup>>
PutRow(f, upload)      == row' = [row EXCEPT ![f] = upload] /\ UNCHANGED <<disk, backup>>
PutBackup(path, content) == backup' = [backup EXCEPT ![path] = content] /\ UNCHANGED <<row, disk>>

\* An await that resolves, one that rejects, and one whose rejection leaves
\* the store behind in a state nobody repairs.
Fault == faults < MaxFaults /\ faults' = faults + 1

Resolve(r, from, to) ==
  Goto(r, from, to) /\ UNCHANGED <<backupPath, op, file, served, faults, past>>

Reject(r, from, to) ==
  Goto(r, from, to) /\ Fault /\ UNCHANGED <<store, backupPath, op, file, served, past>>

Tear(r, from, to) ==
  /\ Goto(r, from, to) /\ Fault
  /\ torn' = torn \cup {r}
  /\ UNCHANGED <<backupPath, op, file, served, mixed>>

Advance(r, from, to) == Resolve(r, from, to) /\ UNCHANGED store

\* Requests on the same file, one of them changing it, that r meets as it starts.
Meets(r, f, what) ==
  {q \in Requests \ {r} : /\ Busy(q) /\ file[q] = f
                          /\ what # "stream" \/ op[q] # "stream"}

Begin(r, what, f, first) ==
  /\ Goto(r, "new", first)
  /\ op' = [op EXCEPT ![r] = what]
  /\ file' = [file EXCEPT ![r] = f]
  /\ mixed' = IF Meets(r, f, what) = {} THEN mixed
              ELSE mixed \cup {r} \cup Meets(r, f, what)
  /\ UNCHANGED <<store, backupPath, body, faults, torn>>

-----------------------------------------------------------------------------
(* processFileUpload, shared by POST and PATCH. *)

WriteUpload(r) ==
  /\ Resolve(r, "write", IF op[r] = "upload" THEN "save" ELSE "backup")
  /\ PutFile(r, r)

\* A failed writeFile may leave the start of the file behind; nobody removes it.
WriteUploadError(r) ==
  Tear(r, "write", "failed") /\ \E left \in {None, r} : PutFile(r, left)

-----------------------------------------------------------------------------
(* uploadFile *)

Upload(r) == Begin(r, "upload", r, "write") /\ UNCHANGED headers

\* DynamicRepository.create saves the row, then reads it back to return it.
SaveRow(r)      == Resolve(r, "save", "saved") /\ PutRow(r, r)
SaveRowError(r) == Reject(r, "save", "rollback")
ReturnSaved(r)  == Advance(r, "saved", "done")

\* The row stays when its read-back fails; the file is rolled back all the same.
ReturnSavedError(r) == Tear(r, "saved", "rollback") /\ UNCHANGED store

Rollback(r)      == Resolve(r, "rollback", "failed") /\ PutFile(r, None)
RollbackError(r) == Tear(r, "rollback", "failed") /\ UNCHANGED store

-----------------------------------------------------------------------------
(* updateFile with a new file.  Its outer catch only rethrows: when it fails *)
(* the new upload stays on disk.                                             *)

Replace(r, f) == row[f] # None /\ Begin(r, "replace", f, "write") /\ UNCHANGED headers

\* The backup paths of replacements of r's file that are still at work: another
\* one is over, after queries to the database, in a later millisecond.
PathsNow(r) == {backupPath[q] : q \in {q \in Requests : Busy(q) /\ file[q] = file[r]}} \ {None}

\* copyFile overwrites what another replacement has kept there.
Backup(r) ==
  /\ Goto(r, "backup", "exists") /\ disk[file[r]] # None
  /\ \E path \in {r} \cup PathsNow(r) :
       /\ PutBackup(path, disk[file[r]])
       /\ backupPath' = [backupPath EXCEPT ![r] = path]
  /\ UNCHANGED <<op, file, served, faults, past>>

\* No file at the location, or no location: the row was read with the fields
\* the client asked for.
BackupRefused(r) == Advance(r, "backup", "failed")
BackupError(r)   == Reject(r, "backup", "failed")

ReplaceExists(r) ==
  Advance(r, "exists", IF disk[file[r]] # None THEN "unlink" ELSE "restore")

UnlinkOld(r) ==
  /\ Resolve(r, "unlink", "copy") /\ disk[file[r]] # None
  /\ PutFile(file[r], None)

UnlinkOldGone(r)  == Advance(r, "unlink", "restore") /\ disk[file[r]] = None
UnlinkOldError(r) == Reject(r, "unlink", "restore")

CopyNew(r)      == Resolve(r, "copy", "find") /\ PutFile(file[r], disk[r])

\* Mutant of CopyNewError: the old content is not restored.
CopyNewErrorLost(r) == Reject(r, "copy", "failed")

CopyNewError(r) == Reject(r, "copy", "restore")

\* DynamicRepository.update: find, save, read back.  save of an entity with an
\* id inserts it when the row is no longer there.
FindRow(r)        == Advance(r, "find", IF row[file[r]] # None THEN "update" ELSE "restore")
FindRowError(r)   == Reject(r, "find", "restore")

\* Mutants of UpdateRow and UpdateRowError: the metadata stay, no restore.
UpdateRowNothing(r)   == Resolve(r, "update", "updated") /\ PutRow(file[r], row[file[r]])
UpdateRowErrorKept(r) == Reject(r, "update", "failed")

UpdateRow(r)      == Resolve(r, "update", "updated") /\ PutRow(file[r], r)
UpdateRowError(r) == Reject(r, "update", "restore")

\* Mutant of ReturnUpdated: the temporary upload is forgotten.
ReturnUpdatedLittered(r) == Advance(r, "updated", "dropBackup")

ReturnUpdated(r)  == Advance(r, "updated", "dropUpload")

\* The new metadata is committed, and the old content is restored.
ReturnUpdatedError(r) == Tear(r, "updated", "restore") /\ UNCHANGED store

\* rollbackFileCreation and deleteBackupFile log their errors and go on.
DropUpload(r)      == Resolve(r, "dropUpload", "dropBackup") /\ PutFile(r, None)
DropUploadError(r) == Tear(r, "dropUpload", "dropBackup") /\ UNCHANGED store
DropBackup(r)      == Resolve(r, "dropBackup", "done") /\ PutBackup(backupPath[r], None)
DropBackupError(r) == Tear(r, "dropBackup", "done") /\ UNCHANGED store

Restore(r) ==
  /\ Resolve(r, "restore", "restored") /\ backup[backupPath[r]] # None
  /\ PutFile(file[r], backup[backupPath[r]])

\* A backup that another replacement dropped is only a warning.
RestoreMissing(r) == Advance(r, "restore", "failed") /\ backup[backupPath[r]] = None
RestoreError(r)   == Tear(r, "restore", "failed") /\ UNCHANGED store

DropRestored(r)      == Resolve(r, "restored", "failed") /\ PutBackup(backupPath[r], None)
DropRestoredError(r) == Tear(r, "restored", "failed") /\ UNCHANGED store

-----------------------------------------------------------------------------
(* deleteFile *)

Delete(r, f) == row[f] # None /\ Begin(r, "delete", f, "deleteRow") /\ UNCHANGED headers

DeleteRow(r) ==
  /\ Resolve(r, "deleteRow", "deleteFile") /\ row[file[r]] # None
  /\ PutRow(file[r], None)

DeleteRowGone(r)  == Advance(r, "deleteRow", "failed") /\ row[file[r]] = None
DeleteRowError(r) == Reject(r, "deleteRow", "failed")

DeleteFile(r) == Resolve(r, "deleteFile", "done") /\ PutFile(file[r], None)

\* Logged; the caller is told the file is gone.
DeleteFileError(r) == Tear(r, "deleteFile", "done") /\ UNCHANGED store

\* So is a row that the client's fields read without its location.
DeleteFileUnlocated(r) ==
  /\ Goto(r, "deleteFile", "done")
  /\ torn' = torn \cup {r}
  /\ UNCHANGED <<store, backupPath, op, file, served, faults, mixed>>

-----------------------------------------------------------------------------
(* streamFile, of a file that is no resized image *)

Stream(r, f) ==
  /\ row[f] # None
  /\ Begin(r, "stream", f, "stat")
  /\ headers' = [headers EXCEPT ![r] = row[f]]

StatFile(r) == Advance(r, "stat", IF disk[file[r]] # None THEN "send" ELSE "failed")

Send(r) ==
  /\ Goto(r, "send", IF disk[file[r]] # None THEN "done" ELSE "failed")
  /\ body' = [body EXCEPT ![r] = disk[file[r]]]
  /\ UNCHANGED <<store, backupPath, op, file, headers, faults, past>>

-----------------------------------------------------------------------------
(* The process dies; nothing looks for what its requests left. *)
Crash ==
  /\ \E r \in Requests : Busy(r)
  /\ Fault
  /\ pc' = [r \in Requests |-> IF Busy(r) THEN "crashed" ELSE pc[r]]
  /\ torn' = torn \cup {r \in Requests : Busy(r)}
  /\ UNCHANGED <<store, backupPath, op, file, served, mixed>>

Receive(r) ==
  \/ Upload(r)
  \/ \E f \in Files : Replace(r, f) \/ Delete(r, f) \/ Stream(r, f)

ServeUpload(r) ==
  \/ WriteUpload(r) \/ WriteUploadError(r)
  \/ SaveRow(r)     \/ SaveRowError(r)
  \/ ReturnSaved(r) \/ ReturnSavedError(r)
  \/ Rollback(r)    \/ RollbackError(r)

ServeReplace(r) ==
  \/ Backup(r)    \/ BackupRefused(r) \/ BackupError(r)
  \/ ReplaceExists(r)
  \/ UnlinkOld(r) \/ UnlinkOldGone(r) \/ UnlinkOldError(r)
  \/ CopyNew(r)       \/ CopyNewError(r)
  \/ FindRow(r)       \/ FindRowError(r)
  \/ UpdateRow(r)     \/ UpdateRowError(r)
  \/ ReturnUpdated(r) \/ ReturnUpdatedError(r)
  \/ DropUpload(r)    \/ DropUploadError(r)
  \/ DropBackup(r)    \/ DropBackupError(r)
  \/ Restore(r)       \/ RestoreMissing(r) \/ RestoreError(r)
  \/ DropRestored(r)  \/ DropRestoredError(r)

ServeDelete(r) ==
  \/ DeleteRow(r)  \/ DeleteRowGone(r) \/ DeleteRowError(r)
  \/ DeleteFile(r) \/ DeleteFileError(r)  \/ DeleteFileUnlocated(r)

ServeStream(r) == StatFile(r) \/ Send(r)

Next ==
  \/ Crash
  \/ \E r \in Requests :
       Receive(r) \/ ServeUpload(r) \/ ServeReplace(r) \/ ServeDelete(r) \/ ServeStream(r)

Spec == Init /\ [][Next]_vars

-----------------------------------------------------------------------------
(* Properties. *)

\* Row, disk and backups hold uploads, a request has an operation and a file
\* exactly from its start on, and a stream sends only what it found.
TypeOK ==
  /\ row \in [Files -> Content] /\ disk \in [Files -> Content]
  /\ backup \in [Requests -> Content] /\ backupPath \in [Requests -> Requests \cup {None}]
  /\ op \in [Requests -> Operations] /\ file \in [Requests -> Content]
  /\ pc \in [Requests -> Steps \cup Ends \cup {"new"}]
  /\ headers \in [Requests -> Content] /\ body \in [Requests -> Content]
  /\ faults \in 0..MaxFaults
  /\ mixed \subseteq Requests /\ torn \subseteq Requests
  /\ \A r \in Requests : pc[r] = "new" <=> op[r] = "none"
  /\ \A r \in Requests : (pc[r] = "new" <=> file[r] = None) /\ (body[r] # None => op[r] = "stream")

WritersOf(f) == {r \in Requests : file[r] = f /\ op[r] \in {"upload", "replace", "delete"}}
Stored       == {f \in Files : f = Seed \/ op[f] = "upload"}
Swapping(r)  == pc[r] \in {"copy", "restore"}

\* r failed, and had its backup's path in common with another replacement.
Robbed(r) ==
  pc[r] = "failed" /\ backupPath[r] # None /\ \E q \in Requests \ {r} : backupPath[q] = backupPath[r]

\* However replacements of a file interleave, and whichever of their steps
\* fails, the file is not lost: a row without a physical file means that a
\* replacement is between unlink and copy (or restore), that a cleanup or a
\* read-back failed or the process died, that a replacement's save met the deletion
\* of the row, or that one that failed shared its backup with another.
RowHasFile ==
  \A f \in Files :
    row[f] # None /\ disk[f] = None =>
      \/ \E r \in WritersOf(f) : Swapping(r) \/ r \in torn \/ Robbed(r)
      \/ \E r, q \in WritersOf(f) \cap mixed : op[r] = "replace" /\ op[q] = "delete"

\* Once the requests on a file are over, and neither overlapped another nor had
\* its cleanup fail, row and file are both there or both gone and the metadata
\* describes the content: an error before the commit undoes the replacement.
Consistent ==
  \A f \in Stored :
    (\A r \in WritersOf(f) : pc[r] \in Ends /\ r \notin mixed \cup torn) => row[f] = disk[f]

\* A backup on disk is one of a replacement still at work, or one whose cleanup
\* failed; a request that succeeds leaves no temporary upload.  What else stays
\* on disk besides the stored files are uploads of replacements that failed.
NoLitter ==
  /\ \A path \in Requests :
       backup[path] # None => \E r \in Requests : backupPath[r] = path /\ (Busy(r) \/ r \in torn)
  /\ \A r \in Requests : pc[r] = "done" /\ r \notin torn /\ disk[r] # None => r \in Stored

\* A stream of a file nobody is changing succeeds, and sends the content its
\* headers describe, unless an earlier change was torn or raced.
StreamIsWhole ==
  \A r \in Requests :
    /\ op[r] = "stream" /\ pc[r] \in {"done", "failed"} /\ r \notin mixed
    /\ WritersOf(file[r]) \cap (mixed \cup torn) = {}
    => pc[r] = "done" /\ body[r] = headers[r]
=============================================================================
