------------------------------ MODULE Storage -------------------------------
(***************************************************************************)
(* File storage: an object store behind an adapter (S3, Cloudinary or the  *)
(* local disk) and the table `stored_files`, written one after the other   *)
(* without a transaction around them.  This module has the effect of each  *)
(* await of UploadFileUseCase and DeleteStoredFileUseCase; the requests    *)
(* that perform them are in Submissions.                                   *)
(*                                                                         *)
(* A file is its fileKey, which is drawn at random and here numbered; the  *)
(* row's id is identified with it.  What MIME type and size a file may     *)
(* have are checks of one request's input.                                 *)
(***************************************************************************)
EXTENDS Naturals

CONSTANT MAX_FILES  \* bound on the files ever uploaded

ASSUME StorageAssumption == MAX_FILES \in Nat

VARIABLES
  objects,   \* files in the object store
  stored,    \* files with a row in stored_files
  fileKeys,  \* fileKeys generated so far
  touched    \* history: files whose deletion was begun

storageVars == <<objects, stored, fileKeys, touched>>

Files == 1..MAX_FILES

StorageInit == objects = {} /\ stored = {} /\ fileKeys = 0 /\ touched = {}

\* Mutant of UploadObject: a failure is only logged, as on deleting.
UploadObjectLeniently ==
  /\ fileKeys < MAX_FILES
  /\ fileKeys' = fileKeys + 1
  /\ objects' \in {objects, objects \cup {fileKeys'}}
  /\ UNCHANGED <<stored, touched>>

\* generateFileKey, and the adapter's upload settles well.
UploadObject ==
  /\ fileKeys < MAX_FILES
  /\ fileKeys' = fileKeys + 1
  /\ objects' = objects \cup {fileKeys'}
  /\ UNCHANGED <<stored, touched>>

\* StoredFileRepository.save of a new row.
SaveStoredFile(f) ==
  /\ stored' = stored \cup {f}
  /\ UNCHANGED <<objects, fileKeys, touched>>

\* The row is found: the deletion begins.
FindStoredFile(f) ==
  /\ f \in stored
  /\ touched' = touched \cup {f}
  /\ UNCHANGED <<objects, stored, fileKeys>>

\* The adapter's delete never rejects: it logs a failure and returns.
DeleteObject(f) ==
  /\ objects' \in {objects, objects \ {f}}
  /\ UNCHANGED <<stored, fileKeys, touched>>

\* StoredFileRepository.deleteById.
DeleteStoredFile(f) ==
  /\ stored' = stored \ {f}
  /\ UNCHANGED <<objects, fileKeys, touched>>
=============================================================================
