---------------------------- MODULE Submissions -----------------------------
(***************************************************************************)
(* The work handed in for one registration, and the files behind it: the   *)
(* requests of its owner that create and delete the submission, and those  *)
(* that upload and delete files directly, each await a step.  The effect   *)
(* of the storage awaits is in Storage; treasurers meanwhile decide        *)
(* (module Payments has their requests in full).                           *)
(*                                                                         *)
(* uq_submission_registration lets one row exist per registration.  A row  *)
(* is identified by the file of its work, which no other row ever shares.  *)
(***************************************************************************)
EXTENDS Storage, SequencesExt

CONSTANTS
  Requests,  \* HTTP requests that can be in flight at the same time
  Staff      \* users with role ADMIN or COMMITTEE

VARIABLES
  submission,  \* the row's files: work and statement of originality, or None
  verified,    \* the registration's status is VERIFIED
  told,        \* whom notifications tell of the work that is handed in
  pc,          \* the await each request stands at
  job,         \* what each request holds in memory
  overtaken,   \* history: requests that checked the status before the last decision
  unannounced  \* history: the request that handed it in was cut off before all were told

vars == <<storageVars, submission, verified, told, pc, job, overtaken, unannounced>>

----------------------------------------------------------------------------
PC == {"idle", "object", "row", "registration", "insert", "recipients", "notify",
       "file", "unlink", "unrow", "drop"}

\* A request: what it is for, how many files it still has to store, those it
\* has stored or is to delete, and the staff still to be told.
Job ==
  [for : {"submission", "file"}, uploads : 0..2, files : Seq(Files), staff : SUBSET Staff]

NoJob == [for |-> "file", uploads |-> 0, files |-> <<>>, staff |-> {}]

\* The work is the first file, the statement the second.
Row(files) == [work |-> Head(files), originality |-> Tail(files)]

\* There is no submission.
None == [work |-> 0, originality |-> <<>>]

Init ==
  /\ StorageInit
  /\ submission = None
  /\ verified \in BOOLEAN
  /\ told = {}
  /\ pc = [r \in Requests |-> "idle"]
  /\ job = [r \in Requests |-> NoJob]
  /\ overtaken = {} /\ unannounced = FALSE

\* The work of request r is the one that is handed in.
IsCurrent(r) == submission # None /\ submission.work = Head(job[r].files)

Goto(r, where) ==
  /\ pc' = [pc EXCEPT ![r] = where]
  /\ IF where = "idle"
     THEN job' = [job EXCEPT ![r] = NoJob]
     ELSE UNCHANGED job
  /\ overtaken' = overtaken \ {r}

Continue(r, j, where) ==
  /\ pc' = [pc EXCEPT ![r] = where]
  /\ job' = [job EXCEPT ![r] = j]
  /\ UNCHANGED overtaken

----------------------------------------------------------------------------
\* SubmissionsOrchestrator.createSubmission: the work, and perhaps a statement
\* of originality, are uploaded before anything is checked; or POST
\* /storage/upload of any one file.
Upload(r, for, uploads) ==
  /\ pc[r] = "idle"
  /\ for = "file" => uploads = 1
  /\ Continue(r, [NoJob EXCEPT !.for = for, !.uploads = uploads], "object")
  /\ UNCHANGED <<storageVars, submission, verified, told, unannounced>>

\* UploadFileUseCase, the adapter's await.
PutObject(r) ==
  /\ pc[r] = "object"
  /\ UploadObject
  /\ Continue(r, [job[r] EXCEPT !.files = Append(@, fileKeys'), !.uploads = @ - 1], "row")
  /\ UNCHANGED <<submission, verified, told, unannounced>>

\* Mutant of SaveRow: one upload too many.
SaveRowOnceMore(r) ==
  LET files == job[r].files IN
  /\ pc[r] = "row"
  /\ SaveStoredFile(files[Len(files)])
  /\ Goto(r, IF job[r].uploads >= 0 THEN "object"
             ELSE IF job[r].for = "submission" THEN "registration" ELSE "idle")
  /\ UNCHANGED <<submission, verified, told, unannounced>>

\* UploadFileUseCase, the repository's await.
SaveRow(r) ==
  LET files == job[r].files IN
  /\ pc[r] = "row"
  /\ SaveStoredFile(files[Len(files)])
  /\ Goto(r, IF job[r].uploads > 0 THEN "object"
             ELSE IF job[r].for = "submission" THEN "registration" ELSE "idle")
  /\ UNCHANGED <<submission, verified, told, unannounced>>

\* validateRegistrationEligibility: the payment was verified (and the owner asks).
Eligible == verified

\* Mutant of LoadRegistration: the payment is not asked for.
LoadAnyRegistration(r) ==
  /\ pc[r] = "registration"
  /\ Goto(r, "insert")
  /\ UNCHANGED <<storageVars, submission, verified, told, unannounced>>

\* CreateSubmissionUseCase: the registration is loaded and must be verified.
LoadRegistration(r) ==
  /\ pc[r] = "registration"
  /\ Eligible
  /\ Goto(r, "insert")
  /\ UNCHANGED <<storageVars, submission, verified, told, unannounced>>

\* The row is inserted, unless the unique index refuses it (409).
InsertSubmission(r) ==
  /\ pc[r] = "insert"
  /\ submission = None
  /\ submission' = Row(job[r].files)
  /\ Goto(r, "recipients")
  /\ UNCHANGED <<storageVars, verified, told, unannounced>>

\* sendToRoles: the staff are found.
FindRecipients(r) ==
  /\ pc[r] = "recipients"
  /\ Continue(r, [job[r] EXCEPT !.staff = Staff], IF Staff = {} THEN "idle" ELSE "notify")
  /\ UNCHANGED <<storageVars, submission, verified, told, unannounced>>

\* Mutant of NotifyStaff: the request is answered after the first of them.
NotifyFirst(r) ==
  /\ pc[r] = "notify"
  /\ \E u \in job[r].staff : told' = IF IsCurrent(r) THEN told \cup {u} ELSE told
  /\ Goto(r, "idle")
  /\ UNCHANGED <<storageVars, submission, verified, unannounced>>

\* sendToRoles: the next of them is notified.
NotifyStaff(r) ==
  /\ pc[r] = "notify"
  /\ \E u \in job[r].staff :
       /\ told' = IF IsCurrent(r) THEN told \cup {u} ELSE told
       /\ IF job[r].staff = {u} THEN Goto(r, "idle")
          ELSE Continue(r, [job[r] EXCEPT !.staff = @ \ {u}], "notify")
  /\ UNCHANGED <<storageVars, submission, verified, unannounced>>

----------------------------------------------------------------------------
\* DeleteSubmissionUseCase: the row and its registration are loaded; no
\* submission is ever GRADED.
DeleteSubmission(r) ==
  /\ pc[r] = "idle"
  /\ submission # None
  /\ Continue(r, [NoJob EXCEPT !.for = "submission", !.files = <<submission.work>>], "file")
  /\ UNCHANGED <<storageVars, submission, verified, told, unannounced>>

\* DELETE /storage/:id.
DeleteFile(r, f) ==
  /\ pc[r] = "idle"
  /\ f \in stored
  /\ Continue(r, [NoJob EXCEPT !.files = <<f>>], "file")
  /\ UNCHANGED <<storageVars, submission, verified, told, unannounced>>

\* DeleteStoredFileUseCase: the file's row is found, or else a 404 ends the
\* request, the deletion of a submission included.
FindFile(r) ==
  /\ pc[r] = "file"
  /\ FindStoredFile(Head(job[r].files))
  /\ Goto(r, "unlink")
  /\ UNCHANGED <<submission, verified, told, unannounced>>

Unlink(r) ==
  /\ pc[r] = "unlink"
  /\ DeleteObject(Head(job[r].files))
  /\ Goto(r, "unrow")
  /\ UNCHANGED <<submission, verified, told, unannounced>>

DeleteRow(r) ==
  /\ pc[r] = "unrow"
  /\ DeleteStoredFile(Head(job[r].files))
  /\ Goto(r, IF job[r].for = "submission" THEN "drop" ELSE "idle")
  /\ UNCHANGED <<submission, verified, told, unannounced>>

\* Mutant of DropSubmission: whatever is handed in by now is deleted.
DropAnySubmission(r) ==
  /\ pc[r] = "drop"
  /\ submission' = None
  /\ told' = {} /\ unannounced' = FALSE
  /\ Goto(r, "idle")
  /\ UNCHANGED <<storageVars, verified>>

\* The row with the id that was asked for is deleted, if it is still there.
DropSubmission(r) ==
  /\ pc[r] = "drop"
  /\ IF IsCurrent(r)
     THEN submission' = None /\ told' = {} /\ unannounced' = FALSE
     ELSE UNCHANGED <<submission, told, unannounced>>
  /\ Goto(r, "idle")
  /\ UNCHANGED <<storageVars, verified>>

\* A check refuses (400, 404), the store or the database refuses or fails (409,
\* 500), which at the next await may be an answer that was lost, or the process
\* dies.  Nothing is undone.
Fail(r) ==
  /\ pc[r] # "idle"
  /\ Goto(r, "idle")
  /\ unannounced' = (unannounced \/ (pc[r] \in {"recipients", "notify"} /\ IsCurrent(r)))
  /\ UNCHANGED <<storageVars, submission, verified, told>>

\* VerifyPaymentUseCase commits.
Decide ==
  /\ verified' = ~verified
  /\ overtaken' = overtaken \cup {r \in Requests : pc[r] = "insert"}
  /\ UNCHANGED <<storageVars, submission, told, pc, job, unannounced>>

\* SubmissionsController and StorageController start requests.
SubmissionsController(r) ==
  (\E uploads \in 1..2 : Upload(r, "submission", uploads)) \/ DeleteSubmission(r)

StorageController(r) == Upload(r, "file", 1) \/ \E f \in Files : DeleteFile(r, f)

Next ==
  \/ \E r \in Requests :
       \/ SubmissionsController(r)
       \/ StorageController(r)
       \/ PutObject(r) \/ SaveRow(r)
       \/ LoadRegistration(r) \/ InsertSubmission(r)
       \/ FindRecipients(r) \/ NotifyStaff(r)
       \/ FindFile(r) \/ Unlink(r) \/ DeleteRow(r) \/ DropSubmission(r)
       \/ Fail(r)
  \/ Decide

Spec == Init /\ [][Next]_vars

----------------------------------------------------------------------------
\* The variables keep their types.
SubmissionsTypeOK ==
  /\ fileKeys \in 0..MAX_FILES
  /\ objects \subseteq 1..fileKeys /\ stored \subseteq 1..fileKeys
  /\ touched \subseteq 1..fileKeys
  /\ submission = None \/ submission \in [work : Files, originality : Seq(Files)]
  /\ verified \in BOOLEAN
  /\ told \subseteq Staff
  /\ pc \in [Requests -> PC]
  /\ job \in [Requests -> Job]
  /\ overtaken \subseteq Requests
  /\ unannounced \in BOOLEAN

\* A row of stored_files points to an object, and the submission to files that
\* are there as row and as object, unless somebody began to delete the file:
\* whatever fails in between, nothing else makes a link dangle.
FilesAreThere ==
  /\ \A f \in stored \ touched : f \in objects
  /\ submission # None =>
       \A f \in ({submission.work} \cup ToSet(submission.originality)) \ touched : f \in stored

\* A submission is deleted only after the file of its own work: one handed in
\* while an earlier one was being deleted, perhaps twice, stays.
DeletedAfterItsFile ==
  [][submission # None /\ submission' = None => submission.work \notin stored]_vars

\* Request r hands its work in now.
HandsIn(r) == pc[r] = "insert" /\ pc'[r] = "recipients"

\* A submission is accepted for a registration that is verified, unless the
\* treasurer decided between its check and its insert: "Pendaftaran Anda belum diverifikasi
\* atau belum lunas."
VerifiedUnlessOvertaken ==
  [][\A r \in Requests : HandsIn(r) => verified \/ r \in overtaken]_vars

\* Every administrator and committee member is told of the work handed in, by
\* a request that is still at it if not yet, unless that request was cut off.
StaffIsTold ==
  submission # None /\ ~unannounced =>
    \A u \in Staff :
      u \in told \/ \E r \in Requests : pc[r] \in {"recipients", "notify"} /\ IsCurrent(r)
=============================================================================
