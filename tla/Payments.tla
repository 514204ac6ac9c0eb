------------------------------ MODULE Payments ------------------------------
(***************************************************************************)
(* The life of one competition registration after it was created: the      *)
(* participant uploads proofs of payment, treasurers approve or reject     *)
(* them, an admin gives champion titles.  Every use case is                *)
(*                                                                         *)
(*     regRepo.findById  ->  checks  ->  mutate  ->  regRepo.save          *)
(*                                                                         *)
(* with an await between the parts, and any number of requests may be      *)
(* between two of their awaits at once.  save() itself re-reads the rows   *)
(* (SaveReload) and later writes the differing columns in a transaction    *)
(* (SaveCommit).                                                           *)
(*                                                                         *)
(* payment_attempts rows are never deleted while the registration exists,  *)
(* so a row is identified by its rank in upload order: rows 1..uploads     *)
(* are in the table, row `uploads` is the latest one.  An attempt is its   *)
(* status: verifiedBy, verifiedAt and rejectionReason are written with it. *)
(***************************************************************************)
EXTENDS Naturals, TypeOrm

CONSTANTS
  Requests,      \* HTTP requests that can be in flight at the same time
  Titles,        \* champion titles
  NONE,          \* ChampionTitle.NONE
  MAX_ATTEMPTS   \* bound of the model: proofs stored in payment_attempts

ASSUME PaymentsAssumption == NONE \in Titles /\ MAX_ATTEMPTS \in Nat

VARIABLES
  registration,  \* the row of competition_registrations
  attempts,      \* the rows of payment_attempts, in upload order
  uploads,       \* how many of them exist
  notices,       \* the kinds of notification written so far
  pc,            \* the await each request stands at
  job,           \* what each request came for
  entity,        \* the entity each request loaded and mutated in memory
  changes,       \* the columns each request's save() is about to write
  current        \* history: no other request wrote since this one began

vars == <<registration, attempts, uploads, notices, pc, job, entity, changes, current>>

----------------------------------------------------------------------------
RegistrationStatus ==
  {"PENDING_PAYMENT", "PENDING_VERIFICATION", "VERIFIED", "REJECTED", "CANCELLED"}

PaymentAttemptStatus == {"PENDING", "APPROVED", "REJECTED"}

RegistrationRow == [status : RegistrationStatus, championTitle : Titles]

Ranks == 1..MAX_ATTEMPTS

\* The entity with its loaded attempts.  The attempt an upload pushes on the
\* array is not among them: it has no row yet and save() will INSERT it.
Entity ==
  [registration : RegistrationRow, attempts : [Ranks -> PaymentAttemptStatus],
   uploads : 0..MAX_ATTEMPTS]

PC == {"idle", "store", "reload", "write", "notify", "broadcast"}

Jobs == {"none", "upload", "APPROVE", "REJECT", "champion"}

Notices == {"staff:uploaded", "participant:SUCCESS", "participant:ERROR", "admin:decided"}

\* The CompetitionRegistrationEntity defaults.
NewRegistration == [status |-> "PENDING_PAYMENT", championTitle |-> NONE]

\* Every row holds, from before its INSERT, the status the INSERT gives it.
NoAttempts == [i \in Ranks |-> "PENDING"]

NothingLoaded ==
  [registration |-> NewRegistration, attempts |-> NoAttempts, uploads |-> 0]

NoChanges == [registration |-> << >>, attempts |-> << >>]

Init ==
  /\ registration = NewRegistration
  /\ attempts = NoAttempts
  /\ uploads = 0
  /\ notices = {}
  /\ pc = [r \in Requests |-> "idle"]
  /\ job = [r \in Requests |-> "none"]
  /\ entity = [r \in Requests |-> NothingLoaded]
  /\ changes = [r \in Requests |-> NoChanges]
  /\ current = [r \in Requests |-> TRUE]

----------------------------------------------------------------------------
\* RegistrationRepository.findById, with the relation paymentAttempts.
findById == [registration |-> registration, attempts |-> attempts, uploads |-> uploads]

\* Mutant of assertCanUploadProof: a proof under verification may be replaced.
CanUploadUnlessVerified(reg) == reg.status # "VERIFIED"

assertCanUploadProof(reg) == reg.status \in {"PENDING_PAYMENT", "REJECTED"}

assertCanVerify(reg) == reg.status \in {"PENDING_VERIFICATION", "VERIFIED", "REJECTED"}

\* Request r, come for j, loaded and mutated the entity e and waits at `where`.
Hold(r, j, e, where) ==
  /\ pc' = [pc EXCEPT ![r] = where]
  /\ job' = [job EXCEPT ![r] = j]
  /\ entity' = [entity EXCEPT ![r] = e]
  /\ UNCHANGED <<registration, attempts, uploads, notices, changes, current>>

\* Request r leaves its handler, with a response or with an exception.
Finish(r) ==
  /\ pc' = [pc EXCEPT ![r] = "idle"]
  /\ job' = [job EXCEPT ![r] = "none"]
  /\ entity' = [entity EXCEPT ![r] = NothingLoaded]
  /\ changes' = [changes EXCEPT ![r] = NoChanges]
  /\ current' = [current EXCEPT ![r] = TRUE]

\* UploadPaymentProofUseCase up to the await of storageOrchestrator.upload.
\* A request its checks refuse changes nothing: it is a stuttering step.
\* MAX_ATTEMPTS only keeps the model finite.
UploadPaymentProof(r) ==
  /\ pc[r] = "idle"
  /\ assertCanUploadProof(registration)
  /\ uploads < MAX_ATTEMPTS
  /\ Hold(r, "upload", findById, "store")

\* Mutants of StoreProof: the save is not awaited before the notification;
\* the status is not set.
StoreProofNotifiesFirst(r) ==
  /\ pc[r] = "store"
  /\ Hold(r, job[r],
          [entity[r] EXCEPT !.registration.status = "PENDING_VERIFICATION"], "notify")
StoreProofForgetsStatus(r) ==
  /\ pc[r] = "store"
  /\ Hold(r, job[r], entity[r], "reload")

\* The file is stored; the new attempt is pushed and the status set, both
\* only in memory.
StoreProof(r) ==
  /\ pc[r] = "store"
  /\ Hold(r, job[r],
          [entity[r] EXCEPT !.registration.status = "PENDING_VERIFICATION"], "reload")

\* Mutants of Decided: the enums are mixed up; only the registration is changed.
DecidedMixesEnums(e, action) ==
  [e EXCEPT !.registration.status = IF action = "APPROVE" THEN "APPROVED" ELSE "REJECTED"]
DecidedForgetsAttempt(e, action) ==
  [e EXCEPT !.registration.status = IF action = "APPROVE" THEN "VERIFIED" ELSE "REJECTED"]

\* The entity after the decision on its latest attempt.
Decided(e, action) ==
  [e EXCEPT
     !.registration.status = IF action = "APPROVE" THEN "VERIFIED" ELSE "REJECTED",
     !.attempts[e.uploads] = IF action = "APPROVE" THEN "APPROVED" ELSE "REJECTED"]

\* VerifyPaymentUseCase up to save: any decision, also on an attempt decided
\* before.  (That a REJECT carries a note is checked before anything changes
\* and is not modelled.)
VerifyPayment(r, action) ==
  /\ pc[r] = "idle"
  /\ assertCanVerify(registration)
  /\ uploads > 0
  /\ Hold(r, action, Decided(findById, action), "reload")

\* Mutant of SetChampion: a champion is taken for verified.
SetChampionVerifies(r, title) ==
  /\ pc[r] = "idle"
  /\ Hold(r, "champion",
          [findById EXCEPT !.registration = [status |-> "VERIFIED", championTitle |-> title]],
          "reload")

\* SetChampionUseCase up to save; it looks at no status.
SetChampion(r, title) ==
  /\ pc[r] = "idle"
  /\ Hold(r, "champion", [findById EXCEPT !.registration.championTitle = title], "reload")

\* Mutant of Orphaned: save() leaves unloaded attempts alone.
OrphansIgnored(e) == FALSE

\* Some attempt is in the table but not in the loaded array: save() takes
\* it for removed from the relation and sets its registrationId to NULL,
\* which that NOT NULL column refuses.
Orphaned(e) == e.uploads < uploads

\* The first half of save(): re-read the rows, work out what to write.
SaveReload(r) ==
  LET e == entity[r] IN
  /\ pc[r] = "reload"
  /\ ~Orphaned(e)
  /\ changes' = [changes EXCEPT ![r] =
       [registration |-> Changes(e.registration, registration),
        attempts |-> Changes(e.attempts, attempts)]]
  /\ entity' = [entity EXCEPT ![r] = NothingLoaded]
  /\ pc' = [pc EXCEPT ![r] = "write"]
  /\ UNCHANGED <<registration, attempts, uploads, notices, job, current>>

\* save() met an orphan: its transaction is rolled back and the request
\* answers 500.
SaveRefused(r) ==
  /\ pc[r] = "reload"
  /\ Orphaned(entity[r])
  /\ Finish(r)
  /\ UNCHANGED <<registration, attempts, uploads, notices>>

\* The transaction of save(): the changed columns and the pushed attempt.
\* SetChampionUseCase then answers, the other two notify first.
SaveCommit(r) ==
  /\ pc[r] = "write"
  /\ registration' = Update(registration, changes[r].registration)
  /\ attempts' = Update(attempts, changes[r].attempts)
  /\ IF job[r] = "upload"
     THEN uploads < MAX_ATTEMPTS /\ uploads' = uploads + 1
     ELSE UNCHANGED uploads
  /\ changes' = [changes EXCEPT ![r] = NoChanges]
  /\ pc' = [pc EXCEPT ![r] = IF job[r] = "champion" THEN "idle" ELSE "notify"]
  /\ job' = [job EXCEPT ![r] = IF @ = "champion" THEN "none" ELSE @]
  /\ current' = [q \in Requests |-> q = r \/ pc[q] = "idle"]
  /\ UNCHANGED <<notices, entity>>

\* sendToRoles([ADMIN, TREASURER]) after an upload.
NotifyStaff(r) ==
  /\ pc[r] = "notify"
  /\ job[r] = "upload"
  /\ notices' = notices \cup {"staff:uploaded"}
  /\ Finish(r)
  /\ UNCHANGED <<registration, attempts, uploads>>

\* sendNotification to the participant after a decision: what this request
\* decided, whatever the row says by now.
NotifyParticipant(r) ==
  /\ pc[r] = "notify"
  /\ job[r] \in {"APPROVE", "REJECT"}
  /\ notices' = notices \cup
       {IF job[r] = "APPROVE" THEN "participant:SUCCESS" ELSE "participant:ERROR"}
  /\ pc' = [pc EXCEPT ![r] = "broadcast"]
  /\ UNCHANGED <<registration, attempts, uploads, job, entity, changes, current>>

\* sendToRoles([ADMIN]) after that.
NotifyAdmin(r) ==
  /\ pc[r] = "broadcast"
  /\ notices' = notices \cup {"admin:decided"}
  /\ Finish(r)
  /\ UNCHANGED <<registration, attempts, uploads>>

\* The await the request stands at rejects (storage, database, deadlock) or
\* the process dies: nothing more of the handler runs, nothing is undone.
Fail(r) ==
  /\ pc[r] # "idle"
  /\ Finish(r)
  /\ UNCHANGED <<registration, attempts, uploads, notices>>

Next ==
  \E r \in Requests :
    \/ UploadPaymentProof(r)
    \/ StoreProof(r)
    \/ \E action \in {"APPROVE", "REJECT"} : VerifyPayment(r, action)
    \/ \E title \in Titles : SetChampion(r, title)
    \/ SaveReload(r)
    \/ SaveRefused(r)
    \/ SaveCommit(r)
    \/ NotifyStaff(r)
    \/ NotifyParticipant(r)
    \/ NotifyAdmin(r)
    \/ Fail(r)

Spec == Init /\ [][Next]_vars

----------------------------------------------------------------------------
\* What a save() may be about to write: some of the columns of a row.
RegistrationChanges ==
  {[c \in S |-> row[c]] : S \in SUBSET {"status", "championTitle"}, row \in RegistrationRow}
AttemptChanges == UNION {[S -> PaymentAttemptStatus] : S \in SUBSET Ranks}

\* The variables keep their types.
TypeOK ==
  /\ registration \in RegistrationRow
  /\ attempts \in [Ranks -> PaymentAttemptStatus]
  /\ uploads \in 0..MAX_ATTEMPTS
  /\ notices \subseteq Notices
  /\ pc \in [Requests -> PC]
  /\ job \in [Requests -> Jobs]
  /\ entity \in [Requests -> Entity]
  /\ changes \in
       [Requests -> [registration : RegistrationChanges, attempts : AttemptChanges]]
  /\ current \in [Requests -> BOOLEAN]

\* A registration waits for its first payment exactly while it has no proof,
\* although every save() may write back a status loaded long before.
PendingPaymentIffNoAttempts ==
  registration.status = "PENDING_PAYMENT" <=> uploads = 0

\* Nobody is notified of a payment of which no proof is in the database.
NoticesHaveProof == notices # {} => uploads > 0

\* The step is that of a request during which another one wrote.
Overtaken == \E r \in Requests : pc'[r] # pc[r] /\ ~current[r]

StatusFollowsLatestAttempt ==
  uploads > 0 =>
    registration.status =
      CASE attempts[uploads] = "PENDING" -> "PENDING_VERIFICATION"
        [] attempts[uploads] = "APPROVED" -> "VERIFIED"
        [] attempts[uploads] = "REJECTED" -> "REJECTED"

\* The status of the registration says what was decided on the latest proof,
\* until a request writes that another has overtaken: whatever is uploaded,
\* decided again or fails before, alone or beside others.
StatusFollowsUnlessOvertaken ==
  [][StatusFollowsLatestAttempt /\ ~Overtaken => StatusFollowsLatestAttempt']_vars

UploadAllowed == registration.status \in {"PENDING_PAYMENT", "REJECTED"}

\* A proof enters the database only while the registration waits for one, or
\* another request wrote between the check and the INSERT.
UploadUnlessOvertaken == [][uploads' > uploads /\ ~Overtaken => UploadAllowed]_vars

\* A proof enters the database only while the registration waits for one:
\* "Hanya bisa diunggah selagi status PENDING_PAYMENT, atau diunggah ulang
\* jika sebelumnya REJECTED".
UploadOnlyWhenAllowed == [][uploads' > uploads => UploadAllowed]_vars

\* A title request changes no payment status ("Khusus Bendahara") and the
\* others change no title ("Khusus Admin"), unless another request wrote
\* between findById and save(): it is then that a column is written back.
OwnColumnsUnlessOvertaken ==
  [][\A r \in Requests :
       SaveCommit(r) /\ current[r] =>
         IF job[r] = "champion"
         THEN registration'.status = registration.status
         ELSE registration'.championTitle = registration.championTitle]_vars

\* However its requests overlap, the registration keeps the promises of
\* Lifecycle to the rest of the system.
Promises == INSTANCE Lifecycle WITH status <- registration.status, evidence <- uploads
ImplementsLifecycle == Promises!Spec
=============================================================================
