--------------------------- MODULE PaymentsProofs ---------------------------
(***************************************************************************)
(* Theorems about Payments, for any set of requests, any set of titles and *)
(* any bound on the attempts.                                              *)
(***************************************************************************)
EXTENDS Payments, TLAPS

\* The statuses the code ever gives a registration.
Reached == {"PENDING_PAYMENT", "PENDING_VERIFICATION", "VERIFIED", "REJECTED"}

\* A row and the number of its proofs that belong together.
Agree(row, n) ==
  /\ row.status \in Reached
  /\ row.status = "PENDING_PAYMENT" <=> n = 0

\* What a request knows at the await of the upload: it asked while a proof
\* was wanted.
StoreInv(r) ==
  pc[r] = "store" => job[r] = "upload" /\ Agree(entity[r].registration, entity[r].uploads)

\* What a request is about to save, and on which proofs it rests.
ReloadInv(r) ==
  pc[r] = "reload" =>
    /\ job[r] # "none"
    /\ IF job[r] = "upload"
       THEN entity[r].registration.status = "PENDING_VERIFICATION"
       ELSE Agree(entity[r].registration, entity[r].uploads)

\* The status a planned save will write: never PENDING_PAYMENT; an upload
\* planned before the first proof writes one, and nobody else does so.
WriteInv(r) ==
  LET c == changes[r].registration IN
  pc[r] = "write" =>
    /\ "status" \in DOMAIN c =>
         /\ c["status"] \in Reached \ {"PENDING_PAYMENT"}
         /\ job[r] = "upload" => c["status"] = "PENDING_VERIFICATION"
    /\ uploads = 0 => ("status" \in DOMAIN c <=> job[r] = "upload")

\* No request was loaded with more proofs than there are.
LoadedInv(r) == entity[r].uploads <= uploads

IInv ==
  /\ TypeOK
  /\ Agree(registration, uploads)
  /\ \A r \in Requests : StoreInv(r) /\ ReloadInv(r) /\ WriteInv(r) /\ LoadedInv(r)

----------------------------------------------------------------------------
\* Changes() of two registration rows is a partial registration row that has
\* the status exactly when the two rows differ in it.
LEMMA RegistrationChanged ==
  ASSUME NEW e \in RegistrationRow, NEW row \in RegistrationRow
  PROVE  LET c == Changes(e, row) IN
         /\ c \in RegistrationChanges
         /\ "status" \in DOMAIN c <=> e.status # row.status
         /\ "status" \in DOMAIN c => c["status"] = e.status
<1> DEFINE c == Changes(e, row)
           S == {d \in {"status", "championTitle"} : e[d] # row[d]}
<1>1. DOMAIN row = {"status", "championTitle"}
  BY DEF RegistrationRow
<1>2. c = [d \in S |-> e[d]]
  BY <1>1 DEF Changes
<1>3. c \in RegistrationChanges
  BY <1>2 DEF RegistrationChanges
<1>4. QED
  BY <1>2, <1>3 DEF RegistrationRow

\* An UPDATE leaves a registration row one, with the planned status if a
\* status was planned.
LEMMA RegistrationUpdated ==
  ASSUME NEW row \in RegistrationRow, NEW c \in RegistrationChanges
  PROVE  /\ Update(row, c) \in RegistrationRow
         /\ Update(row, c).status =
              IF "status" \in DOMAIN c THEN c["status"] ELSE row.status
<1>1. DOMAIN row = {"status", "championTitle"}
  BY DEF RegistrationRow
<1>2. Update(row, c) =
        [status |-> IF "status" \in DOMAIN c THEN c["status"] ELSE row["status"],
         championTitle |->
           IF "championTitle" \in DOMAIN c THEN c["championTitle"] ELSE row["championTitle"]]
  BY <1>1 DEF Update
<1>3. PICK S \in SUBSET {"status", "championTitle"}, other \in RegistrationRow :
        c = [d \in S |-> other[d]]
  BY DEF RegistrationChanges
<1>4. /\ "status" \in DOMAIN c => c["status"] \in RegistrationStatus
      /\ "championTitle" \in DOMAIN c => c["championTitle"] \in Titles
  BY <1>3 DEF RegistrationRow
<1>5. QED
  BY <1>2, <1>4 DEF RegistrationRow

\* The same two facts for the attempts, whose columns are the ranks.
LEMMA AttemptsChanged ==
  ASSUME NEW e \in [Ranks -> PaymentAttemptStatus], NEW rows \in [Ranks -> PaymentAttemptStatus]
  PROVE  Changes(e, rows) \in AttemptChanges
<1>1. Changes(e, rows) \in [{i \in Ranks : e[i] # rows[i]} -> PaymentAttemptStatus]
  BY DEF Changes
<1>2. QED
  BY <1>1 DEF AttemptChanges

\* ... and an UPDATE of them leaves every attempt a status.
LEMMA AttemptsUpdated ==
  ASSUME NEW rows \in [Ranks -> PaymentAttemptStatus], NEW c \in AttemptChanges
  PROVE  Update(rows, c) \in [Ranks -> PaymentAttemptStatus]
<1>1. PICK S \in SUBSET Ranks : c \in [S -> PaymentAttemptStatus]
  BY DEF AttemptChanges
<1>2. QED
  BY <1>1 DEF Update

----------------------------------------------------------------------------
\* Nothing loaded and nothing planned are a proper entity and a proper plan.
LEMMA NothingTyped ==
  /\ NewRegistration \in RegistrationRow
  /\ NoAttempts \in [Ranks -> PaymentAttemptStatus]
  /\ NothingLoaded \in Entity
  /\ NoChanges \in [registration : RegistrationChanges, attempts : AttemptChanges]
<1>1. NewRegistration \in RegistrationRow /\ 0 \in 0..MAX_ATTEMPTS
  BY PaymentsAssumption DEF NewRegistration, RegistrationRow, RegistrationStatus
<1>2. NoAttempts \in [Ranks -> PaymentAttemptStatus]
  BY DEF NoAttempts, PaymentAttemptStatus
<1>3. NothingLoaded \in Entity
  BY <1>1, <1>2 DEF NothingLoaded, Entity
<1>4. << >> \in RegistrationChanges
  <2>1. << >> = [c \in {} |-> NewRegistration[c]]
    OBVIOUS
  <2>2. \A S \in SUBSET {"status", "championTitle"}, row \in RegistrationRow :
          [c \in S |-> row[c]] \in RegistrationChanges
    BY DEF RegistrationChanges
  <2>3. {} \in SUBSET {"status", "championTitle"}
    OBVIOUS
  <2>4. QED
    BY <1>1, <2>1, <2>2, <2>3, Zenon
<1>5. << >> \in AttemptChanges
  <2>1. << >> \in [{} -> PaymentAttemptStatus]
    OBVIOUS
  <2>2. QED
    BY <2>1 DEF AttemptChanges
<1>6. QED
  BY <1>1, <1>2, <1>3, <1>4, <1>5 DEF NoChanges

\* The invariant holds of a registration nobody has paid for yet.
LEMMA InitInv == Init => IInv
<1> SUFFICES ASSUME Init PROVE IInv
  OBVIOUS
<1>1. TypeOK
  BY NothingTyped, PaymentsAssumption DEF Init, TypeOK, PC, Jobs
<1>2. Agree(registration, uploads)
  BY DEF Init, Agree, NewRegistration, Reached
<1>3. \A r \in Requests : StoreInv(r) /\ ReloadInv(r) /\ WriteInv(r) /\ LoadedInv(r)
  BY DEF Init, StoreInv, ReloadInv, WriteInv, LoadedInv, NothingLoaded
<1>4. QED
  BY <1>1, <1>2, <1>3 DEF IInv

----------------------------------------------------------------------------
\* A request that loads and mutates an entity fit for the await it then
\* stands at preserves the invariant: the database does not change.
LEMMA HoldInv ==
  ASSUME IInv, NEW r \in Requests, NEW j \in Jobs \ {"none"}, NEW e \in Entity,
         NEW where \in {"store", "reload"}, Hold(r, j, e, where),
         e.uploads <= uploads,
         where = "store" => j = "upload" /\ Agree(e.registration, e.uploads),
         where = "reload" =>
           IF j = "upload" THEN e.registration.status = "PENDING_VERIFICATION"
           ELSE Agree(e.registration, e.uploads)
  PROVE  IInv'
<1>1. TypeOK'
  BY DEF IInv, TypeOK, Hold, PC
<1>2. Agree(registration, uploads)'
  BY DEF IInv, Hold, Agree
<1>3. ASSUME NEW s \in Requests
      PROVE  (StoreInv(s) /\ ReloadInv(s) /\ WriteInv(s) /\ LoadedInv(s))'
  <2>1. CASE s = r
    <3>1. pc'[s] = where /\ job'[s] = j /\ entity'[s] = e
      BY <2>1 DEF IInv, TypeOK, Hold
    <3>2. QED
      BY <3>1 DEF Hold, StoreInv, ReloadInv, WriteInv, LoadedInv, Agree
  <2>2. CASE s # r
    <3>1. pc'[s] = pc[s] /\ job'[s] = job[s] /\ entity'[s] = entity[s]
      BY <2>2 DEF IInv, TypeOK, Hold
    <3>2. QED
      BY <3>1 DEF IInv, Hold, StoreInv, ReloadInv, WriteInv, LoadedInv, Agree
  <2>3. QED
    BY <2>1, <2>2
<1>4. QED
  BY <1>1, <1>2, <1>3 DEF IInv

\* A request that leaves its handler preserves the invariant.
LEMMA FinishInv ==
  ASSUME IInv, NEW r \in Requests, Finish(r),
         UNCHANGED <<registration, attempts, uploads>>, notices' \subseteq Notices
  PROVE  IInv'
<1>1. NothingLoaded \in Entity /\ NoChanges \in [registration : RegistrationChanges, attempts : AttemptChanges]
  BY NothingTyped
<1>2. TypeOK'
  BY <1>1 DEF IInv, TypeOK, Finish, PC, Jobs
<1>3. Agree(registration, uploads)'
  BY DEF IInv, Agree
<1>4. ASSUME NEW s \in Requests
      PROVE  (StoreInv(s) /\ ReloadInv(s) /\ WriteInv(s) /\ LoadedInv(s))'
  <2>1. CASE s = r
    <3>1. pc'[s] = "idle" /\ entity'[s] = NothingLoaded
      BY <2>1 DEF IInv, TypeOK, Finish
    <3>2. uploads' >= 0
      BY DEF IInv, TypeOK
    <3>3. QED
      BY <3>1, <3>2 DEF StoreInv, ReloadInv, WriteInv, LoadedInv, NothingLoaded
  <2>2. CASE s # r
    <3>1. /\ pc'[s] = pc[s] /\ job'[s] = job[s]
          /\ entity'[s] = entity[s] /\ changes'[s] = changes[s]
      BY <2>2 DEF IInv, TypeOK, Finish
    <3>2. QED
      BY <3>1 DEF IInv, StoreInv, ReloadInv, WriteInv, LoadedInv, Agree
  <2>3. QED
    BY <2>1, <2>2
<1>5. QED
  BY <1>2, <1>3, <1>4 DEF IInv
----------------------------------------------------------------------------
\* The first half of a save preserves the invariant.  With no orphan the
\* entity rests on every stored proof, so a status it differs in is one of
\* those that say a proof exists.
LEMMA SaveReloadInv ==
  ASSUME IInv, NEW r \in Requests, SaveReload(r) PROVE IInv'
<1> DEFINE e == entity[r]
           c == Changes(e.registration, registration)
<1>1. /\ e \in Entity /\ e.uploads = uploads
      /\ e.registration \in RegistrationRow /\ registration \in RegistrationRow
      /\ e.attempts \in [Ranks -> PaymentAttemptStatus]
      /\ attempts \in [Ranks -> PaymentAttemptStatus]
  <2>1. entity[r] \in Entity /\ uploads \in 0..MAX_ATTEMPTS
    BY DEF IInv, TypeOK
  <2>2. entity[r].uploads <= uploads /\ ~(entity[r].uploads < uploads)
    BY DEF IInv, LoadedInv, SaveReload, Orphaned
  <2>3. entity[r].uploads = uploads
    BY <2>1, <2>2, PaymentsAssumption DEF Entity
  <2>4. QED
    BY <2>1, <2>3 DEF IInv, TypeOK, Entity
<1>2. /\ c \in RegistrationChanges
      /\ "status" \in DOMAIN c <=> e.registration.status # registration.status
      /\ "status" \in DOMAIN c => c["status"] = e.registration.status
  BY <1>1, RegistrationChanged
<1>3. Changes(e.attempts, attempts) \in AttemptChanges
  BY <1>1, AttemptsChanged
<1>4. TypeOK'
  BY <1>2, <1>3, NothingTyped DEF IInv, TypeOK, SaveReload, PC
<1>5. Agree(registration, uploads)'
  BY DEF IInv, SaveReload, Agree
<1>6. ASSUME NEW s \in Requests
      PROVE  (StoreInv(s) /\ ReloadInv(s) /\ WriteInv(s) /\ LoadedInv(s))'
  <2>1. CASE s = r
    <3>1. /\ pc'[r] = "write" /\ job'[r] = job[r] /\ entity'[r] = NothingLoaded
          /\ changes'[r].registration = c
      BY DEF IInv, TypeOK, SaveReload
    <3>2. uploads' = uploads /\ uploads >= 0
      BY DEF IInv, TypeOK, SaveReload
    <3>3. job[r] = "upload" => e.registration.status = "PENDING_VERIFICATION"
      BY DEF IInv, ReloadInv, SaveReload
    <3>4. job[r] # "upload" => Agree(e.registration, uploads)
      BY <1>1 DEF IInv, ReloadInv, SaveReload
    <3>5. WriteInv(r)'
      BY <1>2, <3>1, <3>2, <3>3, <3>4 DEF IInv, WriteInv, Agree, Reached
    <3>6. QED
      BY <2>1, <3>1, <3>2, <3>5 DEF StoreInv, ReloadInv, LoadedInv, NothingLoaded
  <2>2. CASE s # r
    <3>1. /\ pc'[s] = pc[s] /\ job'[s] = job[s]
          /\ entity'[s] = entity[s] /\ changes'[s] = changes[s]
      BY <2>2 DEF IInv, TypeOK, SaveReload
    <3>2. QED
      BY <3>1 DEF IInv, SaveReload, StoreInv, ReloadInv, WriteInv, LoadedInv, Agree
  <2>3. QED
    BY <2>1, <2>2
<1>7. QED
  BY <1>4, <1>5, <1>6 DEF IInv

\* What the transaction of a save does to the registration and to the number
\* of proofs.
LEMMA Committed ==
  ASSUME IInv, NEW r \in Requests, SaveCommit(r)
  PROVE  LET c == changes[r].registration IN
         /\ registration' \in RegistrationRow
         /\ registration'.status = IF "status" \in DOMAIN c THEN c["status"]
                                                          ELSE registration.status
         /\ uploads' = IF job[r] = "upload" THEN uploads + 1 ELSE uploads
<1>1. registration \in RegistrationRow /\ changes[r].registration \in RegistrationChanges
  BY DEF IInv, TypeOK
<1>2. QED
  BY <1>1, RegistrationUpdated DEF SaveCommit

\* The commit of a save keeps the invariant.
LEMMA SaveCommitInv ==
  ASSUME IInv, NEW r \in Requests, SaveCommit(r) PROVE IInv'
<1>1. uploads \in 0..MAX_ATTEMPTS /\ uploads' \in 0..MAX_ATTEMPTS /\ uploads <= uploads'
  BY PaymentsAssumption, Committed DEF IInv, TypeOK, SaveCommit
<1>2. TypeOK'
  <2>1. attempts' \in [Ranks -> PaymentAttemptStatus]
    BY AttemptsUpdated DEF IInv, TypeOK, SaveCommit
  <2>2. /\ pc' \in [Requests -> PC] /\ job' \in [Requests -> Jobs]
        /\ changes' \in [Requests ->
             [registration : RegistrationChanges, attempts : AttemptChanges]]
    BY NothingTyped DEF IInv, TypeOK, SaveCommit, PC, Jobs
  <2>3. QED
    BY <1>1, <2>1, <2>2, Committed DEF IInv, TypeOK, SaveCommit
<1>3. Agree(registration, uploads)'
  <2> DEFINE c == changes[r].registration
  <2>1. /\ "status" \in DOMAIN c => c["status"] \in Reached \ {"PENDING_PAYMENT"}
        /\ uploads = 0 => ("status" \in DOMAIN c <=> job[r] = "upload")
    BY DEF IInv, WriteInv, SaveCommit
  <2>2. Agree(registration, uploads)
    BY DEF IInv
  <2>3. /\ registration'.status = IF "status" \in DOMAIN c THEN c["status"]
                                                        ELSE registration.status
        /\ uploads' = IF job[r] = "upload" THEN uploads + 1 ELSE uploads
    BY Committed
  <2> HIDE DEF c
  <2>4. registration'.status \in Reached
    BY <2>1, <2>2, <2>3 DEF Agree
  <2>5. CASE uploads = 0
    BY <1>1, <2>1, <2>2, <2>3, <2>4, <2>5 DEF Agree
  <2>6. CASE uploads # 0
    <3>1. registration'.status # "PENDING_PAYMENT" /\ uploads' # 0
      BY <1>1, <2>1, <2>2, <2>3, <2>6 DEF Agree
    <3>2. QED
      BY <2>4, <3>1 DEF Agree
  <2>7. QED
    BY <2>5, <2>6
<1>4. ASSUME NEW s \in Requests
      PROVE  (StoreInv(s) /\ ReloadInv(s) /\ WriteInv(s) /\ LoadedInv(s))'
  <2>1. entity' = entity
    BY DEF SaveCommit
  <2>2. LoadedInv(s)'
    BY <1>1, <2>1 DEF IInv, TypeOK, LoadedInv, Entity
  <2>3. CASE s = r
    <3>1. pc'[s] \in {"idle", "notify"}
      BY <2>3 DEF IInv, TypeOK, SaveCommit
    <3>2. QED
      BY <2>2, <3>1 DEF StoreInv, ReloadInv, WriteInv
  <2>4. CASE s # r
    <3>1. pc'[s] = pc[s] /\ job'[s] = job[s] /\ changes'[s] = changes[s]
      BY <2>4 DEF IInv, TypeOK, SaveCommit
    <3>2. uploads' = 0 => uploads = 0
      BY <1>1
    <3>3. QED
      BY <2>1, <2>2, <3>1, <3>2 DEF IInv, StoreInv, ReloadInv, WriteInv, Agree
  <2>5. QED
    BY <2>3, <2>4
<1>5. QED
  BY <1>2, <1>3, <1>4 DEF IInv
----------------------------------------------------------------------------
\* Every step keeps the invariant.
LEMMA NextInv == IInv /\ [Next]_vars => IInv'
<1> SUFFICES ASSUME IInv, [Next]_vars PROVE IInv'
  OBVIOUS
<1>1. CASE UNCHANGED vars
  BY <1>1 DEF vars, IInv, TypeOK, Agree, StoreInv, ReloadInv, WriteInv, LoadedInv
<1>2. ASSUME NEW r \in Requests, UploadPaymentProof(r) PROVE IInv'
  <2>1. findById \in Entity /\ findById.uploads = uploads
    BY DEF IInv, TypeOK, Entity, findById
  <2>2. Agree(findById.registration, findById.uploads)
    BY DEF IInv, findById
  <2>3. Hold(r, "upload", findById, "store")
    BY <1>2 DEF UploadPaymentProof
  <2>4. QED
    BY <2>1, <2>2, <2>3, HoldInv DEF IInv, TypeOK, Jobs
<1>3. ASSUME NEW r \in Requests, StoreProof(r) PROVE IInv'
  <2> DEFINE e == [entity[r] EXCEPT !.registration.status = "PENDING_VERIFICATION"]
  <2>1. /\ e \in Entity /\ e.uploads = entity[r].uploads
        /\ e.registration.status = "PENDING_VERIFICATION"
    BY DEF IInv, TypeOK, Entity, RegistrationRow, RegistrationStatus
  <2>2. job[r] = "upload" /\ entity[r].uploads <= uploads
    BY <1>3 DEF IInv, StoreProof, StoreInv, LoadedInv
  <2>3. Hold(r, "upload", e, "reload")
    BY <1>3, <2>2 DEF StoreProof
  <2>4. QED
    BY <2>1, <2>2, <2>3, HoldInv DEF Jobs
<1>4. ASSUME NEW r \in Requests, NEW action \in {"APPROVE", "REJECT"},
             VerifyPayment(r, action)
      PROVE  IInv'
  <2> DEFINE e == Decided(findById, action)
  <2>1. e \in Entity /\ e.uploads = uploads
    BY DEF IInv, TypeOK, Entity, findById, Decided, RegistrationRow, RegistrationStatus,
           PaymentAttemptStatus
  <2>2. e.registration.status \in {"VERIFIED", "REJECTED"} /\ uploads # 0
    BY <1>4 DEF IInv, TypeOK, VerifyPayment, Decided, findById, RegistrationRow
  <2>3. Agree(e.registration, e.uploads)
    BY <2>1, <2>2 DEF Agree, Reached
  <2>4. Hold(r, action, e, "reload")
    BY <1>4 DEF VerifyPayment
  <2>5. action \in Jobs \ {"none"} /\ action # "upload" /\ uploads <= uploads
    BY DEF IInv, TypeOK, Jobs
  <2> HIDE DEF e
  <2>6. QED
    BY <1>4, <2>1, <2>3, <2>4, <2>5, HoldInv
<1>5. ASSUME NEW r \in Requests, NEW title \in Titles, SetChampion(r, title) PROVE IInv'
  <2> DEFINE e == [findById EXCEPT !.registration.championTitle = title]
  <2>1. e \in Entity /\ e.uploads = uploads /\ e.registration.status = registration.status
    BY DEF IInv, TypeOK, Entity, findById, RegistrationRow
  <2>2. Agree(e.registration, e.uploads)
    BY <2>1 DEF IInv, Agree
  <2>3. Hold(r, "champion", e, "reload")
    BY <1>5 DEF SetChampion
  <2>4. "champion" \in Jobs \ {"none"} /\ uploads <= uploads
    BY DEF IInv, TypeOK, Jobs
  <2> HIDE DEF e
  <2>5. QED
    BY <2>1, <2>2, <2>3, <2>4, HoldInv
<1>6. ASSUME NEW r \in Requests, SaveReload(r) PROVE IInv'
  BY <1>6, SaveReloadInv
<1>7. ASSUME NEW r \in Requests, SaveCommit(r) PROVE IInv'
  BY <1>7, SaveCommitInv
<1>8. ASSUME NEW r \in Requests,
             SaveRefused(r) \/ NotifyStaff(r) \/ NotifyAdmin(r) \/ Fail(r)
      PROVE  IInv'
  <2>1. Finish(r) /\ UNCHANGED <<registration, attempts, uploads>>
    BY <1>8 DEF SaveRefused, NotifyStaff, NotifyAdmin, Fail
  <2>2. notices' \subseteq Notices
    BY <1>8 DEF IInv, TypeOK, SaveRefused, NotifyStaff, NotifyAdmin, Fail, Notices
  <2>3. QED
    BY <2>1, <2>2, FinishInv
<1>9. ASSUME NEW r \in Requests, NotifyParticipant(r) PROVE IInv'
  <2>1. TypeOK'
    BY <1>9 DEF IInv, TypeOK, NotifyParticipant, PC, Notices
  <2>2. Agree(registration, uploads)'
    BY <1>9 DEF IInv, NotifyParticipant, Agree
  <2>3. ASSUME NEW s \in Requests
        PROVE  (StoreInv(s) /\ ReloadInv(s) /\ WriteInv(s) /\ LoadedInv(s))'
    <3>1. pc'[s] = IF s = r THEN "broadcast" ELSE pc[s]
      BY <1>9 DEF IInv, TypeOK, NotifyParticipant
    <3>2. QED
      BY <1>9, <3>1 DEF IInv, NotifyParticipant, StoreInv, ReloadInv, WriteInv, LoadedInv, Agree
  <2>4. QED
    BY <2>1, <2>2, <2>3 DEF IInv
<1>10. QED
  BY <1>1, <1>2, <1>3, <1>4, <1>5, <1>6, <1>7, <1>8, <1>9 DEF Next

\* The invariant the other theorems rest on.
THEOREM Invariance == Spec => []IInv
<1>1. QED
  BY InitInv, NextInv, PTL DEF Spec

\* The type invariant, for every constant.
THEOREM TypeCorrect == Spec => []TypeOK
<1>1. IInv => TypeOK
  BY DEF IInv
<1>2. QED
  BY <1>1, Invariance, PTL

\* Any number of overlapping saves, failing anywhere, leaves a registration
\* waiting for its first payment exactly while it has no proof.
THEOREM PendingPayment == Spec => []PendingPaymentIffNoAttempts
<1>1. IInv => PendingPaymentIffNoAttempts
  BY DEF IInv, Agree, PendingPaymentIffNoAttempts
<1>2. QED
  BY <1>1, Invariance, PTL

----------------------------------------------------------------------------
\* Whoever decides or notifies, and whatever was notified, has a proof behind
\* it.
EvidenceInv ==
  /\ notices # {} => uploads > 0
  /\ \A r \in Requests :
       /\ job[r] \in {"APPROVE", "REJECT"} \/ pc[r] \in {"notify", "broadcast"} => uploads > 0
       /\ pc[r] = "write" => job[r] # "none"

\* Steps that leave the proofs and the notices alone, where a request starts
\* to decide or to notify only if there is a proof.
LEMMA EvidenceKept ==
  ASSUME EvidenceInv, UNCHANGED <<uploads, notices>>, NEW r \in Requests,
         \A s \in Requests \ {r} : pc'[s] = pc[s] /\ job'[s] = job[s],
         job'[r] \in {"APPROVE", "REJECT"} \/ pc'[r] \in {"notify", "broadcast"} => uploads > 0,
         pc'[r] = "write" => job'[r] # "none"
  PROVE  EvidenceInv'
BY DEF EvidenceInv

\* Every step keeps the evidence.
LEMMA EvidenceStep == IInv /\ EvidenceInv /\ [Next]_vars => EvidenceInv'
<1> SUFFICES ASSUME IInv, EvidenceInv, [Next]_vars PROVE EvidenceInv'
  OBVIOUS
<1>t. pc \in [Requests -> PC] /\ job \in [Requests -> Jobs] /\ uploads \in Nat
  BY PaymentsAssumption DEF IInv, TypeOK
<1>1. CASE UNCHANGED vars
  BY <1>1 DEF vars, EvidenceInv
<1>2. ASSUME NEW r \in Requests, UploadPaymentProof(r) \/ StoreProof(r) PROVE EvidenceInv'
  <2>1. /\ UNCHANGED <<uploads, notices>> /\ pc'[r] \in {"store", "reload"}
        /\ job'[r] = "upload" \/ job'[r] = job[r]
        /\ \A s \in Requests \ {r} : pc'[s] = pc[s] /\ job'[s] = job[s]
    BY <1>2, <1>t DEF UploadPaymentProof, StoreProof, Hold
  <2> QED
    BY <2>1, EvidenceKept DEF EvidenceInv
<1>3. ASSUME NEW r \in Requests, NEW action \in {"APPROVE", "REJECT"},
             VerifyPayment(r, action)
      PROVE  EvidenceInv'
  <2>1. /\ UNCHANGED <<uploads, notices>> /\ uploads > 0 /\ pc'[r] # "write"
        /\ \A s \in Requests \ {r} : pc'[s] = pc[s] /\ job'[s] = job[s]
    BY <1>3, <1>t DEF VerifyPayment, Hold
  <2> QED
    BY <2>1, EvidenceKept
<1>4. ASSUME NEW r \in Requests, NEW title \in Titles, SetChampion(r, title)
      PROVE  EvidenceInv'
  <2>1. /\ UNCHANGED <<uploads, notices>> /\ pc'[r] = "reload" /\ job'[r] = "champion"
        /\ \A s \in Requests \ {r} : pc'[s] = pc[s] /\ job'[s] = job[s]
    BY <1>4, <1>t DEF SetChampion, Hold
  <2> QED
    BY <2>1, EvidenceKept
<1>5. ASSUME NEW r \in Requests, SaveReload(r) PROVE EvidenceInv'
  <2>1. /\ UNCHANGED <<uploads, notices, job>> /\ pc'[r] = "write" /\ job[r] # "none"
        /\ \A s \in Requests \ {r} : pc'[s] = pc[s] /\ job'[s] = job[s]
    BY <1>5, <1>t DEF SaveReload, IInv, ReloadInv
  <2> QED
    BY <2>1, EvidenceKept DEF EvidenceInv
<1>6. ASSUME NEW r \in Requests, SaveCommit(r) PROVE EvidenceInv'
  <2>1. UNCHANGED notices /\ uploads' = IF job[r] = "upload" THEN uploads + 1 ELSE uploads
    BY <1>6, Committed DEF SaveCommit
  <2>2. uploads > 0 => uploads' > 0
    BY <2>1, <1>t
  <2>3. job[r] \in {"upload", "APPROVE", "REJECT"} => uploads' > 0
    BY <2>1, <1>t DEF EvidenceInv
  <2>4. /\ pc'[r] = "notify" => job[r] # "champion"
        /\ pc'[r] \in {"idle", "notify"} /\ job'[r] \in {job[r], "none"}
        /\ \A s \in Requests \ {r} : pc'[s] = pc[s] /\ job'[s] = job[s]
    BY <1>6, <1>t DEF SaveCommit
  <2>5. job[r] # "none"
    BY <1>6 DEF SaveCommit, EvidenceInv
  <2> QED
    BY <1>t, <2>1, <2>2, <2>3, <2>4, <2>5 DEF EvidenceInv, Jobs
<1>7. ASSUME NEW r \in Requests, SaveRefused(r) \/ Fail(r) PROVE EvidenceInv'
  <2>1. /\ UNCHANGED <<uploads, notices>> /\ pc'[r] = "idle" /\ job'[r] = "none"
        /\ \A s \in Requests \ {r} : pc'[s] = pc[s] /\ job'[s] = job[s]
    BY <1>7, <1>t DEF SaveRefused, Fail, Finish
  <2> QED
    BY <2>1, EvidenceKept
<1>8. ASSUME NEW r \in Requests, NotifyStaff(r) \/ NotifyParticipant(r) \/ NotifyAdmin(r)
      PROVE  EvidenceInv'
  <2>1. /\ UNCHANGED uploads /\ pc[r] \in {"notify", "broadcast"} /\ pc'[r] # "write"
        /\ \A s \in Requests \ {r} : pc'[s] = pc[s] /\ job'[s] = job[s]
    BY <1>8, <1>t DEF NotifyStaff, NotifyParticipant, NotifyAdmin, Finish
  <2>2. uploads > 0
    BY <2>1 DEF EvidenceInv
  <2> QED
    BY <2>1, <2>2 DEF EvidenceInv
<1> QED
  BY <1>1, <1>2, <1>3, <1>4, <1>5, <1>6, <1>7, <1>8 DEF Next

\* Nobody is notified of a payment of which no proof is stored.
THEOREM NoticesProved == Spec => []NoticesHaveProof
<1>1. Init => EvidenceInv
  BY DEF Init, EvidenceInv
<1>2. EvidenceInv => NoticesHaveProof
  BY DEF EvidenceInv, NoticesHaveProof
<1> QED
  BY <1>1, <1>2, EvidenceStep, Invariance, PTL DEF Spec

----------------------------------------------------------------------------
\* A step that leaves the registration and the number of proofs alone.
LEMMA Stutter ==
  ASSUME UNCHANGED <<registration, uploads>>
  PROVE  UNCHANGED <<registration.status, uploads>>
  OBVIOUS

\* Every step of the requests is a step of Lifecycle or leaves it alone:
\* only a commit touches the registration.
LEMMA StepKeepsPromises ==
  IInv /\ [Next]_vars => [Promises!Next]_<<registration.status, uploads>>
<1> SUFFICES ASSUME IInv, [Next]_vars
             PROVE  [Promises!Next]_<<registration.status, uploads>>
  OBVIOUS
<1>1. ASSUME NEW r \in Requests, SaveCommit(r)
      PROVE  [Promises!Next]_<<registration.status, uploads>>
  <2> DEFINE c == changes[r].registration
  <2>1. /\ "status" \in DOMAIN c =>
             /\ c["status"] \in Reached \ {"PENDING_PAYMENT"}
             /\ job[r] = "upload" => c["status"] = "PENDING_VERIFICATION"
        /\ uploads = 0 => ("status" \in DOMAIN c <=> job[r] = "upload")
    BY <1>1 DEF IInv, WriteInv, SaveCommit
  <2>2. /\ registration'.status = IF "status" \in DOMAIN c THEN c["status"]
                                                        ELSE registration.status
        /\ uploads' = IF job[r] = "upload" THEN uploads + 1 ELSE uploads
    BY <1>1, Committed
  <2>3. uploads \in Nat
    BY PaymentsAssumption DEF IInv, TypeOK
  <2> HIDE DEF c
  <2>4. CASE job[r] = "upload"
    <3>1. \/ registration'.status = "PENDING_VERIFICATION"
          \/ uploads > 0 /\ registration'.status = registration.status
      <4>1. CASE "status" \in DOMAIN c
        BY <2>1, <2>2, <2>4, <4>1
      <4>2. CASE "status" \notin DOMAIN c
        <5>1. uploads # 0
          BY <2>1, <2>4, <4>2
        <5>2. QED
          BY <2>2, <2>3, <4>2, <5>1
      <4>3. QED
        BY <4>1, <4>2
    <3>2. QED
      BY <2>2, <2>4, <3>1 DEF Promises!Next, Promises!Submit
  <2>5. CASE job[r] # "upload" /\ "status" \in DOMAIN c
    <3>1. uploads > 0 /\ registration'.status \in Promises!WithProof
      BY <2>1, <2>2, <2>3, <2>5 DEF Reached, Promises!WithProof
    <3>2. QED
      BY <2>2, <2>5, <3>1 DEF Promises!Next, Promises!Settle
  <2>6. CASE job[r] # "upload" /\ "status" \notin DOMAIN c
    BY <2>2, <2>6
  <2>7. QED
    BY <2>4, <2>5, <2>6
<1>2. ASSUME ~ \E r \in Requests : SaveCommit(r)
      PROVE  UNCHANGED <<registration, uploads>>
  BY <1>2 DEF Next, vars, UploadPaymentProof, StoreProof, VerifyPayment, SetChampion, Hold,
              SaveReload, SaveRefused, NotifyStaff, NotifyParticipant, NotifyAdmin, Fail
<1>3. QED
  BY <1>1, <1>2, Stutter

\* Payments implements Lifecycle, for any number of overlapping requests.
THEOREM KeepsPromises == Spec => ImplementsLifecycle
<1>1. Init => Promises!Init
  BY DEF Init, NewRegistration, Promises!Init
<1>2. QED
  BY <1>1, StepKeepsPromises, Invariance, PTL DEF Spec, ImplementsLifecycle, Promises!Spec

----------------------------------------------------------------------------
\* Writing to a row the columns in which it differs makes it what was wanted.
LEMMA UpdateByChanges ==
  ASSUME NEW D, NEW e, NEW row, e = [c \in D |-> e[c]], row = [c \in D |-> row[c]]
  PROVE  Update(row, Changes(e, row)) = e
<1>1. DOMAIN row = D
  BY Zenon
<1>2. DOMAIN Changes(e, row) = {d \in D : e[d] # row[d]}
  BY <1>1 DEF Changes
<1>3. \A c \in D : Update(row, Changes(e, row))[c] = e[c]
  BY <1>1, <1>2 DEF Update, Changes
<1>4. Update(row, Changes(e, row)) = [c \in D |-> Update(row, Changes(e, row))[c]]
  BY <1>1 DEF Update
<1> QED
  BY <1>3, <1>4

\* What a request come for j makes of the registration when no other has
\* written since it read: an upload or a decision leaves the title alone, a
\* title request the status, and only a decision changes an attempt, the latest.
Intended(j, reg, att) ==
  \/ /\ j = "upload"
     /\ registration.status \in {"PENDING_PAYMENT", "REJECTED"}
     /\ reg.status = "PENDING_VERIFICATION"
     /\ reg.championTitle = registration.championTitle
     /\ att = attempts
  \/ /\ j \in {"APPROVE", "REJECT"}
     /\ uploads > 0
     /\ reg.status = IF j = "APPROVE" THEN "VERIFIED" ELSE "REJECTED"
     /\ reg.championTitle = registration.championTitle
     /\ att = [attempts EXCEPT ![uploads] = IF j = "APPROVE" THEN "APPROVED" ELSE "REJECTED"]
  \/ /\ j = "champion"
     /\ reg.status = registration.status
     /\ att = attempts

\* What a request that no other has overtaken knows: it still intends at its
\* save what it came for.
Knows(j, e, c, at) ==
  /\ at = "store" => e = findById /\ UploadAllowed
  /\ at = "reload" => Intended(j, e.registration, e.attempts)
  /\ at = "write" =>
       Intended(j, Update(registration, c.registration), Update(attempts, c.attempts))

\* What each request knows, overtaken or not, of the attempts to come: they
\* have the status of their INSERT.
Held(e, c, at) ==
  /\ at \in {"store", "reload"} => \A i \in Ranks : i > e.uploads => e.attempts[i] = "PENDING"
  /\ at = "write" => \A i \in DOMAIN c.attempts : i <= uploads

CurrentInv ==
  /\ \A i \in Ranks : i > uploads => attempts[i] = "PENDING"
  /\ \A r \in Requests :
       /\ Held(entity[r], changes[r], pc[r])
       /\ current[r] => Knows(job[r], entity[r], changes[r], pc[r])

\* It holds before the first request.
LEMMA CurrentInit == Init => CurrentInv
BY DEF Init, CurrentInv, Knows, Held, NoAttempts

\* A step that leaves the rows alone keeps it if the request that makes it
\* knows what it has to at its next await.
LEMMA CurrentQuiet ==
  ASSUME CurrentInv, NEW r \in Requests, UNCHANGED <<registration, attempts, uploads>>,
         \A q \in Requests \ {r} :
           /\ pc'[q] = pc[q] /\ job'[q] = job[q] /\ entity'[q] = entity[q]
           /\ changes'[q] = changes[q] /\ current'[q] = current[q],
         Held(entity[r], changes[r], pc[r])',
         (current[r] => Knows(job[r], entity[r], changes[r], pc[r]))'
  PROVE  CurrentInv'
<1>1. ASSUME NEW q \in Requests \ {r}
      PROVE  (Held(entity[q], changes[q], pc[q])
                /\ (current[q] => Knows(job[q], entity[q], changes[q], pc[q])))'
  <2>1. /\ pc'[q] = pc[q] /\ job'[q] = job[q] /\ entity'[q] = entity[q]
        /\ changes'[q] = changes[q] /\ current'[q] = current[q]
        /\ Held(entity[q], changes[q], pc[q])
        /\ current[q] => Knows(job[q], entity[q], changes[q], pc[q])
    BY DEF CurrentInv
  <2>2. Held(entity[q], changes[q], pc[q])'
    BY <2>1 DEF Held
  <2>3. Knows(job[q], entity[q], changes[q], pc[q]) => Knows(job[q], entity[q], changes[q], pc[q])'
    BY <2>1 DEF Knows, Intended, UploadAllowed, findById
  <2> QED
    BY <2>1, <2>2, <2>3
<1> QED
  BY <1>1 DEF CurrentInv

\* A request that goes on in memory keeps its intention.
LEMMA CurrentHold ==
  ASSUME IInv, CurrentInv, NEW r \in Requests, NEW j, NEW e, NEW where \in {"store", "reload"},
         Hold(r, j, e, where), Held(e, changes[r], where),
         current[r] => Knows(j, e, changes[r], where)
  PROVE  CurrentInv'
<1>1. /\ pc'[r] = where /\ job'[r] = j /\ entity'[r] = e /\ changes' = changes /\ current' = current
      /\ UNCHANGED <<registration, attempts, uploads>>
      /\ \A q \in Requests \ {r} : pc'[q] = pc[q] /\ job'[q] = job[q] /\ entity'[q] = entity[q]
  BY DEF Hold, IInv, TypeOK
<1>2. Held(entity[r], changes[r], pc[r])'
  BY <1>1 DEF Held
<1>3. (current[r] => Knows(job[r], entity[r], changes[r], pc[r]))'
  BY <1>1 DEF Knows, Intended, UploadAllowed, findById
<1> QED
  BY <1>1, <1>2, <1>3, CurrentQuiet

\* A request that is past its save intends nothing more.
LEMMA CurrentEnds ==
  ASSUME CurrentInv, NEW r \in Requests, UNCHANGED <<registration, attempts, uploads>>,
         \A q \in Requests \ {r} :
           /\ pc'[q] = pc[q] /\ job'[q] = job[q] /\ entity'[q] = entity[q]
           /\ changes'[q] = changes[q] /\ current'[q] = current[q],
         pc'[r] \notin {"store", "reload", "write"}
  PROVE  CurrentInv'
<1>1. Held(entity[r], changes[r], pc[r])' /\ Knows(job[r], entity[r], changes[r], pc[r])'
  BY DEF Held, Knows
<1> QED
  BY <1>1, CurrentQuiet

\* The re-read of save() plans no attempt that is yet to come, and finds the
\* rows as they were loaded if nobody wrote: what it plans is what was intended.
LEMMA CurrentSaveReload ==
  ASSUME IInv, CurrentInv, NEW r \in Requests, SaveReload(r) PROVE CurrentInv'
<1> DEFINE e == entity[r]
<1>1. /\ pc[r] = "reload" /\ pc'[r] = "write" /\ job' = job /\ current' = current
      /\ changes'[r] = [registration |-> Changes(e.registration, registration),
                        attempts |-> Changes(e.attempts, attempts)]
      /\ UNCHANGED <<registration, attempts, uploads>>
      /\ \A q \in Requests \ {r} :
           pc'[q] = pc[q] /\ entity'[q] = entity[q] /\ changes'[q] = changes[q]
  BY DEF SaveReload, IInv, TypeOK
<1>2. /\ e.registration \in RegistrationRow /\ registration \in RegistrationRow
      /\ e.attempts \in [Ranks -> PaymentAttemptStatus]
      /\ attempts \in [Ranks -> PaymentAttemptStatus]
      /\ uploads \in Nat /\ e.uploads \in Nat
  BY PaymentsAssumption DEF IInv, TypeOK, Entity
<1>3. Held(entity[r], changes[r], pc[r])'
  <2>1. e.uploads = uploads
    BY <1>2 DEF SaveReload, Orphaned, IInv, LoadedInv
  <2>2. ASSUME NEW i \in DOMAIN Changes(e.attempts, attempts) PROVE i <= uploads
    <3>1. i \in Ranks /\ e.attempts[i] # attempts[i]
      BY <1>2 DEF Changes
    <3>2. ~(i > uploads)
      BY <1>1, <2>1, <3>1 DEF CurrentInv, Held
    <3> QED
      BY <1>2, <3>1, <3>2 DEF Ranks
  <2>3. changes'[r].attempts = Changes(e.attempts, attempts)
    BY <1>1
  <2> QED
    BY <1>1, <2>2, <2>3 DEF Held
<1>4. (current[r] => Knows(job[r], entity[r], changes[r], pc[r]))'
  <2>1. current[r] => Intended(job[r], e.registration, e.attempts)
    BY <1>1 DEF CurrentInv, Knows
  <2>2. Update(registration, Changes(e.registration, registration)) = e.registration
    BY <1>2, UpdateByChanges DEF RegistrationRow
  <2>3. Update(attempts, Changes(e.attempts, attempts)) = e.attempts
    BY <1>2, UpdateByChanges
  <2> QED
    BY <1>1, <2>1, <2>2, <2>3 DEF Knows, Intended
<1> QED
  BY <1>1, <1>3, <1>4, CurrentQuiet

\* The commit of a request that was not overtaken does what was intended.
LEMMA CurrentCommits ==
  ASSUME CurrentInv, NEW r \in Requests, SaveCommit(r), current[r]
  PROVE  Intended(job[r], registration', attempts')
BY DEF SaveCommit, CurrentInv, Knows

\* A commit overtakes all other requests, and writes no attempt that is yet to
\* come.
LEMMA CurrentSaveCommit ==
  ASSUME IInv, CurrentInv, NEW r \in Requests, SaveCommit(r) PROVE CurrentInv'
<1>1. /\ pc[r] = "write" /\ pc'[r] \in {"idle", "notify"} /\ entity' = entity
      /\ \A q \in Requests \ {r} :
           pc'[q] = pc[q] /\ changes'[q] = changes[q] /\ (current'[q] => pc[q] = "idle")
  BY DEF SaveCommit, IInv, TypeOK
<1>2. uploads \in Nat /\ uploads' \in Nat /\ uploads <= uploads'
  BY PaymentsAssumption DEF SaveCommit, IInv, TypeOK
<1>3. \A i \in Ranks : i > uploads' => attempts'[i] = "PENDING"
  <2> SUFFICES ASSUME NEW i \in Ranks, i > uploads' PROVE attempts'[i] = "PENDING"
    OBVIOUS
  <2>1. i \in Nat /\ i > uploads
    BY <1>2 DEF Ranks
  <2>2. i \notin DOMAIN changes[r].attempts
    BY <1>1, <1>2, <2>1 DEF CurrentInv, Held
  <2>3. attempts'[i] = attempts[i]
    BY <2>2 DEF SaveCommit, Update, IInv, TypeOK
  <2> QED
    BY <2>1, <2>3 DEF CurrentInv
<1>4. ASSUME NEW q \in Requests
      PROVE  (Held(entity[q], changes[q], pc[q])
                /\ (current[q] => Knows(job[q], entity[q], changes[q], pc[q])))'
  <2>1. CASE q = r
    BY <1>1, <2>1 DEF Held, Knows
  <2>2. CASE q # r
    <3>1. Held(entity[q], changes[q], pc[q])
      BY DEF CurrentInv
    <3>2. pc[q] = "write" => \A i \in DOMAIN changes[q].attempts : i \in Nat
      BY DEF IInv, TypeOK, AttemptChanges, Ranks
    <3>3. Held(entity[q], changes[q], pc[q])'
      BY <1>1, <1>2, <2>2, <3>1, <3>2 DEF Held
    <3>4. (current[q] => Knows(job[q], entity[q], changes[q], pc[q]))'
      BY <1>1, <2>2 DEF Knows
    <3> QED
      BY <3>3, <3>4
  <2> QED
    BY <2>1, <2>2
<1> QED
  BY <1>3, <1>4 DEF CurrentInv

\* Every step keeps it.
LEMMA CurrentNext == IInv /\ CurrentInv /\ [Next]_vars => CurrentInv'
<1> SUFFICES ASSUME IInv, CurrentInv, [Next]_vars PROVE CurrentInv'
  OBVIOUS
<1>1. CASE UNCHANGED vars
  BY <1>1 DEF vars, CurrentInv, Knows, Held, Intended, UploadAllowed, findById
<1>2. ASSUME NEW r \in Requests, UploadPaymentProof(r) PROVE CurrentInv'
  <2>1. Knows("upload", findById, changes[r], "store")
    BY <1>2 DEF UploadPaymentProof, assertCanUploadProof, Knows, UploadAllowed
  <2>2. Held(findById, changes[r], "store")
    BY DEF Held, findById, CurrentInv
  <2> QED
    BY <1>2, <2>1, <2>2, CurrentHold DEF UploadPaymentProof
<1>3. ASSUME NEW r \in Requests, StoreProof(r) PROVE CurrentInv'
  <2> DEFINE e == [entity[r] EXCEPT !.registration.status = "PENDING_VERIFICATION"]
  <2>1. /\ job[r] = "upload" /\ pc[r] = "store" /\ Hold(r, "upload", e, "reload")
        /\ current[r] => entity[r] = findById /\ UploadAllowed
    BY <1>3 DEF StoreProof, IInv, StoreInv, CurrentInv, Knows
  <2>2. /\ e.attempts = entity[r].attempts /\ e.uploads = entity[r].uploads
        /\ e.registration.status = "PENDING_VERIFICATION"
        /\ e.registration.championTitle = entity[r].registration.championTitle
    BY DEF IInv, TypeOK, Entity, RegistrationRow
  <2> HIDE DEF e
  <2>3. current[r] => Knows("upload", e, changes[r], "reload")
    BY <2>1, <2>2 DEF Knows, Intended, findById, UploadAllowed
  <2>4. Held(e, changes[r], "reload")
    BY <2>1, <2>2 DEF Held, CurrentInv
  <2> QED
    BY <2>1, <2>3, <2>4, CurrentHold
<1>4. ASSUME NEW r \in Requests, NEW action \in {"APPROVE", "REJECT"}, VerifyPayment(r, action)
      PROVE  CurrentInv'
  <2> DEFINE e == Decided(findById, action)
  <2>1. Hold(r, action, e, "reload") /\ uploads > 0
    BY <1>4 DEF VerifyPayment
  <2>2. /\ e.registration.status = IF action = "APPROVE" THEN "VERIFIED" ELSE "REJECTED"
        /\ e.registration.championTitle = registration.championTitle
        /\ e.uploads = uploads
        /\ e.attempts =
             [attempts EXCEPT ![uploads] = IF action = "APPROVE" THEN "APPROVED" ELSE "REJECTED"]
    BY DEF Decided, findById, IInv, TypeOK, RegistrationRow
  <2> HIDE DEF e
  <2>3. Knows(action, e, changes[r], "reload")
    BY <2>1, <2>2 DEF Knows, Intended
  <2>4. \A i \in Ranks : i > uploads => e.attempts[i] = attempts[i]
    BY <2>2 DEF IInv, TypeOK
  <2>5. Held(e, changes[r], "reload")
    BY <2>2, <2>4 DEF Held, CurrentInv
  <2> QED
    BY <2>1, <2>3, <2>5, CurrentHold
<1>5. ASSUME NEW r \in Requests, NEW title \in Titles, SetChampion(r, title) PROVE CurrentInv'
  <2> DEFINE e == [findById EXCEPT !.registration.championTitle = title]
  <2>1. Hold(r, "champion", e, "reload")
    BY <1>5 DEF SetChampion
  <2>2. /\ e.registration.status = registration.status /\ e.attempts = attempts
        /\ e.uploads = uploads
    BY DEF findById, IInv, TypeOK, RegistrationRow
  <2> HIDE DEF e
  <2>3. Knows("champion", e, changes[r], "reload")
    BY <2>2 DEF Knows, Intended
  <2>4. Held(e, changes[r], "reload")
    BY <2>2 DEF Held, CurrentInv
  <2> QED
    BY <2>1, <2>3, <2>4, CurrentHold
<1>6. ASSUME NEW r \in Requests,
             SaveRefused(r) \/ NotifyStaff(r) \/ NotifyParticipant(r) \/ NotifyAdmin(r) \/ Fail(r)
      PROVE  CurrentInv'
  <2>1. /\ UNCHANGED <<registration, attempts, uploads>> /\ pc'[r] \in {"idle", "broadcast"}
        /\ \A q \in Requests \ {r} :
             /\ pc'[q] = pc[q] /\ job'[q] = job[q] /\ entity'[q] = entity[q]
             /\ changes'[q] = changes[q] /\ current'[q] = current[q]
    BY <1>6 DEF SaveRefused, NotifyStaff, NotifyParticipant, NotifyAdmin, Fail, Finish, IInv, TypeOK
  <2> QED
    BY <2>1, CurrentEnds
<1> QED
  BY <1>1, <1>2, <1>3, <1>4, <1>5, <1>6, CurrentSaveReload, CurrentSaveCommit DEF Next

\* What every request knows holds in every reachable state.
LEMMA CurrentInvariance == Spec => [](IInv /\ CurrentInv)
BY CurrentInit, CurrentNext, Invariance, PTL DEF Spec

\* Only a commit writes the rows.
LEMMA CommitsWrite ==
  ASSUME [Next]_vars, ~ \E r \in Requests : SaveCommit(r)
  PROVE  UNCHANGED <<registration, attempts, uploads>>
BY DEF Next, vars, UploadPaymentProof, StoreProof, VerifyPayment, SetChampion, Hold,
       SaveReload, SaveRefused, NotifyStaff, NotifyParticipant, NotifyAdmin, Fail

\* A commit in a step of which no request was overtaken is of one that knows.
LEMMA CommitIsCurrent ==
  ASSUME IInv, CurrentInv, NEW r \in Requests, SaveCommit(r), ~Overtaken
  PROVE  Intended(job[r], registration', attempts')
<1>1. pc'[r] # pc[r]
  BY DEF SaveCommit, IInv, TypeOK
<1>2. current[r]
  BY <1>1 DEF Overtaken
<1> QED
  BY <1>2, CurrentCommits

\* However many requests overlap, the status of the registration says what was
\* decided on the latest proof until one writes that another had overtaken:
\* uploads, decisions, titles and failures by themselves never part the two.
THEOREM StatusFollows == Spec => StatusFollowsUnlessOvertaken
<1>1. IInv /\ CurrentInv /\ [Next]_vars =>
        [StatusFollowsLatestAttempt /\ ~Overtaken => StatusFollowsLatestAttempt']_vars
  <2> SUFFICES ASSUME IInv, CurrentInv, [Next]_vars, StatusFollowsLatestAttempt, ~Overtaken
               PROVE  StatusFollowsLatestAttempt'
    OBVIOUS
  <2>1. CASE ~ \E r \in Requests : SaveCommit(r)
    BY <2>1, CommitsWrite DEF StatusFollowsLatestAttempt
  <2>2. ASSUME NEW r \in Requests, SaveCommit(r) PROVE StatusFollowsLatestAttempt'
    <3>1. Intended(job[r], registration', attempts')
      BY <2>2, CommitIsCurrent
    <3>2. /\ uploads \in 0..MAX_ATTEMPTS /\ attempts \in [Ranks -> PaymentAttemptStatus]
          /\ uploads' = IF job[r] = "upload" THEN uploads + 1 ELSE uploads
          /\ job[r] = "upload" => uploads + 1 \in Ranks
          /\ MAX_ATTEMPTS \in Nat
      BY <2>2, PaymentsAssumption DEF SaveCommit, IInv, TypeOK, Ranks
    <3>3. CASE job[r] = "upload"
      <4>1. /\ attempts' = attempts /\ uploads' = uploads + 1
            /\ registration'.status = "PENDING_VERIFICATION"
        BY <3>1, <3>2, <3>3 DEF Intended
      <4>2. attempts[uploads + 1] = "PENDING"
        BY <3>2, <3>3 DEF CurrentInv
      <4> QED
        BY <3>2, <4>1, <4>2 DEF StatusFollowsLatestAttempt
    <3>4. CASE job[r] \in {"APPROVE", "REJECT"}
      <4>1. /\ uploads' = uploads /\ uploads \in Ranks
            /\ registration'.status = IF job[r] = "APPROVE" THEN "VERIFIED" ELSE "REJECTED"
            /\ attempts'[uploads] = IF job[r] = "APPROVE" THEN "APPROVED" ELSE "REJECTED"
        BY <3>1, <3>2, <3>4 DEF Intended, Ranks
      <4> QED
        BY <3>4, <4>1 DEF StatusFollowsLatestAttempt
    <3>5. CASE job[r] = "champion"
      BY <3>1, <3>2, <3>5 DEF StatusFollowsLatestAttempt, Intended
    <3> QED
      BY <3>1, <3>3, <3>4, <3>5 DEF Intended
  <2> QED
    BY <2>1, <2>2
<1> QED
  BY <1>1, CurrentInvariance, PTL DEF Spec, StatusFollowsUnlessOvertaken

\* assertCanUploadProof holds when the proof enters the database, not only when
\* it was checked, unless another request wrote in between.
THEOREM UploadsAllowed == Spec => UploadUnlessOvertaken
<1>1. IInv /\ CurrentInv /\ [Next]_vars =>
        [uploads' > uploads /\ ~Overtaken => UploadAllowed]_vars
  <2> SUFFICES ASSUME IInv, CurrentInv, [Next]_vars, uploads' > uploads, ~Overtaken
               PROVE  UploadAllowed
    OBVIOUS
  <2>1. uploads' # uploads
    BY PaymentsAssumption DEF IInv, TypeOK
  <2>2. PICK r \in Requests : SaveCommit(r)
    BY <2>1, CommitsWrite
  <2>3. job[r] = "upload"
    BY <2>1, <2>2, Committed
  <2> QED
    BY <2>2, <2>3, CommitIsCurrent DEF Intended, UploadAllowed
<1> QED
  BY <1>1, CurrentInvariance, PTL DEF Spec, UploadUnlessOvertaken

\* A save() writes nothing it was not asked for, a title request no payment
\* status and the others no title, unless another request wrote during it.
THEOREM OwnColumns == Spec => OwnColumnsUnlessOvertaken
<1>1. IInv /\ CurrentInv =>
        \A r \in Requests :
          SaveCommit(r) /\ current[r] =>
            IF job[r] = "champion"
            THEN registration'.status = registration.status
            ELSE registration'.championTitle = registration.championTitle
  BY CurrentCommits DEF Intended
<1> QED
  BY <1>1, CurrentInvariance, PTL DEF Spec, OwnColumnsUnlessOvertaken
=============================================================================
