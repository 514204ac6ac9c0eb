-------------------------- MODULE SubmissionsProofs --------------------------
(***************************************************************************)
(* Theorems about Submissions, for any requests and staff and any number   *)
(* of files.                                                               *)
(***************************************************************************)
EXTENDS Submissions, SequenceTheorems, TLAPS

\* What the files of a request are at each of its awaits: all those it has
\* stored, but for the one whose row is to be saved; or the one it deletes.
RequestOK(r) ==
  /\ ToSet(job[r].files) \subseteq 1..fileKeys
  /\ pc[r] = "object" => job[r].uploads > 0
  /\ pc[r] \notin {"idle", "object"} => job[r].files # <<>>
  /\ pc[r] \in {"object", "registration", "insert"} =>
       ToSet(job[r].files) \subseteq stored \cup touched
  /\ pc[r] = "row" =>
       /\ ToSet(job[r].files) \subseteq stored \cup touched \cup {Last(job[r].files)}
       /\ Last(job[r].files) \in objects
       /\ Last(job[r].files) \notin stored \cup touched
  /\ pc[r] \in {"unlink", "unrow", "drop"} => Head(job[r].files) \in touched
  /\ pc[r] = "drop" => Head(job[r].files) \notin stored

\* No two requests are about to save the row of the same file.
KeysDiffer ==
  \A q, r \in Requests :
    q # r /\ pc[q] = "row" /\ pc[r] = "row" => Last(job[q].files) # Last(job[r].files)

JobInv == (\A r \in Requests : RequestOK(r)) /\ KeysDiffer

\* The submission's files were generated.
SubmissionInv ==
  submission # None =>
    submission.work \in 1..fileKeys /\ ToSet(submission.originality) \subseteq 1..fileKeys

\* Who has not been told is on the list of a request for this submission.
StaffWillBeTold ==
  submission # None /\ ~unannounced =>
    \A u \in Staff :
      \/ u \in told
      \/ \E r \in Requests :
           /\ pc[r] = "recipients" \/ (pc[r] = "notify" /\ u \in job[r].staff)
           /\ IsCurrent(r)

\* The status was checked, and nobody decided since.
CheckHolds == \A r \in Requests : pc[r] = "insert" => verified \/ r \in overtaken

IInv ==
  /\ SubmissionsTypeOK /\ JobInv /\ SubmissionInv /\ FilesAreThere /\ StaffWillBeTold
  /\ CheckHolds

----------------------------------------------------------------------------
\* The parts of a sequence that is not empty.
LEMMA SeqParts ==
  ASSUME NEW S, NEW s \in Seq(S), s # <<>>
  PROVE  /\ Head(s) \in S /\ Tail(s) \in Seq(S)
         /\ ToSet(s) = {Head(s)} \cup ToSet(Tail(s))
         /\ Last(s) \in ToSet(s)
<1>1. Len(s) \in Nat \ {0} /\ DOMAIN s = 1..Len(s) /\ Head(s) = s[1] /\ Head(s) \in S
  BY EmptySeq, LenProperties, HeadTailProperties
<1>2. /\ Tail(s) \in Seq(S) /\ Len(Tail(s)) = Len(s) - 1
      /\ \A i \in 1..Len(s) - 1 : Tail(s)[i] = s[i + 1]
  BY HeadTailProperties
<1>3. DOMAIN Tail(s) = 1..Len(s) - 1
  BY <1>2, LenProperties
<1>4. ASSUME NEW i \in 1..Len(s) PROVE s[i] \in {Head(s)} \cup ToSet(Tail(s))
  <2>1. CASE i = 1
    BY <1>1, <2>1
  <2>2. CASE i # 1
    <3>1. i - 1 \in 1..Len(s) - 1 /\ Tail(s)[i - 1] = s[i]
      BY <1>1, <1>2, <2>2
    <3> QED
      BY <1>3, <3>1 DEF ToSet
  <2> QED
    BY <2>1, <2>2
<1>5. ASSUME NEW i \in 1..Len(s) - 1 PROVE Tail(s)[i] \in ToSet(s)
  BY <1>1, <1>2 DEF ToSet
<1>6. Head(s) \in ToSet(s) /\ Last(s) \in ToSet(s)
  BY <1>1 DEF ToSet, Last
<1> QED
  BY <1>1, <1>2, <1>3, <1>4, <1>5, <1>6 DEF ToSet

\* A file more.
LEMMA AppendParts ==
  ASSUME NEW S, NEW s \in Seq(S), NEW e \in S
  PROVE  /\ Append(s, e) \in Seq(S) /\ Append(s, e) # <<>>
         /\ ToSet(Append(s, e)) = ToSet(s) \cup {e}
         /\ Last(Append(s, e)) = e
<1> DEFINE t == Append(s, e)
<1>1. /\ t \in Seq(S) /\ t # <<>> /\ Len(t) = Len(s) + 1 /\ t[Len(s) + 1] = e
      /\ \A i \in 1..Len(s) : t[i] = s[i]
  BY AppendProperties
<1>2. Len(s) \in Nat /\ DOMAIN s = 1..Len(s) /\ DOMAIN t = 1..Len(s) + 1
  BY <1>1, LenProperties
<1> HIDE DEF t
<1>3. \A i \in DOMAIN t : t[i] \in ToSet(s) \cup {e}
  BY <1>1, <1>2 DEF ToSet
<1>4. \A i \in DOMAIN s : s[i] \in ToSet(t)
  BY <1>1, <1>2 DEF ToSet
<1>5. e \in ToSet(t)
  BY <1>1, <1>2 DEF ToSet
<1>6. Last(t) = e
  BY <1>1, <1>2 DEF Last
<1> QED
  BY <1>1, <1>3, <1>4, <1>5, <1>6 DEF ToSet, t

\* One file, and none.
LEMMA SingleParts ==
  ASSUME NEW S, NEW e \in S
  PROVE  <<e>> \in Seq(S) /\ <<e>> # <<>> /\ Head(<<e>>) = e /\ ToSet(<<e>>) = {e}
BY DEF ToSet

\* The empty sequence has no elements.
LEMMA EmptyParts ==
  ASSUME NEW S
  PROVE  <<>> \in Seq(S) /\ ToSet(<<>>) = {}
BY EmptySeq DEF ToSet

----------------------------------------------------------------------------
\* The types of what a step of request r writes, and that it leaves the other
\* requests alone.
Moved(r) ==
  /\ pc' \in [Requests -> PC] /\ job' \in [Requests -> Job]
  /\ \A q \in Requests \ {r} : pc'[q] = pc[q] /\ job'[q] = job[q]
  /\ overtaken' = overtaken \/ overtaken' = overtaken \ {r}

\* An idle request holds a proper job.
LEMMA NoJobTyped == NoJob \in Job /\ NoJob.files = <<>>
BY EmptySeq DEF NoJob, Job

\* Where Goto leaves the requests.
LEMMA GotoMoves ==
  ASSUME SubmissionsTypeOK, NEW r \in Requests, NEW where \in PC, Goto(r, where)
  PROVE  /\ Moved(r) /\ pc'[r] = where
         /\ job'[r] = IF where = "idle" THEN NoJob ELSE job[r]
<1>1. pc \in [Requests -> PC] /\ job \in [Requests -> Job]
  BY DEF SubmissionsTypeOK
<1>2. CASE where = "idle"
  BY <1>1, <1>2, NoJobTyped DEF Goto, Moved
<1>3. CASE where # "idle"
  BY <1>1, <1>3 DEF Goto, Moved
<1> QED
  BY <1>2, <1>3

\* Where Continue leaves the requests.
LEMMA ContinueMoves ==
  ASSUME SubmissionsTypeOK, NEW r \in Requests, NEW where \in PC, NEW j \in Job,
         Continue(r, j, where)
  PROVE  Moved(r) /\ pc'[r] = where /\ job'[r] = j
BY DEF SubmissionsTypeOK, Continue, Moved

\* Nothing of the store was written: the other requests stand as they stood.
LEMMA OthersStand ==
  ASSUME JobInv, NEW r \in Requests, Moved(r), UNCHANGED storageVars,
         RequestOK(r)', pc'[r] # "row"
  PROVE  JobInv'
<1>1. ASSUME NEW q \in Requests \ {r} PROVE RequestOK(q)'
  BY DEF JobInv, Moved, storageVars, RequestOK
<1>2. KeysDiffer'
  BY DEF JobInv, Moved, KeysDiffer
<1> QED
  BY <1>1, <1>2 DEF JobInv

\* A request that is not being checked stays out of what the check says.
LEMMA CheckStands ==
  ASSUME CheckHolds, NEW r \in Requests, Moved(r), UNCHANGED verified,
         pc'[r] = "insert" => verified
  PROVE  CheckHolds'
BY DEF CheckHolds, Moved

\* A request that has not handed anything in tells nobody.
LEMMA StaffStands ==
  ASSUME StaffWillBeTold, NEW r \in Requests, Moved(r),
         UNCHANGED <<submission, told, unannounced>>, pc[r] \notin {"recipients", "notify"}
  PROVE  StaffWillBeTold'
<1> SUFFICES ASSUME submission # None, ~unannounced, NEW u \in Staff, u \notin told
             PROVE  \E q \in Requests :
                      /\ pc'[q] = "recipients" \/ (pc'[q] = "notify" /\ u \in job'[q].staff)
                      /\ IsCurrent(q)'
  BY DEF StaffWillBeTold
<1>1. PICK q \in Requests :
        /\ pc[q] = "recipients" \/ (pc[q] = "notify" /\ u \in job[q].staff)
        /\ IsCurrent(q)
  BY DEF StaffWillBeTold
<1>2. q # r
  BY <1>1
<1> QED
  BY <1>1, <1>2 DEF Moved, IsCurrent

\* What a step that leaves files and submission alone keeps.
LEMMA TypesStand ==
  ASSUME SubmissionsTypeOK, NEW r \in Requests, Moved(r), UNCHANGED <<storageVars, submission, verified>>,
         told' \subseteq Staff, unannounced' \in BOOLEAN
  PROVE  SubmissionsTypeOK'
BY DEF SubmissionsTypeOK, Moved, storageVars

\* The steps before the insert that store nothing.
LEMMA QuietStep ==
  ASSUME IInv, NEW r \in Requests, Moved(r),
         UNCHANGED <<storageVars, submission, verified, told, unannounced>>,
         pc[r] \notin {"recipients", "notify"},
         RequestOK(r)', pc'[r] # "row", pc'[r] = "insert" => verified
  PROVE  IInv'
<1>1. SubmissionsTypeOK'
  BY TypesStand DEF IInv, SubmissionsTypeOK
<1>2. JobInv'
  BY OthersStand DEF IInv
<1>3. StaffWillBeTold'
  BY StaffStands DEF IInv
<1>4. CheckHolds'
  BY CheckStands DEF IInv
<1>5. SubmissionInv' /\ FilesAreThere'
  BY DEF IInv, SubmissionInv, FilesAreThere, storageVars
<1> QED
  BY <1>1, <1>2, <1>3, <1>4, <1>5 DEF IInv

\* The invariant holds initially.
LEMMA InitInv == Init => IInv
<1> SUFFICES ASSUME Init PROVE IInv
  OBVIOUS
<1>1. MAX_FILES \in Nat /\ NoJob \in Job /\ ToSet(<<>>) = {}
  BY StorageAssumption, NoJobTyped, EmptyParts
<1>2. SubmissionsTypeOK
  <2>1. /\ fileKeys \in 0..MAX_FILES
        /\ objects \subseteq 1..fileKeys /\ stored \subseteq 1..fileKeys
        /\ touched \subseteq 1..fileKeys
    BY <1>1 DEF Init, StorageInit
  <2>2. pc \in [Requests -> PC] /\ job \in [Requests -> Job]
    BY <1>1 DEF Init, PC
  <2>3. verified \in BOOLEAN /\ unannounced \in BOOLEAN
    BY DEF Init
  <2> QED
    BY <2>1, <2>2, <2>3 DEF Init, SubmissionsTypeOK
<1>3. JobInv
  BY <1>1, NoJobTyped DEF Init, StorageInit, JobInv, RequestOK, KeysDiffer
<1>4. SubmissionInv /\ FilesAreThere /\ StaffWillBeTold /\ CheckHolds
  BY DEF Init, StorageInit, SubmissionInv, FilesAreThere, StaffWillBeTold, CheckHolds
<1> QED
  BY <1>2, <1>3, <1>4 DEF IInv

\* Upload keeps the invariant.
LEMMA UploadInv ==
  ASSUME IInv, NEW r \in Requests, NEW for \in {"submission", "file"}, NEW uploads \in 1..2,
         Upload(r, for, uploads)
  PROVE  IInv'
<1> DEFINE j == [NoJob EXCEPT !.for = for, !.uploads = uploads]
<1>1. j \in Job /\ j.uploads = uploads /\ j.files = <<>>
  <2>1. uploads \in 0..2
    OBVIOUS
  <2>2. ASSUME NEW n \in Job
        PROVE  LET i == [n EXCEPT !.for = for, !.uploads = uploads] IN
               i \in Job /\ i.uploads = uploads /\ i.files = n.files
    BY <2>1 DEF Job
  <2> QED
    BY <2>2, NoJobTyped
<1>2. Continue(r, j, "object") /\ pc[r] = "idle"
  BY DEF Upload
<1> HIDE DEF j
<1>3. Moved(r) /\ pc'[r] = "object" /\ job'[r] = j
  BY <1>1, <1>2, ContinueMoves DEF IInv, PC
<1>4. RequestOK(r)'
  BY <1>1, <1>3, EmptyParts DEF RequestOK
<1> QED
  BY <1>2, <1>3, <1>4, QuietStep DEF Upload

\* LoadRegistration keeps the invariant.
LEMMA LoadRegistrationInv ==
  ASSUME IInv, NEW r \in Requests, LoadRegistration(r)
  PROVE  IInv'
<1>1. Goto(r, "insert") /\ pc[r] = "registration" /\ verified
  BY DEF LoadRegistration, Eligible
<1>2. Moved(r) /\ pc'[r] = "insert" /\ job'[r] = job[r]
  BY <1>1, GotoMoves DEF IInv, PC
<1>3. RequestOK(r)'
  BY <1>1, <1>2 DEF IInv, JobInv, RequestOK, LoadRegistration, storageVars
<1> QED
  BY <1>1, <1>2, <1>3, QuietStep DEF LoadRegistration

\* DeleteSubmission keeps the invariant.
LEMMA DeleteSubmissionInv ==
  ASSUME IInv, NEW r \in Requests, DeleteSubmission(r)
  PROVE  IInv'
<1> DEFINE j == [NoJob EXCEPT !.for = "submission", !.files = <<submission.work>>]
<1>1. submission.work \in Files /\ submission.work \in 1..fileKeys
  BY DEF IInv, SubmissionsTypeOK, SubmissionInv, DeleteSubmission
<1>2. j \in Job /\ j.files = <<submission.work>>
  BY <1>1, NoJobTyped, SingleParts DEF NoJob, Job
<1>3. Continue(r, j, "file") /\ pc[r] = "idle"
  BY DEF DeleteSubmission
<1> HIDE DEF j
<1>4. Moved(r) /\ pc'[r] = "file" /\ job'[r] = j
  BY <1>2, <1>3, ContinueMoves DEF IInv, PC
<1>5. RequestOK(r)'
  BY <1>1, <1>2, <1>4, SingleParts DEF RequestOK, DeleteSubmission, storageVars
<1> QED
  BY <1>3, <1>4, <1>5, QuietStep DEF DeleteSubmission

\* DeleteFile keeps the invariant.
LEMMA DeleteFileInv ==
  ASSUME IInv, NEW r \in Requests, NEW f \in Files, DeleteFile(r, f)
  PROVE  IInv'
<1> DEFINE j == [NoJob EXCEPT !.files = <<f>>]
<1>1. f \in 1..fileKeys
  BY DEF IInv, SubmissionsTypeOK, DeleteFile
<1>2. j \in Job /\ j.files = <<f>>
  BY NoJobTyped, SingleParts DEF NoJob, Job
<1>3. Continue(r, j, "file") /\ pc[r] = "idle"
  BY DEF DeleteFile
<1> HIDE DEF j
<1>4. Moved(r) /\ pc'[r] = "file" /\ job'[r] = j
  BY <1>2, <1>3, ContinueMoves DEF IInv, PC
<1>5. RequestOK(r)'
  BY <1>1, <1>2, <1>4, SingleParts DEF RequestOK, DeleteFile, storageVars
<1> QED
  BY <1>3, <1>4, <1>5, QuietStep DEF DeleteFile

----------------------------------------------------------------------------
\* The steps that write the store, all of them before the insert or after it.
LEMMA StoreStep ==
  ASSUME IInv, NEW r \in Requests, Moved(r),
         UNCHANGED <<submission, verified, told, unannounced>>,
         pc[r] \notin {"recipients", "notify"}, pc'[r] # "insert",
         fileKeys' \in fileKeys..MAX_FILES, objects' \subseteq 1..fileKeys',
         stored' \subseteq 1..fileKeys', touched' \subseteq 1..fileKeys',
         JobInv', FilesAreThere'
  PROVE  IInv'
<1>1. MAX_FILES \in Nat /\ fileKeys \in Nat /\ 1..fileKeys \subseteq 1..fileKeys'
  BY StorageAssumption DEF IInv, SubmissionsTypeOK
<1>2. SubmissionsTypeOK'
  BY <1>1 DEF IInv, SubmissionsTypeOK, Moved
<1>3. SubmissionInv'
  BY <1>1 DEF IInv, SubmissionInv
<1>4. StaffWillBeTold' /\ CheckHolds'
  BY StaffStands, CheckStands DEF IInv
<1> QED
  BY <1>2, <1>3, <1>4 DEF IInv

\* The file whose row a request is about to save is one it has.
LEMMA LastIsOwn ==
  ASSUME SubmissionsTypeOK, JobInv, NEW r \in Requests, pc[r] \notin {"idle", "object"}
  PROVE  /\ Last(job[r].files) \in ToSet(job[r].files)
         /\ Head(job[r].files) \in ToSet(job[r].files)
         /\ ToSet(job[r].files) \subseteq 1..fileKeys
<1>1. job[r].files \in Seq(Files) /\ job[r].files # <<>>
  BY DEF SubmissionsTypeOK, JobInv, RequestOK, Job
<1> QED
  BY <1>1, SeqParts DEF JobInv, RequestOK

\* PutObject keeps the invariant.
LEMMA PutObjectInv ==
  ASSUME IInv, NEW r \in Requests, PutObject(r)
  PROVE  IInv'
<1>0. SubmissionsTypeOK /\ JobInv /\ RequestOK(r)
  BY DEF IInv, JobInv
<1> DEFINE k == fileKeys
           j == [job[r] EXCEPT !.files = Append(@, fileKeys'), !.uploads = @ - 1]
<1>1. /\ pc[r] = "object" /\ k < MAX_FILES /\ fileKeys' = k + 1
      /\ objects' = objects \cup {k + 1} /\ stored' = stored /\ touched' = touched
      /\ UNCHANGED <<submission, verified, told, unannounced>>
      /\ Continue(r, j, "row")
  BY DEF PutObject, UploadObject
<1>2. /\ MAX_FILES \in Nat /\ k \in Nat /\ k + 1 \in Files
      /\ 1..k \subseteq 1..k + 1 /\ k + 1 \notin 1..k /\ k + 1 \in 1..k + 1
  BY <1>0, <1>1, StorageAssumption DEF SubmissionsTypeOK, Files
<1>3. job[r] \in Job /\ job[r].uploads - 1 \in 0..2 /\ job[r].files \in Seq(Files)
  BY <1>0, <1>1 DEF SubmissionsTypeOK, RequestOK, Job
<1> DEFINE files == Append(job[r].files, k + 1)
<1>4. /\ files \in Seq(Files) /\ files # <<>>
      /\ ToSet(files) = ToSet(job[r].files) \cup {k + 1} /\ Last(files) = k + 1
  BY <1>2, <1>3, AppendParts
<1>5. j \in Job /\ j.files = files
  BY <1>1, <1>3, <1>4 DEF Job
<1> HIDE DEF j, files
<1>6. Moved(r) /\ pc'[r] = "row" /\ job'[r] = j
  BY <1>0, <1>1, <1>5, ContinueMoves DEF PC
<1> HIDE DEF k
<1>7. RequestOK(r)'
  <2>1. ToSet(job[r].files) \subseteq 1..k /\ ToSet(job[r].files) \subseteq stored \cup touched
    BY <1>0, <1>1 DEF RequestOK, k
  <2>2. k + 1 \notin stored \cup touched
    BY <1>0, <1>2 DEF SubmissionsTypeOK, k
  <2> QED
    BY <1>1, <1>2, <1>4, <1>5, <1>6, <2>1, <2>2 DEF RequestOK
<1>8. ASSUME NEW q \in Requests \ {r} PROVE RequestOK(q)'
  BY <1>0, <1>1, <1>2, <1>6 DEF JobInv, RequestOK, Moved, k
<1>9. KeysDiffer'
  <2>1. ASSUME NEW q \in Requests \ {r}, pc[q] = "row" PROVE Last(job[q].files) # k + 1
    BY <1>0, <1>2, <2>1, LastIsOwn DEF k
  <2> QED
    BY <1>0, <1>4, <1>5, <1>6, <2>1 DEF JobInv, KeysDiffer, Moved
<1>10. JobInv'
  BY <1>7, <1>8, <1>9 DEF JobInv
<1>11. FilesAreThere'
  BY <1>1 DEF IInv, FilesAreThere
<1>12. /\ fileKeys' \in fileKeys..MAX_FILES /\ objects' \subseteq 1..fileKeys'
       /\ stored' \subseteq 1..fileKeys' /\ touched' \subseteq 1..fileKeys'
  BY <1>0, <1>1, <1>2 DEF SubmissionsTypeOK, k, Files
<1> QED
  BY <1>1, <1>6, <1>10, <1>11, <1>12, StoreStep

\* The keys generated so far stay within the bound.
LEMMA KeysStand ==
  ASSUME SubmissionsTypeOK
  PROVE  fileKeys \in fileKeys..MAX_FILES
BY StorageAssumption DEF SubmissionsTypeOK

\* SaveRow keeps the invariant.
LEMMA SaveRowInv ==
  ASSUME IInv, NEW r \in Requests, SaveRow(r)
  PROVE  IInv'
<1>0. SubmissionsTypeOK /\ JobInv /\ RequestOK(r) /\ FilesAreThere
  BY DEF IInv, JobInv
<1> DEFINE f == Last(job[r].files)
           where == IF job[r].uploads > 0 THEN "object"
                    ELSE IF job[r].for = "submission" THEN "registration" ELSE "idle"
<1>1. /\ pc[r] = "row" /\ stored' = stored \cup {f}
      /\ fileKeys' = fileKeys /\ objects' = objects /\ touched' = touched
      /\ UNCHANGED <<submission, verified, told, unannounced>>
      /\ Goto(r, where)
  BY DEF SaveRow, SaveStoredFile, Last
<1>2. where \in {"object", "registration", "idle"} /\ (where = "object" => job[r].uploads > 0)
  OBVIOUS
<1>3. f \in ToSet(job[r].files) /\ ToSet(job[r].files) \subseteq 1..fileKeys
  BY <1>0, <1>1, LastIsOwn
<1>4. /\ ToSet(job[r].files) \subseteq stored \cup touched \cup {f}
      /\ f \in objects /\ f \notin stored \cup touched
  BY <1>0, <1>1 DEF RequestOK
<1>5. job[r].files # <<>>
  BY <1>0, <1>1 DEF RequestOK
<1> HIDE DEF f, where
<1>6. Moved(r) /\ pc'[r] = where /\ job'[r] = IF where = "idle" THEN NoJob ELSE job[r]
  BY <1>0, <1>1, <1>2, GotoMoves DEF PC
<1>7. RequestOK(r)'
  <2>1. CASE where = "idle"
    BY <1>6, <2>1, NoJobTyped, EmptyParts DEF RequestOK
  <2>2. CASE where # "idle"
    BY <1>1, <1>2, <1>3, <1>4, <1>5, <1>6, <2>2 DEF RequestOK
  <2> QED
    BY <2>1, <2>2
<1>8. ASSUME NEW q \in Requests \ {r} PROVE RequestOK(q)'
  <2>1. pc[q] = "row" => Last(job[q].files) # f
    BY <1>0, <1>1 DEF JobInv, KeysDiffer, f
  <2>2. pc[q] = "drop" => Head(job[q].files) # f
    BY <1>0, <1>4 DEF JobInv, RequestOK
  <2> QED
    BY <1>0, <1>1, <1>6, <2>1, <2>2 DEF JobInv, RequestOK, Moved
<1>9. KeysDiffer'
  BY <1>0, <1>2, <1>6 DEF JobInv, KeysDiffer, Moved
<1>10. JobInv'
  BY <1>7, <1>8, <1>9 DEF JobInv
<1>11. FilesAreThere'
  BY <1>0, <1>1, <1>4 DEF FilesAreThere
<1>12. /\ fileKeys' \in fileKeys..MAX_FILES /\ objects' \subseteq 1..fileKeys'
       /\ stored' \subseteq 1..fileKeys' /\ touched' \subseteq 1..fileKeys'
  BY <1>0, <1>1, <1>3, KeysStand DEF SubmissionsTypeOK
<1>13. pc[r] \notin {"recipients", "notify"} /\ pc'[r] # "insert"
  BY <1>1, <1>2, <1>6
<1> QED
  BY <1>1, <1>6, <1>10, <1>11, <1>12, <1>13, StoreStep

\* FindFile keeps the invariant.
LEMMA FindFileInv ==
  ASSUME IInv, NEW r \in Requests, FindFile(r)
  PROVE  IInv'
<1>0. SubmissionsTypeOK /\ JobInv /\ RequestOK(r) /\ FilesAreThere
  BY DEF IInv, JobInv
<1> DEFINE f == Head(job[r].files)
<1>1. /\ pc[r] = "file" /\ f \in stored /\ touched' = touched \cup {f}
      /\ fileKeys' = fileKeys /\ objects' = objects /\ stored' = stored
      /\ UNCHANGED <<submission, verified, told, unannounced>>
      /\ Goto(r, "unlink")
  BY DEF FindFile, FindStoredFile
<1>2. Moved(r) /\ pc'[r] = "unlink" /\ job'[r] = job[r]
  BY <1>0, <1>1, GotoMoves DEF PC
<1>3. RequestOK(r)'
  BY <1>0, <1>1, <1>2 DEF RequestOK
<1>4. ASSUME NEW q \in Requests \ {r} PROVE RequestOK(q)'
  <2>1. pc[q] = "row" => Last(job[q].files) # f
    BY <1>0, <1>1 DEF JobInv, RequestOK
  <2> HIDE DEF f
  <2> QED
    BY <1>0, <1>1, <1>2, <2>1 DEF JobInv, RequestOK, Moved
<1>5. KeysDiffer'
  BY <1>0, <1>2 DEF JobInv, KeysDiffer, Moved
<1>6. JobInv'
  BY <1>3, <1>4, <1>5 DEF JobInv
<1>7. FilesAreThere'
  BY <1>0, <1>1 DEF FilesAreThere
<1>8. /\ fileKeys' \in fileKeys..MAX_FILES /\ objects' \subseteq 1..fileKeys'
      /\ stored' \subseteq 1..fileKeys' /\ touched' \subseteq 1..fileKeys'
  BY <1>0, <1>1, KeysStand DEF SubmissionsTypeOK
<1> QED
  BY <1>1, <1>2, <1>6, <1>7, <1>8, StoreStep

\* Unlink keeps the invariant.
LEMMA UnlinkInv ==
  ASSUME IInv, NEW r \in Requests, Unlink(r)
  PROVE  IInv'
<1>0. SubmissionsTypeOK /\ JobInv /\ RequestOK(r) /\ FilesAreThere
  BY DEF IInv, JobInv
<1> DEFINE f == Head(job[r].files)
<1>1. /\ pc[r] = "unlink" /\ objects' \in {objects, objects \ {f}}
      /\ fileKeys' = fileKeys /\ stored' = stored /\ touched' = touched
      /\ UNCHANGED <<submission, verified, told, unannounced>>
      /\ Goto(r, "unrow")
  BY DEF Unlink, DeleteObject
<1>2. f \in touched
  BY <1>0, <1>1 DEF RequestOK
<1>3. Moved(r) /\ pc'[r] = "unrow" /\ job'[r] = job[r]
  BY <1>0, <1>1, GotoMoves DEF PC
<1>4. RequestOK(r)'
  BY <1>0, <1>1, <1>3 DEF RequestOK
<1>5. ASSUME NEW q \in Requests \ {r} PROVE RequestOK(q)'
  <2>1. pc[q] = "row" => Last(job[q].files) # f
    BY <1>0, <1>2 DEF JobInv, RequestOK
  <2> HIDE DEF f
  <2> QED
    BY <1>0, <1>1, <1>3, <2>1 DEF JobInv, RequestOK, Moved
<1>6. KeysDiffer'
  BY <1>0, <1>3 DEF JobInv, KeysDiffer, Moved
<1>7. JobInv'
  BY <1>4, <1>5, <1>6 DEF JobInv
<1>8. FilesAreThere'
  BY <1>0, <1>1, <1>2 DEF FilesAreThere
<1>9. /\ fileKeys' \in fileKeys..MAX_FILES /\ objects' \subseteq 1..fileKeys'
      /\ stored' \subseteq 1..fileKeys' /\ touched' \subseteq 1..fileKeys'
  BY <1>0, <1>1, KeysStand DEF SubmissionsTypeOK
<1> QED
  BY <1>1, <1>3, <1>7, <1>8, <1>9, StoreStep

\* DeleteRow keeps the invariant.
LEMMA DeleteRowInv ==
  ASSUME IInv, NEW r \in Requests, DeleteRow(r)
  PROVE  IInv'
<1>0. SubmissionsTypeOK /\ JobInv /\ RequestOK(r) /\ FilesAreThere
  BY DEF IInv, JobInv
<1> DEFINE f == Head(job[r].files)
           where == IF job[r].for = "submission" THEN "drop" ELSE "idle"
<1>1. /\ pc[r] = "unrow" /\ stored' = stored \ {f}
      /\ fileKeys' = fileKeys /\ objects' = objects /\ touched' = touched
      /\ UNCHANGED <<submission, verified, told, unannounced>>
      /\ Goto(r, where)
  BY DEF DeleteRow, DeleteStoredFile
<1>2. f \in touched /\ where \in {"drop", "idle"}
  BY <1>0, <1>1 DEF RequestOK
<1> HIDE DEF where
<1>3. Moved(r) /\ pc'[r] = where /\ job'[r] = IF where = "idle" THEN NoJob ELSE job[r]
  BY <1>0, <1>1, <1>2, GotoMoves DEF PC
<1>4. RequestOK(r)'
  <2>1. CASE where = "idle"
    BY <1>3, <2>1, NoJobTyped, EmptyParts DEF RequestOK
  <2>2. CASE where = "drop"
    BY <1>0, <1>1, <1>2, <1>3, <2>2 DEF RequestOK
  <2> QED
    BY <1>2, <2>1, <2>2
<1> HIDE DEF f
<1>5. ASSUME NEW q \in Requests \ {r} PROVE RequestOK(q)'
  BY <1>0, <1>1, <1>2, <1>3 DEF JobInv, RequestOK, Moved
<1>6. KeysDiffer'
  BY <1>0, <1>2, <1>3 DEF JobInv, KeysDiffer, Moved
<1>7. JobInv'
  BY <1>4, <1>5, <1>6 DEF JobInv
<1>8. FilesAreThere'
  BY <1>0, <1>1, <1>2 DEF FilesAreThere
<1>9. /\ fileKeys' \in fileKeys..MAX_FILES /\ objects' \subseteq 1..fileKeys'
      /\ stored' \subseteq 1..fileKeys' /\ touched' \subseteq 1..fileKeys'
  BY <1>0, <1>1, KeysStand DEF SubmissionsTypeOK
<1>10. pc[r] \notin {"recipients", "notify"} /\ pc'[r] # "insert"
  BY <1>1, <1>2, <1>3
<1> QED
  BY <1>1, <1>3, <1>7, <1>8, <1>9, <1>10, StoreStep

----------------------------------------------------------------------------
\* The steps that concern the submission itself or who is told of it.
LEMMA InsertSubmissionInv ==
  ASSUME IInv, NEW r \in Requests, InsertSubmission(r)
  PROVE  IInv'
<1>0. SubmissionsTypeOK /\ JobInv /\ RequestOK(r) /\ FilesAreThere /\ CheckHolds
  BY DEF IInv, JobInv
<1> DEFINE files == job[r].files
<1>1. /\ pc[r] = "insert" /\ submission' = [work |-> Head(files), originality |-> Tail(files)]
      /\ UNCHANGED <<storageVars, verified, told, unannounced>>
      /\ Goto(r, "recipients")
  BY DEF InsertSubmission, Row
<1>2. files \in Seq(Files) /\ files # <<>> /\ ToSet(files) \subseteq 1..fileKeys
      /\ ToSet(files) \subseteq stored \cup touched
  BY <1>0, <1>1 DEF SubmissionsTypeOK, RequestOK, Job
<1>3. /\ Head(files) \in Files /\ Tail(files) \in Seq(Files)
      /\ ToSet(files) = {Head(files)} \cup ToSet(Tail(files))
  BY <1>2, SeqParts
<1>4. Moved(r) /\ pc'[r] = "recipients" /\ job'[r] = job[r]
  BY <1>0, <1>1, GotoMoves DEF PC
<1>5. SubmissionsTypeOK'
  <2>1. submission' \in [work : Files, originality : Seq(Files)]
    BY <1>1, <1>3
  <2> QED
    BY <1>0, <1>1, <1>4, <2>1 DEF SubmissionsTypeOK, Moved, storageVars
<1>6. RequestOK(r)'
  BY <1>0, <1>1, <1>4 DEF RequestOK, storageVars
<1>7. JobInv'
  BY <1>0, <1>1, <1>4, <1>6, OthersStand
<1>8. SubmissionInv' /\ FilesAreThere'
  <2>1. submission'.work = Head(files) /\ submission'.originality = Tail(files)
    BY <1>1
  <2> QED
    BY <1>0, <1>1, <1>2, <1>3, <2>1 DEF SubmissionInv, FilesAreThere, storageVars
<1>9. StaffWillBeTold'
  <2>1. IsCurrent(r)'
    <3>1. submission' # None
      <4>1. submission'.work = Head(files) /\ Head(files) # 0
        BY <1>1, <1>3 DEF Files
      <4> QED
        BY <4>1 DEF None
    <3> QED
      BY <1>1, <1>4, <3>1 DEF IsCurrent
  <2> QED
    BY <1>4, <2>1 DEF StaffWillBeTold
<1>10. CheckHolds'
  BY <1>0, <1>1, <1>4, CheckStands
<1> QED
  BY <1>5, <1>7, <1>8, <1>9, <1>10 DEF IInv

\* FindRecipients keeps the invariant.
LEMMA FindRecipientsInv ==
  ASSUME IInv, NEW r \in Requests, FindRecipients(r)
  PROVE  IInv'
<1>0. SubmissionsTypeOK /\ JobInv /\ RequestOK(r) /\ FilesAreThere /\ CheckHolds
      /\ SubmissionInv /\ StaffWillBeTold
  BY DEF IInv, JobInv
<1> DEFINE j == [job[r] EXCEPT !.staff = Staff]
           where == IF Staff = {} THEN "idle" ELSE "notify"
<1>1. /\ pc[r] = "recipients" /\ UNCHANGED <<storageVars, submission, verified, told, unannounced>>
      /\ Continue(r, j, where)
  BY DEF FindRecipients
<1>2. j \in Job /\ j.files = job[r].files /\ j.staff = Staff
  BY <1>0 DEF SubmissionsTypeOK, Job
<1>3. where \in {"idle", "notify"} /\ (where = "idle" => Staff = {})
  OBVIOUS
<1> HIDE DEF j, where
<1>4. Moved(r) /\ pc'[r] = where /\ job'[r] = j
  BY <1>0, <1>1, <1>2, <1>3, ContinueMoves DEF PC
<1>5. SubmissionsTypeOK'
  BY <1>0, <1>1, <1>4, TypesStand DEF SubmissionsTypeOK
<1>6. JobInv'
  <2>1. RequestOK(r)'
    BY <1>0, <1>1, <1>2, <1>3, <1>4 DEF RequestOK, storageVars
  <2> QED
    BY <1>0, <1>1, <1>3, <1>4, <2>1, OthersStand
<1>7. SubmissionInv' /\ FilesAreThere'
  BY <1>0, <1>1 DEF SubmissionInv, FilesAreThere, storageVars
<1>8. StaffWillBeTold'
  <2> SUFFICES ASSUME submission # None, ~unannounced, NEW u \in Staff, u \notin told
               PROVE  \E q \in Requests :
                        /\ pc'[q] = "recipients" \/ (pc'[q] = "notify" /\ u \in job'[q].staff)
                        /\ IsCurrent(q)'
    BY <1>1 DEF StaffWillBeTold
  <2>1. PICK q \in Requests :
          /\ pc[q] = "recipients" \/ (pc[q] = "notify" /\ u \in job[q].staff)
          /\ IsCurrent(q)
    BY <1>0 DEF StaffWillBeTold
  <2>2. CASE q = r
    <3>1. pc'[r] = "notify" /\ u \in job'[r].staff
      BY <1>2, <1>3, <1>4
    <3>2. IsCurrent(r)'
      BY <1>1, <1>2, <1>4, <2>1, <2>2 DEF IsCurrent
    <3> QED
      BY <3>1, <3>2
  <2>3. CASE q # r
    BY <1>1, <1>4, <2>1, <2>3 DEF Moved, IsCurrent
  <2> QED
    BY <2>2, <2>3
<1>9. CheckHolds'
  BY <1>0, <1>1, <1>3, <1>4, CheckStands
<1> QED
  BY <1>5, <1>6, <1>7, <1>8, <1>9 DEF IInv

\* NotifyStaff keeps the invariant.
LEMMA NotifyStaffInv ==
  ASSUME IInv, NEW r \in Requests, NotifyStaff(r)
  PROVE  IInv'
<1>0. SubmissionsTypeOK /\ JobInv /\ RequestOK(r) /\ FilesAreThere /\ CheckHolds
      /\ SubmissionInv /\ StaffWillBeTold
  BY DEF IInv, JobInv
<1>1. PICK u \in job[r].staff :
        /\ told' = IF IsCurrent(r) THEN told \cup {u} ELSE told
        /\ IF job[r].staff = {u} THEN Goto(r, "idle")
           ELSE Continue(r, [job[r] EXCEPT !.staff = @ \ {u}], "notify")
  BY DEF NotifyStaff
<1>2. pc[r] = "notify" /\ UNCHANGED <<storageVars, submission, verified, unannounced>>
  BY DEF NotifyStaff
<1>3. job[r] \in Job /\ job[r].staff \subseteq Staff
  BY <1>0 DEF SubmissionsTypeOK, Job
<1> DEFINE j == [job[r] EXCEPT !.staff = @ \ {u}]
<1>4. j \in Job /\ j.files = job[r].files /\ j.staff = job[r].staff \ {u}
  BY <1>3 DEF Job
<1> HIDE DEF j
<1>5. /\ Moved(r)
      /\ \/ job[r].staff = {u} /\ pc'[r] = "idle" /\ job'[r] = NoJob
         \/ pc'[r] = "notify" /\ job'[r] = j
  <2>1. CASE job[r].staff = {u}
    BY <1>0, <1>1, <2>1, GotoMoves DEF PC
  <2>2. CASE job[r].staff # {u}
    BY <1>0, <1>1, <1>4, <2>2, ContinueMoves DEF PC, j
  <2> QED
    BY <2>1, <2>2
<1>6. SubmissionsTypeOK'
  BY <1>0, <1>1, <1>2, <1>3, <1>5, TypesStand DEF SubmissionsTypeOK
<1>7. JobInv'
  <2>1. RequestOK(r)'
    <3>1. CASE pc'[r] = "idle" /\ job'[r] = NoJob
      BY <3>1, NoJobTyped, EmptyParts DEF RequestOK
    <3>2. CASE pc'[r] = "notify" /\ job'[r] = j
      BY <1>0, <1>2, <1>4, <3>2 DEF RequestOK, storageVars
    <3> QED
      BY <1>5, <3>1, <3>2
  <2> QED
    BY <1>0, <1>2, <1>5, <2>1, OthersStand
<1>8. SubmissionInv' /\ FilesAreThere'
  BY <1>0, <1>2 DEF SubmissionInv, FilesAreThere, storageVars
<1>9. StaffWillBeTold'
  <2> SUFFICES ASSUME submission # None, ~unannounced, NEW v \in Staff, v \notin told'
               PROVE  \E q \in Requests :
                        /\ pc'[q] = "recipients" \/ (pc'[q] = "notify" /\ v \in job'[q].staff)
                        /\ IsCurrent(q)'
    BY <1>2 DEF StaffWillBeTold
  <2>1. PICK q \in Requests :
          /\ pc[q] = "recipients" \/ (pc[q] = "notify" /\ v \in job[q].staff)
          /\ IsCurrent(q)
    BY <1>0, <1>1 DEF StaffWillBeTold
  <2>2. CASE q = r
    <3>1. v \in job[r].staff /\ v # u
      BY <1>1, <1>2, <2>1, <2>2
    <3>2. pc'[r] = "notify" /\ job'[r] = j
      BY <1>5, <3>1
    <3>3. IsCurrent(r)'
      BY <1>2, <1>4, <2>1, <2>2, <3>2 DEF IsCurrent
    <3> QED
      BY <1>4, <3>1, <3>2, <3>3
  <2>3. CASE q # r
    BY <1>2, <1>5, <2>1, <2>3 DEF Moved, IsCurrent
  <2> QED
    BY <2>2, <2>3
<1>10. CheckHolds'
  BY <1>0, <1>2, <1>5, CheckStands
<1> QED
  BY <1>6, <1>7, <1>8, <1>9, <1>10 DEF IInv

\* A request that ends holds no files.
LEMMA IdleInv ==
  ASSUME SubmissionsTypeOK, NEW r \in Requests, Goto(r, "idle")
  PROVE  Moved(r) /\ pc'[r] = "idle" /\ RequestOK(r)'
<1>1. Moved(r) /\ pc'[r] = "idle" /\ job'[r] = NoJob
  BY GotoMoves DEF PC
<1> QED
  BY <1>1, NoJobTyped, EmptyParts DEF RequestOK

\* DropSubmission keeps the invariant.
LEMMA DropSubmissionInv ==
  ASSUME IInv, NEW r \in Requests, DropSubmission(r)
  PROVE  IInv'
<1>1. /\ pc[r] = "drop" /\ UNCHANGED <<storageVars, verified>>
      /\ \/ submission' = None /\ told' = {} /\ unannounced' = FALSE
         \/ UNCHANGED <<submission, told, unannounced>>
      /\ Goto(r, "idle")
  BY DEF DropSubmission
<1>2. Moved(r) /\ pc'[r] = "idle" /\ RequestOK(r)'
  BY <1>1, IdleInv DEF IInv
<1>3. CASE UNCHANGED <<submission, told, unannounced>>
  BY <1>1, <1>2, <1>3, QuietStep
<1>4. CASE submission' = None /\ told' = {} /\ unannounced' = FALSE
  <2>1. SubmissionsTypeOK'
    BY <1>1, <1>2, <1>4 DEF IInv, SubmissionsTypeOK, Moved, storageVars
  <2>2. JobInv'
    BY <1>1, <1>2, OthersStand DEF IInv
  <2>3. CheckHolds'
    BY <1>1, <1>2, CheckStands DEF IInv
  <2>4. SubmissionInv' /\ FilesAreThere' /\ StaffWillBeTold'
    BY <1>1, <1>4 DEF IInv, SubmissionInv, FilesAreThere, StaffWillBeTold, storageVars, None
  <2> QED
    BY <2>1, <2>2, <2>3, <2>4 DEF IInv
<1> QED
  BY <1>1, <1>3, <1>4

\* Fail keeps the invariant.
LEMMA FailInv ==
  ASSUME IInv, NEW r \in Requests, Fail(r)
  PROVE  IInv'
<1>1. /\ Goto(r, "idle") /\ UNCHANGED <<storageVars, submission, verified, told>>
      /\ unannounced' = (unannounced \/ (pc[r] \in {"recipients", "notify"} /\ IsCurrent(r)))
  BY DEF Fail
<1>2. Moved(r) /\ pc'[r] = "idle" /\ RequestOK(r)'
  BY <1>1, IdleInv DEF IInv
<1>3. SubmissionsTypeOK'
  <2>1. unannounced' \in BOOLEAN
    BY <1>1, Zenon
  <2> QED
    BY <1>1, <1>2, <2>1, TypesStand DEF IInv, SubmissionsTypeOK
<1>4. JobInv'
  BY <1>1, <1>2, OthersStand DEF IInv
<1>5. CheckHolds'
  BY <1>1, <1>2, CheckStands DEF IInv
<1>6. SubmissionInv' /\ FilesAreThere'
  BY <1>1 DEF IInv, SubmissionInv, FilesAreThere, storageVars
<1>7. StaffWillBeTold'
  <2> SUFFICES ASSUME submission # None, ~unannounced', NEW u \in Staff, u \notin told
               PROVE  \E q \in Requests :
                        /\ pc'[q] = "recipients" \/ (pc'[q] = "notify" /\ u \in job'[q].staff)
                        /\ IsCurrent(q)'
    BY <1>1 DEF StaffWillBeTold
  <2>1. ~unannounced /\ ~(pc[r] \in {"recipients", "notify"} /\ IsCurrent(r))
    BY <1>1, Zenon
  <2>2. PICK q \in Requests :
          /\ pc[q] = "recipients" \/ (pc[q] = "notify" /\ u \in job[q].staff)
          /\ IsCurrent(q)
    BY <2>1 DEF IInv, StaffWillBeTold
  <2>3. q # r
    BY <2>1, <2>2
  <2> QED
    BY <1>1, <1>2, <2>2, <2>3 DEF Moved, IsCurrent
<1> QED
  BY <1>3, <1>4, <1>5, <1>6, <1>7 DEF IInv

\* Decide keeps the invariant.
LEMMA DecideInv ==
  ASSUME IInv, Decide
  PROVE  IInv'
<1>1. /\ verified' = ~verified /\ overtaken' = overtaken \cup {r \in Requests : pc[r] = "insert"}
      /\ UNCHANGED <<storageVars, submission, told, pc, job, unannounced>>
  BY DEF Decide
<1>2. SubmissionsTypeOK'
  <2>1. verified' \in BOOLEAN
    BY <1>1, Zenon
  <2> QED
    BY <1>1, <2>1 DEF IInv, SubmissionsTypeOK, storageVars
<1>3. JobInv'
  BY <1>1 DEF IInv, JobInv, RequestOK, KeysDiffer, storageVars
<1>4. SubmissionInv' /\ FilesAreThere' /\ StaffWillBeTold'
  BY <1>1 DEF IInv, SubmissionInv, FilesAreThere, StaffWillBeTold, IsCurrent, storageVars
<1>5. CheckHolds'
  BY <1>1 DEF CheckHolds
<1> QED
  BY <1>2, <1>3, <1>4, <1>5 DEF IInv

\* Every step keeps the invariant.
LEMMA NextInv == IInv /\ [Next]_vars => IInv'
<1> SUFFICES ASSUME IInv, [Next]_vars PROVE IInv'
  OBVIOUS
<1>1. ASSUME NEW r \in Requests, SubmissionsController(r) PROVE IInv'
  BY <1>1, UploadInv, DeleteSubmissionInv DEF SubmissionsController
<1>2. ASSUME NEW r \in Requests, StorageController(r) PROVE IInv'
  <2>1. 1 \in 1..2
    OBVIOUS
  <2> QED
    BY <1>2, <2>1, UploadInv, DeleteFileInv DEF StorageController
<1>3. ASSUME NEW r \in Requests, PutObject(r) \/ SaveRow(r) PROVE IInv'
  BY <1>3, PutObjectInv, SaveRowInv
<1>4. ASSUME NEW r \in Requests, LoadRegistration(r) \/ InsertSubmission(r) PROVE IInv'
  BY <1>4, LoadRegistrationInv, InsertSubmissionInv
<1>5. ASSUME NEW r \in Requests, FindRecipients(r) \/ NotifyStaff(r) PROVE IInv'
  BY <1>5, FindRecipientsInv, NotifyStaffInv
<1>6. ASSUME NEW r \in Requests, FindFile(r) \/ Unlink(r) \/ DeleteRow(r) PROVE IInv'
  BY <1>6, FindFileInv, UnlinkInv, DeleteRowInv
<1>7. ASSUME NEW r \in Requests, DropSubmission(r) \/ Fail(r) PROVE IInv'
  BY <1>7, DropSubmissionInv, FailInv
<1>8. CASE Decide
  BY <1>8, DecideInv
<1>9. CASE UNCHANGED vars
  BY <1>9 DEF vars, storageVars, IInv, SubmissionsTypeOK, JobInv, RequestOK, KeysDiffer,
              SubmissionInv, FilesAreThere, StaffWillBeTold, CheckHolds, IsCurrent
<1> QED
  BY <1>1, <1>2, <1>3, <1>4, <1>5, <1>6, <1>7, <1>8, <1>9 DEF Next

----------------------------------------------------------------------------
\* In every state the files of each request are what its await says, and the
\* submission, the staff and the check of the status are as promised.
THEOREM Invariance == Spec => []IInv
<1> QED
  BY InitInv, NextInv, PTL DEF Spec

\* The variables of submissions and storage keep their types.
THEOREM TypeCorrect == Spec => []SubmissionsTypeOK
<1>1. IInv => SubmissionsTypeOK
  BY DEF IInv
<1> QED
  BY <1>1, Invariance, PTL

\* Whatever fails between the awaits of any number of requests, a row points to
\* an object and a submission to rows, unless a deletion of the file began.
THEOREM NoLinkDangles == Spec => []FilesAreThere
<1>1. IInv => FilesAreThere
  BY DEF IInv
<1> QED
  BY <1>1, Invariance, PTL

\* sendToRoles reaches all the staff, unless the request that handed the work
\* in was cut off.
THEOREM StaffTold == Spec => []StaffIsTold
<1>1. IInv => StaffIsTold
  <2> SUFFICES ASSUME IInv, submission # None, ~unannounced, NEW u \in Staff
               PROVE  \/ u \in told
                      \/ \E r \in Requests : pc[r] \in {"recipients", "notify"} /\ IsCurrent(r)
    BY DEF StaffIsTold
  <2> QED
    BY DEF IInv, StaffWillBeTold
<1> QED
  BY <1>1, Invariance, PTL

\* What a deletion removes is the submission whose file it deleted before: no
\* row of stored_files is saved again once it was deleted.
THEOREM DeletesItsOwn == Spec => DeletedAfterItsFile
<1>1. IInv /\ [Next]_vars => (submission # None /\ submission' = None => submission.work \notin stored)
  <2> SUFFICES ASSUME IInv, [Next]_vars, submission # None, submission' = None
               PROVE  submission.work \notin stored
    OBVIOUS
  <2>1. PICK r \in Requests : DropSubmission(r)
    <3>1. ASSUME NEW r \in Requests, InsertSubmission(r) PROVE FALSE
      BY <3>1 DEF InsertSubmission
    <3> QED
      BY <3>1 DEF Next, vars, SubmissionsController, StorageController, Upload, PutObject, SaveRow,
           LoadRegistration, FindRecipients, NotifyStaff, DeleteSubmission, DeleteFile, FindFile,
           Unlink, DeleteRow, Fail, Decide
  <2>2. IsCurrent(r) /\ pc[r] = "drop"
    BY <2>1 DEF DropSubmission
  <2>3. Head(job[r].files) \notin stored
    BY <2>2 DEF IInv, JobInv, RequestOK
  <2> QED
    BY <2>2, <2>3 DEF IsCurrent
<1> QED
  BY <1>1, Invariance, PTL DEF Spec, DeletedAfterItsFile

\* validateRegistrationEligibility holds when the row is inserted, unless
\* VerifyPaymentUseCase committed after it was checked.
THEOREM ChecksVerified == Spec => VerifiedUnlessOvertaken
<1>1. IInv => (\A r \in Requests : HandsIn(r) => verified \/ r \in overtaken)
  BY DEF IInv, CheckHolds, HandsIn
<1> QED
  BY <1>1, Invariance, PTL DEF Spec, VerifiedUnlessOvertaken
=============================================================================
