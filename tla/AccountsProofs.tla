--------------------------- MODULE AccountsProofs ---------------------------
(***************************************************************************)
(* Theorems about Accounts, for any set of passwords, any set of           *)
(* overlapping requests and any bound on the codes.                        *)
(***************************************************************************)
EXTENDS MCPlatform, TLAPS

\* An account is inactive exactly while a code waits to verify it; the codes
\* in the row were drawn, are not each other and have not been redeemed.
RowInv ==
  /\ user.isActive <=> user.otpCode = 0
  /\ user.isEmailVerified => user.isActive
  /\ user.otpCode \in 0..drawn /\ user.resetPasswordOtp \in 0..drawn
  /\ user.otpCode # 0 => user.otpCode # user.resetPasswordOtp
  /\ user.otpCode \notin redeemed /\ user.resetPasswordOtp \notin redeemed

\* Registering has not stored its code yet.
Open == user.isActive /\ ~user.isEmailVerified /\ user.role # "ADMIN"

\* What a request with job j at the await `at` relies on, whoever wrote since.
Asks(j, at) ==
  /\ at \in {"mail", "verify", "reset"} => j.code \in 1..drawn
  /\ at \in {"insert", "reset", "change", "staff", "seed"} => j.password \in Passwords
  /\ at \notin {"idle", "insert", "staff", "seed"} => Exists
  /\ at = "otp" => Open
  /\ at = "verify" => ~Open /\ j.code # user.resetPasswordOtp
  /\ at = "reset" => j.code # user.otpCode

\* What its checks established, if nobody wrote since.
Checked(j, at) ==
  /\ at = "insert" => ~Exists
  /\ at = "verify" => user.otpCode = j.code
  /\ at = "reset" => user.resetPasswordOtp = j.code
  /\ at = "mail" => j.code \in {user.otpCode, user.resetPasswordOtp}
  /\ at \in {"compare", "change"} => user.password = j.known /\ user.isActive

Known(r) == Asks(job[r], pc[r]) /\ (current[r] => Checked(job[r], pc[r]))

IInv ==
  /\ TypeOK
  /\ Exists => RowInv
  /\ token => Exists
  /\ \A r \in Requests : Known(r)
  /\ \A q, r \in Requests : pc[q] = "otp" /\ pc[r] = "otp" => q = r

----------------------------------------------------------------------------
\* An idle request's memory is typed too.
LEMMA NoJobTyped == NoJob \in Job
BY AccountsAssumption DEF NoJob, Job, Codes, UserRole

\* The invariant holds while the address is free.
LEMMA InitIInv == Init => IInv
<1> SUFFICES ASSUME Init PROVE IInv
  OBVIOUS
<1>1. TypeOK
  <2>1. current \in [Requests -> BOOLEAN]
    BY Zenon DEF Init
  <2>2. pc \in [Requests -> PC] /\ job \in [Requests -> Job]
    BY NoJobTyped DEF Init, PC
  <2>3. drawn \in Codes /\ inbox \subseteq 1..drawn /\ redeemed \subseteq 1..drawn
    BY AccountsAssumption DEF Init, Codes
  <2> QED
    BY <2>1, <2>2, <2>3 DEF Init, TypeOK
<1>2. ~Exists /\ ~token /\ \A r \in Requests : pc[r] = "idle"
  BY DEF Init, Exists
<1> QED
  BY <1>1, <1>2 DEF IInv, Known, Asks, Checked

\* A request that goes on reading keeps the invariant if it may know what it
\* knows next.
LEMMA Reading ==
  ASSUME IInv, NEW r \in Requests, NEW j \in Job, NEW where \in PC \ {"otp"},
         Continue(r, j, where), Asks(j, where), Checked(j, where)
  PROVE  IInv'
<1>1. /\ UNCHANGED <<user, drawn, inbox, token, current, redeemed>>
      /\ pc' = [pc EXCEPT ![r] = where] /\ job' = [job EXCEPT ![r] = j]
  BY DEF Continue
<1>2. /\ pc \in [Requests -> PC] /\ job \in [Requests -> Job]
      /\ \A q \in Requests : q # r => pc'[q] = pc[q] /\ job'[q] = job[q]
      /\ pc'[r] = where /\ job'[r] = j
  BY <1>1 DEF IInv, TypeOK
<1>3. TypeOK'
  BY <1>1, <1>2 DEF IInv, TypeOK
<1>4. Exists' = Exists /\ RowInv' = RowInv
  BY <1>1 DEF Exists, RowInv
<1>5. \A q \in Requests : Known(q)'
  BY <1>1, <1>2 DEF IInv, Known, Asks, Checked, Exists, Open
<1> QED
  BY <1>1, <1>2, <1>3, <1>4, <1>5 DEF IInv

\* So does a request that is answered without having written.
LEMMA Answered ==
  ASSUME IInv, NEW r \in Requests, Answer(r), UNCHANGED <<user, drawn, redeemed>>,
         inbox' \subseteq 1..drawn, token' \in BOOLEAN, token' => Exists
  PROVE  IInv'
<1>1. /\ pc' = [pc EXCEPT ![r] = "idle"] /\ job' = [job EXCEPT ![r] = NoJob]
      /\ current' = [current EXCEPT ![r] = TRUE]
  BY DEF Answer
<1>2. /\ \A q \in Requests : q # r => pc'[q] = pc[q] /\ job'[q] = job[q]
                                      /\ current'[q] = current[q]
      /\ pc'[r] = "idle"
  BY <1>1 DEF IInv, TypeOK
<1>3. TypeOK'
  BY <1>1, AccountsAssumption DEF IInv, TypeOK, PC, Job, NoJob, Codes, UserRole
<1>4. Exists' = Exists /\ RowInv' = RowInv
  BY DEF Exists, RowInv
<1>5. \A q \in Requests : Known(q)'
  BY <1>2 DEF IInv, Known, Asks, Checked, Exists, Open
<1> QED
  BY <1>2, <1>3, <1>4, <1>5 DEF IInv

\* Request r has written a row and gone on to another await.
Wrote(r) ==
  /\ user' \in UserRow
  /\ pc' = [pc EXCEPT ![r] = pc'[r]] /\ pc'[r] \in PC
  /\ job' = [job EXCEPT ![r] = job'[r]] /\ job'[r] \in Job
  /\ current' = [q \in Requests |-> q = r \/ pc[q] = "idle"]
  /\ inbox' = inbox

\* A write keeps it if the row it leaves is sound and every request still
\* finds what it relies on: what the others have checked they no longer know.
LEMMA Writing ==
  ASSUME IInv, NEW r \in Requests, Wrote(r),
         drawn' \in Codes, drawn <= drawn', token' \in BOOLEAN, redeemed' \subseteq 1..drawn',
         RowInv', Checked(job[r], pc[r])',
         \A q \in Requests : Asks(job[q], pc[q])',
         pc'[r] = "otp" => \A q \in Requests : pc[q] # "otp"
  PROVE  IInv'
<1>1. \A q \in Requests : q # r => pc'[q] = pc[q] /\ job'[q] = job[q]
  BY DEF Wrote, IInv, TypeOK
<1>2. /\ pc' \in [Requests -> PC] /\ job' \in [Requests -> Job]
      /\ inbox' \subseteq 1..drawn'
  BY DEF Wrote, IInv, TypeOK, Codes
<1>3. current' \in [Requests -> BOOLEAN]
  BY DEF Wrote
<1>4. TypeOK'
  BY <1>2, <1>3 DEF TypeOK, Wrote
<1>5. Exists'
  BY NoUserAssumption DEF Exists, Wrote
<1>6. ASSUME NEW q \in Requests PROVE Known(q)'
  <2>1. CASE q = r
    BY <2>1 DEF Known
  <2>2. CASE q # r
    BY <1>1, <2>2 DEF Known, Checked, Wrote
  <2> QED
    BY <2>1, <2>2
<1>7. ASSUME NEW p \in Requests, NEW q \in Requests, pc'[p] = "otp", pc'[q] = "otp"
      PROVE  p = q
  BY <1>1, <1>7 DEF IInv
<1> QED
  BY <1>4, <1>5, <1>6, <1>7 DEF IInv

----------------------------------------------------------------------------
\* The columns of the row are those of UserRow.
LEMMA RowTyped ==
  ASSUME IInv, Exists
  PROVE  /\ user \in UserRow /\ RowInv
         /\ user.isActive \in BOOLEAN /\ user.isEmailVerified \in BOOLEAN
         /\ user.otpCode \in Nat /\ user.resetPasswordOtp \in Nat
         /\ drawn \in Nat /\ drawn <= MAX_CODES
BY AccountsAssumption DEF IInv, TypeOK, Exists, UserRow, Codes

\* While the address is free, every request in flight is about to insert.
LEMMA OthersInsert ==
  ASSUME IInv, ~Exists, NEW q \in Requests
  PROVE  pc[q] \in {"idle", "insert", "staff", "seed"}
BY DEF IInv, Known, Asks

\* A new row has the defaults of the columns, verified or not.
LEMMA NewUserTyped ==
  ASSUME NEW role \in UserRole, NEW password \in Passwords
  PROVE  LET row == NewUser(role, password)
             staff == [row EXCEPT !.isEmailVerified = TRUE]
         IN /\ row \in UserRow /\ staff \in UserRow
            /\ row.isActive /\ row.role = role
            /\ row.otpCode = 0 /\ row.resetPasswordOtp = 0
            /\ ~row.isEmailVerified
            /\ staff.isActive /\ staff.otpCode = 0 /\ staff.resetPasswordOtp = 0
<1> DEFINE row == NewUser(role, password)
<1>1. 0 \in Codes
  BY AccountsAssumption DEF Codes
<1>2. row \in UserRow
  BY <1>1 DEF NewUser, UserRow
<1>3. /\ row.isActive /\ ~row.isEmailVerified /\ row.role = role
      /\ row.otpCode = 0 /\ row.resetPasswordOtp = 0
  BY DEF NewUser
<1> HIDE DEF row
<1>4. [row EXCEPT !.isEmailVerified = TRUE] \in UserRow
  BY <1>2 DEF UserRow
<1> QED
  BY <1>2, <1>3, <1>4 DEF row, UserRow

\* The insert of a new account keeps the invariant.
LEMMA Inserting ==
  ASSUME IInv, ~Exists, NEW r \in Requests, Wrote(r), pc'[r] \in {"idle", "otp"},
         user'.isActive, user'.otpCode = 0, user'.resetPasswordOtp = 0,
         pc'[r] = "otp" => ~user'.isEmailVerified /\ user'.role = "PARTICIPANT",
         UNCHANGED <<drawn, token, redeemed>>
  PROVE  IInv'
<1>1. drawn \in Codes /\ drawn \in Nat /\ redeemed \subseteq 1..drawn /\ token \in BOOLEAN
  BY AccountsAssumption DEF IInv, TypeOK, Codes
<1>2. RowInv'
  BY <1>1 DEF RowInv
<1>3. \A q \in Requests : pc[q] \in {"idle", "insert", "staff", "seed"}
  BY OthersInsert
<1>4. ASSUME NEW q \in Requests PROVE Asks(job[q], pc[q])'
  <2>1. CASE q = r
    BY <2>1, NoUserAssumption DEF Asks, Open, Exists, Wrote
  <2>2. CASE q # r
    <3>1. pc'[q] = pc[q] /\ job'[q] = job[q]
      BY <2>2 DEF Wrote, IInv, TypeOK
    <3> QED
      BY <1>3, <3>1 DEF IInv, Known, Asks
  <2> QED
    BY <2>1, <2>2
<1>5. Checked(job[r], pc[r])'
  BY DEF Checked
<1>6. \A q \in Requests : pc[q] # "otp"
  BY <1>3
<1> QED
  BY <1>1, <1>2, <1>4, <1>5, <1>6, Writing

----------------------------------------------------------------------------
\* StoreOtp: the code is new, the account leaves Open and no request relied
\* on its being there but the one that writes.
LEMMA StoreOtpKeeps == ASSUME IInv, NEW r \in Requests, StoreOtp(r) PROVE IInv'
<1>1. /\ Exists /\ Open /\ pc[r] = "otp"
      /\ \A q \in Requests : Asks(job[q], pc[q]) /\ (q # r => pc[q] # "otp")
  BY DEF StoreOtp, IInv, Known, Asks
<1>2. /\ drawn' = drawn + 1 /\ drawn' \in Codes /\ drawn \in Nat
      /\ redeemed \subseteq 1..drawn /\ UNCHANGED <<token, redeemed>> /\ token \in BOOLEAN
  BY AccountsAssumption DEF StoreOtp, IInv, TypeOK, Codes
<1>3. user \in UserRow
  BY <1>1, RowTyped
<1>4. /\ user' \in UserRow /\ user'.otpCode = drawn' /\ ~user'.isActive
      /\ ~user'.isEmailVerified /\ user'.resetPasswordOtp = user.resetPasswordOtp
  BY <1>2, <1>3 DEF StoreOtp, Write, UserRow
<1>5. Wrote(r) /\ pc'[r] = "mail" /\ job'[r].code = drawn'
  <2>1. /\ [NoJob EXCEPT !.code = drawn'] \in Job
        /\ [NoJob EXCEPT !.code = drawn'].code = drawn'
    BY <1>2, NoJobTyped DEF NoJob, Job
  <2>2. job'[r] = [NoJob EXCEPT !.code = drawn'] /\ pc'[r] = "mail"
    BY DEF StoreOtp, Write, IInv, TypeOK
  <2> QED
    BY <1>2, <1>4, <2>1, <2>2 DEF StoreOtp, Write, Wrote, PC
<1>6. RowInv'
  BY <1>1, <1>2, <1>4, RowTyped DEF RowInv
<1>7. Checked(job[r], pc[r])'
  BY <1>4, <1>5 DEF Checked
<1>8. ASSUME NEW q \in Requests PROVE Asks(job[q], pc[q])'
  <2>1. CASE q = r
    BY <1>2, <1>4, <1>5, <2>1, NoUserAssumption DEF Asks, Exists
  <2>2. CASE q # r
    <3>1. pc'[q] = pc[q] /\ job'[q] = job[q]
      BY <1>5, <2>2 DEF Wrote, IInv, TypeOK
    <3> QED
      BY <1>1, <1>2, <1>4, <2>2, <3>1, NoUserAssumption DEF Asks, Exists, Open
  <2> QED
    BY <2>1, <2>2
<1> QED
  BY <1>2, <1>5, <1>6, <1>7, <1>8, Writing

\* MarkVerified: the code it redeems is not the one that resets a password.
LEMMA MarkVerifiedKeeps == ASSUME IInv, NEW r \in Requests, MarkVerified(r) PROVE IInv'
<1>1. /\ Exists /\ job[r].code \in 1..drawn /\ job[r].code # user.resetPasswordOtp
      /\ \A q \in Requests : Asks(job[q], pc[q]) /\ pc[q] # "otp"
  BY DEF MarkVerified, IInv, Known, Asks
<1>2. /\ drawn' = drawn /\ drawn \in Codes /\ drawn \in Nat /\ token' = TRUE
      /\ redeemed' = redeemed \cup {job[r].code} /\ redeemed \subseteq 1..drawn
  BY AccountsAssumption DEF MarkVerified, IInv, TypeOK, Codes
<1>3. user \in UserRow /\ 0 \in Codes
  BY <1>1, RowTyped, AccountsAssumption DEF Codes
<1>4. /\ user' \in UserRow /\ user'.otpCode = 0 /\ user'.isActive
      /\ user'.isEmailVerified /\ user'.resetPasswordOtp = user.resetPasswordOtp
  BY <1>3 DEF MarkVerified, Write, UserRow
<1>5. Wrote(r) /\ pc'[r] = "idle"
  BY <1>4, NoJobTyped DEF MarkVerified, Write, Wrote, IInv, TypeOK, PC
<1>6. RowInv'
  BY <1>1, <1>2, <1>4, RowTyped DEF RowInv
<1>7. Checked(job[r], pc[r])'
  BY <1>5 DEF Checked
<1>8. ASSUME NEW q \in Requests PROVE Asks(job[q], pc[q])'
  <2>1. CASE q = r
    BY <1>5, <2>1 DEF Asks
  <2>2. CASE q # r
    <3>1. pc'[q] = pc[q] /\ job'[q] = job[q]
      BY <1>5, <2>2 DEF Wrote, IInv, TypeOK
    <3> QED
      BY <1>1, <1>2, <1>4, <3>1, NoUserAssumption DEF Asks, Exists, Open
  <2> QED
    BY <2>1, <2>2
<1> QED
  <2>1. drawn <= drawn' /\ drawn' \in Codes
    BY <1>2
  <2>2. redeemed' \subseteq 1..drawn' /\ token' \in BOOLEAN
    BY <1>1, <1>2, Zenon
  <2> QED
    BY <1>5, <1>6, <1>7, <1>8, <2>1, <2>2, Writing

\* ForgotPassword: the code it stores is new.
LEMMA ForgotPasswordKeeps == ASSUME IInv, NEW r \in Requests, ForgotPassword(r) PROVE IInv'
<1>1. Exists /\ \A q \in Requests : Asks(job[q], pc[q])
  BY DEF ForgotPassword, IInv, Known
<1>2. /\ drawn' = drawn + 1 /\ drawn' \in Codes /\ drawn \in Nat
      /\ redeemed \subseteq 1..drawn /\ UNCHANGED <<token, redeemed>> /\ token \in BOOLEAN
  BY AccountsAssumption DEF ForgotPassword, IInv, TypeOK, Codes
<1>3. user \in UserRow
  BY <1>1, RowTyped
<1>4. /\ user' \in UserRow /\ user'.resetPasswordOtp = drawn' /\ user'.otpCode = user.otpCode
      /\ user'.isActive = user.isActive /\ user'.isEmailVerified = user.isEmailVerified
      /\ user'.role = user.role
  BY <1>2, <1>3 DEF ForgotPassword, Write, UserRow
<1>5. Wrote(r) /\ pc'[r] = "mail" /\ job'[r].code = drawn'
  <2>1. /\ [NoJob EXCEPT !.code = drawn'] \in Job
        /\ [NoJob EXCEPT !.code = drawn'].code = drawn'
    BY <1>2, NoJobTyped DEF NoJob, Job
  <2>2. job'[r] = [NoJob EXCEPT !.code = drawn'] /\ pc'[r] = "mail"
    BY DEF ForgotPassword, Write, IInv, TypeOK
  <2> QED
    BY <1>2, <1>4, <2>1, <2>2 DEF ForgotPassword, Write, Wrote, PC
<1>6. RowInv'
  BY <1>1, <1>2, <1>4, RowTyped DEF RowInv
<1>7. Checked(job[r], pc[r])'
  BY <1>4, <1>5 DEF Checked
<1>8. ASSUME NEW q \in Requests PROVE Asks(job[q], pc[q])'
  <2>1. CASE q = r
    BY <1>2, <1>4, <1>5, <2>1, NoUserAssumption DEF Asks, Exists
  <2>2. CASE q # r
    <3>1. pc'[q] = pc[q] /\ job'[q] = job[q]
      BY <1>5, <2>2 DEF Wrote, IInv, TypeOK
    <3> QED
      BY <1>1, <1>2, <1>4, <3>1, NoUserAssumption DEF Asks, Exists, Open
  <2> QED
    BY <2>1, <2>2
<1> QED
  BY <1>2, <1>5, <1>6, <1>7, <1>8, Writing

\* StoreReset: the code it redeems is not the one that verifies the address.
LEMMA StoreResetKeeps == ASSUME IInv, NEW r \in Requests, StoreReset(r) PROVE IInv'
<1>1. /\ Exists /\ job[r].code \in 1..drawn /\ job[r].code # user.otpCode
      /\ job[r].password \in Passwords /\ \A q \in Requests : Asks(job[q], pc[q])
  BY DEF StoreReset, IInv, Known, Asks
<1>2. /\ drawn' = drawn /\ drawn \in Codes /\ drawn \in Nat /\ token' = token
      /\ redeemed' = redeemed \cup {job[r].code} /\ redeemed \subseteq 1..drawn
      /\ token \in BOOLEAN
  BY AccountsAssumption DEF StoreReset, IInv, TypeOK, Codes
<1>3. user \in UserRow /\ 0 \in Codes
  BY <1>1, RowTyped, AccountsAssumption DEF Codes
<1>4. /\ user' \in UserRow /\ user'.resetPasswordOtp = 0 /\ user'.otpCode = user.otpCode
      /\ user'.isActive = user.isActive /\ user'.isEmailVerified = user.isEmailVerified
      /\ user'.role = user.role
  BY <1>1, <1>3 DEF StoreReset, Write, UserRow
<1>5. Wrote(r) /\ pc'[r] = "idle"
  BY <1>4, NoJobTyped DEF StoreReset, Write, Wrote, IInv, TypeOK, PC
<1>6. RowInv'
  BY <1>1, <1>2, <1>4, RowTyped DEF RowInv
<1>7. Checked(job[r], pc[r])'
  BY <1>5 DEF Checked
<1>8. ASSUME NEW q \in Requests PROVE Asks(job[q], pc[q])'
  <2>1. CASE q = r
    BY <1>5, <2>1 DEF Asks
  <2>2. CASE q # r
    <3>1. pc'[q] = pc[q] /\ job'[q] = job[q]
      BY <1>5, <2>2 DEF Wrote, IInv, TypeOK
    <3> QED
      BY <1>1, <1>2, <1>4, <3>1, NoUserAssumption DEF Asks, Exists, Open
  <2> QED
    BY <2>1, <2>2
<1> QED
  <2>1. drawn <= drawn' /\ drawn' \in Codes
    BY <1>2
  <2>2. redeemed' \subseteq 1..drawn' /\ token' \in BOOLEAN
    BY <1>1, <1>2, Zenon
  <2> QED
    BY <1>5, <1>6, <1>7, <1>8, <2>1, <2>2, Writing

\* StorePassword touches none of the columns the others rely on.
LEMMA StorePasswordKeeps == ASSUME IInv, NEW r \in Requests, StorePassword(r) PROVE IInv'
<1>1. Exists /\ job[r].password \in Passwords /\ \A q \in Requests : Asks(job[q], pc[q])
  BY DEF StorePassword, IInv, Known, Asks
<1>2. /\ UNCHANGED <<drawn, token, redeemed>> /\ drawn \in Codes /\ drawn \in Nat
      /\ redeemed \subseteq 1..drawn /\ token \in BOOLEAN
  BY AccountsAssumption DEF StorePassword, IInv, TypeOK, Codes
<1>3. user \in UserRow
  BY <1>1, RowTyped
<1>4. /\ user' \in UserRow /\ user'.resetPasswordOtp = user.resetPasswordOtp
      /\ user'.otpCode = user.otpCode /\ user'.isActive = user.isActive
      /\ user'.isEmailVerified = user.isEmailVerified /\ user'.role = user.role
  BY <1>1, <1>3 DEF StorePassword, Write, UserRow
<1>5. Wrote(r) /\ pc'[r] = "idle"
  BY <1>4, NoJobTyped DEF StorePassword, Write, Wrote, IInv, TypeOK, PC
<1>6. RowInv'
  BY <1>1, <1>2, <1>4, RowTyped DEF RowInv
<1>7. Checked(job[r], pc[r])'
  BY <1>5 DEF Checked
<1>8. ASSUME NEW q \in Requests PROVE Asks(job[q], pc[q])'
  <2>1. CASE q = r
    BY <1>5, <2>1 DEF Asks
  <2>2. CASE q # r
    <3>1. pc'[q] = pc[q] /\ job'[q] = job[q]
      BY <1>5, <2>2 DEF Wrote, IInv, TypeOK
    <3> QED
      BY <1>1, <1>2, <1>4, <3>1, NoUserAssumption DEF Asks, Exists, Open
  <2> QED
    BY <2>1, <2>2
<1> QED
  BY <1>2, <1>5, <1>6, <1>7, <1>8, Writing

\* A code that expires is still there: no request relied on its date.
LEMMA ExpiryKeeps == ASSUME IInv, ExpireOtp \/ ExpireReset PROVE IInv'
<1>1. Exists /\ user \in UserRow
  BY RowTyped DEF ExpireOtp, ExpireReset
<1>2. UNCHANGED <<drawn, inbox, token, pc, job, current, redeemed>>
  BY DEF ExpireOtp, ExpireReset
<1>3. /\ user' \in UserRow /\ user'.resetPasswordOtp = user.resetPasswordOtp
      /\ user'.otpCode = user.otpCode /\ user'.isActive = user.isActive
      /\ user'.isEmailVerified = user.isEmailVerified /\ user'.role = user.role
      /\ user'.password = user.password
  BY <1>1 DEF ExpireOtp, ExpireReset, UserRow
<1>4. TypeOK'
  BY <1>2, <1>3 DEF IInv, TypeOK
<1>5. Exists' /\ RowInv'
  BY <1>1, <1>2, <1>3, NoUserAssumption DEF IInv, Exists, RowInv
<1>6. ASSUME NEW r \in Requests PROVE Known(r)'
  <2>1. Known(r)
    BY DEF IInv
  <2> QED
    BY <1>1, <1>2, <1>3, <1>5, <2>1 DEF Known, Asks, Checked, Open
<1> QED
  BY <1>2, <1>4, <1>5, <1>6 DEF IInv

----------------------------------------------------------------------------
\* A mailed code that is the stored one is the code of an account that waits.
LEMMA VerifyEmailKeeps ==
  ASSUME IInv, NEW r \in Requests, NEW code \in inbox, VerifyEmail(r, code)
  PROVE  IInv'
<1> DEFINE j == [NoJob EXCEPT !.code = code]
<1>1. code \in 1..drawn /\ code \in Codes /\ code \in Nat /\ code # 0
  BY AccountsAssumption DEF IInv, TypeOK, Codes
<1>2. j \in Job /\ j.code = code
  BY <1>1, NoJobTyped DEF NoJob, Job
<1>3. Exists /\ user.otpCode = code /\ Continue(r, j, "verify")
  BY DEF VerifyEmail
<1>4. RowInv
  BY <1>3 DEF IInv
<1>5. Asks(j, "verify") /\ Checked(j, "verify")
  BY <1>1, <1>2, <1>3, <1>4 DEF RowInv, Open, Asks, Checked
<1>6. "verify" \in PC \ {"otp"}
  BY DEF PC
<1> HIDE DEF j
<1> QED
  BY <1>2, <1>3, <1>5, <1>6, Reading

\* Requests that look up what they will answer or write.
LEMMA LookUps ==
  ASSUME IInv, NEW r \in Requests, NEW password \in Passwords,
         \/ Register(r, password) \/ Login(r, password) \/ SeedAdmin(r, password)
         \/ \E role \in UserRole : AdminCreateUser(r, role, password)
         \/ \E known \in Passwords : UpdateUser(r, known, password)
         \/ \E code \in inbox : ResetPassword(r, code, password)
  PROVE  IInv'
<1>0. {"insert", "reset", "compare", "change", "staff", "seed"} \subseteq PC \ {"otp"}
  BY DEF PC
<1>1. CASE Register(r, password)
  <2> DEFINE j == [NoJob EXCEPT !.password = password]
  <2>1. j \in Job /\ j.password = password
    BY NoJobTyped DEF NoJob, Job
  <2>2. Asks(j, "insert") /\ Checked(j, "insert") /\ Continue(r, j, "insert")
    BY <1>1, <2>1 DEF Register, Asks, Checked
  <2> HIDE DEF j
  <2> QED
    BY <1>0, <2>1, <2>2, Reading
<1>2. CASE Login(r, password)
  <2> DEFINE j == [NoJob EXCEPT !.known = password]
  <2>1. j \in Job /\ j.known = password
    BY NoJobTyped DEF NoJob, Job
  <2>2. Asks(j, "compare") /\ Checked(j, "compare") /\ Continue(r, j, "compare")
    BY <1>2, <2>1 DEF Login, Recognised, Asks, Checked
  <2> HIDE DEF j
  <2> QED
    BY <1>0, <2>1, <2>2, Reading
<1>3. CASE SeedAdmin(r, password)
  <2> DEFINE j == [NoJob EXCEPT !.role = "ADMIN", !.password = password]
  <2>1. j \in Job /\ j.password = password
    BY NoJobTyped DEF NoJob, Job, UserRole
  <2>2. Asks(j, "seed") /\ Checked(j, "seed") /\ Continue(r, j, "seed")
    BY <1>3, <2>1 DEF SeedAdmin, Asks, Checked
  <2> HIDE DEF j
  <2> QED
    BY <1>0, <2>1, <2>2, Reading
<1>4. ASSUME NEW role \in UserRole, AdminCreateUser(r, role, password) PROVE IInv'
  <2> DEFINE j == [NoJob EXCEPT !.role = role, !.password = password]
  <2>1. j \in Job /\ j.password = password
    BY NoJobTyped DEF NoJob, Job
  <2>2. Asks(j, "staff") /\ Checked(j, "staff") /\ Continue(r, j, "staff")
    BY <1>4, <2>1 DEF AdminCreateUser, Asks, Checked
  <2> HIDE DEF j
  <2> QED
    BY <1>0, <2>1, <2>2, Reading
<1>5. ASSUME NEW known \in Passwords, UpdateUser(r, known, password) PROVE IInv'
  <2> DEFINE j == [NoJob EXCEPT !.known = known, !.password = password]
  <2>1. j \in Job /\ j.password = password /\ j.known = known
    BY NoJobTyped DEF NoJob, Job
  <2>2. Exists
    BY <1>5 DEF UpdateUser, Authenticated, IInv
  <2>3. Asks(j, "change") /\ Checked(j, "change") /\ Continue(r, j, "change")
    BY <1>5, <2>1, <2>2 DEF UpdateUser, Recognised, Asks, Checked
  <2> HIDE DEF j
  <2> QED
    BY <1>0, <2>1, <2>3, Reading
<1>6. ASSUME NEW code \in inbox, ResetPassword(r, code, password) PROVE IInv'
  <2> DEFINE j == [NoJob EXCEPT !.code = code, !.password = password]
  <2>1. code \in 1..drawn /\ code \in Codes /\ code \in Nat /\ code # 0
    BY AccountsAssumption DEF IInv, TypeOK, Codes
  <2>2. j \in Job /\ j.code = code /\ j.password = password
    BY <2>1, NoJobTyped DEF NoJob, Job
  <2>3. Exists /\ user.resetPasswordOtp = code /\ Continue(r, j, "reset")
    BY <1>6 DEF ResetPassword
  <2>4. RowInv
    BY <2>3 DEF IInv
  <2>5. Asks(j, "reset") /\ Checked(j, "reset")
    BY <2>1, <2>2, <2>3, <2>4 DEF RowInv, Asks, Checked
  <2> HIDE DEF j
  <2> QED
    BY <1>0, <2>2, <2>3, <2>5, Reading
<1> QED
  BY <1>1, <1>2, <1>3, <1>4, <1>5, <1>6

\* The three ways an account comes to be.
LEMMA InsertsKeep ==
  ASSUME IInv, NEW r \in Requests, InsertUser(r) \/ InsertStaff(r) \/ InsertAdmin(r)
  PROVE  IInv'
<1>1. ~Exists /\ job[r].password \in Passwords /\ job[r].role \in UserRole
      /\ {"PARTICIPANT", "ADMIN"} \subseteq UserRole
  BY DEF InsertUser, InsertStaff, InsertAdmin, IInv, TypeOK, Job, Known, Asks, UserRole
<1>2. UNCHANGED <<drawn, inbox, token, redeemed>> /\ pc \in [Requests -> PC]
      /\ job \in [Requests -> Job] /\ {"idle", "otp"} \subseteq PC
  BY DEF InsertUser, InsertStaff, InsertAdmin, IInv, TypeOK, PC
<1>3. CASE InsertUser(r)
  <2> DEFINE row == NewUser("PARTICIPANT", job[r].password)
  <2>1. row \in UserRow /\ row.isActive /\ row.otpCode = 0 /\ row.resetPasswordOtp = 0
        /\ ~row.isEmailVerified /\ row.role = "PARTICIPANT"
    BY <1>1, NewUserTyped
  <2>2. Write(r, row, NoJob, "otp")
    BY <1>3 DEF InsertUser
  <2> HIDE DEF row
  <2>3. Wrote(r) /\ pc'[r] = "otp" /\ user' = row
    BY <1>2, <2>1, <2>2, NoJobTyped DEF Write, Wrote
  <2> QED
    BY <1>1, <1>2, <2>1, <2>3, Inserting
<1>4. CASE InsertStaff(r)
  <2> DEFINE row == [NewUser(job[r].role, job[r].password) EXCEPT !.isEmailVerified = TRUE]
  <2>1. row \in UserRow /\ row.isActive /\ row.otpCode = 0 /\ row.resetPasswordOtp = 0
    BY <1>1, NewUserTyped
  <2>2. Write(r, row, NoJob, "idle")
    BY <1>4 DEF InsertStaff
  <2> HIDE DEF row
  <2>3. Wrote(r) /\ pc'[r] = "idle" /\ user' = row
    BY <1>2, <2>1, <2>2, NoJobTyped DEF Write, Wrote
  <2> QED
    BY <1>1, <1>2, <2>1, <2>3, Inserting
<1>5. CASE InsertAdmin(r)
  <2> DEFINE row == NewUser("ADMIN", job[r].password)
  <2>1. row \in UserRow /\ row.isActive /\ row.otpCode = 0 /\ row.resetPasswordOtp = 0
    BY <1>1, NewUserTyped
  <2>2. Write(r, row, NoJob, "idle")
    BY <1>5 DEF InsertAdmin
  <2> HIDE DEF row
  <2>3. Wrote(r) /\ pc'[r] = "idle" /\ user' = row
    BY <1>2, <2>1, <2>2, NoJobTyped DEF Write, Wrote
  <2> QED
    BY <1>1, <1>2, <2>1, <2>3, Inserting
<1> QED
  BY <1>3, <1>4, <1>5

\* Requests that are answered without having written the row.
LEMMA AnswersKeep ==
  ASSUME IInv, NEW r \in Requests, SendMail(r) \/ IssueToken(r) \/ Fail(r)
  PROVE  IInv'
<1>1. Answer(r) /\ UNCHANGED <<user, drawn, redeemed>>
  BY DEF SendMail, IssueToken, Fail
<1>2. inbox \subseteq 1..drawn /\ token \in BOOLEAN /\ (token => Exists) /\ Asks(job[r], pc[r])
  BY DEF IInv, TypeOK, Known
<1>3. inbox' \subseteq 1..drawn
  BY <1>2 DEF SendMail, IssueToken, Fail, Asks
<1>4. token' \in BOOLEAN /\ (token' => Exists)
  <2>1. CASE IssueToken(r)
    <3>1. Exists
      BY <1>2, <2>1 DEF IssueToken, Asks
    <3> QED
      BY <2>1, <3>1 DEF IssueToken
  <2>2. CASE SendMail(r) \/ Fail(r)
    <3>1. token' = token
      BY <2>2 DEF SendMail, Fail
    <3> QED
      BY <1>2, <3>1, Zenon
  <2> QED
    BY <2>1, <2>2
<1> QED
  BY <1>1, <1>3, <1>4, Answered

\* Every step keeps the invariant.
LEMMA NextIInv == IInv /\ [Next]_vars => IInv'
<1> SUFFICES ASSUME IInv, [Next]_vars PROVE IInv'
  OBVIOUS
<1>1. CASE UNCHANGED vars
  BY <1>1 DEF vars, IInv, TypeOK, Exists, RowInv, Known, Asks, Checked, Open
<1>2. ASSUME NEW r \in Requests, SignUpAndIn(r) PROVE IInv'
  BY <1>2, LookUps, InsertsKeep, StoreOtpKeeps, AnswersKeep DEF SignUpAndIn
<1>3. ASSUME NEW r \in Requests, MailedCodes(r) PROVE IInv'
  BY <1>3, LookUps, AnswersKeep, VerifyEmailKeeps, MarkVerifiedKeeps, ForgotPasswordKeeps,
     StoreResetKeeps DEF MailedCodes
<1>4. ASSUME NEW r \in Requests, StaffAccounts(r) PROVE IInv'
  BY <1>4, LookUps, InsertsKeep DEF StaffAccounts
<1>5. ASSUME NEW r \in Requests, OwnProfile(r) PROVE IInv'
  BY <1>5, LookUps, StorePasswordKeeps DEF OwnProfile
<1>6. ASSUME NEW r \in Requests, NEW password \in Passwords, SeedAdmin(r, password) PROVE IInv'
  BY <1>6, LookUps
<1>7. ASSUME NEW r \in Requests, InsertAdmin(r) \/ Fail(r) PROVE IInv'
  BY <1>7, InsertsKeep, AnswersKeep
<1>8. CASE ExpireOtp \/ ExpireReset
  BY <1>8, ExpiryKeeps
<1>9. CASE ExpireToken
  <2>1. UNCHANGED <<user, drawn, inbox, pc, job, current, redeemed>> /\ token' = FALSE
    BY <1>9 DEF ExpireToken
  <2>2. TypeOK'
    BY <2>1 DEF IInv, TypeOK
  <2> QED
    BY <2>1, <2>2 DEF IInv, Exists, RowInv, Known, Asks, Checked, Open
<1> QED
  BY <1>1, <1>2, <1>3, <1>4, <1>5, <1>6, <1>7, <1>8, <1>9 DEF Next

----------------------------------------------------------------------------
\* The invariant holds however many requests on the address overlap.
THEOREM Invariance == Spec => []IInv
BY InitIInv, NextIInv, PTL DEF Spec

\* The variables keep their types; mailed and redeemed codes were drawn.
THEOREM TypeCorrect == Spec => []TypeOK
<1>1. IInv => TypeOK
  BY DEF IInv
<1> QED
  BY <1>1, Invariance, PTL

\* What a request checked still holds when it goes on, unless another one
\* overtook it.
THEOREM ChecksKept == Spec => []ChecksHold
<1>1. IInv => ChecksHold
  BY DEF IInv, Known, Checked, ChecksHold
<1> QED
  BY <1>1, Invariance, PTL

\* A redeemed code is at an await of another request only when the two
\* overlapped: what nobody overtook still is the stored code, and the stored
\* codes are not redeemed.
THEOREM CodesOnce == Spec => []CodesWorkOnce
<1>1. IInv => CodesWorkOnce
  BY DEF IInv, Known, Asks, Checked, RowInv, CodesWorkOnce
<1> QED
  BY <1>1, Invariance, PTL

----------------------------------------------------------------------------
\* The phases of Account, by the columns.
PhaseFacts ==
  /\ ~Exists => phase = "absent"
  /\ Exists /\ Open => phase = "open"
  /\ Exists /\ ~Open /\ user.isActive => phase = "usable"
  /\ Exists /\ ~user.isActive => phase = "waiting"

\* What the phase of an account says of its row.
LEMMA Phases == IInv => PhaseFacts
<1>1. IInv /\ Exists => RowInv
  BY DEF IInv
<1> QED
  BY <1>1 DEF phase, Open, RowInv, PhaseFacts

\* A step that changes none of the columns phase reads does not change it.
LEMMA PhaseKept ==
  ASSUME PhaseFacts, PhaseFacts', Exists' <=> Exists,
         Exists => /\ user'.isActive = user.isActive
                   /\ user'.isEmailVerified = user.isEmailVerified /\ user'.role = user.role
  PROVE  phase' = phase
BY DEF PhaseFacts, Open

\* Every step is a step of Account, or changes neither phase nor token.
LEMMA StepKeepsPromises ==
  IInv /\ IInv' /\ [Next]_vars => [AccountPromises!Next]_<<phase, token>>
<1> SUFFICES ASSUME IInv, IInv', [Next]_vars
             PROVE  [AccountPromises!Next]_<<phase, token>>
  OBVIOUS
<1>0. PhaseFacts /\ PhaseFacts'
  BY Phases, PTL
<1> USE DEF AccountPromises!Next
<1>1. ASSUME NEW r \in Requests, InsertUser(r) \/ InsertStaff(r) \/ InsertAdmin(r)
      PROVE  AccountPromises!Create
  <2>1. ~Exists /\ job[r].password \in Passwords /\ job[r].role \in UserRole
        /\ {"PARTICIPANT", "ADMIN"} \subseteq UserRole
    BY <1>1 DEF InsertUser, InsertStaff, InsertAdmin, IInv, TypeOK, Job, Known, Asks, UserRole
  <2>2. user' \in UserRow /\ user'.isActive
    <3>1. CASE InsertUser(r)
      BY <2>1, <3>1, NewUserTyped DEF InsertUser, Write
    <3>2. CASE InsertStaff(r)
      BY <2>1, <3>2, NewUserTyped DEF InsertStaff, Write
    <3>3. CASE InsertAdmin(r)
      BY <2>1, <3>3, NewUserTyped DEF InsertAdmin, Write
    <3> QED
      BY <1>1, <3>1, <3>2, <3>3
  <2>3. phase = "absent" /\ phase' \in {"open", "usable"}
    BY <1>0, <2>1, <2>2, NoUserAssumption DEF PhaseFacts, Exists
  <2>4. token' = token
    BY <1>1 DEF InsertUser, InsertStaff, InsertAdmin
  <2> QED
    BY <2>3, <2>4 DEF AccountPromises!Create
<1>2. ASSUME NEW r \in Requests, StoreOtp(r) PROVE AccountPromises!AskForCode
  <2>1. Exists /\ Open
    BY <1>2 DEF StoreOtp, IInv, Known, Asks
  <2>2. user \in UserRow /\ drawn' \in Codes
    BY <2>1, RowTyped DEF IInv, TypeOK
  <2>3. user' \in UserRow /\ ~user'.isActive
    BY <1>2, <2>2 DEF StoreOtp, Write, UserRow
  <2>4. phase = "open" /\ phase' = "waiting"
    BY <1>0, <2>1, <2>3, NoUserAssumption DEF PhaseFacts, Exists
  <2> QED
    BY <1>2, <2>4 DEF StoreOtp, AccountPromises!AskForCode
<1>3. ASSUME NEW r \in Requests, MarkVerified(r)
      PROVE  AccountPromises!Activate \/ AccountPromises!SignIn
  <2>1. Exists /\ ~Open
    BY <1>3 DEF MarkVerified, IInv, Known, Asks
  <2>2. user \in UserRow /\ 0 \in Codes
    BY <2>1, RowTyped, AccountsAssumption DEF Codes
  <2>3. user' \in UserRow /\ user'.isActive /\ user'.isEmailVerified
    BY <1>3, <2>2 DEF MarkVerified, Write, UserRow
  <2>4. phase \in {"waiting", "usable"} /\ phase' = "usable"
    BY <1>0, <2>1, <2>3, NoUserAssumption DEF PhaseFacts, Exists, Open
  <2> QED
    BY <1>3, <2>4 DEF MarkVerified, AccountPromises!Activate, AccountPromises!SignIn
<1>4. ASSUME NEW r \in Requests, IssueToken(r) PROVE AccountPromises!SignIn
  <2>1. Exists /\ user' = user
    BY <1>4 DEF IssueToken, IInv, Known, Asks
  <2>2. phase' = phase
    BY <1>0, <2>1, PhaseKept DEF Exists
  <2>3. phase # "absent"
    BY <1>0, <2>1 DEF PhaseFacts
  <2> QED
    BY <1>4, <2>2, <2>3 DEF IssueToken, AccountPromises!SignIn
<1>5. CASE ExpireToken
  <2>1. phase' = phase
    BY <1>0, <1>5, PhaseKept DEF ExpireToken, Exists
  <2> QED
    BY <1>5, <2>1 DEF ExpireToken, AccountPromises!ExpireToken
<1>6. ASSUME NEW r \in Requests, ForgotPassword(r) \/ StoreReset(r) \/ StorePassword(r)
      PROVE  UNCHANGED <<phase, token>>
  <2>1. Exists
    BY <1>6 DEF ForgotPassword, StoreReset, StorePassword, IInv, Known, Asks
  <2>2. user \in UserRow
    BY <2>1, RowTyped
  <2>3. user' \in UserRow
    <3>1. CASE ForgotPassword(r)
      <4>1. drawn' \in Codes
        BY DEF IInv, TypeOK
      <4> QED
        BY <2>2, <3>1, <4>1 DEF ForgotPassword, Write, UserRow
    <3>2. CASE StoreReset(r) \/ StorePassword(r)
      <4>1. job[r].password \in Passwords /\ 0 \in Codes
        BY <3>2, AccountsAssumption DEF StoreReset, StorePassword, IInv, Known, Asks, Codes
      <4> QED
        BY <2>2, <3>2, <4>1 DEF StoreReset, StorePassword, Write, UserRow
    <3> QED
      BY <1>6, <3>1, <3>2
  <2>4. /\ user'.isActive = user.isActive
        /\ user'.isEmailVerified = user.isEmailVerified /\ user'.role = user.role
    BY <1>6, <2>2 DEF ForgotPassword, StoreReset, StorePassword, Write, UserRow
  <2>5. Exists' /\ token' = token
    BY <1>6, <2>3, NoUserAssumption DEF Exists, ForgotPassword, StoreReset, StorePassword
  <2> QED
    BY <1>0, <2>1, <2>4, <2>5, PhaseKept
<1>7. CASE ExpireOtp \/ ExpireReset
  <2>1. Exists /\ user \in UserRow
    BY <1>7, RowTyped DEF ExpireOtp, ExpireReset
  <2>2. /\ user' \in UserRow /\ user'.isActive = user.isActive /\ token' = token
        /\ user'.isEmailVerified = user.isEmailVerified /\ user'.role = user.role
    BY <1>7, <2>1 DEF ExpireOtp, ExpireReset, UserRow
  <2> QED
    BY <1>0, <2>1, <2>2, PhaseKept, NoUserAssumption DEF Exists
<1>8. ASSUME UNCHANGED <<user, token>> PROVE UNCHANGED <<phase, token>>
  BY <1>0, <1>8, PhaseKept DEF Exists
<1>9. \/ UNCHANGED <<user, token>> \/ ExpireToken \/ ExpireOtp \/ ExpireReset
      \/ \E r \in Requests :
           \/ InsertUser(r) \/ InsertStaff(r) \/ InsertAdmin(r) \/ StoreOtp(r)
           \/ MarkVerified(r) \/ IssueToken(r)
           \/ ForgotPassword(r) \/ StoreReset(r) \/ StorePassword(r)
  BY DEF Next, vars, SignUpAndIn, MailedCodes, StaffAccounts, OwnProfile, Continue, Register,
         Login, SendMail, VerifyEmail, ResetPassword, UpdateUser, AdminCreateUser, SeedAdmin, Fail
<1> QED
  BY <1>1, <1>2, <1>3, <1>4, <1>5, <1>6, <1>7, <1>8, <1>9

\* Accounts implements Account, for any number of overlapping requests: the
\* account of an address is created once, leaves "waiting" only by a redeemed
\* code and, once usable, stays usable.
THEOREM KeepsPromises == Spec => ImplementsAccount
<1>1. Init => AccountPromises!Init
  BY DEF Init, phase, Exists, AccountPromises!Init
<1> QED
  BY <1>1, StepKeepsPromises, Invariance, PTL DEF Spec, ImplementsAccount, AccountPromises!Spec

----------------------------------------------------------------------------
(***************************************************************************)
(* What the modules of the other parts prove holds in the composition that *)
(* TLC checks, MCPlatform: a step of it is a step of one of the parts.     *)
(***************************************************************************)
SubmissionsProved == INSTANCE SubmissionsProofs WITH pc <- await, job <- work

NotificationsProved == INSTANCE NotificationsProofs WITH pc <- step, job <- errand

\* A behaviour of the platform is one of submissions, as their theorems have it.
LEMMA SubmissionsRun == PlatformSpec => SubmissionsProved!Spec
<1>1. PlatformInit => SubmissionsProved!Init
  BY DEF PlatformInit,
      Submissions!Init, Submissions!StorageInit, Submissions!None, Submissions!NoJob,
      SubmissionsProved!Init, SubmissionsProved!StorageInit, SubmissionsProved!None,
      SubmissionsProved!NoJob
<1>2. [PlatformNext]_platformVars => [Submissions!Next]_Submissions!vars
  BY DEF PlatformNext, platformVars, submissionVars, notificationVars, vars, storageVars,
      Submissions!vars, Submissions!storageVars
<1>3. [Submissions!Next]_Submissions!vars => [SubmissionsProved!Next]_SubmissionsProved!vars
  BY DEF
      Submissions!Next, Submissions!vars, Submissions!SubmissionsController,
      Submissions!StorageController, Submissions!PutObject, Submissions!SaveRow,
      Submissions!LoadRegistration, Submissions!InsertSubmission,
      Submissions!FindRecipients, Submissions!NotifyStaff, Submissions!FindFile,
      Submissions!Unlink, Submissions!DeleteRow, Submissions!DropSubmission,
      Submissions!Fail, Submissions!Decide, Submissions!storageVars, Submissions!Upload,
      Submissions!DeleteSubmission, Submissions!Files, Submissions!DeleteFile,
      Submissions!UploadObject, Submissions!Continue, Submissions!SaveStoredFile,
      Submissions!Goto, Submissions!Eligible, Submissions!None, Submissions!Row,
      Submissions!IsCurrent, Submissions!FindStoredFile, Submissions!DeleteObject,
      Submissions!DeleteStoredFile, Submissions!NoJob, SubmissionsProved!Next,
      SubmissionsProved!vars, SubmissionsProved!SubmissionsController,
      SubmissionsProved!StorageController, SubmissionsProved!PutObject,
      SubmissionsProved!SaveRow, SubmissionsProved!LoadRegistration,
      SubmissionsProved!InsertSubmission, SubmissionsProved!FindRecipients,
      SubmissionsProved!NotifyStaff, SubmissionsProved!FindFile, SubmissionsProved!Unlink,
      SubmissionsProved!DeleteRow, SubmissionsProved!DropSubmission, SubmissionsProved!Fail,
      SubmissionsProved!Decide, SubmissionsProved!storageVars, SubmissionsProved!Upload,
      SubmissionsProved!DeleteSubmission, SubmissionsProved!Files,
      SubmissionsProved!DeleteFile, SubmissionsProved!UploadObject,
      SubmissionsProved!Continue, SubmissionsProved!SaveStoredFile, SubmissionsProved!Goto,
      SubmissionsProved!Eligible, SubmissionsProved!None, SubmissionsProved!Row,
      SubmissionsProved!IsCurrent, SubmissionsProved!FindStoredFile,
      SubmissionsProved!DeleteObject, SubmissionsProved!DeleteStoredFile,
      SubmissionsProved!NoJob
<1> QED
  BY <1>1, <1>2, <1>3, PTL DEF PlatformSpec, platformVars, SubmissionsProved!Spec

\* A behaviour of the platform is one of notifications, as their theorems have it.
LEMMA NotificationsRun == PlatformSpec => NotificationsProved!Spec
<1>1. PlatformInit => NotificationsProved!Init
  BY DEF PlatformInit,
      Notifications!Init, Notifications!NoJob, NotificationsProved!Init,
      NotificationsProved!NoJob
<1>2. [PlatformNext]_platformVars => [Notifications!Next]_Notifications!vars
  BY DEF PlatformNext, platformVars, submissionVars, notificationVars, vars, storageVars,
      Notifications!vars
<1>3. [Notifications!Next]_Notifications!vars => [NotificationsProved!Next]_NotificationsProved!vars
  BY DEF
      Notifications!Next, Notifications!vars, Notifications!SendToRoles,
      Notifications!SaveNotification, Notifications!PushNotification,
      Notifications!FailSender, Notifications!NotificationsController,
      Notifications!HandleConnection, Notifications!HandleDisconnect, Notifications!Restart,
      Notifications!rowVars, Notifications!gatewayVars, Notifications!NoJob,
      Notifications!MarkAllAsRead, Notifications!MarkAsRead, Notifications!senderVars,
      NotificationsProved!Next, NotificationsProved!vars, NotificationsProved!SendToRoles,
      NotificationsProved!SaveNotification, NotificationsProved!PushNotification,
      NotificationsProved!FailSender, NotificationsProved!NotificationsController,
      NotificationsProved!HandleConnection, NotificationsProved!HandleDisconnect,
      NotificationsProved!Restart, NotificationsProved!rowVars,
      NotificationsProved!gatewayVars, NotificationsProved!NoJob,
      NotificationsProved!MarkAllAsRead, NotificationsProved!MarkAsRead,
      NotificationsProved!senderVars, Notifications!RemoveFirst,
      NotificationsProved!RemoveFirst, Notifications!RemoveAt, NotificationsProved!RemoveAt,
      Notifications!SelectInSeq, NotificationsProved!SelectInSeq, Notifications!Min,
      NotificationsProved!Min, Notifications!ToSet, NotificationsProved!ToSet
<1> QED
  BY <1>1, <1>2, <1>3, PTL DEF PlatformSpec, platformVars, NotificationsProved!Spec

\* The variables of submissions and storage keep their types.
THEOREM SubmissionTypesKept == PlatformSpec => []SubmissionsTypeOK
<1>1. SubmissionsProved!Spec => []SubmissionsProved!SubmissionsTypeOK
  BY SubmissionsProved!TypeCorrect, StorageAssumption
<1>2. SubmissionsProved!SubmissionsTypeOK => SubmissionsTypeOK
  BY DEF
      SubmissionsTypeOK, Submissions!SubmissionsTypeOK, Submissions!None, Submissions!Files,
      Submissions!PC, Submissions!Job, SubmissionsProved!SubmissionsTypeOK,
      SubmissionsProved!None, SubmissionsProved!Files, SubmissionsProved!PC,
      SubmissionsProved!Job
<1> QED
  BY <1>1, <1>2, SubmissionsRun, PTL

\* No link from a submission to its files, nor from a row to its object, dangles
\* unless a deletion of the file began.
THEOREM LinksKept == PlatformSpec => []FilesAreThere
<1>1. SubmissionsProved!Spec => []SubmissionsProved!FilesAreThere
  BY SubmissionsProved!NoLinkDangles, StorageAssumption
<1>2. SubmissionsProved!FilesAreThere => FilesAreThere
  BY DEF
      FilesAreThere, Submissions!FilesAreThere, Submissions!None,
      SubmissionsProved!FilesAreThere, SubmissionsProved!None, Submissions!ToSet,
      SubmissionsProved!ToSet
<1> QED
  BY <1>1, <1>2, SubmissionsRun, PTL

\* The staff is told of the work handed in, or its request is still at it, or it
\* was cut off.
THEOREM StaffKeptTold == PlatformSpec => []StaffIsTold
<1>1. SubmissionsProved!Spec => []SubmissionsProved!StaffIsTold
  BY SubmissionsProved!StaffTold, StorageAssumption
<1>2. SubmissionsProved!StaffIsTold => StaffIsTold
  BY DEF
      StaffIsTold, Submissions!StaffIsTold, Submissions!None, Submissions!IsCurrent,
      SubmissionsProved!StaffIsTold, SubmissionsProved!None, SubmissionsProved!IsCurrent
<1> QED
  BY <1>1, <1>2, SubmissionsRun, PTL

\* A submission is deleted only after the file of its own work.
THEOREM OwnSubmissionDeleted == PlatformSpec => DeletedAfterItsFile
<1> DEFINE Promise == submission # Submissions!None /\ submission' = Submissions!None => submission.work \notin stored
           Proved == submission # SubmissionsProved!None /\ submission' = SubmissionsProved!None => submission.work \notin stored
<1>1. SubmissionsProved!Spec => [][Proved]_SubmissionsProved!vars
  BY SubmissionsProved!DeletesItsOwn, StorageAssumption DEF SubmissionsProved!DeletedAfterItsFile
<1>2. [Proved]_SubmissionsProved!vars => [Promise]_Submissions!vars
  BY DEF
      Submissions!None, SubmissionsProved!None, Submissions!vars, Submissions!storageVars,
      SubmissionsProved!vars, SubmissionsProved!storageVars
<1> QED
  BY <1>1, <1>2, SubmissionsRun, PTL DEF DeletedAfterItsFile, Submissions!DeletedAfterItsFile

\* Work is handed in for a verified registration, unless a decision overtook the
\* check.
THEOREM VerifiedOnHandingIn == PlatformSpec => VerifiedUnlessOvertaken
<1> DEFINE Promise == \A r \in Requests : Submissions!HandsIn(r) => verified \/ r \in overtaken
           Proved == \A r \in Requests : SubmissionsProved!HandsIn(r) => verified \/ r \in overtaken
<1>1. SubmissionsProved!Spec => [][Proved]_SubmissionsProved!vars
  BY SubmissionsProved!ChecksVerified, StorageAssumption DEF SubmissionsProved!VerifiedUnlessOvertaken
<1>2. [Proved]_SubmissionsProved!vars => [Promise]_Submissions!vars
  BY DEF
      Submissions!HandsIn, SubmissionsProved!HandsIn, Submissions!vars,
      Submissions!storageVars, SubmissionsProved!vars, SubmissionsProved!storageVars
<1> QED
  BY <1>1, <1>2, SubmissionsRun, PTL DEF VerifiedUnlessOvertaken, Submissions!VerifiedUnlessOvertaken

\* The variables of notifications keep their types.
THEOREM NotificationTypesKept == PlatformSpec => []NotificationsTypeOK
<1>1. NotificationsProved!Spec => []NotificationsProved!NotificationsTypeOK
  BY NotificationsProved!TypeCorrect
<1>2. NotificationsProved!NotificationsTypeOK => NotificationsTypeOK
  BY DEF
      NotificationsTypeOK, Notifications!NotificationsTypeOK,
      NotificationsProved!NotificationsTypeOK
<1> QED
  BY <1>1, <1>2, NotificationsRun, PTL

\* The map of the gateway holds each live connection once, and nothing else.
THEOREM MapKeptExact == PlatformSpec => []MapHoldsLiveSockets
<1>1. NotificationsProved!Spec => []NotificationsProved!MapHoldsLiveSockets
  BY NotificationsProved!MapIsExact
<1>2. NotificationsProved!MapHoldsLiveSockets => MapHoldsLiveSockets
  BY DEF
      MapHoldsLiveSockets, Notifications!MapHoldsLiveSockets,
      NotificationsProved!MapHoldsLiveSockets, Notifications!ToSet,
      NotificationsProved!ToSet, Notifications!Cardinality, NotificationsProved!Cardinality
<1> QED
  BY <1>1, <1>2, NotificationsRun, PTL

\* A connected device is shown the notifications of its user, or a sender is at it
\* or failed, and nobody else's.
THEOREM DevicesKeptTold == PlatformSpec => []ConnectedDevicesAreTold
<1>1. NotificationsProved!Spec => []NotificationsProved!ConnectedDevicesAreTold
  BY NotificationsProved!DevicesAreTold
<1>2. NotificationsProved!ConnectedDevicesAreTold => ConnectedDevicesAreTold
  BY DEF
      ConnectedDevicesAreTold, Notifications!ConnectedDevicesAreTold,
      NotificationsProved!ConnectedDevicesAreTold
<1> QED
  BY <1>1, <1>2, NotificationsRun, PTL
=============================================================================
