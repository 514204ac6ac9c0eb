------------------------------ MODULE Accounts ------------------------------
(***************************************************************************)
(* The row of `users` of one e-mail address and every request that changes *)
(* it: registering (insert, then a second statement that deactivates the   *)
(* account and stores a code), verifying the address, forgotten passwords, *)
(* signing in, changing the password, accounts made by an administrator    *)
(* and the seeder of the first administrator.  Each await is a step, codes *)
(* expire between any two of them.  Rows are never deleted and `email` is  *)
(* unique, so addresses do not meet and one of them is the whole system.   *)
(*                                                                         *)
(* Codes are drawn at random; here they are numbered as they are drawn.    *)
(* Names, phone, institution and avatar are not in the state: their UPDATE *)
(* names its columns and so touches none of those modelled here.           *)
(***************************************************************************)
EXTENDS Naturals

CONSTANTS
  Passwords,    \* plain-text passwords; a hash is identified with its input
  Requests,     \* HTTP requests, and starts of the process, in flight at a time
  IsAdminEmail, \* the address is the one the seeder gives to its administrator
  MAX_CODES,    \* bound on the codes drawn for this address
  NoUser,       \* no row
  NoPassword    \* a request that carries no password

ASSUME AccountsAssumption ==
  /\ IsAdminEmail \in BOOLEAN
  /\ MAX_CODES \in Nat
  /\ NoPassword \notin Passwords

VARIABLES
  user,      \* the row, or NoUser
  drawn,     \* codes drawn so far
  inbox,     \* codes that reached the mailbox of the address
  token,     \* somebody holds a valid access token of the account
  pc,        \* the await each request stands at
  job,       \* what each request holds in memory
  current,   \* history: no other request wrote since this one began
  redeemed   \* history: codes that verified the address or set a password

vars == <<user, drawn, inbox, token, pc, job, current, redeemed>>

----------------------------------------------------------------------------
UserRole == {"ADMIN", "COMMITTEE", "PARTICIPANT", "TREASURER"}

Codes == 0..MAX_CODES  \* 0 is NULL

UserRow ==
  [isActive : BOOLEAN, isEmailVerified : BOOLEAN, role : UserRole, password : Passwords,
   otpCode : Codes, otpExpired : BOOLEAN,
   resetPasswordOtp : Codes, resetPasswordOtpExpired : BOOLEAN]

ASSUME NoUserAssumption == NoUser \notin UserRow

\* A request: the password it was given to check, the one it is to store, the
\* code it was given or has drawn, and the role of the account it makes.
Job ==
  [known : Passwords \cup {NoPassword}, password : Passwords \cup {NoPassword},
   code : Codes, role : UserRole]

NoJob == [known |-> NoPassword, password |-> NoPassword, code |-> 0, role |-> "PARTICIPANT"]

\* The defaults of the columns.
NewUser(role, password) ==
  [isActive |-> TRUE, isEmailVerified |-> FALSE, role |-> role, password |-> password,
   otpCode |-> 0, otpExpired |-> FALSE,
   resetPasswordOtp |-> 0, resetPasswordOtpExpired |-> FALSE]

PC == {"idle", "insert", "otp", "mail", "verify", "reset", "compare", "change", "staff", "seed"}

Exists == user # NoUser

Init ==
  /\ user = NoUser
  /\ drawn = 0
  /\ inbox = {}
  /\ token = FALSE
  /\ pc = [r \in Requests |-> "idle"]
  /\ job = [r \in Requests |-> NoJob]
  /\ current = [r \in Requests |-> TRUE]
  /\ redeemed = {}

----------------------------------------------------------------------------
\* Request r, which did not write, goes on to the await `where` with j in memory.
Continue(r, j, where) ==
  /\ pc' = [pc EXCEPT ![r] = where]
  /\ job' = [job EXCEPT ![r] = j]
  /\ UNCHANGED <<user, drawn, inbox, token, current, redeemed>>

\* Request r writes `row` and goes on to `where`: what the others in flight
\* have read may be stale.
Write(r, row, j, where) ==
  /\ user' = row
  /\ pc' = [pc EXCEPT ![r] = where]
  /\ job' = [job EXCEPT ![r] = j]
  /\ current' = [q \in Requests |-> q = r \/ pc[q] = "idle"]

\* Request r is answered without having written in this step.
Answer(r) ==
  /\ pc' = [pc EXCEPT ![r] = "idle"]
  /\ job' = [job EXCEPT ![r] = NoJob]
  /\ current' = [current EXCEPT ![r] = TRUE]

----------------------------------------------------------------------------
\* Mutant of Register: an account whose address is not verified yet may
\* register again for a new code.
RegisterAgain(r, password) ==
  /\ pc[r] = "idle"
  /\ \/ ~Exists /\ Continue(r, [NoJob EXCEPT !.password = password], "insert")
     \/ Exists /\ ~user.isEmailVerified /\ Continue(r, NoJob, "otp")

\* RegisterUseCase, CreateUserUseCase: the address is not taken yet.
Register(r, password) ==
  /\ pc[r] = "idle"
  /\ ~Exists
  /\ Continue(r, [NoJob EXCEPT !.password = password], "insert")

\* The password was hashed; the row is inserted, active by default, unless
\* the unique index refuses it by now.
InsertUser(r) ==
  /\ pc[r] = "insert"
  /\ ~Exists
  /\ Write(r, NewUser("PARTICIPANT", job[r].password), NoJob, "otp")
  /\ UNCHANGED <<drawn, inbox, token, redeemed>>

\* Mutant of StoreOtp: the code of the entity that was inserted is mailed.
StoreOtpMailsNull(r) ==
  /\ pc[r] = "otp"
  /\ drawn < MAX_CODES
  /\ drawn' = drawn + 1
  /\ Write(r, [user EXCEPT !.otpCode = drawn', !.otpExpired = FALSE,
                           !.isEmailVerified = FALSE, !.isActive = FALSE],
           [NoJob EXCEPT !.code = user.otpCode], "mail")
  /\ UNCHANGED <<inbox, token, redeemed>>

\* A second statement stores a code and deactivates the account.
StoreOtp(r) ==
  /\ pc[r] = "otp"
  /\ drawn < MAX_CODES
  /\ drawn' = drawn + 1
  /\ Write(r, [user EXCEPT !.otpCode = drawn', !.otpExpired = FALSE,
                           !.isEmailVerified = FALSE, !.isActive = FALSE],
           [NoJob EXCEPT !.code = drawn'], "mail")
  /\ UNCHANGED <<inbox, token, redeemed>>

\* The code was mailed.
SendMail(r) ==
  /\ pc[r] = "mail"
  /\ inbox' = inbox \cup {job[r].code}
  /\ Answer(r)
  /\ UNCHANGED <<user, drawn, token, redeemed>>

\* VerifyEmailUseCase: the code is the stored one and has not expired.
VerifyEmail(r, code) ==
  /\ pc[r] = "idle"
  /\ Exists
  /\ ~user.isEmailVerified
  /\ user.otpCode = code /\ ~user.otpExpired
  /\ Continue(r, [NoJob EXCEPT !.code = code], "verify")

\* The address is verified, the code cleared, and a token issued.
MarkVerified(r) ==
  /\ pc[r] = "verify"
  /\ Write(r, [user EXCEPT !.isEmailVerified = TRUE, !.isActive = TRUE,
                           !.otpCode = 0, !.otpExpired = FALSE], NoJob, "idle")
  /\ token' = TRUE
  /\ redeemed' = redeemed \cup {job[r].code}
  /\ UNCHANGED <<drawn, inbox>>

\* Mutant of ForgotPassword: the code is mailed without being stored first.
ForgotPasswordUnstored(r) ==
  /\ pc[r] = "idle"
  /\ Exists
  /\ drawn < MAX_CODES
  /\ drawn' = drawn + 1
  /\ Write(r, user, [NoJob EXCEPT !.code = drawn'], "mail")
  /\ UNCHANGED <<inbox, token, redeemed>>

\* ForgotPasswordUseCase: a code is stored, in place of any earlier one, and
\* will be mailed.  Nothing but the id of the row that was found is used.
ForgotPassword(r) ==
  /\ pc[r] = "idle"
  /\ Exists
  /\ drawn < MAX_CODES
  /\ drawn' = drawn + 1
  /\ Write(r, [user EXCEPT !.resetPasswordOtp = drawn', !.resetPasswordOtpExpired = FALSE],
           [NoJob EXCEPT !.code = drawn'], "mail")
  /\ UNCHANGED <<inbox, token, redeemed>>

\* ResetPasswordUseCase: the code is the stored one and has not expired.
ResetPassword(r, code, password) ==
  /\ pc[r] = "idle"
  /\ Exists
  /\ user.resetPasswordOtp = code /\ ~user.resetPasswordOtpExpired
  /\ Continue(r, [NoJob EXCEPT !.code = code, !.password = password], "reset")

\* Mutant of StoreReset: the code stays.
StoreResetKeepsCode(r) ==
  /\ pc[r] = "reset"
  /\ Write(r, [user EXCEPT !.password = job[r].password], NoJob, "idle")
  /\ redeemed' = redeemed \cup {job[r].code}
  /\ UNCHANGED <<drawn, inbox, token>>

\* The new password was hashed; it is stored and the code cleared, whatever
\* code is stored by now.
StoreReset(r) ==
  /\ pc[r] = "reset"
  /\ Write(r, [user EXCEPT !.password = job[r].password, !.resetPasswordOtp = 0,
                           !.resetPasswordOtpExpired = FALSE], NoJob, "idle")
  /\ redeemed' = redeemed \cup {job[r].code}
  /\ UNCHANGED <<drawn, inbox, token>>

\* AuthValidator, UserValidator: the password is the account's, which is active.
Recognised(password) == user.password = password /\ user.isActive

\* LoginUseCase: the row as it was found decides.
Login(r, password) ==
  /\ pc[r] = "idle"
  /\ Exists
  /\ Recognised(password)
  /\ Continue(r, [NoJob EXCEPT !.known = password], "compare")

IssueToken(r) ==
  /\ pc[r] = "compare"
  /\ token' = TRUE
  /\ Answer(r)
  /\ UNCHANGED <<user, drawn, inbox, redeemed>>

\* JwtAuthGuard lets the request pass.  The table is not consulted.
Authenticated == token

\* UpdateUserUseCase with a change of password, by the holder of a token.
UpdateUser(r, known, password) ==
  /\ pc[r] = "idle"
  /\ Authenticated
  /\ Recognised(known)
  /\ Continue(r, [NoJob EXCEPT !.known = known, !.password = password], "change")

\* The passwords were compared and the new one hashed; it is stored.
StorePassword(r) ==
  /\ pc[r] = "change"
  /\ Write(r, [user EXCEPT !.password = job[r].password], NoJob, "idle")
  /\ UNCHANGED <<drawn, inbox, token, redeemed>>

\* AdminCreateUserUseCase: no committee account has the address; accounts of
\* other roles are not looked for.
AdminCreateUser(r, role, password) ==
  /\ pc[r] = "idle"
  /\ ~(Exists /\ user.role = "COMMITTEE")
  /\ Continue(r, [NoJob EXCEPT !.role = role, !.password = password], "staff")

\* The row is inserted, verified and active, unless the index refuses it.
InsertStaff(r) ==
  /\ pc[r] = "staff"
  /\ ~Exists
  /\ Write(r, [NewUser(job[r].role, job[r].password) EXCEPT !.isEmailVerified = TRUE],
           NoJob, "idle")
  /\ UNCHANGED <<drawn, inbox, token, redeemed>>

\* AdminSeederService: the process starts and finds no user with its address.
SeedAdmin(r, password) ==
  /\ pc[r] = "idle"
  /\ IsAdminEmail
  /\ ~Exists
  /\ Continue(r, [NoJob EXCEPT !.role = "ADMIN", !.password = password], "seed")

InsertAdmin(r) ==
  /\ pc[r] = "seed"
  /\ ~Exists
  /\ Write(r, NewUser("ADMIN", job[r].password), NoJob, "idle")
  /\ UNCHANGED <<drawn, inbox, token, redeemed>>

\* A check after an await refuses, the mail or the database fails (500), or
\* the process dies: nothing more of the handler runs and nothing is undone.
Fail(r) ==
  /\ pc[r] # "idle"
  /\ Answer(r)
  /\ UNCHANGED <<user, drawn, inbox, token, redeemed>>

\* Ten minutes have passed since the code was stored.
ExpireOtp ==
  /\ Exists
  /\ user.otpCode # 0 /\ ~user.otpExpired
  /\ user' = [user EXCEPT !.otpExpired = TRUE]
  /\ UNCHANGED <<drawn, inbox, token, pc, job, current, redeemed>>

ExpireReset ==
  /\ Exists
  /\ user.resetPasswordOtp # 0 /\ ~user.resetPasswordOtpExpired
  /\ user' = [user EXCEPT !.resetPasswordOtpExpired = TRUE]
  /\ UNCHANGED <<drawn, inbox, token, pc, job, current, redeemed>>

\* The tokens reach their `exp`, or the browser that held the only one logs
\* out: its cookie is cleared.  A token held elsewhere stays valid.
ExpireToken ==
  /\ token
  /\ token' = FALSE
  /\ UNCHANGED <<user, drawn, inbox, pc, job, current, redeemed>>

----------------------------------------------------------------------------
\* AuthController: routes that need no token.
SignUpAndIn(r) ==
  \/ \E password \in Passwords : Register(r, password) \/ Login(r, password)
  \/ InsertUser(r)
  \/ StoreOtp(r)
  \/ IssueToken(r)

MailedCodes(r) ==
  \/ SendMail(r)
  \/ \E code \in inbox : VerifyEmail(r, code)
  \/ MarkVerified(r)
  \/ ForgotPassword(r)
  \/ \E code \in inbox, password \in Passwords : ResetPassword(r, code, password)
  \/ StoreReset(r)

\* UserController: POST users/admin/create, by an administrator.
StaffAccounts(r) ==
  \/ \E role \in UserRole, password \in Passwords : AdminCreateUser(r, role, password)
  \/ InsertStaff(r)

\* UserController: PATCH users/:id.
OwnProfile(r) ==
  \/ \E known, password \in Passwords : UpdateUser(r, known, password)
  \/ StorePassword(r)

Next ==
  \/ \E r \in Requests :
       \/ SignUpAndIn(r)
       \/ MailedCodes(r)
       \/ StaffAccounts(r)
       \/ OwnProfile(r)
       \/ \E password \in Passwords : SeedAdmin(r, password)
       \/ InsertAdmin(r)
       \/ Fail(r)
  \/ ExpireOtp
  \/ ExpireReset
  \/ ExpireToken

Spec == Init /\ [][Next]_vars

\* An await settles sooner or later: Node.js calls every handler whose promise
\* is resolved or rejected.  And the person does what the code still accepts:
\* registers while the address is free, verifies while a mailed code is good.
Fairness ==
  \A r \in Requests :
    /\ WF_vars(pc[r] # "idle" /\ (SignUpAndIn(r) \/ MailedCodes(r) \/ Fail(r)))
    /\ WF_vars(\E password \in Passwords : Register(r, password))
    /\ WF_vars(\E code \in inbox : VerifyEmail(r, code))

FairSpec == Spec /\ Fairness

----------------------------------------------------------------------------
\* The variables keep their types; mailed and redeemed codes were drawn.
TypeOK ==
  /\ user \in UserRow \cup {NoUser}
  /\ drawn \in Codes
  /\ inbox \subseteq 1..drawn
  /\ token \in BOOLEAN
  /\ pc \in [Requests -> PC]
  /\ job \in [Requests -> Job]
  /\ current \in [Requests -> BOOLEAN]
  /\ redeemed \subseteq 1..drawn

\* What the columns say together.  "open" is an account that was inserted and
\* whose registering has not (or never will have) stored a code; "waiting" has
\* the code that is its only way to become usable.
phase ==
  CASE ~Exists -> "absent"
    [] Exists /\ user.isActive /\ (user.isEmailVerified \/ user.role = "ADMIN") -> "usable"
    [] Exists /\ user.isActive /\ ~user.isEmailVerified /\ user.role # "ADMIN" -> "open"
    [] Exists /\ ~user.isActive /\ ~user.isEmailVerified /\ user.otpCode # 0 -> "waiting"
    [] OTHER -> "none of these"

AccountPromises == INSTANCE Account

\* However the requests on an address overlap, its account is created once,
\* never leaves "waiting" but by a redeemed code, and never stops being
\* usable: the deactivating statement of RegisterUseCase cannot meet an account
\* that was verified or made by an administrator.
ImplementsAccount == AccountPromises!Spec

\* A code that has been redeemed is at an await of a second request only when
\* the two overlapped: "bersihkan OTP" of VerifyEmailUseCase and
\* resetPasswordOtp: null of ResetPasswordUseCase.
CodesWorkOnce ==
  \A r \in Requests :
    pc[r] \in {"verify", "reset"} /\ job[r].code \in redeemed => ~current[r]

\* What a request checked still holds when it goes on, unless another one
\* overtook it: the address is free, the code it redeems or is about to mail
\* is the stored one, the password it was given is the account's and the
\* account is active.  An expiry of a code overtakes nobody.
ChecksHold ==
  \A r \in Requests : current[r] =>
    /\ pc[r] = "insert" => ~Exists
    /\ pc[r] = "verify" => user.otpCode = job[r].code
    /\ pc[r] = "reset" => user.resetPasswordOtp = job[r].code
    /\ pc[r] = "mail" => job[r].code \in {user.otpCode, user.resetPasswordOtp}
    /\ pc[r] \in {"compare", "change"} => user.password = job[r].known /\ user.isActive

\* Whoever holds an expired code gets a new one or needs none: "Kode OTP sudah
\* kadaluarsa. Silakan minta kode baru."
NewCodeObtainable ==
  (Exists /\ ~user.isEmailVerified /\ user.otpExpired)
    ~> (Exists /\ (user.isEmailVerified \/ ~user.otpExpired))
=============================================================================
