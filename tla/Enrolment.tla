----------------------------- MODULE Enrolment ------------------------------
(***************************************************************************)
(* RegisterCompetitionUseCase: a user, or a team by its leader, registers  *)
(* for a competition.  The duplicate check, the quota of every person and  *)
(* the size of the team are read at an await each and the row is inserted  *)
(* at a later one.  Meanwhile other requests register, treasurers reject   *)
(* and approve, and members join: module Payments and module Teams model   *)
(* those requests, here each is the one step in which its save() commits.  *)
(*                                                                         *)
(* The wave is open and the teams are there throughout; Teams models       *)
(* disbanding.                                                             *)
(***************************************************************************)
EXTENDS Naturals, FiniteSets

CONSTANTS
  Users,          \* rows of users
  TeamIds,        \* rows of teams
  leader,         \* teams.leaderId
  Individual,     \* competitions with participantType INDIVIDUAL
  Team,           \* competitions with participantType TEAM
  minTeamMembers, \* competitions.minTeamMembers of those in Team (0 means 1)
  maxTeamMembers, \* competitions.maxTeamMembers (0 means 3)
  Requests,       \* HTTP requests that can be in flight at the same time
  MAX_QUOTA,      \* active registrations a person may have; 3 in the code
  Absent          \* no user, no registration

\* The rows uq_registration_competition_user and _team leave room for: one
\* per competition and participant.
Registrations == (Individual \X Users) \cup (Team \X TeamIds)

ASSUME EnrolmentAssumption ==
  /\ IsFiniteSet(Users) /\ IsFiniteSet(TeamIds)
  /\ IsFiniteSet(Individual) /\ IsFiniteSet(Team)
  /\ Individual \cap Team = {}
  /\ leader \in [TeamIds -> Users]
  /\ minTeamMembers \in [Team -> Nat] /\ maxTeamMembers \in [Team -> Nat]
  /\ MAX_QUOTA \in Nat \ {0}
  /\ Absent \notin Users \cup Registrations

VARIABLES
  status,   \* per possible registration "none", or what the quota sees of its status
  members,  \* per team the userIds of its rows in team_members
  pc,       \* the await each request stands at
  job,      \* what each request holds in memory
  current   \* history: no other request wrote since this one began

vars == <<status, members, pc, job, current>>

----------------------------------------------------------------------------
\* "active" is every status but REJECTED (CANCELLED is never assigned).
Statuses == {"none", "active", "rejected"}

PC == {"idle", "quota", "team", "members", "insert"}

\* A request: who asks, for which registration, the members the team was
\* loaded with and those of them whose quota is still to be checked.
Job ==
  [user : Users \cup {Absent}, reg : Registrations \cup {Absent},
   members : SUBSET Users, unchecked : SUBSET Users]

NoJob == [user |-> Absent, reg |-> Absent, members |-> {}, unchecked |-> {}]

Init ==
  /\ status = [reg \in Registrations |-> "none"]
  /\ members = [t \in TeamIds |-> {}]
  /\ pc = [r \in Requests |-> "idle"]
  /\ job = [r \in Requests |-> NoJob]
  /\ current = [r \in Requests |-> TRUE]

----------------------------------------------------------------------------
\* Who takes part by a registration.
Persons(reg) ==
  IF reg[1] \in Individual THEN {reg[2]} ELSE {leader[reg[2]]} \cup members[reg[2]]

\* RegistrationRepository.findMyRegistrations, filtered for the quota.
activeRegs(u) == {reg \in Registrations : u \in Persons(reg) /\ status[reg] = "active"}

checkUserQuota(u) == Cardinality(activeRegs(u)) < MAX_QUOTA

\* Request r goes on to the await `where` with j in memory.
Continue(r, j, where) ==
  /\ pc' = [pc EXCEPT ![r] = where]
  /\ job' = [job EXCEPT ![r] = j]
  /\ UNCHANGED <<status, members, current>>

\* Request r writes: what the others in flight have read may be stale.
Overtake(r) == current' = [q \in Requests |-> q = r \/ pc[q] = "idle"]

\* Mutant of Register: no duplicate check.
RegisterAnyway(r, u, reg) ==
  /\ pc[r] = "idle"
  /\ reg[1] \in Individual => reg[2] = u
  /\ Continue(r, [NoJob EXCEPT !.user = u, !.reg = reg], "quota")

\* RegisterCompetitionUseCase: u asks for themselves or for a team, as the
\* type of the competition has it, and there is no such registration yet.
Register(r, u, reg) ==
  /\ pc[r] = "idle"
  /\ reg[1] \in Individual => reg[2] = u
  /\ status[reg] = "none"
  /\ Continue(r, [NoJob EXCEPT !.user = u, !.reg = reg], "quota")

\* The quota of the one who asks.
CheckOwnQuota(r) ==
  /\ pc[r] = "quota"
  /\ checkUserQuota(job[r].user)
  /\ Continue(r, job[r], IF job[r].reg[1] \in Team THEN "team" ELSE "insert")

\* Where a request for a team with these unchecked members goes on.
Checking(unchecked) == IF unchecked = {} THEN "insert" ELSE "members"

\* Mutants of LoadTeam: the leader is not counted; the members' quota is
\* not looked at.
LoadTeamWithoutLeader(r) ==
  LET c == job[r].reg[1]  t == job[r].reg[2] IN
  /\ pc[r] = "team"
  /\ leader[t] = job[r].user
  /\ Cardinality(members[t]) \in minTeamMembers[c]..maxTeamMembers[c]
  /\ Continue(r, [job[r] EXCEPT !.members = members[t], !.unchecked = members[t]],
              Checking(members[t]))
LoadTeamOnly(r) ==
  LET c == job[r].reg[1]  t == job[r].reg[2] IN
  /\ pc[r] = "team"
  /\ leader[t] = job[r].user
  /\ 1 + Cardinality(members[t]) \in minTeamMembers[c]..maxTeamMembers[c]
  /\ Continue(r, [job[r] EXCEPT !.members = members[t]], "insert")

\* The team is loaded; u leads it and its size suits the competition.
LoadTeam(r) ==
  LET c == job[r].reg[1]  t == job[r].reg[2] IN
  /\ pc[r] = "team"
  /\ leader[t] = job[r].user
  /\ 1 + Cardinality(members[t]) \in minTeamMembers[c]..maxTeamMembers[c]
  /\ Continue(r, [job[r] EXCEPT !.members = members[t], !.unchecked = members[t]],
              Checking(members[t]))

\* The quota of the next member the team was loaded with.
CheckMemberQuota(r) ==
  /\ pc[r] = "members"
  /\ \E u \in job[r].unchecked :
       /\ checkUserQuota(u)
       /\ Continue(r, [job[r] EXCEPT !.unchecked = @ \ {u}],
                   Checking(job[r].unchecked \ {u}))

\* The row is inserted, unless a unique index refuses it by now.
InsertRegistration(r) ==
  /\ pc[r] = "insert"
  /\ status[job[r].reg] = "none"
  /\ status' = [status EXCEPT ![job[r].reg] = "active"]
  /\ pc' = [pc EXCEPT ![r] = "idle"]
  /\ job' = [job EXCEPT ![r] = NoJob]
  /\ Overtake(r)
  /\ UNCHANGED members

\* A check refuses (400, 409), the database refuses or fails (500), or the
\* process dies.
Fail(r) ==
  /\ pc[r] # "idle"
  /\ pc' = [pc EXCEPT ![r] = "idle"]
  /\ job' = [job EXCEPT ![r] = NoJob]
  /\ current' = [current EXCEPT ![r] = TRUE]
  /\ UNCHANGED <<status, members>>

\* Mutant of Decide: a rejected registration is cancelled.
DecideCancels(r, reg) ==
  /\ pc[r] = "idle"
  /\ status[reg] # "none"
  /\ status' = [status EXCEPT ![reg] = IF @ = "active" THEN "cancelled" ELSE "active"]
  /\ Overtake(r)
  /\ UNCHANGED <<members, pc, job>>

\* VerifyPaymentUseCase commits: a payment is rejected, or a rejected one
\* approved after all.
Decide(r, reg) ==
  /\ pc[r] = "idle"
  /\ status[reg] # "none"
  /\ status' = [status EXCEPT ![reg] = IF @ = "active" THEN "rejected" ELSE "active"]
  /\ Overtake(r)
  /\ UNCHANGED <<members, pc, job>>

\* AddMemberUseCase commits.  Overlapping additions can get past its checks
\* (module Teams) but not past uq_team_members_user.
JoinTeam(r, t, u) ==
  /\ pc[r] = "idle"
  /\ u # leader[t]
  /\ \A s \in TeamIds : u \notin members[s]
  /\ members' = [members EXCEPT ![t] = @ \cup {u}]
  /\ Overtake(r)
  /\ UNCHANGED <<status, pc, job>>

Next ==
  \E r \in Requests :
    \/ \E u \in Users, reg \in Registrations : Register(r, u, reg)
    \/ CheckOwnQuota(r)
    \/ LoadTeam(r)
    \/ CheckMemberQuota(r)
    \/ InsertRegistration(r)
    \/ Fail(r)
    \/ \E reg \in Registrations : Decide(r, reg)
    \/ \E t \in TeamIds, u \in Users : JoinTeam(r, t, u)

Spec == Init /\ [][Next]_vars

----------------------------------------------------------------------------
\* The variables keep their types.
TypeOK ==
  /\ status \in [Registrations -> Statuses]
  /\ members \in [TeamIds -> SUBSET Users]
  /\ pc \in [Requests -> PC]
  /\ job \in [Requests -> Job]
  /\ current \in [Requests -> BOOLEAN]

\* The unique indexes refuse, and the handler answers 500, only to a request
\* that another one overtook: "Anda atau tim Anda sudah terdaftar di lomba
\* ini" is answered to all others.
ConflictOnlyWhenOvertaken ==
  \A r \in Requests : pc[r] = "insert" /\ current[r] => status[job[r].reg] = "none"

\* Request r inserts its registration now.
Enrols(r) == pc[r] = "insert" /\ status'[job[r].reg] # status[job[r].reg] /\ pc'[r] = "idle"

\* A registration by a request that nobody overtook puts no person of it over
\* the quota, neither the one who asks nor any member of the team: "Cek kuota
\* lomba untuk seluruh anggota tim agar tidak ada 'selundupan'".
QuotaUnlessOvertaken ==
  [][\A r \in Requests :
       Enrols(r) /\ current[r] =>
         \A u \in Persons(job[r].reg) : Cardinality(activeRegs(u))' <= MAX_QUOTA]_vars

\* ... and is of a team of a size that suits the competition: "Lomba ini
\* mensyaratkan ${min} sampai ${max} anggota tim (termasuk ketua)".
SizeUnlessOvertaken ==
  [][\A r \in Requests :
       Enrols(r) /\ current[r] /\ job[r].reg[1] \in Team =>
         Cardinality(Persons(job[r].reg))
           \in minTeamMembers[job[r].reg[1]]..maxTeamMembers[job[r].reg[1]]]_vars

\* Nobody takes part in more competitions than the quota: "Salah satu anggota
\* tim Anda sudah mengikuti maksimal 3 cabang perlombaan".
QuotaRespected == \A u \in Users : Cardinality(activeRegs(u)) <= MAX_QUOTA
=============================================================================
