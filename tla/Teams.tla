------------------------------- MODULE Teams --------------------------------
(***************************************************************************)
(* Teams and their members: CreateTeamUseCase, AddMemberUseCase and        *)
(* LeaveTeamUseCase, and of RegisterCompetitionUseCase the part that gives *)
(* a team a registration.  A use case reads, checks and writes at separate *)
(* awaits, so requests interleave between any two of them.  What MySQL     *)
(* enforces is the unique indexes (teams.leaderId, teams.name,             *)
(* team_members.userId) and the foreign keys, which cascade a deleted team *)
(* to its members and registrations.                                       *)
(*                                                                         *)
(* A row of team_members is identified by its team and its user: a row     *)
(* that save() inserts again counts as the one that was deleted.           *)
(***************************************************************************)
EXTENDS Naturals, FiniteSets

CONSTANTS
  Users,          \* rows of users
  TeamIds,        \* bound of the model: uuids a team may get
  Names,          \* names the participants ask for
  Requests,       \* HTTP requests that can be in flight at the same time
  institution,    \* users.institution, lower-cased
  NoInstitution,  \* its NULL
  Absent,         \* no such row, no such id
  MAX_TEAM_SIZE   \* TeamDomainService.MAX_TEAM_SIZE

\* MAX_TEAM_SIZE is 3 in the code; with it a team that may still grow was
\* loaded with one member at most, which CapacityNearlyRespected rests on.
ASSUME TeamsAssumption ==
  /\ IsFiniteSet(Users) /\ IsFiniteSet(Requests)
  /\ DOMAIN institution = Users
  /\ Absent \notin TeamIds
  /\ Absent \notin Users
  /\ Absent \notin [leaderId : Users, name : Names]
  /\ MAX_TEAM_SIZE \in {2, 3}

VARIABLES
  teams,      \* the rows of teams, by id
  members,    \* per team the userIds of its rows in team_members
  enrolled,   \* teams that a row of competition_registrations refers to
  published,  \* teams of which team.created was handed to the broker
  pc,         \* the await each request stands at
  job,        \* what each request holds in memory
  current     \* history: no other request wrote since this one began

vars == <<teams, members, enrolled, published, pc, job, current>>

----------------------------------------------------------------------------
TeamRow == [leaderId : Users, name : Names]

PC == {"idle", "name", "insert", "announce", "candidate", "reload", "write",
       "regs", "delete", "enrol"}

\* A request's team: its id, the TeamEntity with the members it was loaded
\* with, the user to be added, and what save() found it must insert: these
\* member rows and, if `reborn`, the team itself.
Job ==
  [team : TeamIds \cup {Absent}, row : TeamRow \cup {Absent}, members : SUBSET Users,
   candidate : Users \cup {Absent}, inserts : SUBSET Users, reborn : BOOLEAN]

NoJob ==
  [team |-> Absent, row |-> Absent, members |-> {}, candidate |-> Absent,
   inserts |-> {}, reborn |-> FALSE]

Existing == {t \in TeamIds : teams[t] # Absent}

Init ==
  /\ teams = [t \in TeamIds |-> Absent]
  /\ members = [t \in TeamIds |-> {}]
  /\ enrolled = {}
  /\ published = {}
  /\ pc = [r \in Requests |-> "idle"]
  /\ job = [r \in Requests |-> NoJob]
  /\ current = [r \in Requests |-> TRUE]

----------------------------------------------------------------------------
\* TeamRepository.findByUserId: the teams its query matches.  getOne hands
\* any one of them to the use case, which then loads it with its members.
findByUserId(u) == {t \in Existing : teams[t].leaderId = u \/ u \in members[t]}

\* The team a request of user u loads, if it is one that u leads.
LedBy(u) == {t \in findByUserId(u) : teams[t].leaderId = u}

\* Mutant of IsUnique: uq_teams_leader is missing.
IsUniqueName(row) == \A t \in Existing : teams[t].name # row.name

\* No row violates the unique indexes of teams against this one.
IsUnique(row) ==
  \A t \in Existing : teams[t].leaderId # row.leaderId /\ teams[t].name # row.name

\* A uuid that no row, message or request refers to.
FreshIds == TeamIds \ (Existing \cup published \cup {job[r].team : r \in Requests})

\* Request r goes on to the await `where` with j in memory.
Goto(r, j, where) ==
  /\ pc' = [pc EXCEPT ![r] = where]
  /\ job' = [job EXCEPT ![r] = j]

\* ... not having written,
Continue(r, j, where) ==
  /\ Goto(r, j, where)
  /\ current' = [current EXCEPT ![r] = @ \/ where = "idle"]

\* ... or having written.
Write(r, j, where) ==
  /\ Goto(r, j, where)
  /\ current' = [q \in Requests |-> q = r \/ pc[q] = "idle"]

\* Request r leaves its handler, with a response or with an exception.
Finish(r) == Continue(r, NoJob, "idle")

\* CreateTeamUseCase: the leader has an institution and no team.
CreateTeam(r, u, n) ==
  /\ pc[r] = "idle"
  /\ institution[u] # NoInstitution
  /\ findByUserId(u) = {}
  /\ Continue(r, [NoJob EXCEPT !.row = [leaderId |-> u, name |-> n]], "name")
  /\ UNCHANGED <<teams, members, enrolled, published>>

\* ... and nobody has the name yet ...
CheckName(r) ==
  /\ pc[r] = "name"
  /\ \A t \in Existing : teams[t].name # job[r].row.name
  /\ Continue(r, job[r], "insert")
  /\ UNCHANGED <<teams, members, enrolled, published>>

\* ... so it is inserted, unless a unique index refuses it by now ...
InsertTeam(r) ==
  /\ pc[r] = "insert"
  /\ IsUnique(job[r].row)
  /\ \E t \in FreshIds :
       /\ teams' = [teams EXCEPT ![t] = job[r].row]
       /\ Write(r, [job[r] EXCEPT !.team = t], "announce")
  /\ UNCHANGED <<members, enrolled, published>>

\* ... read back and announced.
AnnounceTeam(r) ==
  /\ pc[r] = "announce"
  /\ job[r].team \in Existing
  /\ published' = published \cup {job[r].team}
  /\ Finish(r)
  /\ UNCHANGED <<teams, members, enrolled>>

\* AddMemberUseCase: the leader loads the team; the candidate is somebody else.
AddMember(r, leader, candidate) ==
  /\ pc[r] = "idle"
  /\ candidate # leader
  /\ \E t \in LedBy(leader) :
       Continue(r, [NoJob EXCEPT !.team = t, !.row = teams[t], !.members = members[t],
                                 !.candidate = candidate],
                "candidate")
  /\ UNCHANGED <<teams, members, enrolled, published>>

\* Mutant of validateNewMember: the leader is not counted.
validateOnlyMembers(j) ==
  /\ Cardinality(j.members) < MAX_TEAM_SIZE
  /\ institution[j.candidate] = institution[j.row.leaderId]

\* TeamDomainService.validateNewMember, on the team as it was loaded; a team
\* has the institution its leader had.
validateNewMember(j) ==
  /\ 1 + Cardinality(j.members) < MAX_TEAM_SIZE
  /\ institution[j.candidate] # NoInstitution
  /\ institution[j.candidate] = institution[j.row.leaderId]

\* Mutant of CheckCandidate: only uq_team_members_user is relied on.
CheckCapacityOnly(r) ==
  /\ pc[r] = "candidate"
  /\ validateNewMember(job[r])
  /\ Continue(r, job[r], "reload")
  /\ UNCHANGED <<teams, members, enrolled, published>>

\* The candidate has no team and may join this one.
CheckCandidate(r) ==
  /\ pc[r] = "candidate"
  /\ findByUserId(job[r].candidate) = {}
  /\ validateNewMember(job[r])
  /\ Continue(r, job[r], "reload")
  /\ UNCHANGED <<teams, members, enrolled, published>>

\* save() re-reads the team.  A member it finds that was not loaded would
\* get a NULL teamId, which fails; a row it no longer finds is inserted
\* again, the team's own row too.
SaveReload(r) ==
  LET j == job[r] IN
  /\ pc[r] = "reload"
  /\ members[j.team] \subseteq j.members
  /\ Continue(r, [j EXCEPT !.inserts = (j.members \ members[j.team]) \cup {j.candidate},
                           !.reborn = j.team \notin Existing],
              "write")
  /\ UNCHANGED <<teams, members, enrolled, published>>

\* The transaction of save(), under the primary and foreign keys and the
\* unique indexes.  The handler then reads the team back and answers.
SaveCommit(r) ==
  LET j == job[r] IN
  /\ pc[r] = "write"
  /\ j.reborn <=> j.team \notin Existing
  /\ j.reborn => IsUnique(j.row)
  /\ \A t \in TeamIds : j.inserts \cap members[t] = {}
  /\ teams' = IF j.reborn THEN [teams EXCEPT ![j.team] = j.row] ELSE teams
  /\ members' = [members EXCEPT ![j.team] = @ \cup j.inserts]
  /\ Write(r, NoJob, "idle")
  /\ UNCHANGED <<enrolled, published>>

\* LeaveTeamUseCase: the leader loads the team ...
LeaveTeam(r, u) ==
  /\ pc[r] = "idle"
  /\ \E t \in LedBy(u) : Continue(r, [NoJob EXCEPT !.team = t], "regs")
  /\ UNCHANGED <<teams, members, enrolled, published>>

\* Mutant of CheckRegistrations: the team is deleted without looking.
CheckNothing(r) ==
  /\ pc[r] = "regs"
  /\ Continue(r, job[r], "delete")
  /\ UNCHANGED <<teams, members, enrolled, published>>

\* ... which has no registration ...
CheckRegistrations(r) ==
  /\ pc[r] = "regs"
  /\ job[r].team \notin enrolled
  /\ Continue(r, job[r], "delete")
  /\ UNCHANGED <<teams, members, enrolled, published>>

\* Mutant of DeleteTeam: registrations are not cascaded.
DeleteTeamOnly(r) ==
  /\ pc[r] = "delete"
  /\ teams' = [teams EXCEPT ![job[r].team] = Absent]
  /\ members' = [members EXCEPT ![job[r].team] = {}]
  /\ Write(r, NoJob, "idle")
  /\ UNCHANGED <<enrolled, published>>

\* ... and is deleted with its members and whatever registrations it has.
DeleteTeam(r) ==
  /\ pc[r] = "delete"
  /\ teams' = [teams EXCEPT ![job[r].team] = Absent]
  /\ members' = [members EXCEPT ![job[r].team] = {}]
  /\ enrolled' = enrolled \ {job[r].team}
  /\ Write(r, NoJob, "idle")
  /\ UNCHANGED published

\* RegisterCompetitionUseCase for a team: the leader loads it and the checks
\* on the competition and the quota pass ...
RegisterTeam(r, u, t) ==
  /\ pc[r] = "idle"
  /\ t \in Existing
  /\ teams[t].leaderId = u
  /\ Continue(r, [NoJob EXCEPT !.team = t], "enrol")
  /\ UNCHANGED <<teams, members, enrolled, published>>

\* ... and the registration is inserted if the team still exists.
InsertRegistration(r) ==
  /\ pc[r] = "enrol"
  /\ job[r].team \in Existing
  /\ enrolled' = enrolled \cup {job[r].team}
  /\ Write(r, NoJob, "idle")
  /\ UNCHANGED <<teams, members, published>>

\* A check after an await refuses, the database refuses or fails, or the
\* process dies: the handler ends and nothing is undone.
Fail(r) ==
  /\ pc[r] # "idle"
  /\ Finish(r)
  /\ UNCHANGED <<teams, members, enrolled, published>>

Next ==
  \E r \in Requests :
    \/ \E u \in Users, n \in Names : CreateTeam(r, u, n)
    \/ CheckName(r)
    \/ InsertTeam(r)
    \/ AnnounceTeam(r)
    \/ \E u, v \in Users : AddMember(r, u, v)
    \/ CheckCandidate(r)
    \/ SaveReload(r)
    \/ SaveCommit(r)
    \/ \E u \in Users : LeaveTeam(r, u)
    \/ CheckRegistrations(r)
    \/ DeleteTeam(r)
    \/ \E u \in Users, t \in TeamIds : RegisterTeam(r, u, t)
    \/ InsertRegistration(r)
    \/ Fail(r)

Spec == Init /\ [][Next]_vars

----------------------------------------------------------------------------
\* The variables keep their types, and what refers to a team refers to a row.
TypeOK ==
  /\ teams \in [TeamIds -> TeamRow \cup {Absent}]
  /\ members \in [TeamIds -> SUBSET Users]
  /\ enrolled \subseteq Existing
  /\ published \subseteq TeamIds
  /\ pc \in [Requests -> PC]
  /\ job \in [Requests -> Job]
  /\ current \in [Requests -> BOOLEAN]

Size(t) == 1 + Cardinality(members[t])

\* The step is that of a request during which another one wrote.
Overtaken == \E r \in Requests : pc'[r] # pc[r] /\ ~current[r]

\* A team gets a member beyond the capacity AddMember checks ("Kapasitas tim
\* sudah penuh (Maksimal 3 orang).") only from a request that was overtaken
\* after it loaded the team.
CapacityUnlessOvertaken ==
  [][\A t \in TeamIds :
       ~ members'[t] \subseteq members[t] /\ Size(t)' > MAX_TEAM_SIZE => Overtaken]_vars

\* The requests about to insert members into a team that was there.
Adding(t) == {r \in Requests : pc[r] = "write" /\ job[r].team = t /\ ~job[r].reborn}

\* However many saves overlap, each request but one takes a team at most one
\* over its capacity, those about to commit included.
CapacityNearlyRespected ==
  \A t \in Existing :
    Size(t) + Cardinality(Adding(t)) < MAX_TEAM_SIZE + Cardinality(Requests)

\* Who has a team gets into another one, to lead it or as a member, only by a
\* request that was overtaken after it looked for the first.
OneTeamUnlessOvertaken ==
  [][\A u \in Users :
       findByUserId(u) # {} /\ ~ findByUserId(u)' \subseteq findByUserId(u) => Overtaken]_vars

\* A user is in one team, as its leader or as a member: "Pastikan calon belum
\* punya tim (Sebagai ketua atau anggota)".
OneTeamPerUser == \A u \in Users : Cardinality(findByUserId(u)) <= 1

\* What the unique indexes leave of it: at most one team to lead and one to
\* be a member of, and never both in the same team.
AtMostTwoTeamsPerUser ==
  \A u \in Users :
    /\ Cardinality(LedBy(u)) <= 1
    /\ Cardinality(findByUserId(u) \ LedBy(u)) <= 1
    /\ \A t \in LedBy(u) : u \notin members[t]

\* A team with a registration is disbanded only by a request that another one
\* overtook after it looked for registrations.
EnrolledStayUnlessOvertaken == [][\A t \in enrolled : t \in Existing' \/ Overtaken]_vars

\* A team with a registration is not disbanded: "Tim tidak dapat dibubarkan
\* karena sudah terdaftar di perlombaan."
EnrolledTeamsStay == [][\A t \in enrolled : t \in Existing']_vars
=============================================================================
