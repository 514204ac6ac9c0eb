---------------------------- MODULE TeamsProofs -----------------------------
(***************************************************************************)
(* Theorems about Teams, for any finite sets of users and of overlapping   *)
(* requests, and any sets of ids and names.                                *)
(***************************************************************************)
EXTENDS Teams, FiniteSetTheorems, TLAPS

\* What a request holds in memory at the await `at`: when save() re-reads a
\* team, it was loaded with room for one more, and save() inserts just the
\* candidate, unless it brings the whole team back.
JobOK(j, at) ==
  /\ at \in {"name", "insert"} => j.row \in TeamRow
  /\ at \in {"announce", "regs", "delete", "enrol"} => j.team \in TeamIds
  /\ at \in {"candidate", "reload", "write"} =>
       j.team \in TeamIds /\ j.row \in TeamRow /\ j.candidate \in Users
  /\ at = "reload" => Cardinality(j.members) + 2 <= MAX_TEAM_SIZE
  /\ at = "write" =>
       IF j.reborn
       THEN j.inserts # {} /\ Cardinality(j.inserts) < MAX_TEAM_SIZE
       ELSE j.inserts = {j.candidate}

\* A team without members never had any, so no request was loaded with some.
LoadedOK(j, at) ==
  at \in {"candidate", "reload"} /\ j.team \in Existing /\ members[j.team] = {}
    => j.members = {}

\* The members a team has and is about to get.
RoomOK(t) ==
  t \in Existing =>
    Cardinality(members[t]) + Cardinality(Adding(t)) + 2
      <= MAX_TEAM_SIZE + Cardinality(Requests)

IInv ==
  /\ TypeOK
  /\ \A t \in TeamIds : t \notin Existing => members[t] = {}
  /\ \A r \in Requests : JobOK(job[r], pc[r]) /\ LoadedOK(job[r], pc[r])
  /\ \A t \in TeamIds : RoomOK(t)

----------------------------------------------------------------------------
\* Sets of members and of requests are finite and have sizes.
LEMMA Sizes ==
  /\ \A S \in SUBSET Users : IsFiniteSet(S) /\ Cardinality(S) \in Nat
  /\ \A S \in SUBSET Requests :
       /\ IsFiniteSet(S) /\ Cardinality(S) \in Nat
       /\ Cardinality(S) <= Cardinality(Requests)
  /\ Cardinality(Requests) \in Nat
  /\ MAX_TEAM_SIZE \in {2, 3}
BY TeamsAssumption, FS_Subset, FS_CardinalityType

\* A set of requests that shrinks gets no larger.
LEMMA Shrinks ==
  ASSUME NEW S \in SUBSET Requests, NEW T \in SUBSET S
  PROVE  Cardinality(T) <= Cardinality(S)
BY Sizes, FS_Subset

\* One more member makes a set at most one larger.
LEMMA AddsOne ==
  ASSUME NEW S \in SUBSET Users, NEW x
  PROVE  Cardinality(S \cup {x}) <= Cardinality(S) + 1
<1>1. IsFiniteSet(S) /\ Cardinality(S) \in Nat
  BY Sizes
<1>2. Cardinality(S \cup {x}) = IF x \in S THEN Cardinality(S) ELSE Cardinality(S) + 1
  BY <1>1, FS_AddElement
<1>3. QED
  BY <1>1, <1>2

\* The invariant holds while there are no teams.
LEMMA InitInv == Init => IInv
<1> SUFFICES ASSUME Init PROVE IInv
  OBVIOUS
<1>1. TypeOK
  BY DEF Init, TypeOK, Existing, PC, Job, NoJob
<1>2. Existing = {}
  BY DEF Init, Existing
<1>3. \A r \in Requests : JobOK(job[r], pc[r]) /\ LoadedOK(job[r], pc[r])
  BY DEF Init, JobOK, LoadedOK
<1>4. QED
  BY <1>1, <1>2, <1>3 DEF IInv, RoomOK, Init

\* Whether it writes or not, a request goes on to its next await, and the
\* history keeps its type.
LEMMA Moves ==
  ASSUME IInv, NEW r \in Requests, NEW j, NEW at, Continue(r, j, at) \/ Write(r, j, at)
  PROVE  Goto(r, j, at) /\ current' \in [Requests -> BOOLEAN]
BY DEF IInv, TypeOK, Continue, Write

\* A request that goes on, with the teams and members as they are, to an
\* await other than that of the transaction preserves the invariant.
LEMMA ContinueInv ==
  ASSUME IInv, NEW r \in Requests, NEW j \in Job, NEW at \in PC \ {"write"},
         Continue(r, j, at) \/ Write(r, j, at), JobOK(j, at), LoadedOK(j, at),
         UNCHANGED <<teams, members>>,
         enrolled' \subseteq Existing, published' \subseteq TeamIds
  PROVE  IInv'
<1>1. /\ Existing' = Existing
      /\ Goto(r, j, at) /\ current' \in [Requests -> BOOLEAN]
  BY Moves DEF Existing
<1>2. TypeOK'
  BY <1>1 DEF IInv, TypeOK, Goto
<1>3. \A t \in TeamIds : t \notin Existing' => members'[t] = {}
  BY <1>1 DEF IInv
<1>4. ASSUME NEW s \in Requests
      PROVE  (JobOK(job[s], pc[s]) /\ LoadedOK(job[s], pc[s]))'
  <2>1. CASE s = r
    <3>1. job'[s] = j /\ pc'[s] = at
      BY <1>1, <2>1 DEF IInv, TypeOK, Goto
    <3>2. QED
      BY <1>1, <3>1 DEF JobOK, LoadedOK
  <2>2. CASE s # r
    <3>1. job'[s] = job[s] /\ pc'[s] = pc[s]
      BY <1>1, <2>2 DEF IInv, TypeOK, Goto
    <3>2. QED
      BY <1>1, <3>1 DEF IInv, JobOK, LoadedOK
  <2>3. QED
    BY <2>1, <2>2
<1>5. ASSUME NEW t \in TeamIds PROVE RoomOK(t)'
  <2>1. Adding(t)' \subseteq Adding(t)
    BY <1>1 DEF IInv, TypeOK, Goto, Adding
  <2>2. Cardinality(Adding(t)') <= Cardinality(Adding(t))
    BY <2>1, Shrinks DEF Adding
  <2>3. /\ Cardinality(members[t]) \in Nat
        /\ Cardinality(Adding(t)) \in Nat /\ Cardinality(Adding(t)') \in Nat
    BY Sizes DEF IInv, TypeOK, Adding
  <2>4. QED
    BY <1>1, <2>2, <2>3, Sizes DEF IInv, RoomOK
<1>6. QED
  BY <1>2, <1>3, <1>4, <1>5 DEF IInv

----------------------------------------------------------------------------
\* A new team gets an id nobody refers to: no request was loaded with it.
LEMMA InsertTeamInv ==
  ASSUME IInv, NEW r \in Requests, InsertTeam(r) PROVE IInv'
<1>1. PICK t \in FreshIds :
        /\ teams' = [teams EXCEPT ![t] = job[r].row]
        /\ Goto(r, [job[r] EXCEPT !.team = t], "announce")
        /\ current' \in [Requests -> BOOLEAN]
  BY Moves DEF InsertTeam
<1>2. /\ t \in TeamIds /\ t \notin Existing
      /\ \A s \in Requests : job[s].team # t
  BY DEF FreshIds
<1>3. job[r].row \in TeamRow /\ job[r] \in Job
  BY DEF IInv, TypeOK, JobOK, InsertTeam
<1>4. Existing' = Existing \cup {t}
  BY <1>1, <1>2, <1>3, TeamsAssumption DEF IInv, TypeOK, Existing, TeamRow
<1>5. members' = members /\ enrolled' = enrolled /\ published' = published
  BY DEF InsertTeam
<1>6. [job[r] EXCEPT !.team = t] \in Job
  BY <1>2, <1>3 DEF Job
<1>7. TypeOK'
  BY <1>1, <1>2, <1>3, <1>4, <1>5, <1>6 DEF IInv, TypeOK, Goto, PC
<1>8. \A s \in TeamIds : s \notin Existing' => members'[s] = {}
  BY <1>4, <1>5 DEF IInv
<1>9. ASSUME NEW s \in Requests
      PROVE  (JobOK(job[s], pc[s]) /\ LoadedOK(job[s], pc[s]))'
  <2>1. CASE s = r
    <3>1. pc'[s] = "announce" /\ job'[s].team = t
      BY <1>1, <1>3, <2>1 DEF IInv, TypeOK, Goto, Job
    <3>2. QED
      BY <1>2, <3>1 DEF JobOK, LoadedOK
  <2>2. CASE s # r
    <3>1. job'[s] = job[s] /\ pc'[s] = pc[s]
      BY <1>1, <2>2 DEF IInv, TypeOK, Goto
    <3>2. QED
      BY <1>2, <1>4, <1>5, <3>1 DEF IInv, JobOK, LoadedOK
  <2>3. QED
    BY <2>1, <2>2
<1>10. ASSUME NEW s \in TeamIds PROVE RoomOK(s)'
  <2>1. Adding(s)' \subseteq Adding(s)
    BY <1>1 DEF IInv, TypeOK, Goto, Adding
  <2>2. Cardinality(Adding(s)') <= Cardinality(Adding(s))
    BY <2>1, Shrinks DEF Adding
  <2>3. /\ Cardinality(members[s]) \in Nat
        /\ Cardinality(Adding(s)) \in Nat /\ Cardinality(Adding(s)') \in Nat
        /\ Cardinality(Adding(s)') <= Cardinality(Requests)
    BY Sizes DEF IInv, TypeOK, Adding
  <2>4. CASE s = t
    <3>1. Cardinality(members'[s]) = 0
      BY <1>2, <1>5, <2>4, FS_EmptySet DEF IInv
    <3>2. QED
      BY <2>3, <3>1, Sizes DEF RoomOK
  <2>5. CASE s # t
    BY <1>4, <1>5, <2>2, <2>3, <2>5, Sizes DEF IInv, RoomOK
  <2>6. QED
    BY <2>4, <2>5
<1>11. QED
  BY <1>7, <1>8, <1>9, <1>10 DEF IInv

\* A set with at most one element has no other non-empty subset.
LEMMA AtMostOne ==
  ASSUME NEW S \in SUBSET Users, Cardinality(S) <= 1,
         NEW T \in SUBSET S, T # {}
  PROVE  T = S
<1>1. IsFiniteSet(S) /\ IsFiniteSet(T) /\ Cardinality(T) \in Nat /\ Cardinality(S) \in Nat
  BY Sizes
<1>2. Cardinality(T) # 0
  BY <1>1, FS_EmptySet
<1>3. Cardinality(T) <= Cardinality(S)
  BY <1>1, FS_Subset
<1>4. Cardinality(T) = Cardinality(S)
  BY <1>1, <1>2, <1>3
<1>5. QED
  BY <1>1, <1>4, FS_Subset

\* save() re-reads: with no orphan a team that is still there has exactly
\* the members it was loaded with, so one row is to be inserted.
LEMMA SaveReloadInv ==
  ASSUME IInv, NEW r \in Requests, SaveReload(r) PROVE IInv'
<1> DEFINE j == job[r]
           t == j.team
           ins == (j.members \ members[t]) \cup {j.candidate}
           k == [j EXCEPT !.inserts = ins, !.reborn = t \notin Existing]
<1>1. /\ j \in Job /\ t \in TeamIds /\ j.row \in TeamRow /\ j.candidate \in Users
      /\ Cardinality(j.members) + 2 <= MAX_TEAM_SIZE
      /\ members[t] \subseteq j.members
  BY DEF IInv, TypeOK, JobOK, SaveReload
<1>2. /\ Goto(r, k, "write") /\ current' \in [Requests -> BOOLEAN]
      /\ UNCHANGED <<teams, members, enrolled, published, Existing>>
  BY Moves DEF SaveReload, Existing
<1>3. /\ j.members \in SUBSET Users /\ members[t] \in SUBSET Users
      /\ Cardinality(j.members) \in Nat /\ Cardinality(j.members) <= 1
  BY <1>1, Sizes DEF IInv, TypeOK, Job
<1>4. /\ k \in Job /\ k.team = t /\ k.row = j.row /\ k.candidate = j.candidate
      /\ k.inserts = ins /\ k.reborn = (t \notin Existing)
  BY <1>1, <1>3 DEF Job
<1>5. JobOK(k, "write")
  <2>1. CASE t \in Existing
    <3>1. members[t] = {} => j.members = {}
      BY <2>1 DEF IInv, LoadedOK, SaveReload
    <3>2. members[t] = j.members
      <4>1. CASE members[t] = {}
        BY <3>1, <4>1
      <4>2. CASE members[t] # {}
        <5>1. members[t] \in SUBSET j.members
          BY <1>1
        <5>2. QED
          BY <1>3, <4>2, <5>1, AtMostOne
      <4>3. QED
        BY <4>1, <4>2
    <3>3. QED
      BY <1>1, <1>4, <2>1, <3>2 DEF JobOK
  <2>2. CASE t \notin Existing
    <3>1. ins = j.members \cup {j.candidate}
      BY <1>1, <2>2 DEF IInv
    <3>2. Cardinality(ins) <= Cardinality(j.members) + 1
      BY <1>3, <3>1, AddsOne
    <3>3. ins \in SUBSET Users /\ Cardinality(ins) \in Nat
      BY <1>1, <1>3, <3>1, Sizes
    <3>4. Cardinality(ins) < MAX_TEAM_SIZE
      BY <1>1, <1>3, <3>2, <3>3, Sizes
    <3>5. QED
      BY <1>1, <1>4, <2>2, <3>4 DEF JobOK
  <2>3. QED
    BY <2>1, <2>2
<1> HIDE DEF k, ins
<1>6. TypeOK'
  BY <1>2, <1>4 DEF IInv, TypeOK, Goto, PC
<1>7. \A s \in TeamIds : s \notin Existing' => members'[s] = {}
  BY <1>2 DEF IInv
<1>8. ASSUME NEW s \in Requests
      PROVE  (JobOK(job[s], pc[s]) /\ LoadedOK(job[s], pc[s]))'
  <2>1. CASE s = r
    <3>1. job'[s] = k /\ pc'[s] = "write"
      BY <1>2, <2>1 DEF IInv, TypeOK, Goto
    <3>2. QED
      BY <1>5, <3>1 DEF JobOK, LoadedOK
  <2>2. CASE s # r
    <3>1. job'[s] = job[s] /\ pc'[s] = pc[s]
      BY <1>2, <2>2 DEF IInv, TypeOK, Goto
    <3>2. QED
      BY <1>2, <3>1 DEF IInv, JobOK, LoadedOK
  <2>3. QED
    BY <2>1, <2>2
<1>9. ASSUME NEW s \in TeamIds PROVE RoomOK(s)'
  <2>1. /\ Cardinality(members[s]) \in Nat
        /\ Cardinality(Adding(s)) \in Nat /\ Cardinality(Adding(s)') \in Nat
        /\ Cardinality(Adding(s)') <= Cardinality(Requests)
    BY Sizes DEF IInv, TypeOK, Adding
  <2>2. CASE s = t
    <3>1. Cardinality(members[s]) <= Cardinality(j.members)
      BY <1>1, <1>3, <2>2, Sizes, FS_Subset
    <3>2. QED
      BY <1>1, <1>2, <1>3, <2>1, <3>1, Sizes DEF RoomOK
  <2>3. CASE s # t
    <3>1. Adding(s)' \subseteq Adding(s)
      BY <1>2, <1>4, <2>3 DEF IInv, TypeOK, Goto, Adding
    <3>2. Cardinality(Adding(s)') <= Cardinality(Adding(s))
      BY <3>1, Shrinks DEF Adding
    <3>3. QED
      BY <1>2, <2>1, <3>2, Sizes DEF IInv, RoomOK
  <2>4. QED
    BY <2>2, <2>3
<1>10. QED
  BY <1>6, <1>7, <1>8, <1>9 DEF IInv

----------------------------------------------------------------------------
\* The transaction of save() adds one member, or brings the whole team back.
LEMMA SaveCommitInv ==
  ASSUME IInv, NEW r \in Requests, SaveCommit(r) PROVE IInv'
<1> DEFINE j == job[r]
           t == j.team
<1>1. /\ j \in Job /\ t \in TeamIds /\ j.row \in TeamRow /\ j.candidate \in Users
      /\ IF j.reborn
         THEN j.inserts # {} /\ Cardinality(j.inserts) < MAX_TEAM_SIZE
         ELSE j.inserts = {j.candidate}
  BY DEF IInv, TypeOK, JobOK, SaveCommit
<1>2. /\ j.reborn <=> t \notin Existing
      /\ teams' = IF j.reborn THEN [teams EXCEPT ![t] = j.row] ELSE teams
      /\ members' = [members EXCEPT ![t] = @ \cup j.inserts]
      /\ Goto(r, NoJob, "idle") /\ current' \in [Requests -> BOOLEAN]
      /\ enrolled' = enrolled /\ published' = published
      /\ j.inserts \cap members[t] = {}
  BY <1>1, Moves DEF SaveCommit
<1>3. /\ j.inserts \in SUBSET Users /\ members[t] \in SUBSET Users
      /\ members'[t] = members[t] \cup j.inserts
      /\ \A s \in TeamIds \ {t} : members'[s] = members[s]
  BY <1>1, <1>2 DEF IInv, TypeOK, Job
<1>4. Existing' = Existing \cup {t}
  BY <1>1, <1>2, TeamsAssumption DEF IInv, TypeOK, Existing, TeamRow
<1>5. NoJob \in Job
  BY DEF NoJob, Job
<1>6. TypeOK'
  BY <1>1, <1>2, <1>3, <1>4, <1>5 DEF IInv, TypeOK, Goto, PC
<1>7. \A s \in TeamIds : s \notin Existing' => members'[s] = {}
  BY <1>3, <1>4 DEF IInv
<1>8. members'[t] # {}
  BY <1>1, <1>3
<1>9. ASSUME NEW s \in Requests
      PROVE  (JobOK(job[s], pc[s]) /\ LoadedOK(job[s], pc[s]))'
  <2>1. CASE s = r
    <3>1. pc'[s] = "idle"
      BY <1>2, <2>1 DEF IInv, TypeOK, Goto
    <3>2. QED
      BY <3>1 DEF JobOK, LoadedOK
  <2>2. CASE s # r
    <3>1. job'[s] = job[s] /\ pc'[s] = pc[s]
      BY <1>2, <2>2 DEF IInv, TypeOK, Goto
    <3>2. JobOK(job[s], pc[s]) /\ LoadedOK(job[s], pc[s])
      BY DEF IInv
    <3>3. JobOK(job[s], pc[s])'
      BY <3>1, <3>2 DEF JobOK
    <3>4. LoadedOK(job[s], pc[s])'
      BY <1>3, <1>4, <1>8, <3>1, <3>2 DEF LoadedOK, Existing
    <3>5. QED
      BY <3>3, <3>4
  <2>3. QED
    BY <2>1, <2>2
<1>10. ASSUME NEW s \in TeamIds PROVE RoomOK(s)'
  <2>1. Adding(s)' \subseteq Adding(s) \ {r}
    BY <1>2 DEF IInv, TypeOK, Goto, Adding
  <2>2. /\ Cardinality(members[s]) \in Nat /\ Cardinality(members'[s]) \in Nat
        /\ IsFiniteSet(members[s])
        /\ IsFiniteSet(Adding(s)) /\ Cardinality(Adding(s)) \in Nat
        /\ Cardinality(Adding(s)') \in Nat
    BY <1>6, Sizes DEF IInv, TypeOK, Adding
  <2>3. Cardinality(Adding(s)') <= Cardinality(Adding(s) \ {r})
    BY <2>1, Shrinks DEF Adding
  <2>4. CASE s # t
    <3>1. Cardinality(Adding(s)') <= Cardinality(Adding(s))
      BY <2>1, Shrinks DEF Adding
    <3>2. QED
      BY <1>3, <1>4, <2>2, <2>4, <3>1, Sizes DEF IInv, RoomOK
  <2>5. CASE s = t /\ ~j.reborn
    <3>1. r \in Adding(s)
      BY <2>5 DEF Adding, SaveCommit
    <3>2. Cardinality(Adding(s)') + 1 <= Cardinality(Adding(s))
      <4>1. Cardinality(Adding(s) \ {r}) = Cardinality(Adding(s)) - 1
        BY <2>2, <3>1, FS_RemoveElement
      <4>2. QED
        BY <2>2, <2>3, <4>1
    <3>3. Cardinality(members'[s]) <= Cardinality(members[s]) + 1
      <4>1. members'[s] = members[s] \cup {j.candidate}
        BY <1>1, <1>3, <2>5
      <4>2. Cardinality(members[s] \cup {j.candidate}) <= Cardinality(members[s]) + 1
        BY <1>3, <2>5, AddsOne
      <4>3. QED
        BY <4>1, <4>2
    <3>4. s \in Existing
      BY <1>1, <1>2, <2>5
    <3>5. Cardinality(members[s]) + Cardinality(Adding(s)) + 2
            <= MAX_TEAM_SIZE + Cardinality(Requests)
      BY <3>4 DEF IInv, RoomOK
    <3>6. QED
      BY <2>2, <3>2, <3>3, <3>5, Sizes DEF RoomOK
  <2>6. CASE s = t /\ j.reborn
    <3>1. members'[s] = j.inserts
      BY <1>1, <1>2, <1>3, <2>6 DEF IInv
    <3>2. Cardinality(members'[s]) < MAX_TEAM_SIZE
      BY <1>1, <2>6, <3>1
    <3>3. Cardinality(Adding(s)') <= Cardinality(Requests \ {r})
      <4>1. Adding(s)' \subseteq Requests \ {r}
        BY <2>1 DEF Adding
      <4>2. Requests \ {r} \in SUBSET Requests
        OBVIOUS
      <4>3. QED
        BY <4>1, <4>2, Shrinks
    <3>4. Cardinality(Requests \ {r}) = Cardinality(Requests) - 1
      BY TeamsAssumption, FS_RemoveElement
    <3>5. QED
      BY <2>2, <3>2, <3>3, <3>4, Sizes DEF RoomOK
  <2>7. QED
    BY <2>4, <2>5, <2>6
<1>11. QED
  BY <1>6, <1>7, <1>9, <1>10 DEF IInv

\* A deleted team takes its members and registrations with it.
LEMMA DeleteTeamInv ==
  ASSUME IInv, NEW r \in Requests, DeleteTeam(r) PROVE IInv'
<1> DEFINE t == job[r].team
<1>1. /\ t \in TeamIds
      /\ teams' = [teams EXCEPT ![t] = Absent]
      /\ members' = [members EXCEPT ![t] = {}]
      /\ enrolled' = enrolled \ {t} /\ published' = published
      /\ Goto(r, NoJob, "idle") /\ current' \in [Requests -> BOOLEAN]
  BY Moves DEF IInv, JobOK, DeleteTeam
<1>2. Existing' = Existing \ {t}
  BY <1>1 DEF IInv, TypeOK, Existing
<1>3. NoJob \in Job
  BY DEF NoJob, Job
<1>4. TypeOK'
  BY <1>1, <1>2, <1>3 DEF IInv, TypeOK, Goto, PC
<1>5. \A s \in TeamIds : s \notin Existing' => members'[s] = {}
  BY <1>1, <1>2 DEF IInv, TypeOK
<1>6. ASSUME NEW s \in Requests
      PROVE  (JobOK(job[s], pc[s]) /\ LoadedOK(job[s], pc[s]))'
  <2>1. CASE s = r
    <3>1. pc'[s] = "idle"
      BY <1>1, <2>1 DEF IInv, TypeOK, Goto
    <3>2. QED
      BY <3>1 DEF JobOK, LoadedOK
  <2>2. CASE s # r
    <3>1. job'[s] = job[s] /\ pc'[s] = pc[s]
      BY <1>1, <2>2 DEF IInv, TypeOK, Goto
    <3>2. \A q \in TeamIds : q \in Existing' => q \in Existing /\ members'[q] = members[q]
      BY <1>1, <1>2 DEF IInv, TypeOK
    <3>3. JobOK(job[s], pc[s]) /\ LoadedOK(job[s], pc[s])
      BY DEF IInv
    <3>4. QED
      BY <3>1, <3>2, <3>3 DEF JobOK, LoadedOK, Existing
  <2>3. QED
    BY <2>1, <2>2
<1>7. ASSUME NEW s \in TeamIds PROVE RoomOK(s)'
  <2>1. Adding(s)' \subseteq Adding(s)
    BY <1>1 DEF IInv, TypeOK, Goto, Adding
  <2>2. Cardinality(Adding(s)') <= Cardinality(Adding(s))
    BY <2>1, Shrinks DEF Adding
  <2>3. /\ Cardinality(members[s]) \in Nat
        /\ Cardinality(Adding(s)) \in Nat /\ Cardinality(Adding(s)') \in Nat
    BY Sizes DEF IInv, TypeOK, Adding
  <2>4. s \in Existing' => s \in Existing /\ members'[s] = members[s]
    BY <1>1, <1>2 DEF IInv, TypeOK
  <2>5. QED
    BY <2>2, <2>3, <2>4, Sizes DEF IInv, RoomOK
<1>8. QED
  BY <1>4, <1>5, <1>6, <1>7 DEF IInv

----------------------------------------------------------------------------
\* Every step keeps the invariant.
LEMMA NextInv == IInv /\ [Next]_vars => IInv'
<1> SUFFICES ASSUME IInv, [Next]_vars PROVE IInv'
  OBVIOUS
<1>1. CASE UNCHANGED vars
  BY <1>1 DEF vars, IInv, TypeOK, JobOK, LoadedOK, RoomOK, Adding, Existing
<1>2. /\ NoJob \in Job /\ TypeOK /\ enrolled \subseteq Existing /\ published \subseteq TeamIds
      /\ \A r \in Requests : job[r] \in Job
  BY DEF NoJob, Job, IInv, TypeOK
<1>3. ASSUME NEW r \in Requests, NEW u \in Users, NEW n \in Names, CreateTeam(r, u, n)
      PROVE  IInv'
  <2> DEFINE j == [NoJob EXCEPT !.row = [leaderId |-> u, name |-> n]]
  <2>1. j \in Job /\ j.row \in TeamRow
    BY DEF NoJob, Job, TeamRow
  <2>2. JobOK(j, "name") /\ LoadedOK(j, "name")
    BY <2>1 DEF JobOK, LoadedOK
  <2>3. Continue(r, j, "name") /\ UNCHANGED <<teams, members, enrolled, published>>
    BY <1>3 DEF CreateTeam
  <2> HIDE DEF j
  <2>4. QED
    BY <1>2, <2>1, <2>2, <2>3, ContinueInv DEF PC
<1>4. ASSUME NEW r \in Requests, CheckName(r) PROVE IInv'
  <2>1. JobOK(job[r], "insert") /\ LoadedOK(job[r], "insert")
    BY <1>4 DEF IInv, CheckName, JobOK, LoadedOK
  <2>2. QED
    BY <1>2, <1>4, <2>1, ContinueInv DEF CheckName, PC
<1>5. ASSUME NEW r \in Requests, InsertTeam(r) PROVE IInv'
  BY <1>5, InsertTeamInv
<1>6. ASSUME NEW r \in Requests, NEW u \in Users, NEW v \in Users, AddMember(r, u, v)
      PROVE  IInv'
  <2>1. PICK t \in LedBy(u) :
          Continue(r, [NoJob EXCEPT !.team = t, !.row = teams[t], !.members = members[t],
                                    !.candidate = v],
                   "candidate")
    BY <1>6 DEF AddMember
  <2> DEFINE j == [NoJob EXCEPT !.team = t, !.row = teams[t], !.members = members[t],
                                !.candidate = v]
  <2>2. t \in TeamIds /\ teams[t] \in TeamRow /\ members[t] \in SUBSET Users
    BY <1>2 DEF LedBy, findByUserId, Existing, TypeOK
  <2>3. /\ j \in Job /\ j.team = t /\ j.row \in TeamRow /\ j.candidate \in Users
        /\ j.members = members[t]
    BY <2>2 DEF NoJob, Job
  <2>4. JobOK(j, "candidate") /\ LoadedOK(j, "candidate")
    BY <2>2, <2>3 DEF JobOK, LoadedOK
  <2> HIDE DEF j
  <2>5. Continue(r, j, "candidate") /\ UNCHANGED <<teams, members, enrolled, published>>
    BY <1>6, <2>1 DEF AddMember, j
  <2>6. QED
    BY <1>2, <2>3, <2>4, <2>5, ContinueInv DEF PC
<1>7. ASSUME NEW r \in Requests, CheckCandidate(r) PROVE IInv'
  <2>1. Cardinality(job[r].members) \in Nat
    BY <1>2, Sizes DEF Job
  <2>2. 1 + Cardinality(job[r].members) < MAX_TEAM_SIZE
    BY <1>7 DEF CheckCandidate, validateNewMember
  <2>3. JobOK(job[r], "reload") /\ LoadedOK(job[r], "reload")
    BY <1>7, <2>1, <2>2, Sizes DEF IInv, CheckCandidate, JobOK, LoadedOK
  <2>4. QED
    BY <1>2, <1>7, <2>3, ContinueInv DEF CheckCandidate, PC
<1>8. ASSUME NEW r \in Requests, SaveReload(r) PROVE IInv'
  BY <1>8, SaveReloadInv
<1>9. ASSUME NEW r \in Requests, SaveCommit(r) PROVE IInv'
  BY <1>9, SaveCommitInv
<1>10. ASSUME NEW r \in Requests, NEW t \in Existing, NEW at \in {"regs", "enrol"},
              Continue(r, [NoJob EXCEPT !.team = t], at),
              UNCHANGED <<teams, members, enrolled, published>>
       PROVE  IInv'
  <2> DEFINE j == [NoJob EXCEPT !.team = t]
  <2>1. j \in Job /\ j.team \in TeamIds
    BY DEF NoJob, Job, Existing
  <2>2. JobOK(j, at) /\ LoadedOK(j, at) /\ Continue(r, j, at)
    BY <1>10, <2>1 DEF JobOK, LoadedOK
  <2> HIDE DEF j
  <2>3. QED
    BY <1>2, <1>10, <2>1, <2>2, ContinueInv DEF PC
<1>11. ASSUME NEW r \in Requests, NEW u \in Users, LeaveTeam(r, u) PROVE IInv'
  BY <1>10, <1>11 DEF LeaveTeam, LedBy, findByUserId
<1>12. ASSUME NEW r \in Requests, CheckRegistrations(r) PROVE IInv'
  <2>1. JobOK(job[r], "delete") /\ LoadedOK(job[r], "delete")
    BY <1>12 DEF IInv, CheckRegistrations, JobOK, LoadedOK
  <2>2. QED
    BY <1>2, <1>12, <2>1, ContinueInv DEF CheckRegistrations, PC
<1>13. ASSUME NEW r \in Requests, DeleteTeam(r) PROVE IInv'
  BY <1>13, DeleteTeamInv
<1>14. ASSUME NEW r \in Requests, NEW u \in Users, NEW t \in TeamIds, RegisterTeam(r, u, t)
       PROVE  IInv'
  BY <1>10, <1>14 DEF RegisterTeam
<1>15. ASSUME NEW r \in Requests, AnnounceTeam(r) \/ InsertRegistration(r) \/ Fail(r)
       PROVE  IInv'
  <2>1. JobOK(NoJob, "idle") /\ LoadedOK(NoJob, "idle")
    BY DEF JobOK, LoadedOK
  <2>2. /\ Continue(r, NoJob, "idle") \/ Write(r, NoJob, "idle")
        /\ UNCHANGED <<teams, members>>
    BY <1>15 DEF AnnounceTeam, InsertRegistration, Fail, Finish
  <2>3. enrolled' \subseteq Existing /\ published' \subseteq TeamIds
    BY <1>2, <1>15 DEF AnnounceTeam, InsertRegistration, Fail, Existing
  <2>4. QED
    BY <1>2, <2>1, <2>2, <2>3, ContinueInv DEF PC
<1>16. QED
  BY <1>1, <1>3, <1>4, <1>5, <1>6, <1>7, <1>8, <1>9, <1>11, <1>12, <1>13, <1>14, <1>15 DEF Next

\* The invariant the other theorems rest on.
THEOREM Invariance == Spec => []IInv
<1>1. QED
  BY InitInv, NextInv, PTL DEF Spec

\* The type invariant, with the foreign key of the registrations: a
\* registration never refers to a team that is gone.
THEOREM TypeCorrect == Spec => []TypeOK
<1>1. IInv => TypeOK
  BY DEF IInv
<1>2. QED
  BY <1>1, Invariance, PTL

\* The price of checking the capacity outside the transaction, for any number
\* of overlapping requests: each but one may add one member too many.
THEOREM CapacityNearly == Spec => []CapacityNearlyRespected
<1>1. IInv => CapacityNearlyRespected
  <2> SUFFICES ASSUME IInv, NEW t \in Existing
               PROVE  Size(t) + Cardinality(Adding(t)) < MAX_TEAM_SIZE + Cardinality(Requests)
    BY DEF CapacityNearlyRespected
  <2>1. t \in TeamIds
    BY DEF Existing
  <2>2. /\ Cardinality(members[t]) \in Nat /\ Cardinality(Adding(t)) \in Nat
        /\ Cardinality(members[t]) + Cardinality(Adding(t)) + 2
              <= MAX_TEAM_SIZE + Cardinality(Requests)
    BY <2>1, Sizes DEF IInv, TypeOK, RoomOK, Adding
  <2>3. QED
    BY <2>2, Sizes DEF Size
<1>2. QED
  BY <1>1, Invariance, PTL

----------------------------------------------------------------------------
\* What a request that is to add a member knows of its team: the leader is not
\* among its members, and a team keeps its leader, also when it is brought back.
LeaderOK(j, at) ==
  at \in {"candidate", "reload", "write"} =>
    /\ j.row.leaderId \notin j.members \cup {j.candidate}
    /\ at = "write" => j.row.leaderId \notin j.inserts
    /\ j.team \in Existing => teams[j.team] = j.row

\* Two requests loaded with one team know one leader, though it may be gone.
SameTeam(j, at, k, where) ==
  at \in {"candidate", "reload", "write"} /\ where \in {"candidate", "reload", "write"}
    /\ j.team = k.team => j.row = k.row

\* What the unique indexes enforce, and what keeps a leader out of the members.
UniqueInv ==
  /\ \A s, t \in Existing : s # t => teams[s].leaderId # teams[t].leaderId
  /\ \A s, t \in TeamIds : s # t => members[s] \cap members[t] = {}
  /\ \A t \in Existing : teams[t].leaderId \notin members[t]
  /\ \A r \in Requests : LeaderOK(job[r], pc[r])
  /\ \A q, r \in Requests : SameTeam(job[q], pc[q], job[r], pc[r])

\* Where a step of request r leaves the requests.
LEMMA ContinueMoves ==
  ASSUME IInv, NEW r \in Requests, NEW j, NEW at, Goto(r, j, at)
  PROVE  /\ pc'[r] = at /\ job'[r] = j
         /\ \A q \in Requests \ {r} : pc'[q] = pc[q] /\ job'[q] = job[q]
BY DEF IInv, TypeOK, Goto

\* A request that goes on keeps it if it knows its team, or no longer cares.
LEMMA UniqueContinue ==
  ASSUME IInv, UniqueInv, NEW r \in Requests, NEW j, NEW at, Goto(r, j, at),
         UNCHANGED <<teams, members>>, LeaderOK(j, at),
         \A q \in Requests : SameTeam(job[q], pc[q], j, at)
  PROVE  UniqueInv'
<1>1. /\ pc'[r] = at /\ job'[r] = j
      /\ \A q \in Requests \ {r} : pc'[q] = pc[q] /\ job'[q] = job[q]
  BY ContinueMoves
<1>2. Existing' = Existing
  BY DEF Existing
<1>3. \A q \in Requests : LeaderOK(job[q], pc[q])'
  BY <1>1, <1>2 DEF UniqueInv, LeaderOK
<1>4. \A p, q \in Requests : SameTeam(job[p], pc[p], job[q], pc[q])'
  BY <1>1 DEF UniqueInv, SameTeam
<1> QED
  BY <1>2, <1>3, <1>4 DEF UniqueInv

\* So does one that leaves the awaits where it matters.
LEMMA UniqueLeaves ==
  ASSUME IInv, UniqueInv, NEW r \in Requests, NEW j, NEW at, Goto(r, j, at),
         UNCHANGED <<teams, members>>, at \notin {"candidate", "reload", "write"}
  PROVE  UniqueInv'
<1>1. LeaderOK(j, at) /\ \A q \in Requests : SameTeam(job[q], pc[q], j, at)
  BY DEF LeaderOK, SameTeam
<1> QED
  BY <1>1, UniqueContinue

\* InsertTeam keeps what the unique indexes enforce: it is checked against them.
LEMMA UniqueInsertTeam ==
  ASSUME IInv, UniqueInv, NEW r \in Requests, InsertTeam(r) PROVE UniqueInv'
<1>1. PICK t \in FreshIds :
        /\ teams' = [teams EXCEPT ![t] = job[r].row]
        /\ Goto(r, [job[r] EXCEPT !.team = t], "announce")
  BY DEF InsertTeam, Write
<1>2. /\ t \in TeamIds /\ t \notin Existing /\ \A s \in Requests : job[s].team # t
      /\ members[t] = {} /\ members' = members /\ IsUnique(job[r].row)
  BY DEF FreshIds, InsertTeam, IInv
<1>3. job[r].row \in TeamRow
  BY DEF IInv, JobOK, InsertTeam
<1>4. /\ Existing' = Existing \cup {t} /\ teams'[t] = job[r].row
      /\ \A s \in Existing : teams'[s] = teams[s]
  BY <1>1, <1>2, <1>3, TeamsAssumption DEF IInv, TypeOK, Existing, TeamRow
<1>5. pc'[r] = "announce" /\ \A q \in Requests \ {r} : pc'[q] = pc[q] /\ job'[q] = job[q]
  BY <1>1, ContinueMoves
<1>6. \A q \in Requests : LeaderOK(job[q], pc[q])'
  BY <1>2, <1>4, <1>5 DEF UniqueInv, LeaderOK
<1>7. \A p, q \in Requests : SameTeam(job[p], pc[p], job[q], pc[q])'
  BY <1>5 DEF UniqueInv, SameTeam
<1>8. \A s, q \in Existing' : s # q => teams'[s].leaderId # teams'[q].leaderId
  BY <1>2, <1>4 DEF UniqueInv, IsUnique
<1>9. \A s \in Existing' : teams'[s].leaderId \notin members'[s]
  BY <1>2, <1>4 DEF UniqueInv
<1> QED
  BY <1>2, <1>6, <1>7, <1>8, <1>9 DEF UniqueInv

\* So does SaveCommit, also when it brings a team back.
LEMMA UniqueSaveCommit ==
  ASSUME IInv, UniqueInv, NEW r \in Requests, SaveCommit(r) PROVE UniqueInv'
<1> DEFINE j == job[r]
           t == j.team
<1>1. /\ j \in Job /\ t \in TeamIds /\ j.row \in TeamRow /\ pc[r] = "write"
  BY DEF IInv, TypeOK, JobOK, SaveCommit
<1>2. /\ j.reborn <=> t \notin Existing
      /\ j.reborn => IsUnique(j.row)
      /\ teams' = IF j.reborn THEN [teams EXCEPT ![t] = j.row] ELSE teams
      /\ members' = [members EXCEPT ![t] = @ \cup j.inserts]
      /\ Goto(r, NoJob, "idle")
      /\ \A s \in TeamIds : j.inserts \cap members[s] = {}
  BY DEF SaveCommit, Write
<1>3. /\ members'[t] = members[t] \cup j.inserts
      /\ \A s \in TeamIds \ {t} : members'[s] = members[s]
  BY <1>1, <1>2 DEF IInv, TypeOK
<1>4. j.row.leaderId \notin j.inserts /\ (t \in Existing => teams[t] = j.row)
  BY <1>1 DEF UniqueInv, LeaderOK
<1>5. Existing' = Existing \cup {t}
  BY <1>1, <1>2, TeamsAssumption DEF IInv, TypeOK, Existing, TeamRow
<1>6. teams'[t] = j.row /\ \A s \in TeamIds \ {t} : teams'[s] = teams[s]
  BY <1>1, <1>2, <1>4 DEF IInv, TypeOK
<1>7. pc'[r] = "idle" /\ \A q \in Requests \ {r} : pc'[q] = pc[q] /\ job'[q] = job[q]
  BY <1>2, ContinueMoves
<1>8. \A q, s \in Existing' : q # s => teams'[q].leaderId # teams'[s].leaderId
  <2>1. CASE j.reborn
    BY <1>1, <1>2, <1>5, <1>6, <2>1 DEF UniqueInv, IsUnique, Existing
  <2>2. CASE ~j.reborn
    BY <1>2, <1>5, <2>2 DEF UniqueInv
  <2> QED
    BY <2>1, <2>2
<1>9. \A q, s \in TeamIds : q # s => members'[q] \cap members'[s] = {}
  <2>1. \A s \in TeamIds \ {t} : members'[t] \cap members'[s] = {}
    BY <1>1, <1>2, <1>3 DEF UniqueInv
  <2> QED
    BY <1>3, <2>1 DEF UniqueInv
<1>10. \A s \in Existing' : teams'[s].leaderId \notin members'[s]
  <2>1. j.row.leaderId \notin members[t]
    <3>1. t \notin Existing => members[t] = {}
      BY <1>1 DEF IInv
    <3> QED
      BY <1>4, <3>1 DEF UniqueInv
  <2>2. teams'[t].leaderId \notin members'[t]
    BY <1>3, <1>4, <1>6, <2>1
  <2> QED
    BY <1>3, <1>5, <1>6, <2>2 DEF UniqueInv, Existing
<1>11. ASSUME NEW q \in Requests PROVE LeaderOK(job[q], pc[q])'
  <2>1. CASE q = r
    BY <1>7, <2>1 DEF LeaderOK
  <2>2. CASE q # r
    <3>1. pc'[q] = pc[q] /\ job'[q] = job[q] /\ LeaderOK(job[q], pc[q])
      BY <1>7, <2>2 DEF UniqueInv
    <3>2. SameTeam(job[q], pc[q], j, pc[r])
      BY DEF UniqueInv
    <3>3. pc[q] \in {"candidate", "reload", "write"} => job[q].team \in TeamIds
      BY DEF IInv, JobOK
    <3> QED
      BY <1>1, <1>5, <1>6, <3>1, <3>2, <3>3 DEF LeaderOK, SameTeam
  <2> QED
    BY <2>1, <2>2
<1>12. \A p, q \in Requests : SameTeam(job[p], pc[p], job[q], pc[q])'
  BY <1>7 DEF UniqueInv, SameTeam
<1> QED
  BY <1>8, <1>9, <1>10, <1>11, <1>12 DEF UniqueInv

\* So does DeleteTeam, which only removes rows.
LEMMA UniqueDeleteTeam ==
  ASSUME IInv, UniqueInv, NEW r \in Requests, DeleteTeam(r) PROVE UniqueInv'
<1> DEFINE t == job[r].team
<1>1. /\ t \in TeamIds
      /\ teams' = [teams EXCEPT ![t] = Absent]
      /\ members' = [members EXCEPT ![t] = {}]
      /\ Goto(r, NoJob, "idle")
  BY DEF IInv, JobOK, DeleteTeam, Write
<1>2. /\ Existing' = Existing \ {t}
      /\ \A s \in TeamIds : members'[s] = IF s = t THEN {} ELSE members[s]
      /\ \A s \in TeamIds \ {t} : teams'[s] = teams[s]
  BY <1>1 DEF IInv, TypeOK, Existing
<1>3. pc'[r] = "idle" /\ \A q \in Requests \ {r} : pc'[q] = pc[q] /\ job'[q] = job[q]
  BY <1>1, ContinueMoves
<1>4. \A s \in Existing' : s \in Existing /\ teams'[s] = teams[s] /\ members'[s] = members[s]
  BY <1>2 DEF Existing
<1>5. \A q \in Requests : LeaderOK(job[q], pc[q])'
  BY <1>3, <1>4 DEF UniqueInv, LeaderOK
<1>6. \A p, q \in Requests : SameTeam(job[p], pc[p], job[q], pc[q])'
  BY <1>3 DEF UniqueInv, SameTeam
<1>7. \A p, q \in TeamIds : p # q => members'[p] \cap members'[q] = {}
  BY <1>2 DEF UniqueInv
<1> QED
  BY <1>4, <1>5, <1>6, <1>7 DEF UniqueInv

\* So does every step.
LEMMA UniqueNext == IInv /\ UniqueInv /\ [Next]_vars => UniqueInv'
<1> SUFFICES ASSUME IInv, UniqueInv, [Next]_vars PROVE UniqueInv'
  OBVIOUS
<1>1. CASE UNCHANGED vars
  BY <1>1 DEF vars, UniqueInv, LeaderOK, SameTeam, Existing
<1>2. ASSUME NEW r \in Requests, NEW u \in Users, NEW n \in Names, CreateTeam(r, u, n)
      PROVE  UniqueInv'
  <2> DEFINE j == [NoJob EXCEPT !.row = [leaderId |-> u, name |-> n]]
  <2>1. Goto(r, j, "name") /\ UNCHANGED <<teams, members>>
    BY <1>2 DEF CreateTeam, Continue
  <2> HIDE DEF j
  <2> QED
    BY <2>1, UniqueLeaves
<1>3. ASSUME NEW r \in Requests, CheckName(r) \/ AnnounceTeam(r) \/ CheckRegistrations(r)
                                   \/ InsertRegistration(r) \/ Fail(r)
      PROVE  UniqueInv'
  BY <1>3, UniqueLeaves
  DEF CheckName, AnnounceTeam, CheckRegistrations, InsertRegistration, Fail, Finish, Continue, Write
<1>4. ASSUME NEW r \in Requests, NEW u \in Users, NEW v \in Users, AddMember(r, u, v)
      PROVE  UniqueInv'
  <2>1. PICK t \in LedBy(u) :
          Continue(r, [NoJob EXCEPT !.team = t, !.row = teams[t], !.members = members[t],
                                    !.candidate = v],
                   "candidate")
    BY <1>4 DEF AddMember
  <2> DEFINE j == [NoJob EXCEPT !.team = t, !.row = teams[t], !.members = members[t],
                                !.candidate = v]
  <2>2. j.team = t /\ j.row = teams[t] /\ j.members = members[t] /\ j.candidate = v
    BY DEF NoJob
  <2>3. Goto(r, j, "candidate") /\ UNCHANGED <<teams, members>> /\ v # u
    BY <1>4, <2>1 DEF AddMember, Continue
  <2> HIDE DEF j
  <2>4. t \in Existing /\ teams[t].leaderId = u
    BY DEF LedBy, findByUserId
  <2>5. LeaderOK(j, "candidate")
    BY <2>2, <2>3, <2>4 DEF LeaderOK, UniqueInv
  <2>6. \A q \in Requests : SameTeam(job[q], pc[q], j, "candidate")
    BY <2>2, <2>4 DEF SameTeam, UniqueInv, LeaderOK
  <2> QED
    BY <2>3, <2>5, <2>6, UniqueContinue
<1>5. ASSUME NEW r \in Requests, CheckCandidate(r) PROVE UniqueInv'
  <2>1. /\ pc[r] = "candidate" /\ Goto(r, job[r], "reload")
        /\ UNCHANGED <<teams, members>>
    BY <1>5 DEF CheckCandidate, Continue
  <2>2. LeaderOK(job[r], "reload") /\ \A q \in Requests : SameTeam(job[q], pc[q], job[r], "reload")
    BY <2>1 DEF UniqueInv, LeaderOK, SameTeam
  <2> QED
    BY <2>1, <2>2, UniqueContinue
<1>6. ASSUME NEW r \in Requests, SaveReload(r) PROVE UniqueInv'
  <2> DEFINE j == job[r]
             ins == (j.members \ members[j.team]) \cup {j.candidate}
             k == [j EXCEPT !.inserts = ins, !.reborn = j.team \notin Existing]
  <2>1. pc[r] = "reload" /\ Goto(r, k, "write") /\ UNCHANGED <<teams, members>>
    BY <1>6 DEF SaveReload, Continue
  <2>2. /\ k.team = j.team /\ k.row = j.row /\ k.members = j.members
        /\ k.candidate = j.candidate /\ k.inserts = ins
    BY DEF IInv, TypeOK, Job
  <2>3. ins \subseteq j.members \cup {j.candidate}
    OBVIOUS
  <2> HIDE DEF k, ins
  <2>4. LeaderOK(k, "write")
    BY <2>1, <2>2, <2>3 DEF UniqueInv, LeaderOK
  <2>5. \A q \in Requests : SameTeam(job[q], pc[q], k, "write")
    BY <2>1, <2>2 DEF UniqueInv, SameTeam
  <2> QED
    BY <2>1, <2>4, <2>5, UniqueContinue
<1>7. ASSUME NEW r \in Requests, NEW t, NEW at \in {"regs", "enrol"},
             Goto(r, [NoJob EXCEPT !.team = t], at), UNCHANGED <<teams, members>>
      PROVE  UniqueInv'
  <2> DEFINE j == [NoJob EXCEPT !.team = t]
  <2>1. Goto(r, j, at)
    BY <1>7
  <2> HIDE DEF j
  <2> QED
    BY <1>7, <2>1, UniqueLeaves
<1>8. ASSUME NEW r \in Requests, NEW u \in Users, LeaveTeam(r, u) PROVE UniqueInv'
  BY <1>7, <1>8 DEF LeaveTeam, Continue
<1>9. ASSUME NEW r \in Requests, NEW u \in Users, NEW t \in TeamIds, RegisterTeam(r, u, t)
      PROVE  UniqueInv'
  BY <1>7, <1>9 DEF RegisterTeam, Continue
<1> QED
  BY <1>1, <1>2, <1>3, <1>4, <1>5, <1>6, <1>8, <1>9,
     UniqueInsertTeam, UniqueSaveCommit, UniqueDeleteTeam DEF Next

\* It holds while there are no teams.
LEMMA UniqueInit == Init => UniqueInv
<1> SUFFICES ASSUME Init PROVE UniqueInv
  OBVIOUS
<1>1. Existing = {} /\ \A r \in Requests : pc[r] = "idle"
  BY DEF Init, Existing
<1>2. \A t \in TeamIds : members[t] = {}
  BY DEF Init
<1> QED
  BY <1>1, <1>2 DEF UniqueInv, LeaderOK, SameTeam

\* A set whose elements are all equal has at most one.
LEMMA OneAtMost ==
  ASSUME NEW S, \A x, y \in S : x = y
  PROVE  Cardinality(S) <= 1
<1>1. CASE S = {}
  BY <1>1, FS_EmptySet
<1>2. CASE S # {}
  <2>1. PICK x : x \in S
    BY <1>2
  <2>2. S = {x}
    BY <2>1
  <2> QED
    BY <2>2, FS_Singleton
<1> QED
  BY <1>1, <1>2

\* However many requests to create teams, to add members and to leave overlap,
\* the unique indexes on the leader, the name and the member leave a user at
\* most one team to lead and one to be a member of.
THEOREM TwoTeamsAtMost == Spec => []AtMostTwoTeamsPerUser
<1>1. UniqueInv => AtMostTwoTeamsPerUser
  <2> SUFFICES ASSUME UniqueInv, NEW u \in Users
               PROVE  /\ Cardinality(LedBy(u)) <= 1
                      /\ Cardinality(findByUserId(u) \ LedBy(u)) <= 1
                      /\ \A t \in LedBy(u) : u \notin members[t]
    BY DEF AtMostTwoTeamsPerUser
  <2>1. \A s, t \in LedBy(u) : s = t
    BY DEF LedBy, findByUserId, UniqueInv
  <2>2. \A s, t \in findByUserId(u) \ LedBy(u) : s = t
    BY DEF LedBy, findByUserId, Existing, UniqueInv
  <2>3. \A t \in LedBy(u) : u \notin members[t]
    BY DEF LedBy, findByUserId, UniqueInv
  <2> QED
    BY <2>1, <2>2, <2>3, OneAtMost
<1> QED
  BY <1>1, UniqueInit, UniqueNext, Invariance, PTL DEF Spec

----------------------------------------------------------------------------
\* What a request found at its earlier awaits.
Knows(j, at) ==
  /\ at \in {"name", "insert"} => findByUserId(j.row.leaderId) = {}
  /\ at \in {"reload", "write"} => findByUserId(j.candidate) = {}
  /\ at \in {"candidate", "reload", "write"} =>
       j.team \in Existing /\ members[j.team] = j.members
  /\ at = "write" => Cardinality(j.members) + 2 <= MAX_TEAM_SIZE
  /\ at = "delete" => j.team \notin enrolled

\* It is still so for a request during which no other one wrote.
CurrentInv == \A r \in Requests : current[r] => Knows(job[r], pc[r])

\* It holds before the first request.
LEMMA CurrentInit == Init => CurrentInv
BY DEF Init, CurrentInv, Knows

\* A step that does not write keeps it if its request knows what it should at
\* the await it goes on to.
LEMMA CurrentContinue ==
  ASSUME IInv, CurrentInv, NEW r \in Requests, NEW j, NEW at, Continue(r, j, at),
         UNCHANGED <<teams, members>>, enrolled' = enrolled,
         current[r] => Knows(j, at)
  PROVE  CurrentInv'
<1>1. /\ pc'[r] = at /\ job'[r] = j /\ current'[r] = (current[r] \/ at = "idle")
      /\ \A q \in Requests \ {r} :
           pc'[q] = pc[q] /\ job'[q] = job[q] /\ current'[q] = current[q]
  BY DEF Continue, Goto, IInv, TypeOK
<1>2. /\ Existing' = Existing /\ members' = members
      /\ \A u : findByUserId(u)' = findByUserId(u)
  BY DEF findByUserId, Existing
<1>3. ASSUME NEW q \in Requests PROVE (current[q] => Knows(job[q], pc[q]))'
  <2>1. CASE q = r
    BY <1>1, <1>2, <2>1 DEF Knows
  <2>2. CASE q # r
    <3>1. /\ pc'[q] = pc[q] /\ job'[q] = job[q] /\ current'[q] = current[q]
          /\ current[q] => Knows(job[q], pc[q])
      BY <1>1, <2>2 DEF CurrentInv
    <3> QED
      BY <1>2, <3>1 DEF Knows
  <2> QED
    BY <2>1, <2>2
<1> QED
  BY <1>3 DEF CurrentInv

\* A write overtakes all other requests that are running, and is the last that
\* its own request does with what it knew.
LEMMA CurrentWrite ==
  ASSUME IInv, NEW r \in Requests, NEW j, NEW at \in {"idle", "announce"}, Write(r, j, at)
  PROVE  CurrentInv'
<1>1. /\ pc'[r] = at
      /\ \A q \in Requests \ {r} : pc'[q] = pc[q] /\ (current'[q] => pc[q] = "idle")
  BY DEF Write, Goto, IInv, TypeOK
<1>2. \A q \in Requests : current'[q] => pc'[q] \in {"idle", "announce"}
  BY <1>1
<1> QED
  BY <1>2 DEF CurrentInv, Knows

\* Every step keeps it.
LEMMA CurrentNext == IInv /\ CurrentInv /\ [Next]_vars => CurrentInv'
<1> SUFFICES ASSUME IInv, CurrentInv, [Next]_vars PROVE CurrentInv'
  OBVIOUS
<1>1. CASE UNCHANGED vars
  BY <1>1 DEF vars, CurrentInv, Knows, findByUserId, Existing
<1>2. ASSUME NEW r \in Requests, NEW u \in Users, NEW n \in Names, CreateTeam(r, u, n)
      PROVE  CurrentInv'
  <2> DEFINE j == [NoJob EXCEPT !.row = [leaderId |-> u, name |-> n]]
  <2>1. /\ Continue(r, j, "name") /\ UNCHANGED <<teams, members, enrolled>>
        /\ findByUserId(u) = {}
    BY <1>2 DEF CreateTeam
  <2>2. j.row.leaderId = u
    BY DEF NoJob
  <2> HIDE DEF j
  <2>3. Knows(j, "name")
    BY <2>1, <2>2 DEF Knows
  <2> QED
    BY <2>1, <2>3, CurrentContinue
<1>3. ASSUME NEW r \in Requests, CheckName(r) PROVE CurrentInv'
  <2>1. /\ pc[r] = "name" /\ Continue(r, job[r], "insert")
        /\ UNCHANGED <<teams, members, enrolled>>
    BY <1>3 DEF CheckName
  <2>2. current[r] => Knows(job[r], "insert")
    BY <2>1 DEF CurrentInv, Knows
  <2> QED
    BY <2>1, <2>2, CurrentContinue
<1>4. ASSUME NEW r \in Requests, InsertTeam(r) \/ SaveCommit(r) \/ DeleteTeam(r)
                                   \/ InsertRegistration(r)
      PROVE  CurrentInv'
  <2>1. \/ \E t \in FreshIds : Write(r, [job[r] EXCEPT !.team = t], "announce")
        \/ Write(r, NoJob, "idle")
    BY <1>4 DEF InsertTeam, SaveCommit, DeleteTeam, InsertRegistration
  <2> QED
    BY <2>1, CurrentWrite
<1>5. ASSUME NEW r \in Requests, AnnounceTeam(r) \/ Fail(r) PROVE CurrentInv'
  <2>1. Continue(r, NoJob, "idle") /\ UNCHANGED <<teams, members, enrolled>>
    BY <1>5 DEF AnnounceTeam, Fail, Finish
  <2>2. Knows(NoJob, "idle")
    BY DEF Knows
  <2> QED
    BY <2>1, <2>2, CurrentContinue
<1>6. ASSUME NEW r \in Requests, NEW u \in Users, NEW v \in Users, AddMember(r, u, v)
      PROVE  CurrentInv'
  <2>1. PICK t \in LedBy(u) :
          Continue(r, [NoJob EXCEPT !.team = t, !.row = teams[t], !.members = members[t],
                                    !.candidate = v],
                   "candidate")
    BY <1>6 DEF AddMember
  <2> DEFINE j == [NoJob EXCEPT !.team = t, !.row = teams[t], !.members = members[t],
                                !.candidate = v]
  <2>2. j.team = t /\ j.members = members[t]
    BY DEF NoJob
  <2>3. Continue(r, j, "candidate") /\ UNCHANGED <<teams, members, enrolled>>
    BY <1>6, <2>1 DEF AddMember
  <2> HIDE DEF j
  <2>4. Knows(j, "candidate")
    BY <2>2 DEF Knows, LedBy, findByUserId
  <2> QED
    BY <2>3, <2>4, CurrentContinue
<1>7. ASSUME NEW r \in Requests, CheckCandidate(r) PROVE CurrentInv'
  <2>1. /\ pc[r] = "candidate" /\ Continue(r, job[r], "reload")
        /\ UNCHANGED <<teams, members, enrolled>> /\ findByUserId(job[r].candidate) = {}
    BY <1>7 DEF CheckCandidate
  <2>2. current[r] => Knows(job[r], "reload")
    BY <2>1 DEF CurrentInv, Knows
  <2> QED
    BY <2>1, <2>2, CurrentContinue
<1>8. ASSUME NEW r \in Requests, SaveReload(r) PROVE CurrentInv'
  <2> DEFINE j == job[r]
             k == [j EXCEPT !.inserts = (j.members \ members[j.team]) \cup {j.candidate},
                            !.reborn = j.team \notin Existing]
  <2>1. /\ pc[r] = "reload" /\ Continue(r, k, "write")
        /\ UNCHANGED <<teams, members, enrolled>>
    BY <1>8 DEF SaveReload
  <2>2. k.team = j.team /\ k.members = j.members /\ k.candidate = j.candidate
    BY DEF IInv, TypeOK, Job
  <2>3. Cardinality(j.members) + 2 <= MAX_TEAM_SIZE
    BY <2>1 DEF IInv, JobOK
  <2> HIDE DEF k
  <2>4. current[r] => Knows(k, "write")
    BY <2>1, <2>2, <2>3 DEF CurrentInv, Knows
  <2> QED
    BY <2>1, <2>4, CurrentContinue
<1>9. ASSUME NEW r \in Requests, NEW t, NEW at \in {"regs", "enrol"},
             Continue(r, [NoJob EXCEPT !.team = t], at),
             UNCHANGED <<teams, members, enrolled>>
      PROVE  CurrentInv'
  <2> DEFINE j == [NoJob EXCEPT !.team = t]
  <2>1. Continue(r, j, at) /\ Knows(j, at)
    BY <1>9 DEF Knows
  <2> HIDE DEF j
  <2> QED
    BY <1>9, <2>1, CurrentContinue
<1>10. ASSUME NEW r \in Requests, NEW u \in Users, LeaveTeam(r, u) PROVE CurrentInv'
  BY <1>9, <1>10 DEF LeaveTeam
<1>11. ASSUME NEW r \in Requests, NEW u \in Users, NEW t \in TeamIds, RegisterTeam(r, u, t)
       PROVE  CurrentInv'
  BY <1>9, <1>11 DEF RegisterTeam
<1>12. ASSUME NEW r \in Requests, CheckRegistrations(r) PROVE CurrentInv'
  <2>1. /\ Continue(r, job[r], "delete") /\ job[r].team \notin enrolled
        /\ UNCHANGED <<teams, members, enrolled>>
    BY <1>12 DEF CheckRegistrations
  <2>2. Knows(job[r], "delete")
    BY <2>1 DEF Knows
  <2> QED
    BY <2>1, <2>2, CurrentContinue
<1> QED
  BY <1>1, <1>2, <1>3, <1>4, <1>5, <1>6, <1>7, <1>8, <1>10, <1>11, <1>12 DEF Next

\* What every request that was not overtaken knows holds in every state.
LEMMA CurrentInvariance == Spec => [](IInv /\ CurrentInv)
BY CurrentInit, CurrentNext, Invariance, PTL DEF Spec

\* Teams and members change by the transaction of a save(), by an insertion and
\* by a deletion only.
LEMMA OnlyWritesChange ==
  ASSUME [Next]_vars, ~ \E r \in Requests : SaveCommit(r) \/ InsertTeam(r) \/ DeleteTeam(r)
  PROVE  UNCHANGED <<teams, members>>
BY DEF Next, vars, CreateTeam, CheckName, AnnounceTeam, AddMember, CheckCandidate,
       SaveReload, LeaveTeam, CheckRegistrations, RegisterTeam, InsertRegistration, Fail

\* If nobody is overtaken, a request that writes knows the rows as they are.
LEMMA WriterKnows ==
  ASSUME IInv, CurrentInv, ~Overtaken, NEW r \in Requests,
         SaveCommit(r) \/ InsertTeam(r) \/ DeleteTeam(r)
  PROVE  Knows(job[r], pc[r])
<1>1. pc[r] \in {"write", "insert", "delete"} /\ pc'[r] \in {"idle", "announce"}
  BY DEF SaveCommit, InsertTeam, DeleteTeam, Write, Goto, IInv, TypeOK
<1>2. current[r]
  BY <1>1 DEF Overtaken
<1> QED
  BY <1>2 DEF CurrentInv

\* A save() that was not overtaken adds just the candidate, who had no team, to
\* the members the team was loaded with.
LEMMA SaveAddsOne ==
  ASSUME IInv, CurrentInv, ~Overtaken, NEW r \in Requests, SaveCommit(r)
  PROVE  /\ job[r].team \in Existing /\ job[r].candidate \in Users
         /\ findByUserId(job[r].candidate) = {}
         /\ Cardinality(members[job[r].team]) + 2 <= MAX_TEAM_SIZE
         /\ teams' = teams
         /\ \A s \in TeamIds :
              members'[s] = IF s = job[r].team THEN members[s] \cup {job[r].candidate}
                                               ELSE members[s]
<1> DEFINE j == job[r]
<1>1. pc[r] = "write" /\ Knows(j, "write") /\ JobOK(j, "write")
  BY WriterKnows DEF SaveCommit, IInv
<1>2. /\ j.team \in Existing /\ members[j.team] = j.members /\ findByUserId(j.candidate) = {}
      /\ Cardinality(j.members) + 2 <= MAX_TEAM_SIZE
      /\ j.candidate \in Users
  BY <1>1 DEF Knows, JobOK
<1>3. ~j.reborn /\ j.inserts = {j.candidate}
  BY <1>1, <1>2 DEF SaveCommit, JobOK
<1>4. teams' = teams /\ members' = [members EXCEPT ![j.team] = @ \cup {j.candidate}]
  BY <1>3 DEF SaveCommit
<1> QED
  BY <1>2, <1>4 DEF IInv, TypeOK

\* For any number of overlapping requests, only one that was overtaken since it
\* loaded the team adds a member beyond MAX_TEAM_SIZE.
THEOREM CapacityKept == Spec => CapacityUnlessOvertaken
<1>1. IInv /\ CurrentInv /\ [Next]_vars =>
        [\A t \in TeamIds :
           ~ members'[t] \subseteq members[t] /\ Size(t)' > MAX_TEAM_SIZE => Overtaken]_vars
  <2> SUFFICES ASSUME IInv, CurrentInv, [Next]_vars, ~Overtaken, NEW t \in TeamIds,
                      ~ members'[t] \subseteq members[t]
               PROVE  ~ Size(t)' > MAX_TEAM_SIZE
    OBVIOUS
  <2>1. PICK r \in Requests : SaveCommit(r)
    <3>1. ASSUME NEW r \in Requests, InsertTeam(r) \/ DeleteTeam(r) PROVE FALSE
      BY <3>1 DEF InsertTeam, DeleteTeam, IInv, TypeOK
    <3> QED
      BY <3>1, OnlyWritesChange
  <2>2. /\ members'[t] = members[t] \cup {job[r].candidate}
        /\ Cardinality(members[t]) + 2 <= MAX_TEAM_SIZE
    BY <2>1, SaveAddsOne
  <2>3. /\ members[t] \in SUBSET Users /\ members'[t] \in SUBSET Users
        /\ Cardinality(members[t]) \in Nat /\ Cardinality(members'[t]) \in Nat
    BY <2>1, <2>2, Sizes, SaveAddsOne DEF IInv, TypeOK
  <2>4. Cardinality(members'[t]) <= Cardinality(members[t]) + 1
    BY <2>2, <2>3, AddsOne
  <2> QED
    BY <2>2, <2>3, <2>4, Sizes DEF Size
<1> QED
  BY <1>1, CurrentInvariance, PTL DEF Spec, CapacityUnlessOvertaken

\* For any number of overlapping requests, the look-up of AddMemberUseCase and
\* CreateTeamUseCase keeps who has a team out of another one, unless another
\* request wrote after it.
THEOREM OneTeam == Spec => OneTeamUnlessOvertaken
<1>1. IInv /\ CurrentInv /\ [Next]_vars =>
        [\A u \in Users :
           findByUserId(u) # {} /\ ~ findByUserId(u)' \subseteq findByUserId(u) => Overtaken]_vars
  <2> SUFFICES ASSUME IInv, CurrentInv, [Next]_vars, ~Overtaken, NEW u \in Users,
                      findByUserId(u) # {}
               PROVE  findByUserId(u)' \subseteq findByUserId(u)
    OBVIOUS
  <2>1. ASSUME NEW r \in Requests, InsertTeam(r)
        PROVE  findByUserId(u)' \subseteq findByUserId(u)
    <3>1. PICK t \in FreshIds : teams' = [teams EXCEPT ![t] = job[r].row]
      BY <2>1 DEF InsertTeam
    <3>2. t \in TeamIds /\ t \notin Existing /\ members[t] = {} /\ members' = members
      BY <2>1 DEF FreshIds, InsertTeam, IInv
    <3>3. findByUserId(job[r].row.leaderId) = {}
      BY <2>1, WriterKnows DEF Knows, InsertTeam
    <3>4. teams'[t] = job[r].row /\ \A s \in TeamIds \ {t} : teams'[s] = teams[s]
      BY <3>1, <3>2 DEF IInv, TypeOK
    <3>5. job[r].row.leaderId # u
      BY <3>3
    <3> QED
      BY <3>2, <3>4, <3>5 DEF findByUserId, Existing
  <2>2. ASSUME NEW r \in Requests, SaveCommit(r)
        PROVE  findByUserId(u)' \subseteq findByUserId(u)
    <3>1. job[r].candidate # u
      BY <2>2, SaveAddsOne
    <3>2. Existing' = Existing /\ teams' = teams
      BY <2>2, SaveAddsOne DEF Existing
    <3>3. \A s \in TeamIds : u \in members'[s] => u \in members[s]
      BY <2>2, <3>1, SaveAddsOne
    <3> QED
      BY <3>2, <3>3 DEF findByUserId, Existing
  <2>3. ASSUME NEW r \in Requests, DeleteTeam(r)
        PROVE  findByUserId(u)' \subseteq findByUserId(u)
    <3>1. /\ job[r].team \in TeamIds
          /\ teams' = [teams EXCEPT ![job[r].team] = Absent]
          /\ members' = [members EXCEPT ![job[r].team] = {}]
      BY <2>3 DEF DeleteTeam, IInv, JobOK
    <3>2. \A s \in Existing' : s \in Existing /\ teams'[s] = teams[s] /\ members'[s] = members[s]
      BY <3>1 DEF IInv, TypeOK, Existing
    <3> QED
      BY <3>2 DEF findByUserId
  <2>4. CASE UNCHANGED <<teams, members>>
    BY <2>4 DEF findByUserId, Existing
  <2> QED
    BY <2>1, <2>2, <2>3, <2>4, OnlyWritesChange
<1> QED
  BY <1>1, CurrentInvariance, PTL DEF Spec, OneTeamUnlessOvertaken

\* For any number of overlapping requests, LeaveTeamUseCase disbands no team
\* that has a registration, unless another request wrote after it looked.
THEOREM EnrolledStay == Spec => EnrolledStayUnlessOvertaken
<1>1. IInv /\ CurrentInv /\ [Next]_vars =>
        [\A t \in enrolled : t \in Existing' \/ Overtaken]_vars
  <2> SUFFICES ASSUME IInv, CurrentInv, [Next]_vars, ~Overtaken, NEW t \in enrolled
               PROVE  t \in Existing'
    OBVIOUS
  <2>1. t \in Existing /\ t \in TeamIds
    BY DEF IInv, TypeOK, Existing
  <2>2. ASSUME NEW r \in Requests, InsertTeam(r) PROVE t \in Existing'
    <3>1. PICK s \in FreshIds : teams' = [teams EXCEPT ![s] = job[r].row]
      BY <2>2 DEF InsertTeam
    <3>2. s # t
      BY <2>1, <3>1 DEF FreshIds
    <3> QED
      BY <2>1, <3>1, <3>2 DEF Existing, IInv, TypeOK
  <2>3. ASSUME NEW r \in Requests, SaveCommit(r) PROVE t \in Existing'
    BY <2>1, <2>3, SaveAddsOne DEF Existing
  <2>4. ASSUME NEW r \in Requests, DeleteTeam(r) PROVE t \in Existing'
    <3>1. job[r].team \notin enrolled /\ teams' = [teams EXCEPT ![job[r].team] = Absent]
      BY <2>4, WriterKnows DEF DeleteTeam, Knows
    <3>2. job[r].team # t
      BY <3>1
    <3> QED
      BY <2>1, <3>1, <3>2 DEF Existing, IInv, TypeOK
  <2>5. CASE UNCHANGED teams
    BY <2>1, <2>5 DEF Existing
  <2> QED
    BY <2>2, <2>3, <2>4, <2>5, OnlyWritesChange
<1> QED
  BY <1>1, CurrentInvariance, PTL DEF Spec, EnrolledStayUnlessOvertaken
=============================================================================
