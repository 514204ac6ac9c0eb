-------------------------- MODULE EnrolmentProofs ---------------------------
(***************************************************************************)
(* Theorems about Enrolment, for any finite sets of users, teams and       *)
(* competitions, any sizes and quota, and any set of overlapping requests. *)
(***************************************************************************)
EXTENDS Enrolment, FiniteSetTheorems, TLAPS

\* What a request in flight is about.
Asks(j, at) ==
  /\ j.user \in Users /\ j.reg \in Registrations
  /\ j.reg[1] \in Individual => j.reg[2] = j.user
  /\ at \in {"team", "members"} => j.reg[1] \in Team
  /\ at \in {"quota", "team", "insert"} => j.unchecked = {}

\* What its checks have established of the tables so far, if nobody wrote
\* since.
Checked(j, at) ==
  /\ status[j.reg] = "none"
  /\ at # "quota" => checkUserQuota(j.user)
  /\ at \in {"members", "insert"} /\ j.reg[1] \in Team =>
       /\ leader[j.reg[2]] = j.user
       /\ j.members = members[j.reg[2]]
       /\ 1 + Cardinality(j.members) \in minTeamMembers[j.reg[1]]..maxTeamMembers[j.reg[1]]
       /\ \A u \in j.members \ j.unchecked : checkUserQuota(u)

Known(r) ==
  IF pc[r] = "idle"
  THEN current[r]
  ELSE Asks(job[r], pc[r]) /\ (current[r] => Checked(job[r], pc[r]))

IInv ==
  /\ TypeOK
  /\ \A t \in TeamIds : leader[t] \notin members[t]
  /\ \A r \in Requests : Known(r)

----------------------------------------------------------------------------
\* A registration's first component says of what kind its second one is.
LEMMA Kinds ==
  ASSUME NEW reg \in Registrations
  PROVE  /\ reg[1] \in Individual \/ reg[1] \in Team
         /\ reg[1] \in Individual => reg[2] \in Users /\ reg[1] \notin Team
         /\ reg[1] \in Team => reg[2] \in TeamIds /\ reg[1] \notin Individual
BY EnrolmentAssumption DEF Registrations

\* Sets of members and of registrations are finite and have sizes.
LEMMA Sizes ==
  /\ \A S \in SUBSET Users : IsFiniteSet(S) /\ Cardinality(S) \in Nat
  /\ \A S \in SUBSET Registrations : IsFiniteSet(S) /\ Cardinality(S) \in Nat
<1>1. IsFiniteSet(Individual \X Users) /\ IsFiniteSet(Team \X TeamIds)
  BY EnrolmentAssumption, FS_Product
<1>2. IsFiniteSet(Registrations)
  BY <1>1, FS_Union DEF Registrations
<1> QED
  BY <1>2, EnrolmentAssumption, FS_Subset, FS_CardinalityType

\* One more element makes a set of registrations at most one larger.
LEMMA AddsOne ==
  ASSUME NEW S \in SUBSET Registrations, NEW T \in SUBSET Registrations,
         NEW x \in Registrations, T \subseteq S \cup {x}
  PROVE  Cardinality(T) <= Cardinality(S) + 1
<1>1. IsFiniteSet(S) /\ IsFiniteSet(S \cup {x}) /\ Cardinality(S) \in Nat
      /\ Cardinality(T) \in Nat
  BY Sizes
<1>2. Cardinality(S \cup {x}) = Cardinality(S) \/ Cardinality(S \cup {x}) = Cardinality(S) + 1
  BY <1>1, FS_AddElement
<1>3. Cardinality(T) <= Cardinality(S \cup {x})
  BY <1>1, FS_Subset
<1> QED
  BY <1>1, <1>2, <1>3

\* A team is one larger than its members.
LEMMA SizeWithLeader ==
  ASSUME NEW S, NEW x, IsFiniteSet(S), x \notin S
  PROVE  Cardinality({x} \cup S) = 1 + Cardinality(S)
<1>1. {x} \cup S = S \cup {x}
  OBVIOUS
<1>2. Cardinality(S \cup {x}) = Cardinality(S) + 1 /\ Cardinality(S) \in Nat
  BY FS_AddElement, FS_CardinalityType
<1>3. Cardinality({x} \cup S) = Cardinality(S) + 1
  BY <1>1, <1>2, Zenon
<1> QED
  BY <1>2, <1>3

----------------------------------------------------------------------------
\* The invariant holds before the first request.
LEMMA InitIInv == Init => IInv
BY EnrolmentAssumption DEF Init, IInv, TypeOK, Known, PC, Job, NoJob, Statuses

\* A request that only reads leaves to the others what they know.
LEMMA OthersKeep ==
  ASSUME IInv, NEW r \in Requests, NEW q \in Requests, q # r,
         NEW j, NEW where, Continue(r, j, where)
  PROVE  Known(q)'
<1>1. /\ UNCHANGED <<status, members>> /\ pc'[q] = pc[q] /\ job'[q] = job[q]
      /\ current'[q] = current[q]
  BY DEF Continue, IInv, TypeOK
<1>2. \A u : checkUserQuota(u)' <=> checkUserQuota(u)
  BY <1>1 DEF checkUserQuota, activeRegs, Persons
<1> QED
  BY <1>1, <1>2 DEF IInv, Known, Asks, Checked

\* A request that goes on reading keeps the invariant if it may know what it
\* knows next.
LEMMA Reading ==
  ASSUME IInv, NEW r \in Requests, NEW j \in Job, NEW where \in PC \ {"idle"},
         Continue(r, j, where), Asks(j, where), current[r] => Checked(j, where)
  PROVE  IInv'
<1>1. TypeOK' /\ UNCHANGED <<status, members, current>> /\ pc'[r] = where /\ job'[r] = j
  BY DEF Continue, IInv, TypeOK
<1>2. \A u : checkUserQuota(u)' <=> checkUserQuota(u)
  BY <1>1 DEF checkUserQuota, activeRegs, Persons
<1>3. Known(r)'
  BY <1>1, <1>2 DEF Known, Asks, Checked
<1>4. \A q \in Requests : Known(q)'
  BY <1>3, OthersKeep
<1> QED
  BY <1>1, <1>4 DEF IInv

\* A request that writes leaves to the others only what they ask for.
LEMMA Overtaken ==
  ASSUME IInv, NEW r \in Requests, NEW q \in Requests, Overtake(r),
         pc'[q] = pc[q], job'[q] = job[q], q # r \/ pc[q] = "idle"
  PROVE  Known(q)'
<1>1. current'[q] <=> q = r \/ pc[q] = "idle"
  BY DEF Overtake
<1> QED
  BY <1>1 DEF IInv, Known, Asks

----------------------------------------------------------------------------
\* Every step keeps the invariant.
LEMMA NextIInv == IInv /\ [Next]_vars => IInv'
<1> SUFFICES ASSUME IInv, [Next]_vars PROVE IInv'
  OBVIOUS
<1>u. CASE UNCHANGED vars
  <2>1. UNCHANGED <<status, members, pc, job, current>>
    BY <1>u DEF vars
  <2>2. \A u : checkUserQuota(u)' <=> checkUserQuota(u)
    BY <2>1 DEF checkUserQuota, activeRegs, Persons
  <2>3. TypeOK'
    BY <2>1 DEF IInv, TypeOK
  <2>4. \A r \in Requests : Known(r)'
    BY <2>1, <2>2 DEF IInv, Known, Asks, Checked
  <2> QED
    BY <2>1, <2>3, <2>4 DEF IInv
<1> SUFFICES ASSUME NEW r \in Requests,
       \/ \E u \in Users, reg \in Registrations : Register(r, u, reg)
       \/ CheckOwnQuota(r)
       \/ LoadTeam(r)
       \/ CheckMemberQuota(r)
       \/ InsertRegistration(r)
       \/ Fail(r)
       \/ \E reg \in Registrations : Decide(r, reg)
       \/ \E t \in TeamIds, u \in Users : JoinTeam(r, t, u)
     PROVE IInv'
  BY <1>u DEF Next
<1>j. job[r] \in Job /\ pc[r] \in PC /\ Known(r)
  BY DEF IInv, TypeOK
<1>1. ASSUME NEW u \in Users, NEW reg \in Registrations, Register(r, u, reg) PROVE IInv'
  <2> DEFINE j == [NoJob EXCEPT !.user = u, !.reg = reg]
  <2>1. j \in Job /\ Asks(j, "quota") /\ Checked(j, "quota")
    BY <1>1 DEF Job, NoJob, Asks, Checked, Register
  <2>2. Continue(r, j, "quota")
    BY <1>1 DEF Register
  <2> QED
    BY <2>1, <2>2, Reading DEF PC
<1>2. CASE CheckOwnQuota(r)
  <2> DEFINE where == IF job[r].reg[1] \in Team THEN "team" ELSE "insert"
  <2>1. Asks(job[r], "quota") /\ (current[r] => Checked(job[r], "quota"))
    BY <1>2, <1>j DEF CheckOwnQuota, Known
  <2>2. Asks(job[r], where) /\ (current[r] => Checked(job[r], where))
    BY <1>2, <2>1, Kinds DEF CheckOwnQuota, Asks, Checked
  <2> QED
    BY <1>2, <2>2, <1>j, Reading DEF PC, CheckOwnQuota
<1>3. CASE LoadTeam(r)
  <2> DEFINE t == job[r].reg[2]
             j == [job[r] EXCEPT !.members = members[t], !.unchecked = members[t]]
             where == Checking(members[t])
  <2>1. Asks(job[r], "team") /\ (current[r] => Checked(job[r], "team")) /\ t \in TeamIds
    BY <1>3, <1>j, Kinds DEF LoadTeam, Known, Asks
  <2>2. members[t] \in SUBSET Users
    BY <2>1 DEF IInv, TypeOK
  <2>3. /\ j \in Job /\ j.user = job[r].user /\ j.reg = job[r].reg
        /\ j.members = members[t] /\ j.unchecked = members[t]
    BY <1>j, <2>2 DEF Job
  <2>4. Asks(j, where)
    BY <2>1, <2>3 DEF Asks, Checking
  <2>5. current[r] => Checked(j, where)
    BY <1>3, <2>1, <2>3 DEF Checked, LoadTeam
  <2>6. Continue(r, j, where)
    BY <1>3 DEF LoadTeam
  <2> HIDE DEF j
  <2> QED
    BY <2>3, <2>4, <2>5, <2>6, Reading DEF PC, Checking
<1>4. CASE CheckMemberQuota(r)
  <2>1. PICK u \in job[r].unchecked :
          /\ checkUserQuota(u)
          /\ Continue(r, [job[r] EXCEPT !.unchecked = @ \ {u}],
                      Checking(job[r].unchecked \ {u}))
    BY <1>4 DEF CheckMemberQuota
  <2> DEFINE j == [job[r] EXCEPT !.unchecked = @ \ {u}]
             where == Checking(job[r].unchecked \ {u})
  <2>2. Asks(job[r], "members") /\ (current[r] => Checked(job[r], "members"))
    BY <1>4, <1>j DEF CheckMemberQuota, Known
  <2>3. /\ j \in Job /\ j.user = job[r].user /\ j.reg = job[r].reg
        /\ j.members = job[r].members /\ j.unchecked = job[r].unchecked \ {u}
    BY <1>j DEF Job
  <2>4. Asks(j, where)
    BY <2>2, <2>3 DEF Asks, Checking
  <2>5. current[r] => Checked(j, where)
    BY <2>1, <2>2, <2>3 DEF Checked
  <2>6. Continue(r, j, where)
    BY <2>1
  <2> HIDE DEF j
  <2> QED
    BY <2>3, <2>4, <2>5, <2>6, Reading DEF PC, Checking
<1>5. CASE InsertRegistration(r)
  <2>1. TypeOK' /\ UNCHANGED members /\ pc'[r] = "idle" /\ current'[r]
    BY <1>5 DEF InsertRegistration, IInv, TypeOK, Statuses, PC, Job, NoJob, Overtake
  <2>2. ASSUME NEW q \in Requests, q # r PROVE Known(q)'
    BY <1>5, <2>2, Overtaken DEF InsertRegistration, IInv, TypeOK
  <2> QED
    BY <2>1, <2>2 DEF IInv, Known
<1>6. CASE Fail(r)
  <2>1. TypeOK' /\ UNCHANGED <<status, members>> /\ pc'[r] = "idle" /\ current'[r]
    BY <1>6 DEF Fail, IInv, TypeOK, PC, Job, NoJob
  <2>2. \A u : checkUserQuota(u)' <=> checkUserQuota(u)
    BY <2>1 DEF checkUserQuota, activeRegs, Persons
  <2>3. ASSUME NEW q \in Requests, q # r PROVE Known(q)'
    BY <1>6, <2>1, <2>2, <2>3 DEF Fail, IInv, TypeOK, Known, Asks, Checked
  <2> QED
    BY <2>1, <2>3 DEF IInv, Known
<1>7. ASSUME NEW reg \in Registrations, Decide(r, reg) PROVE IInv'
  <2>1. TypeOK' /\ UNCHANGED <<members, pc, job>>
    BY <1>7 DEF Decide, IInv, TypeOK, Statuses, Overtake
  <2>2. ASSUME NEW q \in Requests PROVE Known(q)'
    BY <1>7, <2>1, Overtaken DEF Decide
  <2> QED
    BY <2>1, <2>2 DEF IInv
<1>8. ASSUME NEW t \in TeamIds, NEW u \in Users, JoinTeam(r, t, u) PROVE IInv'
  <2>1. TypeOK' /\ UNCHANGED <<status, pc, job>>
    BY <1>8 DEF JoinTeam, IInv, TypeOK, Overtake
  <2>2. ASSUME NEW q \in Requests PROVE Known(q)'
    BY <1>8, <2>1, Overtaken DEF JoinTeam
  <2>3. \A s \in TeamIds : leader[s] \notin members'[s]
    BY <1>8 DEF JoinTeam, IInv, TypeOK
  <2> QED
    BY <2>1, <2>2, <2>3 DEF IInv
<1> QED
  BY <1>1, <1>2, <1>3, <1>4, <1>5, <1>6, <1>7, <1>8

\* What requests hold in memory stays true of the tables until somebody else
\* writes.
THEOREM Invariance == Spec => []IInv
<1> QED
  BY InitIInv, NextIInv, PTL DEF Spec

\* The variables keep their types.
THEOREM TypeCorrect == Spec => []TypeOK
<1>1. IInv => TypeOK
  BY DEF IInv
<1> QED
  BY <1>1, Invariance, PTL

\* A unique index refuses only a request that another one overtook.
THEOREM ConflictOnlyAfterRace == Spec => []ConflictOnlyWhenOvertaken
<1>1. IInv => ConflictOnlyWhenOvertaken
  BY DEF IInv, Known, Checked, ConflictOnlyWhenOvertaken
<1> QED
  BY <1>1, Invariance, PTL

----------------------------------------------------------------------------
\* Where a request that nobody overtook inserts, the checks hold.
LEMMA Enrolling ==
  ASSUME IInv, Next, NEW r \in Requests, Enrols(r), current[r]
  PROVE  /\ UNCHANGED members
         /\ status' = [status EXCEPT ![job[r].reg] = "active"]
         /\ Asks(job[r], "insert") /\ Checked(job[r], "insert")
<1>1. Asks(job[r], "insert") /\ Checked(job[r], "insert")
  BY DEF IInv, Known, Enrols
<1>2. PICK q \in Requests :
       \/ \E u \in Users, reg \in Registrations : Register(q, u, reg)
       \/ CheckOwnQuota(q)
       \/ LoadTeam(q)
       \/ CheckMemberQuota(q)
       \/ InsertRegistration(q)
       \/ Fail(q)
       \/ \E reg \in Registrations : Decide(q, reg)
       \/ \E t \in TeamIds, u \in Users : JoinTeam(q, t, u)
  BY DEF Next
<1>3. UNCHANGED status => FALSE
  BY DEF Enrols
<1>4. UNCHANGED pc => FALSE
  BY DEF Enrols
<1>5. InsertRegistration(q)
  BY <1>2, <1>3, <1>4 DEF Register, CheckOwnQuota, LoadTeam, CheckMemberQuota, Fail, Decide,
     JoinTeam, Continue
<1>6. q = r
  BY <1>5 DEF InsertRegistration, Enrols, IInv, TypeOK
<1> QED
  BY <1>1, <1>5, <1>6 DEF InsertRegistration

\* Who takes part by the registration of such a request has been checked.
LEMMA EverybodyChecked ==
  ASSUME IInv, NEW r \in Requests, Asks(job[r], "insert"), Checked(job[r], "insert"),
         NEW u \in Persons(job[r].reg)
  PROVE  u \in Users /\ checkUserQuota(u)
<1>1. CASE job[r].reg[1] \in Individual
  BY <1>1 DEF Persons, Asks, Checked
<1>2. CASE job[r].reg[1] \in Team
  <2>1. job[r].reg[1] \notin Individual /\ job[r].reg[2] \in TeamIds
    BY <1>2, Kinds DEF Asks
  <2>2. u = job[r].user \/ u \in job[r].members
    BY <1>2, <2>1 DEF Persons, Asks, Checked
  <2>3. job[r].members = members[job[r].reg[2]] /\ members[job[r].reg[2]] \subseteq Users
    BY <1>2, <2>1 DEF Checked, IInv, TypeOK
  <2> QED
    BY <1>2, <2>2, <2>3 DEF Asks, Checked
<1> QED
  BY <1>1, <1>2, Kinds DEF Asks

\* A registration whose request nobody overtook puts nobody over the quota.
THEOREM QuotaKept == Spec => QuotaUnlessOvertaken
<1>1. ASSUME IInv, [Next]_vars
      PROVE  [\A r \in Requests : Enrols(r) /\ current[r] =>
                \A u \in Persons(job[r].reg) : Cardinality(activeRegs(u))' <= MAX_QUOTA]_vars
  <2> SUFFICES ASSUME Next, NEW r \in Requests, Enrols(r), current[r],
                      NEW u \in Persons(job[r].reg)
               PROVE  Cardinality(activeRegs(u))' <= MAX_QUOTA
    BY <1>1
  <2>1. /\ UNCHANGED members
        /\ status' = [status EXCEPT ![job[r].reg] = "active"]
        /\ Asks(job[r], "insert") /\ Checked(job[r], "insert")
    BY <1>1, Enrolling
  <2>2. checkUserQuota(u)
    BY <1>1, <2>1, EverybodyChecked
  <2> DEFINE before == activeRegs(u)
             after == activeRegs(u)'
  <2>3. /\ before \in SUBSET Registrations /\ after \in SUBSET Registrations
        /\ job[r].reg \in Registrations
    BY <2>1 DEF activeRegs, Asks
  <2>4. after \subseteq before \cup {job[r].reg}
    BY <1>1, <2>1 DEF activeRegs, Persons, IInv, TypeOK
  <2>5. Cardinality(before) \in Nat /\ Cardinality(after) \in Nat /\ Cardinality(before) < MAX_QUOTA
    BY <2>2, <2>3, Sizes DEF checkUserQuota
  <2> HIDE DEF before, after
  <2>6. Cardinality(after) <= Cardinality(before) + 1
    BY <2>3, <2>4, AddsOne
  <2>7. Cardinality(after) <= MAX_QUOTA
    BY <2>5, <2>6, EnrolmentAssumption
  <2> QED
    BY <2>7 DEF after
<1> QED
  BY <1>1, Invariance, PTL DEF Spec, QuotaUnlessOvertaken

\* ... and is of a team whose size suits the competition.
THEOREM SizeKept == Spec => SizeUnlessOvertaken
<1>1. ASSUME IInv, [Next]_vars
      PROVE  [\A r \in Requests :
                Enrols(r) /\ current[r] /\ job[r].reg[1] \in Team =>
                  Cardinality(Persons(job[r].reg))
                    \in minTeamMembers[job[r].reg[1]]..maxTeamMembers[job[r].reg[1]]]_vars
  <2> SUFFICES ASSUME Next, NEW r \in Requests, Enrols(r), current[r],
                      job[r].reg[1] \in Team
               PROVE  Cardinality(Persons(job[r].reg))
                        \in minTeamMembers[job[r].reg[1]]..maxTeamMembers[job[r].reg[1]]
    BY <1>1
  <2> DEFINE t == job[r].reg[2]
  <2>1. Asks(job[r], "insert") /\ Checked(job[r], "insert")
    BY <1>1, Enrolling
  <2>2. t \in TeamIds /\ job[r].reg[1] \notin Individual
    BY <2>1, Kinds DEF Asks
  <2>3. IsFiniteSet(members[t]) /\ leader[t] \notin members[t]
    BY <1>1, <2>2, Sizes DEF IInv, TypeOK
  <2>4. Cardinality({leader[t]} \cup members[t]) = 1 + Cardinality(members[t])
    BY <2>3, SizeWithLeader
  <2>5. Persons(job[r].reg) = {leader[t]} \cup members[t]
    BY <2>2 DEF Persons
  <2> QED
    BY <2>1, <2>4, <2>5 DEF Checked
<1> QED
  BY <1>1, Invariance, PTL DEF Spec, SizeUnlessOvertaken
=============================================================================
