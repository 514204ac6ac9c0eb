---------------------------- MODULE WorkersProofs ----------------------------
(***************************************************************************)
(* Theorems about Workers, for any teams, any finite set of users of the   *)
(* sandbox and any requests.                                               *)
(***************************************************************************)
EXTENDS Workers, FiniteSetTheorems, SequenceTheorems, TLAPS

\* What a request may hold when `ids` have been given out.
Job(ids) ==
  [batch : SUBSET ids, useMongoDB : BOOLEAN, count : Counts, data : SUBSET ids,
   keys : SUBSET KnownCounts]

\* The part of the search index: every stored team is on its way, or arrived.
TeamInv ==
  /\ teams \in [TeamIds -> {"absent", "stored", "gone"}]
  /\ creating \cup indexing \cup teamIndex \cup lost \subseteq TeamIds
  /\ queue \in Seq(Message)
  /\ TeamsSearchableOrLost

\* Only users that were injected are queued, held or stored.
SandboxTypes ==
  /\ saving \cup users \cup docs \cup index \subseteq injected
  /\ \A batch \in timers \cup bulks : batch \subseteq injected
  /\ injected \subseteq SandboxIds
  /\ cache \in [Counts -> {NoEntry} \cup SUBSET injected]
  /\ pc \in [Requests -> PC]
  /\ job \in [Requests -> Job(injected)]
  /\ sandbox \in {"used", "cleaning", "clean"}
  /\ \A u \in SandboxIds : SandboxInsert(u) \in ToSet(queue) => u \in injected

\* No entry is left under a known count, but for these.
Evicted(keys) == \A n \in KnownCounts \ keys : cache[n] = NoEntry

\* While the sandbox is cleaned undisturbed, and since, nothing is on its way
\* into it; one request is at it, and has deleted what its await says.
CleanInv ==
  /\ sandbox # "used" =>
       /\ saving = {} /\ timers = {} /\ bulks = {} /\ users = {}
       /\ \A u \in SandboxIds : SandboxInsert(u) \notin ToSet(queue)
  /\ sandbox = "cleaning" =>
       /\ \A q, r \in Requests : pc[q] # "idle" /\ pc[r] # "idle" => q = r
       /\ \A r \in Requests :
            \/ pc[r] = "idle"
            \/ pc[r] = "keys" /\ Evicted(job[r].keys)
            \/ pc[r] = "deleteDocs" /\ Evicted({})
            \/ pc[r] = "deleteIndex" /\ Evicted({}) /\ docs = {}
  /\ sandbox = "clean" =>
       /\ \A r \in Requests : pc[r] = "idle"
       /\ docs = {} /\ index = {} /\ Evicted({})

IInv == TeamInv /\ SandboxTypes /\ CleanInv

----------------------------------------------------------------------------
\* What the queue holds after a message is appended, delivered, or a batch of
\* them appended.
LEMMA AppendParts ==
  ASSUME NEW S, NEW s \in Seq(S), NEW e \in S
  PROVE  Append(s, e) \in Seq(S) /\ ToSet(Append(s, e)) = ToSet(s) \cup {e}
<1> DEFINE t == Append(s, e)
<1>1. /\ t \in Seq(S) /\ Len(t) = Len(s) + 1 /\ t[Len(s) + 1] = e
      /\ \A i \in 1..Len(s) : t[i] = s[i]
  BY AppendProperties
<1>2. Len(s) \in Nat /\ DOMAIN s = 1..Len(s) /\ DOMAIN t = 1..Len(s) + 1
  BY <1>1, LenProperties
<1> HIDE DEF t
<1>3. \A i \in DOMAIN t : t[i] \in ToSet(s) \cup {e}
  BY <1>1, <1>2 DEF ToSet
<1>4. \A i \in DOMAIN s : s[i] \in ToSet(t)
  BY <1>1, <1>2 DEF ToSet
<1>5. e \in ToSet(t)
  BY <1>1, <1>2 DEF ToSet
<1> QED
  BY <1>1, <1>3, <1>4, <1>5 DEF ToSet, t

\* A sequence is its head and its tail, also as a set.
LEMMA HeadTailParts ==
  ASSUME NEW S, NEW s \in Seq(S), s # <<>>
  PROVE  /\ Head(s) \in S /\ Tail(s) \in Seq(S)
         /\ ToSet(s) = {Head(s)} \cup ToSet(Tail(s))
<1>1. Len(s) \in Nat \ {0} /\ DOMAIN s = 1..Len(s) /\ Head(s) = s[1] /\ Head(s) \in S
  BY EmptySeq, LenProperties, HeadTailProperties
<1>2. /\ Tail(s) \in Seq(S) /\ Len(Tail(s)) = Len(s) - 1
      /\ \A i \in 1..Len(s) - 1 : Tail(s)[i] = s[i + 1]
  BY HeadTailProperties
<1>3. DOMAIN Tail(s) = 1..Len(s) - 1
  BY <1>2, LenProperties
<1>4. ASSUME NEW i \in 1..Len(s) PROVE s[i] \in {Head(s)} \cup ToSet(Tail(s))
  <2>1. CASE i = 1
    BY <1>1, <2>1
  <2>2. CASE i # 1
    <3>1. i - 1 \in 1..Len(s) - 1 /\ Tail(s)[i - 1] = s[i]
      BY <1>1, <1>2, <2>2
    <3> QED
      BY <1>3, <3>1 DEF ToSet
  <2> QED
    BY <2>1, <2>2
<1>5. ASSUME NEW i \in 1..Len(s) - 1 PROVE Tail(s)[i] \in ToSet(s)
  BY <1>1, <1>2 DEF ToSet
<1>6. Head(s) \in ToSet(s)
  BY <1>1 DEF ToSet
<1> QED
  BY <1>1, <1>2, <1>3, <1>4, <1>5, <1>6 DEF ToSet

\* The elements of a concatenation are those of its parts.
LEMMA ConcatParts ==
  ASSUME NEW S, NEW s \in Seq(S), NEW t \in Seq(S)
  PROVE  s \o t \in Seq(S) /\ ToSet(s \o t) = ToSet(s) \cup ToSet(t)
<1> DEFINE u == s \o t
<1>1. /\ u \in Seq(S) /\ Len(u) = Len(s) + Len(t)
      /\ \A i \in 1..Len(s) + Len(t) : u[i] = IF i <= Len(s) THEN s[i] ELSE t[i - Len(s)]
  BY ConcatProperties
<1>2. /\ Len(s) \in Nat /\ Len(t) \in Nat
      /\ DOMAIN s = 1..Len(s) /\ DOMAIN t = 1..Len(t) /\ DOMAIN u = 1..Len(s) + Len(t)
  BY <1>1, LenProperties
<1> HIDE DEF u
<1>3. ASSUME NEW i \in DOMAIN u PROVE u[i] \in ToSet(s) \cup ToSet(t)
  <2>1. CASE i <= Len(s)
    BY <1>1, <1>2, <2>1 DEF ToSet
  <2>2. CASE i > Len(s)
    <3>1. i - Len(s) \in DOMAIN t /\ u[i] = t[i - Len(s)]
      BY <1>1, <1>2, <2>2
    <3> QED
      BY <3>1 DEF ToSet
  <2> QED
    BY <1>2, <2>1, <2>2
<1>4. ASSUME NEW i \in DOMAIN s PROVE s[i] \in ToSet(u)
  BY <1>1, <1>2 DEF ToSet
<1>5. ASSUME NEW i \in DOMAIN t PROVE t[i] \in ToSet(u)
  <2>1. Len(s) + i \in DOMAIN u /\ u[Len(s) + i] = t[i]
    BY <1>1, <1>2
  <2> QED
    BY <2>1 DEF ToSet
<1> QED
  BY <1>1, <1>3, <1>4, <1>5 DEF ToSet, u

\* The messages of a batch, in the order they are sent.
LEMMA SetToSeqTyped ==
  ASSUME NEW S, IsFiniteSet(S)
  PROVE  SetToSeq(S) \in Seq(S)
<1>1. Cardinality(S) \in Nat /\ ExistsBijection(1..Cardinality(S), S)
  BY FS_CardinalityType
<1>2. PICK f \in [1..Cardinality(S) -> S] : IsInjective(f)
  BY <1>1 DEF ExistsBijection, Bijection, Injection
<1>3. SetToSeq(S) \in [1..Cardinality(S) -> S]
  BY <1>2 DEF SetToSeq
<1> QED
  BY <1>1, <1>3, SeqDef

----------------------------------------------------------------------------
\* Messages of the two kinds are told apart by their pattern.
LEMMA MessageKinds ==
  ASSUME NEW m \in Message
  PROVE  \/ m.pattern = "team.created" /\ m.id \in TeamIds /\ m = TeamCreated(m.id)
         \/ m.pattern = "simulation.sandbox_insert" /\ m.id \in SandboxIds /\ m = SandboxInsert(m.id)
BY DEF Message, TeamCreated, SandboxInsert

\* team.created and the insert of the sandbox are different messages.
LEMMA KindsDiffer == \A t, u : TeamCreated(t) # SandboxInsert(u)
BY DEF TeamCreated, SandboxInsert

\* A message determines the id it carries.
LEMMA MessagesEqual ==
  \A t, u : (TeamCreated(t) = TeamCreated(u) => t = u) /\ (SandboxInsert(t) = SandboxInsert(u) => t = u)
<1>1. \A t, u : TeamCreated(t) = TeamCreated(u) => t = u
  <2>1. \A t : TeamCreated(t).id = t
    BY DEF TeamCreated
  <2> QED
    BY <2>1
<1>2. \A t, u : SandboxInsert(t) = SandboxInsert(u) => t = u
  <2>1. \A t : SandboxInsert(t).id = t
    BY DEF SandboxInsert
  <2> QED
    BY <2>1
<1> QED
  BY <1>1, <1>2

\* The sandbox is left alone, and no message to it is added.
LEMMA SandboxStands ==
  ASSUME SandboxTypes, CleanInv, UNCHANGED <<storeVars, requestVars>>,
         \A u \in SandboxIds : SandboxInsert(u) \in ToSet(queue') => SandboxInsert(u) \in ToSet(queue)
  PROVE  SandboxTypes' /\ CleanInv'
<1>1. SandboxTypes'
  BY DEF SandboxTypes, storeVars, requestVars
<1>2. CleanInv'
  BY DEF CleanInv, Evicted, storeVars, requestVars
<1> QED
  BY <1>1, <1>2

\* What leaves the teams and the queue alone keeps the part about them.
LEMMA TeamsStand ==
  ASSUME TeamInv, UNCHANGED <<teamVars, queue>>
  PROVE  TeamInv'
BY DEF TeamInv, TeamsSearchableOrLost, teamVars

\* The invariant holds initially.
LEMMA InitInv == Init => IInv
<1> SUFFICES ASSUME Init PROVE IInv
  OBVIOUS
<1>1. <<>> \in Seq(Message) /\ ToSet(<<>>) = {}
  BY EmptySeq DEF ToSet
<1>2. TeamInv
  BY <1>1 DEF Init, TeamInv, TeamsSearchableOrLost
<1>3. SandboxTypes
  <2>1. NoJob \in Job({})
    <3>1. Cardinality(SandboxIds) \in Nat
      BY WorkersAssumption, FS_CardinalityType
    <3>2. 0 \in Counts
      BY <3>1 DEF Counts
    <3> QED
      BY <3>2 DEF NoJob, Job
  <2> QED
    BY <1>1, <2>1 DEF Init, SandboxTypes, PC
<1>4. CleanInv
  BY DEF Init, CleanInv
<1> QED
  BY <1>2, <1>3, <1>4 DEF IInv

\* The steps of teams on their way into the index.
LEMMA TeamStepInv ==
  ASSUME IInv, NEW t \in TeamIds, SaveTeam(t) \/ LeaveTeam(t) \/ TeamSync(t)
  PROVE  IInv'
<1>0. TeamInv
  BY DEF IInv
<1>1. TeamCreated(t) \in Message
  BY DEF Message
<1>2. /\ UNCHANGED <<storeVars, requestVars>>
      /\ queue' = queue \/ queue' = Append(queue, TeamCreated(t))
  BY DEF SaveTeam, LeaveTeam, TeamSync, PublishTeam, FailToPublish, IndexDocument, FailToIndex
<1>3. /\ queue' \in Seq(Message)
      /\ ToSet(queue) \subseteq ToSet(queue') /\ ToSet(queue') \subseteq ToSet(queue) \cup {TeamCreated(t)}
  <2>1. queue \in Seq(Message)
    BY <1>0 DEF TeamInv
  <2>2. /\ Append(queue, TeamCreated(t)) \in Seq(Message)
        /\ ToSet(Append(queue, TeamCreated(t))) = ToSet(queue) \cup {TeamCreated(t)}
    BY <1>1, <2>1, AppendParts
  <2> QED
    BY <1>2, <2>1, <2>2
<1>4. SandboxTypes' /\ CleanInv'
  BY <1>2, <1>3, KindsDiffer, SandboxStands DEF IInv
<1>5. TeamInv'
  <2>1. CASE SaveTeam(t) \/ LeaveTeam(t)
    BY <1>0, <2>1 DEF TeamInv, TeamsSearchableOrLost, SaveTeam, LeaveTeam
  <2>2. CASE PublishTeam(t)
    <3>1. teams[t] = "stored" => TeamCreated(t) \in ToSet(queue')
      BY <1>0, <1>1, <2>2, AppendParts DEF TeamInv, PublishTeam
    <3> QED
      BY <1>0, <1>3, <2>2, <3>1 DEF TeamInv, TeamsSearchableOrLost, PublishTeam
  <2>3. CASE FailToPublish(t) \/ IndexDocument(t) \/ FailToIndex(t)
    BY <1>0, <2>3 DEF TeamInv, TeamsSearchableOrLost, FailToPublish, IndexDocument, FailToIndex
  <2> QED
    BY <2>1, <2>2, <2>3 DEF TeamSync
<1> QED
  BY <1>4, <1>5 DEF IInv

\* The broker delivers.
LEMMA DeliverInv ==
  ASSUME IInv, Deliver
  PROVE  IInv'
<1>0. TeamInv /\ SandboxTypes /\ CleanInv
  BY DEF IInv
<1>1. /\ queue # <<>> /\ queue' = Tail(queue)
  BY DEF Deliver, HandleTeamCreated, HandleSandboxInsert
<1>2. /\ Head(queue) \in Message /\ queue' \in Seq(Message)
      /\ ToSet(queue) = {Head(queue)} \cup ToSet(queue')
  BY <1>0, <1>1, HeadTailParts DEF TeamInv
<1>3. CASE HandleTeamCreated
  <2>1. Head(queue).id \in TeamIds /\ Head(queue) = TeamCreated(Head(queue).id)
    BY <1>2, <1>3, MessageKinds DEF HandleTeamCreated
  <2>2. \A t \in TeamIds : TeamCreated(t) = Head(queue) => t = Head(queue).id
    BY <2>1, MessagesEqual
  <2>3. TeamInv'
    BY <1>0, <1>2, <1>3, <2>1, <2>2 DEF TeamInv, TeamsSearchableOrLost, HandleTeamCreated
  <2>4. SandboxTypes' /\ CleanInv'
    BY <1>0, <1>2, <1>3, SandboxStands DEF HandleTeamCreated
  <2> QED
    BY <2>3, <2>4 DEF IInv
<1>4. CASE HandleSandboxInsert
  <2>1. Head(queue).id \in SandboxIds /\ Head(queue) = SandboxInsert(Head(queue).id)
    BY <1>2, <1>4, MessageKinds DEF HandleSandboxInsert
  <2>2. Head(queue).id \in injected
    BY <1>0, <1>2, <2>1 DEF SandboxTypes
  <2>3. TeamInv'
    <3>1. \A t \in TeamIds : TeamCreated(t) \in ToSet(queue) => TeamCreated(t) \in ToSet(queue')
      BY <1>2, <2>1, KindsDiffer
    <3> QED
      BY <1>0, <1>2, <1>4, <3>1 DEF TeamInv, TeamsSearchableOrLost, HandleSandboxInsert, teamVars
  <2>4. SandboxTypes'
    BY <1>0, <1>2, <1>4, <2>2 DEF SandboxTypes, HandleSandboxInsert, requestVars
  <2>5. CleanInv'
    <3>1. sandbox = "used"
      BY <1>0, <1>2, <2>1 DEF CleanInv, SandboxTypes
    <3> QED
      BY <1>4, <3>1 DEF CleanInv, HandleSandboxInsert, requestVars
  <2> QED
    BY <2>3, <2>4, <2>5 DEF IInv
<1> QED
  BY <1>3, <1>4 DEF Deliver

\* The broker restarts.
LEMMA RestartBrokerInv ==
  ASSUME IInv, RestartBroker
  PROVE  IInv'
<1>1. <<>> \in Seq(Message) /\ ToSet(<<>>) = {}
  BY EmptySeq DEF ToSet
<1>2. TeamInv'
  BY <1>1 DEF IInv, TeamInv, TeamsSearchableOrLost, RestartBroker
<1>3. SandboxTypes' /\ CleanInv'
  BY <1>1, SandboxStands DEF IInv, RestartBroker
<1> QED
  BY <1>2, <1>3 DEF IInv

----------------------------------------------------------------------------
\* What a request holds stays possible when more ids are given out.
LEMMA JobGrows ==
  ASSUME NEW A, NEW B, A \subseteq B
  PROVE  Job(A) \subseteq Job(B)
BY DEF Job

\* An idle request holds a proper job.
LEMMA NoJobTyped == \A ids : NoJob \in Job(ids) /\ NoJob.batch = {}
<1>1. Cardinality(SandboxIds) \in Nat
  BY WorkersAssumption, FS_CardinalityType
<1>2. 0 \in Counts
  BY <1>1 DEF Counts
<1> QED
  BY <1>2 DEF NoJob, Job

\* Request r goes on; the others stay where they are.
LEMMA ContinueMoves ==
  ASSUME SandboxTypes, NEW r \in Requests, NEW where \in PC, NEW ids, injected \subseteq ids,
         NEW j \in Job(ids), Continue(r, j, where)
  PROVE  /\ pc' \in [Requests -> PC] /\ job' \in [Requests -> Job(ids)]
         /\ pc'[r] = where /\ job'[r] = j
         /\ \A q \in Requests \ {r} : pc'[q] = pc[q] /\ job'[q] = job[q]
<1>1. job \in [Requests -> Job(ids)] /\ pc \in [Requests -> PC]
  BY JobGrows DEF SandboxTypes
<1> QED
  BY <1>1 DEF Continue

\* What request r holds.
LEMMA JobTyped ==
  ASSUME SandboxTypes, NEW r \in Requests
  PROVE  /\ job[r] \in Job(injected) /\ job[r].batch \subseteq injected
         /\ job[r].data \subseteq injected /\ job[r].count \in Counts
         /\ job[r].keys \subseteq KnownCounts
BY DEF SandboxTypes, Job

\* An injection, or the count of a fetch, ends what a cleanup achieved.
LEMMA UsedIsClean ==
  ASSUME sandbox' = "used"
  PROVE  CleanInv'
BY DEF CleanInv

\* InjectMessages keeps the invariant.
LEMMA InjectMessagesInv ==
  ASSUME IInv, NEW r \in Requests, NEW batch \in SUBSET (SandboxIds \ injected),
         NEW useMongoDB \in BOOLEAN, InjectMessages(r, batch, useMongoDB)
  PROVE  IInv'
<1>0. TeamInv /\ SandboxTypes
  BY DEF IInv
<1> DEFINE sent == {SandboxInsert(u) : u \in batch}
           msgs == SetToSeq(sent)
           j == [NoJob EXCEPT !.batch = batch]
<1>1. /\ injected' = injected \cup batch /\ queue' = queue \o msgs /\ sandbox' = "used"
      /\ UNCHANGED <<teamVars, saving, users, docs, index, cache>>
      /\ bulks' = bulks
      /\ \/ Continue(r, j, "docs") /\ UNCHANGED timers
         \/ timers' = timers \cup {batch} /\ UNCHANGED <<pc, job>>
  BY DEF InjectMessages
<1>2. msgs \in Seq(sent)
  <2>1. IsFiniteSet(batch)
    BY WorkersAssumption, FS_Subset
  <2>2. IsFiniteSet(sent)
    <3>1. [u \in batch |-> SandboxInsert(u)] \in Surjection(batch, sent)
      BY DEF Surjection
    <3> QED
      BY <2>1, <3>1, FS_Surjection
  <2> QED
    BY <2>2, SetToSeqTyped
<1>3. msgs \in Seq(Message) /\ ToSet(msgs) \subseteq sent
  <2>1. sent \subseteq Message
    BY DEF Message
  <2>2. \A i \in DOMAIN msgs : msgs[i] \in sent
    BY <1>2, LenProperties, ElementOfSeq
  <2> QED
    BY <1>2, <2>1, <2>2, SeqMonotonic DEF ToSet
<1> HIDE DEF msgs
<1>4. queue' \in Seq(Message) /\ ToSet(queue') = ToSet(queue) \cup ToSet(msgs)
  BY <1>0, <1>1, <1>3, ConcatParts DEF TeamInv
<1>5. TeamInv'
  BY <1>0, <1>1, <1>4 DEF TeamInv, TeamsSearchableOrLost, teamVars
<1>6. SandboxTypes'
  <2>1. pc' \in [Requests -> PC] /\ job' \in [Requests -> Job(injected')]
    <3>1. j \in Job(injected')
      BY <1>1, NoJobTyped DEF NoJob, Job
    <3>2. CASE Continue(r, j, "docs")
      BY <1>0, <1>1, <3>1, <3>2, ContinueMoves DEF PC
    <3>3. CASE UNCHANGED <<pc, job>>
      BY <1>0, <1>1, <3>3, JobGrows DEF SandboxTypes
    <3> QED
      BY <1>1, <3>2, <3>3
  <2>2. \A u \in SandboxIds : SandboxInsert(u) \in ToSet(queue') => u \in injected'
    <3>1. \A u \in SandboxIds : SandboxInsert(u) \in sent => u \in batch
      BY MessagesEqual
    <3> QED
      BY <1>0, <1>1, <1>3, <1>4, <3>1 DEF SandboxTypes
  <2>3. \A b \in timers' \cup bulks' : b \subseteq injected'
    BY <1>0, <1>1 DEF SandboxTypes
  <2>4. cache' \in [Counts -> {NoEntry} \cup SUBSET injected']
    <3>1. cache \in [Counts -> {NoEntry} \cup SUBSET injected] /\ cache' = cache
      BY <1>0, <1>1 DEF SandboxTypes
    <3> QED
      BY <1>1, <3>1
  <2>5. /\ saving' \cup users' \cup docs' \cup index' \subseteq injected'
        /\ injected' \subseteq SandboxIds
    BY <1>0, <1>1 DEF SandboxTypes
  <2> QED
    BY <1>1, <2>1, <2>2, <2>3, <2>4, <2>5 DEF SandboxTypes
<1> QED
  BY <1>1, <1>5, <1>6, UsedIsClean DEF IInv

\* InjectRows keeps the invariant.
LEMMA InjectRowsInv ==
  ASSUME IInv, NEW r \in Requests, NEW batch \in SUBSET (SandboxIds \ injected),
         NEW useMongoDB \in BOOLEAN, InjectRows(r, batch, useMongoDB)
  PROVE  IInv'
<1>0. TeamInv /\ SandboxTypes
  BY DEF IInv
<1> DEFINE j == [NoJob EXCEPT !.batch = batch, !.useMongoDB = useMongoDB]
<1>1. /\ injected' = injected \cup batch /\ sandbox' = "used"
      /\ UNCHANGED <<teamVars, queue, saving, users, docs, timers, bulks, index, cache>>
      /\ Continue(r, j, "rows")
  BY DEF InjectRows
<1>2. SandboxTypes'
  <2>1. pc' \in [Requests -> PC] /\ job' \in [Requests -> Job(injected')]
    <3>1. j \in Job(injected')
      BY <1>1, NoJobTyped DEF NoJob, Job
    <3> QED
      BY <1>0, <1>1, <3>1, ContinueMoves DEF PC
  <2>2. \A u \in SandboxIds : SandboxInsert(u) \in ToSet(queue') => u \in injected'
    BY <1>0, <1>1 DEF SandboxTypes
  <2>3. cache' \in [Counts -> {NoEntry} \cup SUBSET injected']
    <3>1. cache \in [Counts -> {NoEntry} \cup SUBSET injected] /\ cache' = cache
      BY <1>0, <1>1 DEF SandboxTypes
    <3> QED
      BY <1>1, <3>1
  <2>4. /\ saving' \cup users' \cup docs' \cup index' \subseteq injected'
        /\ injected' \subseteq SandboxIds
        /\ \A b \in timers' \cup bulks' : b \subseteq injected'
    BY <1>0, <1>1 DEF SandboxTypes
  <2> QED
    BY <1>1, <2>1, <2>2, <2>3, <2>4 DEF SandboxTypes
<1> QED
  BY <1>0, <1>1, <1>2, TeamsStand, UsedIsClean DEF IInv

\* A step of request r that neither injects nor touches teams and queue: what
\* is left to show is the types of what it wrote, and CleanInv.
LEMMA RequestStep ==
  ASSUME IInv, UNCHANGED <<teamVars, queue, injected>>,
         pc' \in [Requests -> PC] /\ job' \in [Requests -> Job(injected)],
         saving' \cup users' \cup docs' \cup index' \subseteq injected,
         \A batch \in timers' \cup bulks' : batch \subseteq injected,
         cache' \in [Counts -> {NoEntry} \cup SUBSET injected],
         sandbox' \in {"used", "cleaning", "clean"},
         CleanInv'
  PROVE  IInv'
<1>1. TeamInv'
  BY TeamsStand DEF IInv
<1>2. SandboxTypes'
  BY DEF IInv, SandboxTypes
<1> QED
  BY <1>1, <1>2 DEF IInv

\* SaveRows keeps the invariant.
LEMMA SaveRowsInv ==
  ASSUME IInv, NEW r \in Requests, SaveRows(r)
  PROVE  IInv'
<1>0. SandboxTypes /\ CleanInv
  BY DEF IInv
<1>1. /\ pc[r] = "rows" /\ users' = users \cup job[r].batch
      /\ bulks' = bulks /\ (timers' = timers \/ timers' = timers \cup {job[r].batch})
      /\ Continue(r, job[r], "docs") \/ Continue(r, NoJob, "idle")
      /\ UNCHANGED <<teamVars, queue, injected, saving, docs, index, cache, sandbox>>
  BY DEF SaveRows
<1>2. job[r] \in Job(injected) /\ job[r].batch \subseteq injected
  BY <1>0, JobTyped
<1>3. pc' \in [Requests -> PC] /\ job' \in [Requests -> Job(injected)]
  BY <1>0, <1>1, <1>2, NoJobTyped, ContinueMoves DEF PC
<1>4. sandbox = "used"
  BY <1>0, <1>1 DEF CleanInv, SandboxTypes
<1>5. CleanInv'
  BY <1>1, <1>4, UsedIsClean
<1>6. /\ saving' \cup users' \cup docs' \cup index' \subseteq injected
      /\ \A batch \in timers' \cup bulks' : batch \subseteq injected
      /\ cache' \in [Counts -> {NoEntry} \cup SUBSET injected]
      /\ sandbox' \in {"used", "cleaning", "clean"}
  BY <1>0, <1>1, <1>2 DEF SandboxTypes
<1> QED
  BY <1>1, <1>3, <1>5, <1>6, RequestStep

\* InsertDocs keeps the invariant.
LEMMA InsertDocsInv ==
  ASSUME IInv, NEW r \in Requests, InsertDocs(r)
  PROVE  IInv'
<1>0. SandboxTypes /\ CleanInv
  BY DEF IInv
<1>1. /\ pc[r] = "docs" /\ docs' = docs \cup job[r].batch
      /\ bulks' = bulks /\ timers' = timers \cup {job[r].batch}
      /\ Continue(r, NoJob, "idle")
      /\ UNCHANGED <<teamVars, queue, injected, saving, users, index, cache, sandbox>>
  BY DEF InsertDocs
<1>2. job[r].batch \subseteq injected
  BY <1>0, JobTyped
<1>3. pc' \in [Requests -> PC] /\ job' \in [Requests -> Job(injected)]
  BY <1>0, <1>1, NoJobTyped, ContinueMoves DEF PC
<1>4. sandbox = "used"
  BY <1>0, <1>1 DEF CleanInv, SandboxTypes
<1>5. CleanInv'
  BY <1>1, <1>4, UsedIsClean
<1>6. /\ saving' \cup users' \cup docs' \cup index' \subseteq injected
      /\ \A batch \in timers' \cup bulks' : batch \subseteq injected
      /\ cache' \in [Counts -> {NoEntry} \cup SUBSET injected]
      /\ sandbox' \in {"used", "cleaning", "clean"}
  BY <1>0, <1>1, <1>2 DEF SandboxTypes
<1> QED
  BY <1>1, <1>3, <1>5, <1>6, RequestStep

\* FireTimer keeps the invariant.
LEMMA FireTimerInv ==
  ASSUME IInv, NEW batch \in timers, FireTimer(batch)
  PROVE  IInv'
<1>0. SandboxTypes /\ CleanInv
  BY DEF IInv
<1>1. /\ batch \in timers /\ timers' = timers \ {batch} /\ bulks' = bulks \cup {batch}
      /\ UNCHANGED <<teamVars, queue, injected, saving, users, docs, index, cache, pc, job, sandbox>>
  BY DEF FireTimer, requestVars
<1>2. sandbox = "used"
  BY <1>0, <1>1 DEF CleanInv
<1>3. CleanInv'
  BY <1>1, <1>2, UsedIsClean
<1>4. /\ saving' \cup users' \cup docs' \cup index' \subseteq injected
      /\ \A b \in timers' \cup bulks' : b \subseteq injected
  BY <1>0, <1>1 DEF SandboxTypes
<1>5. /\ pc' \in [Requests -> PC] /\ job' \in [Requests -> Job(injected)]
      /\ cache' \in [Counts -> {NoEntry} \cup SUBSET injected]
      /\ sandbox' \in {"used", "cleaning", "clean"}
  BY <1>0, <1>1 DEF SandboxTypes
<1> QED
  BY <1>1, <1>3, <1>4, <1>5, RequestStep

\* IndexBulk keeps the invariant.
LEMMA IndexBulkInv ==
  ASSUME IInv, NEW batch \in bulks, IndexBulk(batch)
  PROVE  IInv'
<1>0. SandboxTypes /\ CleanInv
  BY DEF IInv
<1>1. /\ batch \in bulks /\ bulks' = bulks \ {batch}
      /\ index' \in {index, index \cup batch}
      /\ UNCHANGED <<teamVars, queue, injected, saving, users, docs, timers, cache, pc, job, sandbox>>
  BY DEF IndexBulk, requestVars
<1>2. sandbox = "used"
  BY <1>0, <1>1 DEF CleanInv
<1>3. CleanInv'
  BY <1>1, <1>2, UsedIsClean
<1>4. /\ saving' \cup users' \cup docs' \cup index' \subseteq injected
      /\ \A b \in timers' \cup bulks' : b \subseteq injected
  BY <1>0, <1>1 DEF SandboxTypes
<1>5. /\ pc' \in [Requests -> PC] /\ job' \in [Requests -> Job(injected)]
      /\ cache' \in [Counts -> {NoEntry} \cup SUBSET injected]
      /\ sandbox' \in {"used", "cleaning", "clean"}
  BY <1>0, <1>1 DEF SandboxTypes
<1> QED
  BY <1>1, <1>3, <1>4, <1>5, RequestStep

\* SaveSandboxUser keeps the invariant.
LEMMA SaveSandboxUserInv ==
  ASSUME IInv, NEW u \in SandboxIds, SaveSandboxUser(u)
  PROVE  IInv'
<1>0. SandboxTypes /\ CleanInv
  BY DEF IInv
<1>1. /\ u \in saving /\ saving' = saving \ {u} /\ users' \in {users, users \cup {u}}
      /\ UNCHANGED <<teamVars, queue, injected, docs, timers, bulks, index, cache, pc, job, sandbox>>
  BY DEF SaveSandboxUser, requestVars
<1>2. sandbox = "used"
  BY <1>0, <1>1 DEF CleanInv
<1>3. CleanInv'
  BY <1>1, <1>2, UsedIsClean
<1>4. saving' \cup users' \cup docs' \cup index' \subseteq injected
  BY <1>0, <1>1 DEF SandboxTypes
<1>5. /\ pc' \in [Requests -> PC] /\ job' \in [Requests -> Job(injected)]
      /\ \A b \in timers' \cup bulks' : b \subseteq injected
      /\ cache' \in [Counts -> {NoEntry} \cup SUBSET injected]
      /\ sandbox' \in {"used", "cleaning", "clean"}
  BY <1>0, <1>1 DEF SandboxTypes
<1> QED
  BY <1>1, <1>3, <1>4, <1>5, RequestStep

\* The steps of a fetch.
LEMMA FetchInv ==
  ASSUME IInv, NEW r \in Requests, Count(r) \/ Get(r) \/ Find(r) \/ Store(r)
  PROVE  IInv'
<1>0. SandboxTypes /\ CleanInv
  BY DEF IInv
<1>1. UNCHANGED <<teamVars, queue, injected, saving, users, docs, timers, bulks, index>>
  BY DEF Count, Get, Find, Store, storeVars
<1>2. sandbox' = "used"
  <2>1. CASE Count(r)
    BY <2>1 DEF Count
  <2>2. CASE Get(r) \/ Find(r) \/ Store(r)
    <3>1. pc[r] \in {"get", "find", "set"} /\ sandbox' = sandbox
      BY <2>2 DEF Get, Find, Store
    <3> QED
      BY <1>0, <3>1 DEF CleanInv, SandboxTypes
  <2> QED
    BY <2>1, <2>2
<1>3. CleanInv'
  BY <1>2, UsedIsClean
<1>4. cache' \in [Counts -> {NoEntry} \cup SUBSET injected]
  BY <1>0, JobTyped DEF SandboxTypes, Count, Get, Find, Store, storeVars
<1>5. pc' \in [Requests -> PC] /\ job' \in [Requests -> Job(injected)]
  <2>1. job[r] \in Job(injected) /\ NoJob \in Job(injected)
    BY <1>0, JobTyped, NoJobTyped
  <2>2. CASE Count(r)
    <3>1. Cardinality(users) \in Counts
      <4>1. IsFiniteSet(SandboxIds) /\ users \in SUBSET SandboxIds
        BY <1>0, WorkersAssumption DEF SandboxTypes
      <4>2. /\ Cardinality(users) \in Nat /\ Cardinality(SandboxIds) \in Nat
            /\ Cardinality(users) <= Cardinality(SandboxIds)
        BY <4>1, FS_Subset, FS_CardinalityType
      <4> QED
        BY <4>2 DEF Counts
    <3> DEFINE j == [NoJob EXCEPT !.count = Cardinality(users)]
    <3>2. j \in Job(injected)
      BY <2>1, <3>1 DEF Job
    <3>3. Continue(r, j, "get")
      BY <2>2 DEF Count
    <3> QED
      BY <1>0, <3>2, <3>3, ContinueMoves DEF PC
  <2>3. CASE Get(r)
    <3>1. Continue(r, job[r], "find") \/ Continue(r, NoJob, "idle")
      BY <2>3 DEF Get
    <3> QED
      BY <1>0, <2>1, <3>1, ContinueMoves DEF PC
  <2>4. CASE Find(r)
    <3> DEFINE j == [job[r] EXCEPT !.data = users]
    <3>1. j \in Job(injected)
      BY <1>0, <2>1 DEF Job, SandboxTypes
    <3>2. Continue(r, j, "set")
      BY <2>4 DEF Find
    <3> QED
      BY <1>0, <3>1, <3>2, ContinueMoves DEF PC
  <2>5. CASE Store(r)
    BY <1>0, <2>1, <2>5, ContinueMoves DEF PC, Store
  <2> QED
    BY <2>2, <2>3, <2>4, <2>5
<1>6. /\ saving' \cup users' \cup docs' \cup index' \subseteq injected
      /\ \A b \in timers' \cup bulks' : b \subseteq injected
  BY <1>0, <1>1 DEF SandboxTypes
<1> QED
  BY <1>1, <1>2, <1>3, <1>4, <1>5, <1>6, RequestStep

\* Expire keeps the invariant.
LEMMA ExpireInv ==
  ASSUME IInv, NEW n \in Counts, Expire(n)
  PROVE  IInv'
<1>0. SandboxTypes /\ CleanInv
  BY DEF IInv
<1>1. /\ cache' = [cache EXCEPT ![n] = NoEntry]
      /\ UNCHANGED <<teamVars, queue, injected, saving, users, docs, timers, bulks, index, pc, job, sandbox>>
  BY DEF Expire, requestVars
<1>2. cache' \in [Counts -> {NoEntry} \cup SUBSET injected]
  BY <1>0, <1>1 DEF SandboxTypes
<1>3. \A keys : Evicted(keys) => Evicted(keys)'
  <2>1. \A m \in KnownCounts : cache[m] = NoEntry => cache'[m] = NoEntry
    BY <1>0, <1>1, WorkersAssumption DEF SandboxTypes, Counts
  <2> QED
    BY <2>1 DEF Evicted
<1>4. CleanInv'
  BY <1>0, <1>1, <1>3 DEF CleanInv
<1>5. /\ pc' \in [Requests -> PC] /\ job' \in [Requests -> Job(injected)]
      /\ saving' \cup users' \cup docs' \cup index' \subseteq injected
      /\ \A b \in timers' \cup bulks' : b \subseteq injected
      /\ sandbox' \in {"used", "cleaning", "clean"}
  BY <1>0, <1>1 DEF SandboxTypes
<1> QED
  BY <1>1, <1>2, <1>4, <1>5, RequestStep

----------------------------------------------------------------------------
\* cleanup(), step by step.
LEMMA CleanupInv ==
  ASSUME IInv, NEW r \in Requests, Cleanup(r)
  PROVE  IInv'
<1>0. TeamInv /\ SandboxTypes /\ CleanInv
  BY DEF IInv
<1> DEFINE j == [NoJob EXCEPT !.keys = KnownCounts]
<1>1. /\ pc[r] = "idle" /\ users' = {} /\ Continue(r, j, "keys")
      /\ sandbox' = IF calm THEN "cleaning" ELSE "used"
      /\ UNCHANGED <<teamVars, queue, injected, saving, docs, timers, bulks, index, cache>>
  BY DEF Cleanup
<1>2. j \in Job(injected) /\ j.keys = KnownCounts
  BY NoJobTyped DEF Job, NoJob
<1> HIDE DEF j
<1>3. /\ pc' \in [Requests -> PC] /\ job' \in [Requests -> Job(injected)]
      /\ pc'[r] = "keys" /\ job'[r] = j
      /\ \A q \in Requests \ {r} : pc'[q] = pc[q]
  BY <1>0, <1>1, <1>2, ContinueMoves DEF PC
<1>4. CASE calm
  <2>1. sandbox' = "cleaning" /\ saving' = {} /\ timers' = {} /\ bulks' = {} /\ users' = {}
    BY <1>1, <1>4 DEF calm
  <2>2. \A u \in SandboxIds : SandboxInsert(u) \notin ToSet(queue')
    <3>1. \A i \in DOMAIN queue : queue[i].pattern # "simulation.sandbox_insert"
      BY <1>4 DEF calm
    <3>2. \A u \in SandboxIds : SandboxInsert(u).pattern = "simulation.sandbox_insert"
      BY DEF SandboxInsert
    <3>3. \A u \in SandboxIds : SandboxInsert(u) \notin ToSet(queue)
      BY <3>1, <3>2 DEF ToSet
    <3> QED
      BY <1>1, <3>3
  <2>3. \A q \in Requests \ {r} : pc'[q] = "idle"
    BY <1>3, <1>4 DEF calm
  <2>4. \A p, q \in Requests : pc'[p] # "idle" /\ pc'[q] # "idle" => p = q
    BY <2>3
  <2>5. pc'[r] = "keys" /\ Evicted(job[r].keys)'
    BY <1>2, <1>3 DEF Evicted
  <2>6. \A q \in Requests :
          \/ pc'[q] = "idle"
          \/ pc'[q] = "keys" /\ Evicted(job[q].keys)'
    BY <2>3, <2>5
  <2> QED
    <3>1. CleanInv'
      BY <2>1, <2>2, <2>4, <2>6 DEF CleanInv
    <3>2. saving' \cup users' \cup docs' \cup index' \subseteq injected
      BY <1>0, <1>1 DEF SandboxTypes
    <3>3. /\ \A b \in timers' \cup bulks' : b \subseteq injected
          /\ cache' \in [Counts -> {NoEntry} \cup SUBSET injected]
          /\ sandbox' \in {"used", "cleaning", "clean"}
      BY <1>0, <1>1, <2>1 DEF SandboxTypes
    <3> QED
      BY <1>1, <1>3, <3>1, <3>2, <3>3, RequestStep
<1>5. CASE ~calm
  <2>1. sandbox' = "used"
    BY <1>1, <1>5
  <2>2. saving' \cup users' \cup docs' \cup index' \subseteq injected
    BY <1>0, <1>1 DEF SandboxTypes
  <2>3. /\ \A b \in timers' \cup bulks' : b \subseteq injected
        /\ cache' \in [Counts -> {NoEntry} \cup SUBSET injected]
        /\ sandbox' \in {"used", "cleaning", "clean"}
    BY <1>0, <1>1, <2>1 DEF SandboxTypes
  <2> QED
    BY <1>1, <1>3, <2>1, <2>2, <2>3, UsedIsClean, RequestStep
<1> QED
  BY <1>4, <1>5

\* A request at work on a cleanup is the only one at work, if it is undisturbed.
LEMMA OnlyCleanup ==
  ASSUME CleanInv, SandboxTypes, NEW r \in Requests, pc[r] # "idle"
  PROVE  /\ sandbox # "clean"
         /\ sandbox = "cleaning" => \A q \in Requests \ {r} : pc[q] = "idle"
BY DEF CleanInv

\* DeleteKey keeps the invariant.
LEMMA DeleteKeyInv ==
  ASSUME IInv, NEW r \in Requests, NEW n \in Counts, DeleteKey(r, n)
  PROVE  IInv'
<1>0. TeamInv /\ SandboxTypes /\ CleanInv
  BY DEF IInv
<1> DEFINE j == [job[r] EXCEPT !.keys = @ \ {n}]
           where == IF job[r].keys = {n} THEN "deleteDocs" ELSE "keys"
<1>1. /\ pc[r] = "keys" /\ cache' = [cache EXCEPT ![n] = NoEntry] /\ Continue(r, j, where)
      /\ UNCHANGED <<teamVars, queue, injected, saving, users, docs, timers, bulks, index, sandbox>>
  BY DEF DeleteKey
<1>2. j \in Job(injected) /\ j.keys = job[r].keys \ {n} /\ where \in PC
  BY <1>0, JobTyped DEF Job, PC
<1>3. where \in {"deleteDocs", "keys"} /\ (where = "deleteDocs" => job[r].keys \ {n} = {})
  OBVIOUS
<1> HIDE DEF j, where
<1>4. /\ pc' \in [Requests -> PC] /\ job' \in [Requests -> Job(injected)]
      /\ pc'[r] = where /\ job'[r] = j
      /\ \A q \in Requests \ {r} : pc'[q] = pc[q]
  BY <1>0, <1>1, <1>2, ContinueMoves
<1>5. cache' \in [Counts -> {NoEntry} \cup SUBSET injected]
  BY <1>0, <1>1 DEF SandboxTypes
<1>6. CleanInv'
  <2>1. sandbox # "clean"
    BY <1>0, <1>1, OnlyCleanup
  <2>2. CASE sandbox = "cleaning"
    <3>1. \A q \in Requests \ {r} : pc'[q] = "idle"
      BY <1>0, <1>1, <1>4, <2>2, OnlyCleanup
    <3>2. Evicted(job[r].keys \ {n})'
      <4>1. \A m \in KnownCounts \ job[r].keys : cache[m] = NoEntry
        BY <1>0, <1>1, <2>2 DEF CleanInv, Evicted
      <4>2. \A m \in KnownCounts : cache'[m] = IF m = n THEN NoEntry ELSE cache[m]
        BY <1>0, <1>1, WorkersAssumption DEF SandboxTypes, Counts
      <4>3. \A m \in KnownCounts \ j.keys : cache'[m] = NoEntry
        BY <1>2, <4>1, <4>2
      <4>4. job'[r].keys = j.keys
        BY <1>4
      <4> QED
        BY <4>3, <4>4, <1>2, <1>4 DEF Evicted
    <3>3. \A p, q \in Requests : pc'[p] # "idle" /\ pc'[q] # "idle" => p = q
      BY <3>1
    <3> QED
      BY <1>0, <1>1, <1>2, <1>3, <1>4, <2>2, <3>1, <3>2, <3>3 DEF CleanInv
  <2>3. CASE sandbox # "cleaning"
    BY <1>0, <1>1, <2>1, <2>3, UsedIsClean DEF SandboxTypes
  <2> QED
    BY <2>2, <2>3
<1>7. /\ saving' \cup users' \cup docs' \cup index' \subseteq injected
      /\ \A b \in timers' \cup bulks' : b \subseteq injected
      /\ sandbox' \in {"used", "cleaning", "clean"}
  BY <1>0, <1>1 DEF SandboxTypes
<1> QED
  BY <1>1, <1>4, <1>5, <1>6, <1>7, RequestStep

\* DeleteDocs keeps the invariant.
LEMMA DeleteDocsInv ==
  ASSUME IInv, NEW r \in Requests, DeleteDocs(r)
  PROVE  IInv'
<1>0. TeamInv /\ SandboxTypes /\ CleanInv
  BY DEF IInv
<1>1. /\ pc[r] = "deleteDocs" /\ docs' = {} /\ Continue(r, NoJob, "deleteIndex")
      /\ UNCHANGED <<teamVars, queue, injected, saving, users, timers, bulks, index, cache, sandbox>>
  BY DEF DeleteDocs
<1>2. /\ pc' \in [Requests -> PC] /\ job' \in [Requests -> Job(injected)]
      /\ pc'[r] = "deleteIndex"
      /\ \A q \in Requests \ {r} : pc'[q] = pc[q]
  BY <1>0, <1>1, NoJobTyped, ContinueMoves DEF PC
<1>3. CleanInv'
  <2>1. sandbox # "clean"
    BY <1>0, <1>1, OnlyCleanup
  <2>2. CASE sandbox = "cleaning"
    <3>1. \A q \in Requests \ {r} : pc'[q] = "idle"
      BY <1>0, <1>1, <1>2, <2>2, OnlyCleanup
    <3>2. Evicted({})'
      BY <1>0, <1>1, <2>2 DEF CleanInv, Evicted
    <3>3. \A p, q \in Requests : pc'[p] # "idle" /\ pc'[q] # "idle" => p = q
      BY <3>1
    <3> QED
      BY <1>0, <1>1, <1>2, <2>2, <3>1, <3>2, <3>3 DEF CleanInv
  <2>3. CASE sandbox # "cleaning"
    BY <1>0, <1>1, <2>1, <2>3, UsedIsClean DEF SandboxTypes
  <2> QED
    BY <2>2, <2>3
<1>4. /\ saving' \cup users' \cup docs' \cup index' \subseteq injected
      /\ \A b \in timers' \cup bulks' : b \subseteq injected
      /\ cache' \in [Counts -> {NoEntry} \cup SUBSET injected]
      /\ sandbox' \in {"used", "cleaning", "clean"}
  BY <1>0, <1>1 DEF SandboxTypes
<1> QED
  BY <1>1, <1>2, <1>3, <1>4, RequestStep

\* DeleteIndex keeps the invariant.
LEMMA DeleteIndexInv ==
  ASSUME IInv, NEW r \in Requests, DeleteIndex(r)
  PROVE  IInv'
<1>0. TeamInv /\ SandboxTypes /\ CleanInv
  BY DEF IInv
<1>1. /\ pc[r] = "deleteIndex" /\ index' = {} /\ Continue(r, NoJob, "idle")
      /\ sandbox' = IF sandbox = "cleaning" THEN "clean" ELSE sandbox
      /\ UNCHANGED <<teamVars, queue, injected, saving, users, docs, timers, bulks, cache>>
  BY DEF DeleteIndex
<1>2. /\ pc' \in [Requests -> PC] /\ job' \in [Requests -> Job(injected)]
      /\ pc'[r] = "idle"
      /\ \A q \in Requests \ {r} : pc'[q] = pc[q]
  BY <1>0, <1>1, NoJobTyped, ContinueMoves DEF PC
<1>3. CleanInv'
  <2>1. sandbox # "clean"
    BY <1>0, <1>1, OnlyCleanup
  <2>2. CASE sandbox = "cleaning"
    <3>1. \A q \in Requests : pc'[q] = "idle"
      BY <1>0, <1>1, <1>2, <2>2, OnlyCleanup
    <3>2. docs = {} /\ Evicted({})'
      BY <1>0, <1>1, <2>2 DEF CleanInv, Evicted
    <3> QED
      BY <1>0, <1>1, <2>2, <3>1, <3>2 DEF CleanInv
  <2>3. CASE sandbox # "cleaning"
    BY <1>0, <1>1, <2>1, <2>3, UsedIsClean DEF SandboxTypes
  <2> QED
    BY <2>2, <2>3
<1>4. /\ saving' \cup users' \cup docs' \cup index' \subseteq injected
      /\ \A b \in timers' \cup bulks' : b \subseteq injected
      /\ cache' \in [Counts -> {NoEntry} \cup SUBSET injected]
      /\ sandbox' \in {"used", "cleaning", "clean"}
  BY <1>0, <1>1 DEF SandboxTypes
<1> QED
  BY <1>1, <1>2, <1>3, <1>4, RequestStep

\* A call fails, or the process dies.
LEMMA FailInv ==
  ASSUME IInv, NEW r \in Requests, Fail(r)
  PROVE  IInv'
<1>0. SandboxTypes
  BY DEF IInv
<1>1. /\ Continue(r, NoJob, "idle") /\ sandbox' = "used"
      /\ UNCHANGED <<teamVars, queue, injected, saving, users, docs, timers, bulks, index, cache>>
  BY DEF Fail, storeVars
<1>2. pc' \in [Requests -> PC] /\ job' \in [Requests -> Job(injected)]
  BY <1>0, <1>1, NoJobTyped, ContinueMoves DEF PC
<1>3. /\ saving' \cup users' \cup docs' \cup index' \subseteq injected
      /\ \A b \in timers' \cup bulks' : b \subseteq injected
      /\ cache' \in [Counts -> {NoEntry} \cup SUBSET injected]
      /\ sandbox' \in {"used", "cleaning", "clean"}
  BY <1>0, <1>1 DEF SandboxTypes
<1> QED
  BY <1>1, <1>2, <1>3, UsedIsClean, RequestStep

\* Restart keeps the invariant.
LEMMA RestartInv ==
  ASSUME IInv, Restart
  PROVE  IInv'
<1>0. TeamInv /\ SandboxTypes /\ CleanInv
  BY DEF IInv
<1>1. TeamInv'
  BY <1>0 DEF TeamInv, TeamsSearchableOrLost, Restart
<1>2. SandboxTypes'
  <2>1. pc' \in [Requests -> PC] /\ job' \in [Requests -> Job(injected)]
    BY NoJobTyped DEF Restart, PC
  <2>2. /\ saving' \cup users' \cup docs' \cup index' \subseteq injected
        /\ timers' = {} /\ bulks' = {} /\ UNCHANGED <<injected, cache, queue>>
        /\ sandbox' \in {"used", "cleaning", "clean"}
    BY <1>0 DEF SandboxTypes, Restart
  <2> QED
    BY <1>0, <2>1, <2>2 DEF SandboxTypes
<1>3. CleanInv'
  <2>1. \A r \in Requests : pc'[r] = "idle"
    BY DEF Restart
  <2>2. CASE sandbox' = "used"
    BY <2>2, UsedIsClean
  <2>3. CASE sandbox' = "cleaning"
    BY <1>0, <2>1, <2>3 DEF CleanInv, Restart
  <2>4. CASE sandbox' = "clean"
    BY <1>0, <2>1, <2>4 DEF CleanInv, Evicted, Restart
  <2> QED
    BY <1>2, <2>2, <2>3, <2>4 DEF SandboxTypes
<1> QED
  BY <1>1, <1>2, <1>3 DEF IInv

\* Every step keeps the invariant.
LEMMA NextInv == IInv /\ [Next]_vars => IInv'
<1> SUFFICES ASSUME IInv, [Next]_vars PROVE IInv'
  OBVIOUS
<1>1. CASE \E t \in TeamIds : SaveTeam(t) \/ LeaveTeam(t) \/ TeamSync(t)
  BY <1>1, TeamStepInv
<1>2. CASE Deliver
  BY <1>2, DeliverInv
<1>3. CASE \E r \in Requests : SimulationController(r)
  BY <1>3, InjectMessagesInv, InjectRowsInv, FetchInv, CleanupInv DEF SimulationController
<1>4. CASE \E r \in Requests : Settle(r)
  BY <1>4, SaveRowsInv, InsertDocsInv, FetchInv, DeleteKeyInv, DeleteDocsInv, DeleteIndexInv, FailInv
  DEF Settle
<1>5. CASE \/ \E batch \in timers : FireTimer(batch)
           \/ \E batch \in bulks : IndexBulk(batch)
  BY <1>5, FireTimerInv, IndexBulkInv
<1>6. CASE \E u \in SandboxIds : SaveSandboxUser(u)
  BY <1>6, SaveSandboxUserInv
<1>7. CASE \E n \in Counts : Expire(n)
  BY <1>7, ExpireInv
<1>8. CASE Restart
  BY <1>8, RestartInv
<1>9. CASE RestartBroker
  BY <1>9, RestartBrokerInv
<1>10. CASE UNCHANGED vars
  <2>1. UNCHANGED <<teamVars, queue, storeVars, requestVars>>
    BY <1>10 DEF vars
  <2> QED
    BY <2>1, TeamsStand, SandboxStands DEF IInv
<1> QED
  BY <1>1, <1>2, <1>3, <1>4, <1>5, <1>6, <1>7, <1>8, <1>9, <1>10 DEF Next

----------------------------------------------------------------------------
\* The inductive invariant holds in every reachable state.
THEOREM Invariance == Spec => []IInv
BY InitInv, NextInv, PTL DEF Spec

\* The variables keep their types: no row, document, index entry or cache entry
\* of the sandbox names a user that was not injected.
THEOREM TypeCorrect == Spec => []TypeOK
<1>1. IInv => TypeOK
  <2> SUFFICES ASSUME TeamInv, SandboxTypes PROVE TypeOK
    BY DEF IInv
  <2>1. \A r \in Requests : job[r].keys \subseteq Counts /\ job[r].count \in Counts
    BY JobTyped, WorkersAssumption DEF Counts
  <2>2. saving \cup users \cup docs \cup index \cup UNION (timers \cup bulks) \subseteq injected
    BY DEF SandboxTypes
  <2>3. \A n \in Counts : cache[n] # NoEntry => cache[n] \subseteq injected
    BY DEF SandboxTypes
  <2> QED
    BY <2>1, <2>2, <2>3 DEF TypeOK, TeamInv, SandboxTypes
<1> QED
  BY Invariance, <1>1, PTL

\* A team that is stored is in the search index, or being published, queued or
\* indexed, unless a failure or a restart cut its way off: CreateTeamUseCase,
\* the queue and TeamSyncWorker lose no team by themselves.
THEOREM TeamsSearchable == Spec => []TeamsSearchableOrLost
<1>1. IInv => TeamsSearchableOrLost
  BY DEF IInv, TeamInv
<1> QED
  BY Invariance, <1>1, PTL

\* SimulationService.cleanup(), begun when nothing of the sandbox was on its way
\* and not overlapped, leaves rows, documents, index and the known keys empty,
\* and they stay empty until the sandbox is used again.
THEOREM CleanIsEmpty == Spec => []CleanSandboxIsEmpty
<1>1. IInv => CleanSandboxIsEmpty
  BY DEF IInv, CleanInv, CleanSandboxIsEmpty, Evicted
<1> QED
  BY Invariance, <1>1, PTL
=============================================================================
