------------------------------ MODULE Workers -------------------------------
(***************************************************************************)
(* The queue pf_main_queue and what hangs on it: teams find their way into *)
(* the search index by a message, and the sandbox of SimulationService is  *)
(* filled by messages too, while it is read through a cache and cleaned up *)
(* by hand.  Producers and the two workers run in one process.             *)
(*                                                                         *)
(* Messages are not persistent and the consumer does not acknowledge: they *)
(* are delivered at most once.  Everything after a delivery is in memory.  *)
(***************************************************************************)
EXTENDS Naturals, FiniteSets, SequencesExt

CONSTANTS
  TeamIds,     \* ids of the teams that will be created; never used twice
  SandboxIds,  \* ids of the users that will be injected; never used twice
  Requests,    \* requests to SimulationController in flight at a time
  KnownCounts, \* the counts whose keys cleanup() deletes; 0 is 'empty'
  NoEntry      \* the cache has no entry under a key

ASSUME WorkersAssumption ==
  /\ IsFiniteSet(SandboxIds)
  /\ KnownCounts \subseteq 0..Cardinality(SandboxIds)

VARIABLES
  teams,       \* "absent", "stored" or "gone", for each team
  creating,    \* teams whose CreateTeamUseCase has saved but not published
  queue,       \* pf_main_queue
  indexing,    \* teams being sent to Elasticsearch
  teamIndex,   \* the index 'teams'
  lost,        \* history: teams whose way into the index a failure cut off
  injected,    \* ids given to users of the sandbox so far
  saving,      \* users of the sandbox SandboxWorker is saving
  users,       \* the rows with institution 'SANDBOX_SIMULATION'
  docs,        \* the audit documents in MongoDB
  timers,      \* batches whose timer has not fired
  bulks,       \* batches being sent to Elasticsearch
  index,       \* the index 'sandbox_users'
  cache,       \* entries sandbox_users_fetch_<count>
  pc,          \* the await each request stands at
  job,         \* what each request holds in memory
  sandbox      \* history: "used", "cleaning" undisturbed, or "clean" since

teamVars == <<teams, creating, indexing, teamIndex, lost>>
storeVars == <<injected, saving, users, docs, timers, bulks, index, cache>>
requestVars == <<pc, job, sandbox>>
vars == <<teamVars, queue, storeVars, requestVars>>

----------------------------------------------------------------------------
TeamCreated(t) == [pattern |-> "team.created", id |-> t]
SandboxInsert(u) == [pattern |-> "simulation.sandbox_insert", id |-> u]

Message == {TeamCreated(t) : t \in TeamIds} \cup {SandboxInsert(u) : u \in SandboxIds}

Counts == 0..Cardinality(SandboxIds)

\* A request: its batch and whether it is logged, the count and the rows it
\* read, the keys still to be deleted.
NoJob == [batch |-> {}, useMongoDB |-> FALSE, count |-> 0, data |-> {}, keys |-> {}]

PC == {"idle", "rows", "docs", "get", "find", "set", "keys", "deleteDocs", "deleteIndex"}

Init ==
  /\ teams = [t \in TeamIds |-> "absent"]
  /\ creating = {} /\ indexing = {} /\ teamIndex = {} /\ lost = {}
  /\ queue = <<>>
  /\ injected = {} /\ saving = {} /\ users = {} /\ docs = {}
  /\ timers = {} /\ bulks = {} /\ index = {}
  /\ cache = [n \in Counts |-> NoEntry]
  /\ pc = [r \in Requests |-> "idle"]
  /\ job = [r \in Requests |-> NoJob]
  /\ sandbox = "used"

----------------------------------------------------------------------------
\* CreateTeamUseCase: the team is saved.
SaveTeam(t) ==
  /\ teams[t] = "absent"
  /\ teams' = [teams EXCEPT ![t] = "stored"]
  /\ creating' = creating \cup {t}
  /\ UNCHANGED <<indexing, teamIndex, lost, queue, storeVars, requestVars>>

\* Mutant of PublishTeam: the message is emitted when the team is first.
PublishFirst(t) ==
  /\ t \in creating
  /\ creating' = creating \ {t}
  /\ queue' = IF teams[t] = "stored" /\ queue = <<>> THEN <<TeamCreated(t)>> ELSE queue
  /\ UNCHANGED <<teams, indexing, teamIndex, lost, storeVars, requestVars>>

\* It is loaded again and published, if it is still there.
PublishTeam(t) ==
  /\ t \in creating
  /\ creating' = creating \ {t}
  /\ queue' = IF teams[t] = "stored" THEN Append(queue, TeamCreated(t)) ELSE queue
  /\ UNCHANGED <<teams, indexing, teamIndex, lost, storeVars, requestVars>>

\* Loading fails, or the broker cannot be reached: nobody waits for emit().
FailToPublish(t) ==
  /\ t \in creating
  /\ creating' = creating \ {t}
  /\ lost' = lost \cup {t}
  /\ UNCHANGED <<teams, indexing, teamIndex, queue, storeVars, requestVars>>

\* LeaveTeamUseCase: the row is deleted, its document is not.
LeaveTeam(t) ==
  /\ teams[t] = "stored"
  /\ teams' = [teams EXCEPT ![t] = "gone"]
  /\ UNCHANGED <<creating, indexing, teamIndex, lost, queue, storeVars, requestVars>>

\* Mutant of HandleTeamCreated: the message stays until the document is there.
HandleWhenIndexed ==
  /\ queue # <<>>
  /\ Head(queue).pattern = "team.created"
  /\ Head(queue).id \in teamIndex
  /\ queue' = Tail(queue)
  /\ UNCHANGED <<teamVars, storeVars, requestVars>>

\* TeamSyncWorker, fed the next message: indexDocument is not waited for.
HandleTeamCreated ==
  /\ queue # <<>>
  /\ Head(queue).pattern = "team.created"
  /\ queue' = Tail(queue)
  /\ indexing' = indexing \cup {Head(queue).id}
  /\ UNCHANGED <<teams, creating, teamIndex, lost, storeVars, requestVars>>

\* Elasticsearch has it.
IndexDocument(t) ==
  /\ t \in indexing
  /\ indexing' = indexing \ {t}
  /\ teamIndex' = teamIndex \cup {t}
  /\ UNCHANGED <<teams, creating, lost, queue, storeVars, requestVars>>

\* The call is rejected and the error logged.
FailToIndex(t) ==
  /\ t \in indexing
  /\ indexing' = indexing \ {t}
  /\ lost' = lost \cup {t}
  /\ UNCHANGED <<teams, creating, teamIndex, queue, storeVars, requestVars>>

----------------------------------------------------------------------------
cleaning == \E r \in Requests : pc[r] \in {"keys", "deleteDocs", "deleteIndex"}

\* Nothing else of the sandbox is on the way.
calm ==
  /\ \A r \in Requests : pc[r] = "idle"
  /\ \A i \in DOMAIN queue : queue[i].pattern # "simulation.sandbox_insert"
  /\ saving = {} /\ timers = {} /\ bulks = {}

\* Request r goes on to `where` with j in memory.
Continue(r, j, where) ==
  /\ pc' = [pc EXCEPT ![r] = where]
  /\ job' = [job EXCEPT ![r] = j]

\* injectData with useRabbitMQ: one message per user, then the audit trail;
\* the timer is set last.
InjectMessages(r, batch, useMongoDB) ==
  /\ pc[r] = "idle"
  /\ injected' = injected \cup batch
  /\ queue' = queue \o SetToSeq({SandboxInsert(u) : u \in batch})
  /\ sandbox' = "used"
  /\ IF useMongoDB
     THEN /\ Continue(r, [NoJob EXCEPT !.batch = batch], "docs")
          /\ UNCHANGED timers
     ELSE /\ timers' = timers \cup {batch}
          /\ UNCHANGED <<pc, job>>
  /\ UNCHANGED <<teamVars, saving, users, docs, bulks, index, cache>>

\* injectData without it ...
InjectRows(r, batch, useMongoDB) ==
  /\ pc[r] = "idle"
  /\ injected' = injected \cup batch
  /\ sandbox' = "used"
  /\ Continue(r, [NoJob EXCEPT !.batch = batch, !.useMongoDB = useMongoDB], "rows")
  /\ UNCHANGED <<teamVars, queue, saving, users, docs, timers, bulks, index, cache>>

\* ... saves the rows in one transaction.
SaveRows(r) ==
  /\ pc[r] = "rows"
  /\ users' = users \cup job[r].batch
  /\ IF job[r].useMongoDB
     THEN Continue(r, job[r], "docs") /\ UNCHANGED timers
     ELSE Continue(r, NoJob, "idle") /\ timers' = timers \cup {job[r].batch}
  /\ UNCHANGED <<teamVars, queue, injected, saving, docs, bulks, index, cache, sandbox>>

\* The audit trail is written and the timer set.
InsertDocs(r) ==
  /\ pc[r] = "docs"
  /\ docs' = docs \cup job[r].batch
  /\ timers' = timers \cup {job[r].batch}
  /\ Continue(r, NoJob, "idle")
  /\ UNCHANGED <<teamVars, queue, injected, saving, users, bulks, index, cache, sandbox>>

\* The timer fires: the bulk request of the batch is sent ...
FireTimer(batch) ==
  /\ batch \in timers
  /\ timers' = timers \ {batch}
  /\ bulks' = bulks \cup {batch}
  /\ UNCHANGED <<teamVars, queue, injected, saving, users, docs, index, cache, requestVars>>

\* ... and Elasticsearch indexes it, creating the index if there is none, or the
\* error is ignored.
IndexBulk(batch) ==
  /\ batch \in bulks
  /\ bulks' = bulks \ {batch}
  /\ index' \in {index, index \cup batch}
  /\ UNCHANGED <<teamVars, queue, injected, saving, users, docs, timers, cache, requestVars>>

\* Mutant of HandleSandboxInsert: the pattern of the message is not looked at.
HandleAnything ==
  /\ queue # <<>>
  /\ queue' = Tail(queue)
  /\ saving' = saving \cup {Head(queue).id}
  /\ UNCHANGED <<teamVars, injected, users, docs, timers, bulks, index, cache, requestVars>>

\* SandboxWorker, fed the next message.
HandleSandboxInsert ==
  /\ queue # <<>>
  /\ Head(queue).pattern = "simulation.sandbox_insert"
  /\ queue' = Tail(queue)
  /\ saving' = saving \cup {Head(queue).id}
  /\ UNCHANGED <<teamVars, injected, users, docs, timers, bulks, index, cache, requestVars>>

\* The row is saved, or the error logged.
SaveSandboxUser(u) ==
  /\ u \in saving
  /\ saving' = saving \ {u}
  /\ users' \in {users, users \cup {u}}
  /\ UNCHANGED <<teamVars, queue, injected, docs, timers, bulks, index, cache, requestVars>>

\* runSimulation with useRedis: the users are counted ...
Count(r) ==
  /\ pc[r] = "idle"
  /\ Continue(r, [NoJob EXCEPT !.count = Cardinality(users)], "get")
  /\ sandbox' = "used"
  /\ UNCHANGED <<teamVars, queue, storeVars>>

\* ... the entry under that count looked up ...
Get(r) ==
  /\ pc[r] = "get"
  /\ IF cache[job[r].count] = NoEntry
     THEN Continue(r, job[r], "find")
     ELSE Continue(r, NoJob, "idle")
  /\ UNCHANGED <<teamVars, queue, storeVars, sandbox>>

\* ... on a miss the rows are read ...
Find(r) ==
  /\ pc[r] = "find"
  /\ Continue(r, [job[r] EXCEPT !.data = users], "set")
  /\ UNCHANGED <<teamVars, queue, storeVars, sandbox>>

\* ... and stored under the count.
Store(r) ==
  /\ pc[r] = "set"
  /\ cache' = [cache EXCEPT ![job[r].count] = job[r].data]
  /\ Continue(r, NoJob, "idle")
  /\ UNCHANGED <<teamVars, queue, injected, saving, users, docs, timers, bulks, index, sandbox>>

\* Mutant of Expire: the entries get no TTL.
NeverExpire(n) == FALSE /\ UNCHANGED vars

\* The TTL of an entry, 60000, has passed.
Expire(n) ==
  /\ cache[n] # NoEntry
  /\ cache' = [cache EXCEPT ![n] = NoEntry]
  /\ UNCHANGED <<teamVars, queue, injected, saving, users, docs, timers, bulks, index, requestVars>>

\* cleanup(): the rows are deleted ...
Cleanup(r) ==
  /\ pc[r] = "idle"
  /\ users' = {}
  /\ Continue(r, [NoJob EXCEPT !.keys = KnownCounts], "keys")
  /\ sandbox' = IF calm THEN "cleaning" ELSE "used"
  /\ UNCHANGED <<teamVars, queue, injected, saving, docs, timers, bulks, index, cache>>

\* ... the keys one after the other ...
DeleteKey(r, n) ==
  /\ pc[r] = "keys"
  /\ n \in job[r].keys
  /\ cache' = [cache EXCEPT ![n] = NoEntry]
  /\ Continue(r, [job[r] EXCEPT !.keys = @ \ {n}],
              IF job[r].keys = {n} THEN "deleteDocs" ELSE "keys")
  /\ UNCHANGED <<teamVars, queue, injected, saving, users, docs, timers, bulks, index, sandbox>>

\* ... the audit trail ...
DeleteDocs(r) ==
  /\ pc[r] = "deleteDocs"
  /\ docs' = {}
  /\ Continue(r, NoJob, "deleteIndex")
  /\ UNCHANGED <<teamVars, queue, injected, saving, users, timers, bulks, index, cache, sandbox>>

\* Mutant of DeleteIndex: the index is left to the next bulk request.
LeaveIndex(r) ==
  /\ pc[r] = "deleteIndex"
  /\ Continue(r, NoJob, "idle")
  /\ sandbox' = IF sandbox = "cleaning" THEN "clean" ELSE sandbox
  /\ UNCHANGED <<teamVars, queue, storeVars>>

\* ... and the index.
DeleteIndex(r) ==
  /\ pc[r] = "deleteIndex"
  /\ index' = {}
  /\ Continue(r, NoJob, "idle")
  /\ sandbox' = IF sandbox = "cleaning" THEN "clean" ELSE sandbox
  /\ UNCHANGED <<teamVars, queue, injected, saving, users, docs, timers, bulks, cache>>

\* A call fails.  Deleting the index may fail without an answer of 500.
Fail(r) ==
  /\ pc[r] # "idle"
  /\ Continue(r, NoJob, "idle")
  /\ sandbox' = "used"
  /\ UNCHANGED <<teamVars, queue, storeVars>>

----------------------------------------------------------------------------
\* The process dies and is started again.  By then the stores have carried out
\* what it had sent to them, or they never will.
Restart ==
  /\ creating' = {} /\ indexing' = {} /\ saving' = {} /\ timers' = {} /\ bulks' = {}
  /\ lost' = lost \cup creating \cup indexing
  /\ pc' = [r \in Requests |-> "idle"]
  /\ job' = [r \in Requests |-> NoJob]
  /\ sandbox' = IF cleaning THEN "used" ELSE sandbox
  /\ UNCHANGED <<teams, teamIndex, queue, injected, users, docs, index, cache>>

\* The broker restarts: the durable queue comes back without its messages.
RestartBroker ==
  /\ queue # <<>>
  /\ queue' = <<>>
  /\ lost' = lost \cup {t \in TeamIds : TeamCreated(t) \in ToSet(queue)}
  /\ UNCHANGED <<teams, creating, indexing, teamIndex, storeVars, requestVars>>

TeamSync(t) == PublishTeam(t) \/ FailToPublish(t) \/ IndexDocument(t) \/ FailToIndex(t)

Deliver == HandleTeamCreated \/ HandleSandboxInsert

SimulationController(r) ==
  \/ \E batch \in (SUBSET (SandboxIds \ injected)) \ {{}}, useMongoDB \in BOOLEAN :
       InjectMessages(r, batch, useMongoDB) \/ InjectRows(r, batch, useMongoDB)
  \/ Count(r)
  \/ Cleanup(r)

Settle(r) ==
  \/ SaveRows(r) \/ InsertDocs(r)
  \/ Get(r) \/ Find(r) \/ Store(r)
  \/ \E n \in Counts : DeleteKey(r, n)
  \/ DeleteDocs(r) \/ DeleteIndex(r)
  \/ Fail(r)

Next ==
  \/ \E t \in TeamIds : SaveTeam(t) \/ LeaveTeam(t) \/ TeamSync(t)
  \/ Deliver
  \/ \E r \in Requests : SimulationController(r) \/ Settle(r)
  \/ \E batch \in timers : FireTimer(batch)
  \/ \E batch \in bulks : IndexBulk(batch)
  \/ \E u \in SandboxIds : SaveSandboxUser(u)
  \/ \E n \in Counts : Expire(n)
  \/ Restart
  \/ RestartBroker

\* The broker delivers to the consumer, a team's await settles, and the cache
\* drops an entry when its TTL has passed.  Requests to the sandbox may hang.
Fairness ==
  /\ WF_vars(Deliver)
  /\ \A t \in TeamIds : WF_vars(TeamSync(t))
  /\ \A n \in Counts : WF_vars(Expire(n))

Spec == Init /\ [][Next]_vars /\ Fairness

----------------------------------------------------------------------------
\* The variables keep their types.
TypeOK ==
  /\ teams \in [TeamIds -> {"absent", "stored", "gone"}]
  /\ creating \cup indexing \cup teamIndex \cup lost \subseteq TeamIds
  /\ queue \in Seq(Message)
  /\ saving \cup users \cup docs \cup index \cup UNION (timers \cup bulks) \subseteq injected
  /\ injected \subseteq SandboxIds
  /\ \A n \in Counts : cache[n] # NoEntry => cache[n] \subseteq injected
  /\ pc \in [Requests -> PC]
  /\ \A r \in Requests : job[r].keys \subseteq Counts /\ job[r].count \in Counts
  /\ sandbox \in {"used", "cleaning", "clean"}

\* A stored team is in the search index or on its way there: being published,
\* queued, being indexed.  Only a failure in between, which nobody is told of
\* and nothing repairs, leaves it out.
TeamsSearchableOrLost ==
  \A t \in TeamIds : teams[t] = "stored" =>
    t \in creating \cup indexing \cup teamIndex \cup lost \/ TeamCreated(t) \in ToSet(queue)

\* ... and it does arrive: each stored team is found by SearchTeamsUseCase
\* sooner or later, unless it is disbanded or lost.
TeamsBecomeSearchable ==
  \A t \in TeamIds : teams[t] = "stored" ~> (t \in teamIndex \cup lost \/ teams[t] = "gone")

\* "cleaned up safely": a cleanup that nothing of the sandbox overlapped, no
\* message still queued, no timer and no INSERT or bulk request on its way,
\* leaves nothing in any of the four stores but entries under counts other than
\* the known ones; and so it stays.
CleanSandboxIsEmpty ==
  sandbox = "clean" =>
    /\ users = {} /\ docs = {} /\ index = {}
    /\ \A n \in KnownCounts : cache[n] = NoEntry

\* The key is a count, so the users of an earlier injection may be shown for
\* as many later ones, but not for good.
FetchCatchesUp == <>[](\A n \in Counts : cache[n] \in {NoEntry, users})
=============================================================================
