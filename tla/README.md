# Formal model of pf-backend

TLA+ models of the festival backend (NestJS, TypeORM on MySQL, RabbitMQ,
Elasticsearch, Mongo, Redis), checked with TLC, with theorems proved with TLAPS.
Paths below are relative to `src/src/modules/`.

## 1. The system

One Node.js process serves HTTP requests. A handler runs from one `await` to the
next without interruption, and any number of handlers stand at their awaits at
once; several processes may share the database. No use case opens a transaction
or takes a lock. What is atomic is one statement, and the transaction that
`repository.save` opens for itself. What MySQL enforces is the unique indexes, the
foreign keys with their cascades, and NOT NULL. That makes *read, check, write at
separate awaits* the shape of every operation, and its interleavings the subject
of these models.

### Inventory

| Component | State | Operations that change it | Interacts with | What is hard | What makes it correct |
|---|---|---|---|---|---|
| Registrations: payment and award (`festival/registrations`) | `competition_registrations.status`, `.championTitle`; `payment_attempts` | upload proof, verify (approve/reject), set champion | storage (upload), notifications | `save` of an entity loaded long before; cascade on attempts; decisions that overlap | status agrees with the proofs; a proof enters only when one is awaited; requests of one role leave the other role's columns alone |
| Registrations: registering (`register-competition.use-case.ts`) | `competition_registrations` | register a user or a team | competitions, teams | quota and duplicate counted before the insert, members added later | at most 3 active competitions per user, one registration per competition and participant |
| Teams (`festival/teams`) | `teams`, `team_members` | create, add member, disband | registrations, users, broker, audit log | checks before writes, cascades, re-insert by `save` | capacity 3, one team per user, a registered team stays |
| Team search index (`system/workers`, `system/search`) | queue `pf_main_queue`, Elasticsearch index `teams` | index on `team.created` | teams over RabbitMQ | at-most-once delivery, indexing nobody waits for, no removal | a stored team becomes searchable, or a failure is to blame |
| Submissions (`festival/submissions`) | `submissions` | create, delete | storage, registrations, notifications | files before checks, delete in two steps | one submission per registration; a row has its file |
| Storage (`shared/storage`) | object store, `stored_files` | upload, delete | submissions, registrations | two stores without a transaction | a row has its object unless its deletion began |
| Notifications (`shared/notifications`) | `notifications`, map user -> sockets | send, send to roles, mark read, connect, disconnect | every use case that notifies | loop over recipients that may fail half-way | everyone concerned is told; the map holds exactly the live sockets |
| Accounts (`identity/auth`) | `users`: isActive, isEmailVerified, OTP columns, password | register, verify e-mail, forgot/reset password, login, logout | mail | create then deactivate, expiry, double use of a code, tokens that outlive what they were issued for | an account is created once, waits for its code, stays usable; a code works once |
| Users (`identity/users`) | `users`: profile, avatar, role | update profile, avatar, create committee account, seed admin | auth | check-then-insert of the e-mail | one account per e-mail |
| Competitions (`festival/competitions`) | `competitions`, `competition_waves` | create, import, update, update wave, soft-delete | registrations, two HTTP caches | DTOs with initial values, cascaded save of loaded waves, import without uniqueness, caches filled behind an invalidation | an update writes what was asked for; updates of different rows do not undo each other; readers catch up |
| Tokens and guards (`identity/auth`) | none (JWT) | - | every controller | role of the token is the role at login | - |
| Mail, audit log, health, logger, filters, configuration | none that is read back | - | - | - | - |
| Simulation sandbox (`system/simulation`) | sandbox users, audit documents, index `sandbox_users`, cached fetches | inject, run, clean up | broker, search | messages, a timer and a bulk request behind a cleanup, cache key by count | an undisturbed cleanup leaves nothing |

`PROJECT.json` lists the same components with their files, and every hazard at its
line with the properties that cover it, or why none does.

## 2. What is modelled

Each module has a comment on every definition; `PROJECT.json` "map" ties
definitions to lines.

| Module | Models | Kind |
|---|---|---|
| `TypeOrm` | what `save` writes: the columns in which the entity differs from the row as *re-read by save* | operators, external |
| `Payments` | one registration after it was created: proofs, decisions, titles | state machine |
| `Lifecycle` | what a registration promises to others whatever overlaps | abstract specification |
| `Teams` | teams, members, disbanding, and registering as far as a team notices | state machine |
| `Enrolment` | registering for a competition: uniqueness, quota, team size | state machine |
| `Accounts` | the row of one e-mail address, its codes, its tokens | state machine |
| `Account` | what an account promises to others whatever overlaps | abstract specification |
| `Storage` | the object store and `stored_files`, the effect of each await | operators on its variables |
| `Submissions` | one registration's submission and the files behind it, on `Storage` | state machine |
| `Notifications` | rows, read marks, senders, the gateway's map and the devices | state machine |
| `Catalogue` | competitions, waves and the two HTTP caches, on `TypeOrm` | state machine |
| `Workers` | the queue, the team index and the sandbox | state machine with fairness |
| `MCPayments`, `MCTeams`, `MCEnrolment` | instances for TLC (symmetry, institutions, sizes) | model checking |
| `MCPlatform` | extends `Accounts` and instantiates `Submissions` and `Notifications` beside it | model checking |
| `MCCatalogue` | instances of `Catalogue` read through the list | model checking |
| `MCReadModels` | extends `Workers` and instantiates `Catalogue` beside it | model checking |
| `PaymentsProofs`, `TeamsProofs`, `EnrolmentProofs`, `SubmissionsProofs`, `NotificationsProofs`, `CatalogueProofs`, `WorkersProofs` | theorems about a component and their proofs | TLAPS |
| `AccountsProofs` | the same, and that the theorems about the components `MCPlatform` instantiates hold of the run that composes them | TLAPS |

`Submissions`, `Notifications` and `Catalogue` name their type invariant after the
module (`SubmissionsTypeOK` and so on): each is instantiated by a run beside another
component with its own `TypeOK`. Assumptions on constants only say what a bound or a
distinguished value is: `StorageAssumption` that `MAX_FILES` is a natural number,
`CatalogueAssumption` that the empty name is a name, `WorkersAssumption` that the
users ever injected are finitely many and that no client knows a count larger than
their number.

**Unless overtaken.** `current[r]`, in every module whose requests overlap on rows, is
a history variable and no part of the code: it is true while no other request has
written since `r` began. It lets a property tell what a race can cause from what a
handler causes on its own: a property `...UnlessOvertaken` (and `ChecksHold`,
`ConflictOnlyWhenOvertaken`) is checked while requests overlap and excuses only the
step of a request during which another one wrote. With one request it is the plain
promise of the code; with more it says that nothing but such a write breaks it.

### Payments

`registration`, `attempts`, `uploads` are the rows; `entity[r]` is the entity that
request `r` loaded and mutated, `changes[r]` the columns its `save` is about to
write; `pc[r]` names the await it stands at.

| Action | Code (`festival/registrations`) |
|---|---|
| `UploadPaymentProof`, `StoreProof` | `upload-payment-proof.use-case.ts`: load and checks; after the file is stored, push the attempt and set the status |
| `VerifyPayment` (`Decided`) | `verify-payment.use-case.ts`: load, checks, decide the latest attempt |
| `SetChampion` | `set-champion.use-case.ts` |
| `SaveReload`, `SaveRefused`, `SaveCommit` | `registration.repository.ts` `save`: re-read and compare; the roll-back when an attempt it did not load would have to be detached; the transaction |
| `NotifyStaff`, `NotifyParticipant`, `NotifyAdmin` | the awaits on the notifications service after the save |
| `Fail` | any await rejects, or the process dies: nothing more of the handler runs and nothing is undone |

Not in the state: ownership (`assertCanManageProof`) and the note of a rejection,
which concern the input of one request; who verified and when, written together
with the attempt's status; the file. `uploadedAt` is taken to order attempts as
their inserts committed.

### Teams

`teams`, `members` and `enrolled` are the rows of `teams`, `team_members` and the
references from `competition_registrations`; `published` the teams handed to the
broker; `job[r]` what request `r` holds in memory. A step is a `Continue` of its
request or a `Write`, which overtakes the others that are running.

| Action | Code (`festival/teams`) |
|---|---|
| `CreateTeam`, `CheckName`, `InsertTeam`, `AnnounceTeam` | `create-team.use-case.ts`, one action per await |
| `AddMember`, `CheckCandidate` (`validateNewMember`) | `add-member.use-case.ts`, `team-domain.service.ts` |
| `SaveReload`, `SaveCommit` | `team.repository.ts` `save` of the team with its members |
| `LeaveTeam`, `CheckRegistrations`, `DeleteTeam` | `leave-team.use-case.ts`; the delete cascades to members and registrations |
| `RegisterTeam`, `InsertRegistration` | `register-competition.use-case.ts` lines 118-159, the part a team notices |
| `Fail` | as above; also a check after an await that refuses |

`findByUserId` is a set: the query joins leader and member and `getOne` takes any
match. `save` of a team that was deleted meanwhile inserts the team and its loaded
members again (`reborn`). Not in the state: a user's later change of institution
(teams keep the institution their leader had) and deletion of users, which no use
case does.

### Enrolment

`status` says for each possible registration (a competition with a user or with a
team) whether there is a row and whether the quota counts it; `members` is
`team_members`. `job[r]` is what the handler holds between awaits.

| Action | Code |
|---|---|
| `Register` | `register-competition.use-case.ts` 49-89: type of competition, duplicate check |
| `CheckOwnQuota` | 109-118: quota of the one who asks |
| `LoadTeam` | 118-136: the team, its leader, its size |
| `CheckMemberQuota` | 138-143: the quota of one more member, an await each |
| `InsertRegistration` | 145-182: the insert under the two unique indexes |
| `Decide` | `verify-payment.use-case.ts`, the step in which its save commits (in full in `Payments`) |
| `JoinTeam` | `add-member.use-case.ts`, the step in which its save commits (in full in `Teams`) |
| `Fail` | a check refuses, the database refuses or fails, the process dies |

Statuses are what the quota tells apart: every status but REJECTED is active.
`Decide` and `JoinTeam` may happen in more states than the code lets them (a team
may grow past three, a member may lead another team, both of which `Teams` shows
races to reach or nearly reach), so what is proved holds for the code's behaviours
too. The wave's dates, read once from the clock, are left out: it is open. Teams
are not disbanded here; `Teams` has the race of disbanding with registering.

### Accounts

`user` is the row of one address; rows are never deleted and `email` is unique, so
one address is the whole system. `drawn` numbers the codes as they are drawn,
`inbox` holds those that were mailed, `token` says that somebody holds a valid
token; `redeemed` collects the codes that were used up. Equal codes, one chance in 900 000, are not modelled.

| Action | Code (`identity`) |
|---|---|
| `Register`, `InsertUser` | `create-user.use-case.ts`: `existsByEmail`; the hash was awaited, the insert under the unique index |
| `StoreOtp`, `SendMail` | `register.use-case.ts`: the second statement (code, `isActive: false`); the mail |
| `VerifyEmail`, `MarkVerified` | `verify-email.use-case.ts`: the row as found decides; the update and the token |
| `ForgotPassword`, `SendMail` | `forgot-password.use-case.ts` |
| `ResetPassword`, `StoreReset` | `reset-password.use-case.ts`: before and after hashing |
| `Login` (`Recognised`), `IssueToken` | `login.use-case.ts`, `auth.validator.ts` |
| `UpdateUser` (`Authenticated`), `StorePassword` | `update-user.use-case.ts` with a change of password |
| `AdminCreateUser`, `InsertStaff`; `SeedAdmin`, `InsertAdmin` | `admin-create-comitte-user.use-case.ts`, `admin-seeder.service.ts` |
| `ExpireOtp`, `ExpireReset`, `ExpireToken` | ten minutes pass; the token's `exp`, or the cookie is cleared |
| `Fail` | as above; what a filter then answers is left out |

`ForgotPassword` reads and writes in one action: of the row that was read only its
id is used, which never changes. The guards of `Login` and `UpdateUser` look at the
row before the comparison of passwords is awaited, as the code does: what they
checked may be stale when the token is issued, which is why `Account` lets a token
be issued for an account that has begun to wait.

### Submissions and Storage

A file is its `fileKey`. `objects` and `stored` are the object store and the table;
`submission` is the one row a registration may have (unique index).

| Action | Code |
|---|---|
| `Upload`, `PutObject`, `SaveRow` | `submissions.orchestrator.ts` (one or two files), `upload-file.use-case.ts`; also `POST /storage/upload` |
| `LoadRegistration` (`Eligible`), `InsertSubmission` | `create-submission.use-case.ts` |
| `FindRecipients`, `NotifyStaff` | its `sendToRoles`, one await per member of the staff |
| `DeleteSubmission`, `DropSubmission` | `delete-submission.use-case.ts`, around the deletion of its file |
| `DeleteFile`, `FindFile`, `Unlink`, `DeleteRow` | `delete-stored-file.use-case.ts`; also `DELETE /storage/:id` |
| `Decide` | `verify-payment.use-case.ts`, the step in which its save commits |
| `Fail` | as above; the object may have been stored although the answer was lost |

The row links the work and, if there is one, the statement of originality; the code
deletes only the file of the work, so the model has no deletion of the statement's
by a submission. The three adapters share one behaviour: an upload stores the object or
rejects, a deletion removes it or logs and returns.

### Notifications

`userSockets` is the gateway's map; `devices` maps each live connection to the user
of its token; `since` and `shown` are history.

| Action | Code (`shared/notifications`) |
|---|---|
| `SendToRoles`, `SaveNotification`, `PushNotification`, `FailSender` | `notifications.service.ts`: find, save, then `sendToUser` in the same turn as the next await begins |
| `MarkAsRead`, `MarkAllAsRead` | `notifications.service.ts` |
| `HandleConnection`, `HandleDisconnect` | `notifications.gateway.ts` |
| `Restart` | map and connections are lost together |

### Catalogue

`cached` is one cache entry, followed under `key`: the list's, or the details' of
one competition. Entries do not influence each other, so one at a time is enough.
An update or a deletion is of an id that exists; of any other it is answered 404
before it changes anything. The cache is in the memory of a process
(`CacheModule.register()`), so the module is one process with its requests: in
another process nobody invalidates, and only `Expire` does what `InvalidateCache`
does here.

Three columns stand for all. `name` is one to which `CreateCompetitionDto` gives an
initial value (`name`, `participantType` and the two sizes), `isActive` one to which it
gives none, `price` one of the wave. `UpdateCompetitionDto` is a `PartialType` of it
and keeps those values, so the DTO of a body (`UpdateCompetitionDto(body)`) has a name
whether the body does or not: `Unnamed`, the empty one, which an administrator may
also write. `job[r].asked` are the columns of the body, `job[r].given` those of the DTO.

| Action | Code (`festival/competitions`) |
|---|---|
| `Create`; `Import`, `FindByName`, `InsertImported`, `EndImport` | `create-competition.use-case.ts`, `import-competitions.use-case.ts` |
| `UpdateCompetition` (`UpdateCompetitionDto`, `Bodies`), `UpdateWave`, `SoftDelete` | the load and the change of the use cases, `update-competition.dto.ts`, `create-competition.dto.ts` |
| `SaveReload`, `SaveCommit` | `save`: re-read, UPDATE of the columns that differ from it (with those of the loaded waves) |
| `InvalidateCache` | `competitions.controller.ts`, after the use case |
| `Read`, `Store`, `Expire` | `CacheInterceptor` around the two public routes; its TTL |

### Workers

| Action | Code |
|---|---|
| `SaveTeam`, `PublishTeam`, `FailToPublish`, `LeaveTeam` | `create-team.use-case.ts`, `leave-team.use-case.ts` as far as the queue is concerned (in full in `Teams`) |
| `HandleTeamCreated`, `IndexDocument`, `FailToIndex` | `team-sync.worker.ts`, `search.service.ts`: indexing is not awaited |
| `InjectMessages`, `InjectRows`, `SaveRows`, `InsertDocs` | `simulation.service.ts` `injectData` |
| `FireTimer`, `IndexBulk` | the timer it sets: the callback sends the bulk request and awaits it (`bulks`), and Elasticsearch carries it out later or not at all |
| `HandleSandboxInsert`, `SaveSandboxUser` | `sandbox.worker.ts` |
| `Count`, `Get`, `Find`, `Store`, `Expire` | `runSimulation` with Redis |
| `Cleanup`, `DeleteKey`, `DeleteDocs`, `DeleteIndex` | `cleanup` |
| `Restart`, `RestartBroker` | everything in memory is lost; the durable queue comes back without its transient messages |

`noAck` is the default of the consumer, so a message is gone once delivered.

## 3. What the runs show

| Run | Instance | Shows |
|---|---|---|
| `payments_races` | 2 requests, 2 titles, 2 proofs | `PendingPaymentIffNoAttempts` and `NoticesHaveProof` survive every overlap; status and latest proof part, a proof enters unasked, a column of the other role is written back, each only by a request that was overtaken; `Payments` implements `Lifecycle` |
| `payments_double_upload` | 2 requests | **violated** `UploadOnlyWhenAllowed`: both uploads pass the check at PENDING_PAYMENT, the second is stored at PENDING_VERIFICATION |
| `teams_races` | 5 users (1 of another institution), 2 teams, 2 names, 2 requests, size 3 | what indexes and cascades leave: capacity exceeded by at most one, at most one team led and one joined, no dangling registration; beyond capacity, into a second team and out of a registration only by a request that was overtaken |
| `teams_twice` | 2 users, 2 requests | **violated** `OneTeamPerUser`: create and add-member each check before the other writes |
| `teams_enrolled` | 1 user, 1 team, 2 requests | **violated** `EnrolledTeamsStay`: registered between the check and the delete |
| `enrolment_races` | 3 users, 1 team, 1 individual and 3 team competitions, 2 requests | a request that no other one overtook never meets a unique index, never puts a person over the quota and never enrols a team of the wrong size |
| `enrolment_smuggled` | 2 users, 1 team, 3 individual and 1 team competition, 1 request | **violated** `QuotaRespected`: a member who has three registrations joins a team that is registered already |
| `platform` | one address with 2 requests, 2 passwords, 2 codes; one registration with 2 requests, 3 files, 2 of the staff; 2 recipients, 2 sockets, 2 senders, 2 rows | `Accounts` implements `Account`; codes work once and checks hold unless overtaken; a submission has its files unless a deletion began, is deleted only after its file, is of a verified registration unless a decision overtook it; the staff is told unless the request was cut off; the map holds exactly the live sockets and a device that stays is told everything that is its own |
| `read_models` | catalogue: 2 requests, 1 name, 2 prices, 2 writes, list or details; workers: 1 team, 2 sandbox users, 2 requests of which the second overlaps with 1 user and waits with 2 | readers of list and details catch up; a stored team is searchable, on its way or lost, and gets there; a cleanup that nothing overlapped, no bulk request either, leaves the sandbox empty |
| `catalogue` | 2 requests, 2 names (one of them the empty one), 2 prices, 2 writes, the list | a stale list has a cause; `save` touches columns outside the DTO, and an import adds a name twice, only when overtaken |
| `catalogue_asked` | 1 request, 1 write | **violated** `AskedColumnsUnlessOvertaken`: an update of `isActive` alone also empties the name |
| `accounts_expired` | 1 request, 1 password, 2 codes | **violated** `NewCodeObtainable`: a verification code that expired cannot be replaced, although the message asks for a new one |

The violated runs and the racing runs belong together: the property of a violated run
is what a text of the code promises, that of the racing run the same promise unless the
request was overtaken. What has no text to refute is stated in the second form only: a
stale save writes an old status or title back, a registration may be VERIFIED while its
latest proof is rejected, a team may reach four, all by requests that were overtaken.

In `catalogue` a competition is there from the start under one of the two names, so that
an import of the other finds nothing: it gets as far as its INSERT, and two imports of it,
or an import and a creation or a renaming, overlap between look-up and INSERT. An item
without a name is passed over, so in `read_models`, whose one name is the empty one,
imports show nothing; nothing there is about them.

**Composition.** `platform` (`PlatformSpec`) and `read_models` (`MCSpec`) each run
several components that share no variable: the module extends one of them and
instantiates the others with variables of its own. Their interleavings show nothing
that one of them alone does not, so a behaviour has steps of one component, chosen in the initial state by `focus`, and
the others rest. `Workers` is looked at twice: requests that overlap with one user of
the sandbox, and one request at a time with two users, so that different sets of one
size share a cache key. `catalogue` has `Catalogue` alone, for its safety properties. A property of a component is checked over all behaviours of that
component, the number of states is the sum and not the product.

**Bounds.** Two requests are the least that overlap, and each hazard above needs
two; the theorems of section 4 cover every number for the invariants. Two proofs
give one proof that is latest and one that was, and a rejection, a decision repeated on
it and one on its successor. Four users of one institution fill a team of three and
leave one to overfill it or to lead the other team, the fifth is of another institution; `TeamIds` bounds the uuids
ever used at one time (an id is reused only when nothing refers to it). Users,
names, ids and requests are symmetric. `MAX_TEAM_SIZE` is the code's 3. Enrolment
keeps the code's quota of 3; four competitions are the least that exceed it, of
which one is for exactly two people, so that a team can be too small, right and too
large. For an address, two codes are one that is superseded and its successor; two
requests of every kind overlap at every await. Three files are a work and its
statement, and a work handed in while the first is being deleted. Two rows and two
sockets are a notification before and one after a device came, and a second device
of the same or the other user; two senders save and push in any order. One administrator's password or another's is the same
to the code. One competition with two more writes has a load, a write in between and
a write back, or two INSERTs of one name. In `Workers` one team suffices:
ids are never used twice and messages of different ids meet only in the queue, which
both kinds share. Counts that a client may know are 0, an empty sandbox, and 2, a
full one; two overlapping requests with two users at once are left out.

**Deadlock** is checked in every run: a new request can always arrive.

**Fairness and liveness.** Requests are promised no end: a handler may die at each
await and nothing retries. What the code's surroundings do promise is used, and no
more. `Catalogue` and `Workers` assume that the cache drops an entry once its TTL has
passed (`WF(Expire)`), that the broker hands the head of the queue to the consumer,
which takes everything it is handed (`WF(Deliver)`), and that an await about a team
settles, well or badly (`WF(TeamSync(t))`: a promise is resolved or rejected, and a
restart ends it too). `ReadersCatchUp` needs the first alone: writers stop because
`MAX_WRITES` bounds them, readers may hang forever. `TeamsBecomeSearchable` needs the
other two, and has the failures that nothing repairs among its outcomes. Without any of
them the properties fail: the mutants `NeverExpire` and `HandleWhenIndexed` show it
for the cache and the consumer. `FairSpec` of `Accounts` is generous on purpose, for a
counterexample: awaits settle, and the person registers, and verifies with any mailed
code, whenever that is accepted; the address stays locked out nevertheless.

**Mutants.** Each checked property has a mutant in the model (a dropped guard, a
forgotten assignment, a missing index) that it refutes; they stand in front of the
definition they change, marked "Mutant".

## 4. What is proved

`PaymentsProofs` (for every set of requests and titles and every bound on proofs)

- `Invariance`: `Spec => []IInv`. `PendingPaymentIffNoAttempts` is not inductive: a
  `save` writes columns computed from an entity loaded earlier. The strengthening
  says what an in-flight request may hold: an entity agrees with the rule for the
  number of attempts *it* loaded, that number never exceeds the table's (rows are
  not deleted), and a pending write of `PENDING_PAYMENT` can exist only where no
  attempt does. The orphan check of `save` is what closes the induction: an
  entity loaded with fewer attempts is refused.
- `TypeCorrect`, `PendingPayment`: the two invariants of `payments_races`.
- `KeepsPromises`: `Spec => ImplementsLifecycle`, step by step: an upload's
  `SaveCommit` is `Submit`, any other `SaveCommit` is `Settle` or a stutter.
- `NoticesProved`: nobody is told of a payment without proof. The strengthening
  `EvidenceInv` adds that a request that decides or notifies has a proof behind it.
- `StatusFollows`, `UploadsAllowed`, `OwnColumns`: the three action properties, for any
  number of overlapping requests. `CurrentInv` says of a request that is still `current`
  what it `Knows`: its entity, or the changes planned from it, applied to the row *as it
  is* gives what the request intends (`Intended`). A commit ends that for all others.
  `Held` is the part that needs no such luck: nobody plans to write an attempt that is
  yet to come. `UpdateByChanges` is the lemma that `save` writes the columns that differ
  and no others.

`TeamsProofs` (for every finite set of users and requests, `MAX_TEAM_SIZE` 2 or 3)

- `Invariance`, `TypeCorrect`.
- `CapacityNearly`: with `N` requests a team has less than `MAX_TEAM_SIZE + N`
  people, counting inserts about to happen. Every request that passed
  `validateNewMember` loaded the team with room; the re-read of `save` refuses an
  entity that misses a member now in the table, so only requests already past
  their re-read can overfill. The assumption that the size is at most 3 is used:
  a team that may still grow was loaded with at most one member, so a re-insert
  of rows deleted meanwhile adds at most two.
- `TwoTeamsAtMost`: `AtMostTwoTeamsPerUser`, for any overlap. The indexes alone do not
  give it: `UniqueInv` also needs that a leader is no member of the own team, and
  that survives the re-insert of a disbanded team only because two requests that
  loaded one team know the same leader (`SameTeam`) and a candidate was never that
  leader (`LeaderOK`).
- `CapacityKept`, `OneTeam`, `EnrolledStay`: the three action properties, for any number
  of overlapping requests. `CurrentInv` says that what a request found (no team of the
  candidate, the members it loaded, no registration) still stands at its later awaits as
  long as it is `current` (`Knows`); `WriterKnows` hands that to the step that writes.

`EnrolmentProofs` (for all finite sets of users, teams and competitions, every
quota, all sizes, any set of requests)

- `Invariance`: `Spec => []IInv`. None of the properties is inductive: each is about
  the insert, the checks lie several awaits before. `Known(r)` carries them along:
  at each await it says what the checks passed so far have established *of the
  present tables*, provided `current[r]`. A step that only reads keeps it for all;
  a step that writes ends `current` for all others and so leaves them nothing to
  keep.
- `TypeCorrect`, `ConflictOnlyAfterRace`: the two invariants of `enrolment_races`.
- `QuotaKept`, `SizeKept`: its two action properties. The counting needs that an
  insert adds at most one registration to a person's (`AddsOne`) and that a leader
  is no member of the own team (part of `IInv`).

`AccountsProofs` (for every set of requests and of passwords and every bound on the
codes; `NoUserAssumption` says that no row is the value that stands for none)

- `Invariance`: `Spec => []IInv`. `Asks` is what a request relies on whoever wrote
  since, `Checked` what it knows only while `current`. The first carries the argument:
  a request about to store its code (`"otp"`) is the only one and finds the account
  open, because it inserted the row, so the deactivating statement meets no verified
  or administrator's account; a request about to verify is on an account that already
  left "open". `RowInv` ties the columns together (inactive exactly while a code
  waits) and keeps the two codes of the row apart from each other and from every
  redeemed one, which is what makes codes work once: codes are drawn fresh and both
  statements that redeem one clear the column.
- `TypeCorrect`, `ChecksKept`, `CodesOnce`: the three invariants of `Accounts`.
- `KeepsPromises`: `Spec => ImplementsAccount`. An insert is `Create`, `StoreOtp` is
  `AskForCode`, `MarkVerified` is `Activate`, or `SignIn` if the code was redeemed
  twice at once; everything else signs in, lets the token expire or stutters.

`SubmissionsProofs` (for all requests and staff and every bound on the files)

- `Invariance`: `Spec => []IInv`. `FilesAreThere` relates the row to two stores that no
  transaction spans, so its induction runs through the requests in flight:
  `RequestOK` says for each await what the request's files stand for (stored all but
  the last, whose object is there; or one whose deletion began), `KeysDiffer` that
  no two requests are about to save the row of one file, `SubmissionInv` that keys
  the submission names were generated, so that a fresh one is nobody's.
- `TypeCorrect`, `NoLinkDangles`; `StaffTold` from `StaffWillBeTold`, which says where the
  request stands that still has to tell somebody; `ChecksVerified` from
  `CheckHolds`; `DeletesItsOwn` from the awaits of a deletion.

`NotificationsProofs` (for all users, sockets, senders and bounds)

- `Invariance`: `MapHoldsLiveSockets` counts the sockets of an entry, which says nothing
  of what `handleDisconnect` does to them. `GatewayInv` is exact: the entry of a user
  is, as a set, the live connections of that user, and holds each once
  (`RemoveFirstDistinct` and `AppendDistinct` are its lemmas). `JobInv` ties the row
  that a sender is about to push to its await.
- `TypeCorrect`, `MapIsExact`, `DevicesAreTold`.

`CatalogueProofs` (for all names, prices, requests, bounds and cache keys)

- `Invariance`: as in `EnrolmentProofs`, `Knows` carries to each await what the request
  relies on whoever wrote since (`Asks`) and what it found, as long as nobody did
  (`Found`): that no competition has the names to insert, that the loaded entity
  differs from the row in nothing but the columns of the DTO, that only those are to
  be written. A step that writes leaves nobody else anything to keep (`WriteInv`).
- `TypeCorrect`, `StaleListExplained`, `OwnColumns`, `ImportSkips`.

`WorkersProofs` (for all teams, finite sets of users and requests)

- `Invariance`: `Spec => []IInv` in three parts that keep apart. `TeamInv` is
  `TeamsSearchableOrLost` with the types of the queue: each way a message is lost, the
  broker's restart included, is one that counts as lost. `SandboxTypes` says that
  nothing is stored that was not injected. `CleanInv` follows an undisturbed cleanup
  await by await: which keys, documents and index are gone, that one request is at
  it, and that no message, no timer, no insert and no bulk request is on its way in.
- `TypeCorrect`, `TeamsSearchable`, `CleanIsEmpty`.

**The composition.** The run `platform` is about `PlatformSpec`, so its theorems are too.
`AccountsProofs` instantiates the proof modules of the other two components with the
run's variables and shows that each behaviour of the run is one of each component
(`SubmissionsRun`, `NotificationsRun`: a step is one of that component or leaves its
variables alone). `LinksKept`, `StaffKeptTold`, `OwnSubmissionDeleted`,
`VerifiedOnHandingIn`, `MapKeptExact`, `DevicesKeptTold` and the type invariants follow
from the component's theorem of the same content. What is proved of `Accounts`,
`Catalogue` and `Workers` is stated of their own `Spec`, which allows every step that the
runs do.

**What stays with TLC.** Every invariant and every action property of a passing run is
stated by a theorem, and so are both refinements. Liveness under fairness
(`ReadersCatchUp`, `TeamsBecomeSearchable`, `FetchCatchesUp`) is outside the prover. The
six properties that the code violates are refuted on their instances; that
`UploadOnlyWhenAllowed`, `OneTeamPerUser` and `EnrolledTeamsStay` are broken by requests
that were overtaken and by no others is what the theorems about the second form add.

## 5. Findings

1. Double upload (`payments_double_upload`), `upload-payment-proof.use-case.ts:41`.
2. A user in two teams (`teams_twice`), `add-member.use-case.ts:60`.
3. A registered team disbanded (`teams_enrolled`), `leave-team.use-case.ts:39`.
4. A fourth competition by joining late (`enrolment_smuggled`),
   `register-competition.use-case.ts:139`: the comment above it wants no member
   "smuggled" past the quota; `add-member.use-case.ts` does not count it. Approving
   a registration that was rejected exceeds the quota in the same way.
5. An expired verification code (`accounts_expired`), `verify-email.use-case.ts:31`: the
   message asks for a new code, no route issues one, and the address stays taken.
6. An update that names one column (`catalogue_asked`), `update-competition.use-case.ts:28`:
   a PATCH that only puts a competition out of use also sets its name to `''`, its type
   to INDIVIDUAL and both sizes to 1, the initial values the DTO inherits.

Met while modelling and not run, because the number of runs is kept small or no text
of the repository says otherwise:

- `invalidateCache(id)` deletes `/competitions/:id` and `/api/competitions/:id`, the
  prefix is `/api/v1` (`main.ts:93`): details are never invalidated and stay stale
  for up to their TTL, and so does a list that a reader stored late.
- A deletion of a submission that breaks off after its file's row is gone, or
  `DELETE /storage/:id` of that file, leaves a row that can neither be deleted (404 at
  the file) nor replaced (409).
- A submission whose notification fails is answered 500 although it is stored.
- Disbanded teams stay in the search index; `removeDocument` has no caller.
- `auth.controller.ts:57` says that registering returns a token; it returns a message.
- A cleanup of the sandbox is refilled by messages still queued, by the timer, and by a
  bulk request that the timer has sent and that arrives after the index was deleted.

Also: the catch of `register-competition.use-case.ts:172`
tests PostgreSQL's duplicate-key code on MySQL, so the loser of a duplicate race is
answered 500 instead of 409; `RegistrationStatus.CANCELLED` and
`SubmissionStatus.GRADED` are never assigned; `isActive` of a competition is not
looked at when registering.

## 6. Not modelled, and the plan

Not modelled: read-only queries and mappers; the audit log, whose failed inserts are
only logged and which nothing reads to decide; the UPDATEs of name, institution and
avatar; health probes, logging, configuration, wording of answers. Checks of one
request's own input (ownership, MIME types, validation) are no state. Rate limits
bound how often, not what.

Left to do:

1. State what `Teams` promises to `Enrolment` as an abstract specification (a registered
   team is not without its registration, a disbanded one has none), as `Lifecycle` and
   `Account` do for theirs, and prove the refinement.
2. The same for the files: `Storage` as one store that fails, of which `Submissions`
   sees only whether a file is there.

The number of runs is kept small: one racing run per component of the festival, one for
the platform around it, one for what lags behind the tables, and one per finding.
