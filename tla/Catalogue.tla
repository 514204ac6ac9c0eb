----------------------------- MODULE Catalogue ------------------------------
(***************************************************************************)
(* The competitions with their waves, which administrators write, and the  *)
(* two HTTP caches through which everybody reads them: the list under an   *)
(* explicit key and the details under the URL of the request.  A write is  *)
(* followed by deleting keys of the cache; a reader that missed the cache  *)
(* stores what it read before, whatever has been written meanwhile.        *)
(*                                                                         *)
(* A competition has one wave here, of which the price stands for all      *)
(* columns.  `name` stands for the columns of a competition to which       *)
(* CreateCompetitionDto gives an initial value (name, participantType and  *)
(* the sizes of a team), isActive for those to which it gives none.        *)
(* Entries under different keys do not meet: a behaviour follows one of    *)
(* them, that of the list or that of the details of competition 1.         *)
(*                                                                         *)
(* The cache is in the memory of one process (CacheModule.register() of    *)
(* CompetitionsModule), so this is one process with its requests.          *)
(***************************************************************************)
EXTENDS Naturals, Sequences, TypeOrm

CONSTANTS
  Requests,    \* HTTP requests that can be in flight at the same time
  Names,       \* names of competitions
  Unnamed,     \* '', the name a CreateCompetitionDto is initialised with
  FirstPrice,  \* the price every wave is stored with
  Prices,      \* the prices it may be given later
  MAX_WRITES,  \* bound on the INSERTs and UPDATEs
  NoEntry      \* the cache has no entry under a key

ASSUME CatalogueAssumption == Unnamed \in Names

VARIABLES
  competitions,  \* the rows with their wave; the id is the position
  writes,        \* how often they were written
  key,           \* the key of the cache that is followed; never changes
  cached,        \* its entry
  pc,            \* the await each request stands at
  job,           \* what each request holds in memory
  current,       \* history: no other request wrote since this one began
  missed         \* history: the entry was stored late, or not deleted

vars == <<competitions, writes, key, cached, pc, job, current, missed>>

----------------------------------------------------------------------------
Row == [name : Names, isActive : BOOLEAN, price : Prices \cup {FirstPrice}]

NewCompetition(name, active) == [name |-> name, isActive |-> active, price |-> FirstPrice]

PC == {"idle", "import", "insert", "save", "commit", "invalidate", "read"}

\* A request: the competition it is about, the entity it loaded, the columns
\* its body names, those its DTO has, those save() will write; the names still
\* to be imported; the view it read.
NoJob ==
  [id |-> 0, entity |-> <<>>, asked |-> {}, given |-> {}, changes |-> <<>>,
   todo |-> {}, next |-> {}, imported |-> FALSE, view |-> NoEntry]

Keys == {"COMPETITIONS_LIST_CACHE", "/api/v1/competitions/1"}

\* What the tables answer under the key: findAll(false) or findById.
view ==
  [id \in {i \in DOMAIN competitions :
            IF key = "COMPETITIONS_LIST_CACHE" THEN competitions[i].isActive ELSE i = 1}
     |-> competitions[id]]

Init ==
  /\ \E name \in Names : competitions = <<NewCompetition(name, TRUE)>>
  /\ writes = 0
  /\ key \in Keys
  /\ cached = NoEntry
  /\ pc = [r \in Requests |-> "idle"]
  /\ job = [r \in Requests |-> NoJob]
  /\ current = [r \in Requests |-> TRUE]
  /\ missed = FALSE

cacheVars == <<key, cached, missed>>

\* Request r, which did not write, goes on to `where` with j in memory.
Continue(r, j, where) ==
  /\ pc' = [pc EXCEPT ![r] = where]
  /\ job' = [job EXCEPT ![r] = j]
  /\ current' = [current EXCEPT ![r] = @ \/ where = "idle"]
  /\ UNCHANGED <<competitions, writes>>

\* Request r writes `rows`.
Write(r, rows, j, where) ==
  /\ writes < MAX_WRITES
  /\ writes' = writes + 1
  /\ competitions' = rows
  /\ pc' = [pc EXCEPT ![r] = where]
  /\ job' = [job EXCEPT ![r] = j]
  /\ current' = [q \in Requests |-> q = r \/ pc[q] = "idle"]
  /\ UNCHANGED cacheVars

----------------------------------------------------------------------------
\* CreateCompetitionUseCase: saved as it is, whatever names there are.
Create(r, name) ==
  /\ pc[r] = "idle"
  /\ Write(r, Append(competitions, NewCompetition(name, TRUE)), NoJob, "invalidate")

\* ImportCompetitionsUseCase; an item without a name is passed over.
Import(r, names) ==
  /\ pc[r] = "idle"
  /\ Continue(r, [NoJob EXCEPT !.todo = names \ {Unnamed}], "import")
  /\ UNCHANGED cacheVars

\* Mutant of FindByName: a competition that is not active does not count.
FindActiveByName(r, name) ==
  LET exists == \E c \in DOMAIN competitions : competitions[c].isActive /\ competitions[c].name = name
      rest == [job[r] EXCEPT !.todo = @ \ {name}] IN
  /\ pc[r] = "import"
  /\ name \in job[r].todo
  /\ IF exists THEN Continue(r, rest, "import")
     ELSE Continue(r, [rest EXCEPT !.next = {name}], "insert")
  /\ UNCHANGED cacheVars

\* The next item is looked for by its name and skipped if there is one.
FindByName(r, name) ==
  LET exists == \E c \in DOMAIN competitions : competitions[c].name = name
      rest == [job[r] EXCEPT !.todo = @ \ {name}] IN
  /\ pc[r] = "import"
  /\ name \in job[r].todo
  /\ IF exists THEN Continue(r, rest, "import")
     ELSE Continue(r, [rest EXCEPT !.next = {name}], "insert")
  /\ UNCHANGED cacheVars

\* The item is saved.
InsertImported(r, active) ==
  /\ pc[r] = "insert"
  /\ \E name \in job[r].next :
       Write(r, Append(competitions, NewCompetition(name, active)),
             [job[r] EXCEPT !.next = {}, !.imported = TRUE], "import")

\* All items are done: the list is invalidated if any was imported.
EndImport(r) ==
  /\ pc[r] = "import"
  /\ job[r].todo = {}
  /\ Continue(r, NoJob, IF job[r].imported THEN "invalidate" ELSE "idle")
  /\ UNCHANGED cacheVars

\* Request r loaded `entity` of competition id, changed for a body that names
\* the columns `asked` and became a DTO with the columns `given`.
Load(r, id, asked, given, entity) ==
  Continue(r, [NoJob EXCEPT !.id = id, !.asked = asked, !.given = given, !.entity = entity],
           "save")

\* The UpdateCompetitionDto of a body.  The DTO is a PartialType, which keeps the
\* initial values of CreateCompetitionDto: what the body leaves out has them.
UpdateCompetitionDto(body) ==
  [column \in DOMAIN body \cup {"name"} |->
     IF column \in DOMAIN body THEN body[column] ELSE Unnamed]

\* UpdateCompetitionUseCase: the competition is loaded with its wave and takes
\* the columns of the DTO that are not undefined.
UpdateCompetition(r, id, body) ==
  LET dto == UpdateCompetitionDto(body) IN
  /\ pc[r] = "idle"
  /\ Load(r, id, DOMAIN body, DOMAIN dto, Update(competitions[id], dto))
  /\ UNCHANGED cacheVars

\* Mutant of UpdateWave: the wave is saved through its competition.
UpdateWaveInCompetition(r, id, value) ==
  /\ pc[r] = "idle"
  /\ Load(r, id, {"price"}, {"price"},
          [NewCompetition(competitions[id].name, TRUE) EXCEPT !.price = value])
  /\ UNCHANGED cacheVars

\* UpdateWaveUseCase: the wave alone is loaded.
UpdateWave(r, id, value) ==
  /\ pc[r] = "idle"
  /\ Load(r, id, {"price"}, {"price"}, [price |-> value])
  /\ UNCHANGED cacheVars

\* SoftDeleteCompetitionUseCase; one that is inactive is left as it is.
SoftDelete(r, id) ==
  /\ pc[r] = "idle"
  /\ IF competitions[id].isActive
     THEN Load(r, id, {"isActive"}, {"isActive"}, [competitions[id] EXCEPT !.isActive = FALSE])
     ELSE Continue(r, NoJob, "invalidate")
  /\ UNCHANGED cacheVars

\* save() re-reads the row, and the wave with it if it was loaded.
SaveReload(r) ==
  LET entity == job[r].entity
      row == competitions[job[r].id] IN
  /\ pc[r] = "save"
  /\ Continue(r, [job[r] EXCEPT !.entity = <<>>,
                   !.changes = Changes(entity, [c \in DOMAIN entity |-> row[c]])], "commit")
  /\ UNCHANGED cacheVars

\* Mutant of SaveCommit: the row becomes what was to be written.
ReplaceRow(r) ==
  /\ pc[r] = "commit"
  /\ Write(r, [competitions EXCEPT ![job[r].id] = job[r].changes], NoJob, "invalidate")

\* ... and writes the columns that differ, if any.
SaveCommit(r) ==
  /\ pc[r] = "commit"
  /\ IF DOMAIN job[r].changes = {}
     THEN Continue(r, NoJob, "invalidate") /\ UNCHANGED cacheVars
     ELSE Write(r, [competitions EXCEPT ![job[r].id] = Update(@, job[r].changes)],
                NoJob, "invalidate")

\* Mutant of InvalidateCache: the key of the list is spelt otherwise than in
\* @CacheKey.
InvalidateNothing(r) ==
  /\ pc[r] = "invalidate"
  /\ Continue(r, NoJob, "idle")
  /\ UNCHANGED cacheVars

\* invalidateCache: the list's key is deleted.  The two keys deleted for the
\* details lack the version in the prefix /api/v1, so they match no entry.
InvalidateCache(r) ==
  /\ pc[r] = "invalidate"
  /\ Continue(r, NoJob, "idle")
  /\ IF key = "COMPETITIONS_LIST_CACHE"
     THEN cached' = NoEntry /\ missed' = FALSE
     ELSE UNCHANGED <<cached, missed>>
  /\ UNCHANGED key

----------------------------------------------------------------------------
\* GET /competitions, GET /competitions/:id when the cache has no entry: the
\* rows are read ...
Read(r) ==
  /\ pc[r] = "idle"
  /\ cached = NoEntry
  /\ Continue(r, [NoJob EXCEPT !.view = view], "read")
  /\ UNCHANGED cacheVars

\* ... and stored under the key.
Store(r) ==
  /\ pc[r] = "read"
  /\ cached' = job[r].view
  /\ missed' = (job[r].view # view)
  /\ Continue(r, NoJob, "idle")
  /\ UNCHANGED key

\* Mutant of Expire: the entries get no TTL.
NeverExpire == FALSE /\ UNCHANGED vars

\* CacheTTL(300000) of the entry has passed.
Expire ==
  /\ cached # NoEntry
  /\ cached' = NoEntry
  /\ missed' = FALSE
  /\ UNCHANGED <<competitions, writes, key, pc, job, current>>

\* The database or the cache fails, or the process dies.  What was written and
\* not yet followed by the deletion of the entry stays hidden by it.
Fail(r) ==
  /\ pc[r] # "idle"
  /\ Continue(r, NoJob, "idle")
  /\ missed' = (missed \/ pc[r] = "invalidate" \/ job[r].imported)
  /\ UNCHANGED <<key, cached>>

----------------------------------------------------------------------------
\* The values of a column an administrator may set.
ColumnValues(column) ==
  IF column = "name" THEN Names ELSE BOOLEAN

\* The bodies of PATCH /competitions/:id: some of the columns.
Bodies ==
  {body \in UNION {[columns -> Names \cup BOOLEAN] : columns \in SUBSET {"name", "isActive"}} :
     \A column \in DOMAIN body : body[column] \in ColumnValues(column)}

\* CompetitionsController.  Other ids are answered with 404.
Begin(r) ==
  \/ \E name \in Names : Create(r, name)
  \/ \E names \in SUBSET Names : Import(r, names)
  \/ \E id \in DOMAIN competitions :
       \/ \E body \in Bodies : UpdateCompetition(r, id, body)
       \/ \E price \in Prices : UpdateWave(r, id, price)
       \/ SoftDelete(r, id)
  \/ Read(r)

\* A request in flight goes on.
Settle(r) ==
  \/ \E name \in Names : FindByName(r, name)
  \/ \E active \in BOOLEAN : InsertImported(r, active)
  \/ EndImport(r)
  \/ SaveReload(r) \/ SaveCommit(r) \/ InvalidateCache(r)
  \/ Store(r)
  \/ Fail(r)

Next ==
  \/ \E r \in Requests : Begin(r) \/ Settle(r)
  \/ Expire

\* The cache drops its entry when the TTL has passed.  Nothing else has to
\* happen for the readers to catch up: no request need ever settle.
Fairness == WF_vars(Expire)

Spec == Init /\ [][Next]_vars /\ Fairness

----------------------------------------------------------------------------
\* The variables keep their types.
CatalogueTypeOK ==
  /\ competitions \in Seq(Row) /\ Len(competitions) <= 1 + writes
  /\ writes \in Nat
  /\ key \in Keys
  /\ cached # NoEntry => \A id \in DOMAIN cached : cached[id] \in Row
  /\ pc \in [Requests -> PC]
  /\ \A r \in Requests : job[r].id \in {0} \cup DOMAIN competitions /\ job[r].todo \subseteq Names
  /\ current \in [Requests -> BOOLEAN]
  /\ missed \in BOOLEAN

\* The list everybody is shown is the list of active competitions, unless a
\* writer is still on the way to invalidating it, broke off before, or a reader
\* stored what it had read before the write.
StaleListHasACause ==
  key = "COMPETITIONS_LIST_CACHE" /\ cached \notin {NoEntry, view} =>
    missed \/ \E r \in Requests : pc[r] = "invalidate" \/ job[r].imported

\* A save() changes only columns of its DTO, unless another request wrote during
\* it: it is then that a loaded wave or column is written back.
OwnColumnsUnlessOvertaken ==
  [][\A r \in Requests :
       pc[r] = "commit" /\ pc'[r] = "invalidate" /\ current[r] =>
         DOMAIN job[r].changes \subseteq job[r].given]_vars

\* ... and only what the body of its request names: isActive is there to put a
\* competition out of use ("Gunakan ini untuk me-nonaktifkan lomba (Soft
\* Disable)"), not to take its name as well.
AskedColumnsUnlessOvertaken ==
  [][\A r \in Requests :
       pc[r] = "commit" /\ pc'[r] = "invalidate" /\ current[r] =>
         DOMAIN job[r].changes \subseteq job[r].asked]_vars

\* An import adds a second competition of one name only when another request
\* wrote during it: "skipped" is answered for names there are.
ImportSkipsUnlessOvertaken ==
  [][\A r \in Requests :
       pc[r] = "insert" /\ pc'[r] = "import" /\ current[r] =>
         \A id \in DOMAIN competitions : competitions[id].name \notin job[r].next]_vars

\* When administrators stop writing, everybody is sooner or later shown what
\* the tables hold, in the list and in the details, and from then on.
ReadersCatchUp == <>[](cached \in {NoEntry, view})
=============================================================================
