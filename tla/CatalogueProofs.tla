--------------------------- MODULE CatalogueProofs ---------------------------
(***************************************************************************)
(* Theorems about Catalogue, for any names, prices and requests, and any   *)
(* bound on the writes.                                                    *)
(***************************************************************************)
EXTENDS Catalogue, SequenceTheorems, TLAPS

Columns == {"name", "isActive", "price"}

ColumnType(c) ==
  IF c = "price" THEN Prices \cup {FirstPrice} ELSE ColumnValues(c)

\* Some columns of a row.
IsPart(f) == DOMAIN f \subseteq Columns /\ \A c \in DOMAIN f : f[c] \in ColumnType(c)

IsView(v) == \A id \in DOMAIN v : v[id] \in Row

\* j has the fields of a request's memory.
HasFields(j) ==
  DOMAIN j = {"id", "entity", "asked", "given", "changes", "todo", "next", "imported", "view"}

\* What a request with job j at the await `at` relies on, whoever wrote since.
Asks(j, at, rows) ==
  /\ HasFields(j)
  /\ j.id \in {0} \cup DOMAIN rows /\ j.todo \subseteq Names /\ j.next \subseteq Names
  /\ j.imported => at \in {"import", "insert"}
  /\ at = "save" => j.id \in DOMAIN rows /\ IsPart(j.entity)
  /\ at = "commit" => j.id \in DOMAIN rows /\ IsPart(j.changes)
  /\ at = "read" => IsView(j.view)

\* What it found, if nobody wrote since.
Found(j, at, rows) ==
  /\ at = "insert" => \A id \in DOMAIN rows : rows[id].name \notin j.next
  /\ at = "save" => \A c \in DOMAIN j.entity \ j.given : j.entity[c] = rows[j.id][c]
  /\ at = "commit" => DOMAIN j.changes \subseteq j.given

Knows(j, at, rows, cur) == Asks(j, at, rows) /\ (cur => Found(j, at, rows))

\* Request r will delete the list's entry, or leave it for others to.
WillInvalidate(r) == pc[r] = "invalidate" \/ job[r].imported

Types == CatalogueTypeOK /\ DOMAIN job = Requests

IInv ==
  /\ Types
  /\ StaleListHasACause
  /\ \A r \in Requests : Knows(job[r], pc[r], competitions, current[r])

----------------------------------------------------------------------------
\* An idle request asks for nothing and found nothing.
LEMMA NoJobAsks == \A rows : HasFields(NoJob) /\ Asks(NoJob, "idle", rows) /\ Found(NoJob, "idle", rows)
BY DEF HasFields, NoJob, Asks, Found

\* A row stands for its columns.
LEMMA RowParts ==
  ASSUME NEW row \in Row
  PROVE  /\ DOMAIN row = Columns /\ IsPart(row)
         /\ \A c \in Columns : \A v \in ColumnType(c) :
              /\ IsPart([row EXCEPT ![c] = v])
              /\ \A d \in Columns \ {c} : [row EXCEPT ![c] = v][d] = row[d]
BY DEF Row, Columns, IsPart, ColumnType, ColumnValues

\* A competition that is created is a row.
LEMMA NewTyped ==
  ASSUME NEW name \in Names, NEW active \in BOOLEAN
  PROVE  NewCompetition(name, active) \in Row /\ NewCompetition(name, active).name = name
BY DEF NewCompetition, Row

\* An UPDATE of some columns leaves a row one.
LEMMA UpdateTyped ==
  ASSUME NEW row \in Row, NEW f, IsPart(f)
  PROVE  Update(row, f) \in Row
<1>1. DOMAIN row = {"name", "isActive", "price"}
  BY DEF Row
<1>2. Update(row, f) =
        [name |-> IF "name" \in DOMAIN f THEN f["name"] ELSE row["name"],
         isActive |-> IF "isActive" \in DOMAIN f THEN f["isActive"] ELSE row["isActive"],
         price |-> IF "price" \in DOMAIN f THEN f["price"] ELSE row["price"]]
  BY <1>1 DEF Update
<1>3. /\ "name" \in DOMAIN f => f["name"] \in Names
      /\ "isActive" \in DOMAIN f => f["isActive"] \in BOOLEAN
      /\ "price" \in DOMAIN f => f["price"] \in Prices \cup {FirstPrice}
  BY DEF IsPart, ColumnType, ColumnValues
<1> QED
  BY <1>2, <1>3 DEF Row

\* Where a step leaves a request that did not write, and the others.
LEMMA ContinueMoves ==
  ASSUME Types, NEW r \in Requests, NEW j, NEW where \in PC, Continue(r, j, where)
  PROVE  /\ UNCHANGED <<competitions, writes>>
         /\ pc' \in [Requests -> PC] /\ pc'[r] = where /\ job'[r] = j
         /\ current' \in [Requests -> BOOLEAN]
         /\ current'[r] => current[r] \/ where = "idle"
         /\ \A q \in Requests \ {r} : pc'[q] = pc[q] /\ job'[q] = job[q] /\ current'[q] = current[q]
<1>1. pc \in [Requests -> PC] /\ current \in [Requests -> BOOLEAN] /\ DOMAIN job = Requests
  BY DEF Types, CatalogueTypeOK
<1> QED
  BY <1>1 DEF Continue

\* What a write does to the rows and to the requests.
LEMMA WriteMoves ==
  ASSUME Types, NEW r \in Requests, NEW rows, NEW j, NEW where \in PC, Write(r, rows, j, where)
  PROVE  /\ competitions' = rows /\ writes' = writes + 1
         /\ UNCHANGED <<key, cached, missed>>
         /\ pc' \in [Requests -> PC] /\ pc'[r] = where /\ job'[r] = j /\ DOMAIN job' = Requests
         /\ current' \in [Requests -> BOOLEAN]
         /\ \A q \in Requests \ {r} :
              pc'[q] = pc[q] /\ job'[q] = job[q] /\ (current'[q] => pc[q] = "idle")
<1>1. pc \in [Requests -> PC] /\ current \in [Requests -> BOOLEAN] /\ DOMAIN job = Requests
  BY DEF Types, CatalogueTypeOK
<1> QED
  BY <1>1 DEF Write, cacheVars

\* A request that did not write keeps the invariant if it may know what it
\* knows next and the entry it leaves has a cause.
LEMMA ContinueInv ==
  ASSUME IInv, NEW r \in Requests, NEW j, NEW where \in PC, Continue(r, j, where),
         Knows(j, where, competitions, current[r]),
         key' = key, missed' \in BOOLEAN, cached' = NoEntry \/ IsView(cached'),
         StaleListHasACause'
  PROVE  IInv'
<1>1. Types
  BY DEF IInv
<1>2. /\ UNCHANGED <<competitions, writes>>
      /\ pc' \in [Requests -> PC] /\ pc'[r] = where /\ job'[r] = j
      /\ current' \in [Requests -> BOOLEAN]
      /\ current'[r] => current[r] \/ where = "idle"
      /\ \A q \in Requests \ {r} : pc'[q] = pc[q] /\ job'[q] = job[q] /\ current'[q] = current[q]
  BY <1>1, ContinueMoves
<1>3. Knows(job'[r], pc'[r], competitions', current'[r])
  <2>1. where = "idle" => Found(j, where, competitions)
    BY DEF Found
  <2> QED
    BY <1>2, <2>1 DEF Knows
<1>4. \A q \in Requests \ {r} : Knows(job'[q], pc'[q], competitions', current'[q])
  BY <1>2 DEF IInv
<1>5. Types'
  <2>1. DOMAIN job' = Requests
    BY <1>1 DEF Continue, Types
  <2>2. \A q \in Requests : job'[q].id \in {0} \cup DOMAIN competitions' /\ job'[q].todo \subseteq Names
    BY <1>3, <1>4 DEF Knows, Asks
  <2> QED
    BY <1>1, <1>2, <2>1, <2>2 DEF Types, CatalogueTypeOK, IsView
<1> QED
  BY <1>3, <1>4, <1>5 DEF IInv

\* So does one that leaves the cache alone, if it does not forget to
\* invalidate.
LEMMA ReadInv ==
  ASSUME IInv, NEW r \in Requests, NEW j, NEW where \in PC, Continue(r, j, where),
         Knows(j, where, competitions, current[r]), UNCHANGED cacheVars,
         WillInvalidate(r) => where = "invalidate" \/ j.imported
  PROVE  IInv'
<1>1. Types
  BY DEF IInv
<1>2. UNCHANGED <<key, cached, missed>>
  BY DEF cacheVars
<1>3. /\ competitions' = competitions /\ pc'[r] = where /\ job'[r] = j
      /\ \A q \in Requests \ {r} : pc'[q] = pc[q] /\ job'[q] = job[q]
  BY <1>1, ContinueMoves
<1>4. view' = view
  BY <1>2, <1>3 DEF view
<1>5. StaleListHasACause'
  <2> SUFFICES ASSUME (key = "COMPETITIONS_LIST_CACHE")', (cached \notin {NoEntry, view})', ~missed'
               PROVE  \E q \in Requests : WillInvalidate(q)'
    BY DEF StaleListHasACause, WillInvalidate
  <2>1. PICK q \in Requests : WillInvalidate(q)
    BY <1>2, <1>4 DEF IInv, StaleListHasACause, WillInvalidate
  <2>2. WillInvalidate(q)'
    BY <1>3, <2>1 DEF WillInvalidate
  <2> QED
    BY <2>2
<1>6. missed' \in BOOLEAN /\ (cached' = NoEntry \/ IsView(cached'))
  BY <1>1, <1>2 DEF Types, CatalogueTypeOK, IsView
<1> QED
  BY <1>2, <1>5, <1>6, ContinueInv

\* A write keeps it if the rows it leaves are sound and the writer will
\* invalidate: what the others have found they no longer know.
LEMMA WriteInv ==
  ASSUME IInv, NEW r \in Requests, NEW rows \in Seq(Row), NEW j, NEW where \in PC,
         Write(r, rows, j, where),
         Len(rows) <= Len(competitions) + 1, DOMAIN competitions \subseteq DOMAIN rows,
         Asks(j, where, rows), Found(j, where, rows),
         where = "invalidate" \/ j.imported
  PROVE  IInv'
<1>1. Types
  BY DEF IInv
<1>2. /\ competitions' = rows /\ writes' = writes + 1
      /\ UNCHANGED <<key, cached, missed>>
      /\ pc' \in [Requests -> PC] /\ pc'[r] = where /\ job'[r] = j /\ DOMAIN job' = Requests
      /\ current' \in [Requests -> BOOLEAN]
      /\ \A q \in Requests \ {r} :
           pc'[q] = pc[q] /\ job'[q] = job[q] /\ (current'[q] => pc[q] = "idle")
  BY <1>1, WriteMoves
<1>3. Knows(job'[r], pc'[r], competitions', current'[r])
  BY <1>2 DEF Knows
<1>4. ASSUME NEW q \in Requests \ {r} PROVE Knows(job'[q], pc'[q], competitions', current'[q])
  <2>1. Asks(job[q], pc[q], competitions)
    BY DEF IInv, Knows
  <2>2. Asks(job'[q], pc'[q], competitions')
    BY <1>2, <2>1 DEF Asks
  <2>3. pc'[q] = "idle" => Found(job'[q], pc'[q], competitions')
    BY DEF Found
  <2> QED
    BY <1>2, <2>2, <2>3 DEF Knows
<1>5. Types'
  <2>1. \A q \in Requests : job'[q].id \in {0} \cup DOMAIN competitions' /\ job'[q].todo \subseteq Names
    BY <1>3, <1>4 DEF Knows, Asks
  <2>2. writes' \in Nat /\ Len(competitions') <= 1 + writes'
    <3>1. writes \in Nat /\ Len(competitions) <= 1 + writes /\ Len(competitions) \in Nat
      BY <1>1, LenProperties DEF Types, CatalogueTypeOK
    <3>2. Len(rows) \in Nat
      BY LenProperties
    <3> QED
      BY <1>2, <3>1, <3>2
  <2> QED
    BY <1>1, <1>2, <2>1, <2>2 DEF Types, CatalogueTypeOK
<1>6. StaleListHasACause'
  <2>1. WillInvalidate(r)'
    BY <1>2 DEF WillInvalidate
  <2> QED
    BY <2>1 DEF StaleListHasACause, WillInvalidate
<1> QED
  BY <1>3, <1>4, <1>5, <1>6 DEF IInv

----------------------------------------------------------------------------
\* The invariant holds initially.
LEMMA InitInv == Init => IInv
<1> SUFFICES ASSUME Init PROVE IInv
  OBVIOUS
<1>1. competitions \in Seq(Row) /\ Len(competitions) = 1
  <2>1. PICK name \in Names : competitions = <<NewCompetition(name, TRUE)>>
    BY DEF Init
  <2> DEFINE row == NewCompetition(name, TRUE)
  <2>2. row \in Row
    BY NewTyped
  <2> HIDE DEF row
  <2>3. <<row>> \in Seq(Row) /\ Len(<<row>>) = 1
    BY <2>2
  <2> QED
    BY <2>1, <2>3 DEF row
<1>2. current \in [Requests -> BOOLEAN] /\ pc \in [Requests -> PC] /\ DOMAIN job = Requests
  BY DEF Init, PC
<1>3. \A r \in Requests : job[r] = NoJob /\ pc[r] = "idle"
  BY DEF Init
<1>4. \A r \in Requests : Knows(job[r], pc[r], competitions, current[r])
  BY <1>3, NoJobAsks DEF Knows
<1>5. Types
  <2>1. NoJob.id = 0 /\ NoJob.todo = {}
    BY DEF NoJob
  <2>2. writes \in Nat /\ Len(competitions) <= 1 + writes
    BY <1>1 DEF Init
  <2>3. key \in Keys /\ cached = NoEntry /\ missed = FALSE
    BY DEF Init
  <2>4. \A r \in Requests : job[r].id \in {0} \cup DOMAIN competitions /\ job[r].todo \subseteq Names
    BY <1>3, <2>1
  <2> QED
    BY <1>1, <1>2, <2>2, <2>3, <2>4 DEF Types, CatalogueTypeOK
<1> QED
  BY <1>4, <1>5 DEF Init, IInv, StaleListHasACause

\* What the invariant says of the competitions and of request r.
LEMMA Known ==
  ASSUME IInv, NEW r \in Requests
  PROVE  /\ competitions \in Seq(Row) /\ DOMAIN competitions = 1..Len(competitions)
         /\ \A id \in DOMAIN competitions : competitions[id] \in Row
         /\ HasFields(job[r]) /\ Asks(job[r], pc[r], competitions)
         /\ current[r] => Found(job[r], pc[r], competitions)
<1>1. competitions \in Seq(Row)
  BY DEF IInv, Types, CatalogueTypeOK
<1>2. \A id \in 1..Len(competitions) : competitions[id] \in Row
  BY <1>1, ElementOfSeq
<1> QED
  BY <1>1, <1>2, LenProperties DEF IInv, Knows, Asks

\* A competition is added.
LEMMA Added ==
  ASSUME IInv, NEW row \in Row
  PROVE  LET rows == Append(competitions, row) IN
         /\ rows \in Seq(Row) /\ Len(rows) <= Len(competitions) + 1
         /\ DOMAIN competitions \subseteq DOMAIN rows
<1>1. competitions \in Seq(Row)
  BY DEF IInv, Types, CatalogueTypeOK
<1> DEFINE rows == Append(competitions, row)
<1>2. rows \in Seq(Row) /\ Len(rows) = Len(competitions) + 1
  BY <1>1, AppendProperties
<1>3. /\ Len(competitions) \in Nat /\ DOMAIN competitions = 1..Len(competitions)
      /\ DOMAIN rows = 1..Len(rows)
  BY <1>1, <1>2, LenProperties
<1> HIDE DEF rows
<1>4. Len(rows) <= Len(competitions) + 1 /\ DOMAIN competitions \subseteq DOMAIN rows
  BY <1>2, <1>3
<1> QED
  BY <1>2, <1>4 DEF rows

\* Create keeps the invariant.
LEMMA CreateInv ==
  ASSUME IInv, NEW r \in Requests, NEW name \in Names, Create(r, name)
  PROVE  IInv'
<1> DEFINE row == NewCompetition(name, TRUE)
           rows == Append(competitions, row)
<1>1. row \in Row
  BY NewTyped
<1>2. Write(r, rows, NoJob, "invalidate")
  BY DEF Create
<1>3. Asks(NoJob, "invalidate", rows) /\ Found(NoJob, "invalidate", rows)
  BY NoJobAsks DEF Asks, Found, NoJob
<1>4. /\ rows \in Seq(Row) /\ Len(rows) <= Len(competitions) + 1
      /\ DOMAIN competitions \subseteq DOMAIN rows
  BY <1>1, Added
<1> HIDE DEF rows
<1> QED
  BY <1>2, <1>3, <1>4, WriteInv DEF PC

\* An import, item by item.
LEMMA ImportInv ==
  ASSUME IInv, NEW r \in Requests, NEW names \in SUBSET Names, Import(r, names)
  PROVE  IInv'
<1> DEFINE j == [NoJob EXCEPT !.todo = names \ {Unnamed}]
<1>1. Continue(r, j, "import") /\ UNCHANGED cacheVars /\ pc[r] = "idle"
  BY DEF Import
<1>2. Knows(j, "import", competitions, current[r])
  <2>1. HasFields(j) /\ j.id = 0 /\ j.todo \subseteq names /\ j.next = {} /\ j.imported = FALSE
    BY DEF HasFields, NoJob
  <2> HIDE DEF j
  <2> QED
    BY <2>1 DEF Knows, Asks, Found
<1>3. ~WillInvalidate(r)
  BY <1>1, Known DEF Asks, WillInvalidate
<1> HIDE DEF j
<1> QED
  BY <1>1, <1>2, <1>3, ReadInv DEF PC

\* FindByName keeps the invariant.
LEMMA FindByNameInv ==
  ASSUME IInv, NEW r \in Requests, NEW name \in Names, FindByName(r, name)
  PROVE  IInv'
<1> DEFINE exists == \E c \in DOMAIN competitions : competitions[c].name = name
           rest == [job[r] EXCEPT !.todo = @ \ {name}]
           next == [rest EXCEPT !.next = {name}]
<1>1. /\ pc[r] = "import" /\ UNCHANGED cacheVars
      /\ \/ exists /\ Continue(r, rest, "import")
         \/ ~exists /\ Continue(r, next, "insert")
  BY DEF FindByName
<1>2. Asks(job[r], "import", competitions) /\ HasFields(job[r])
  BY <1>1, Known
<1>3. /\ HasFields(rest) /\ HasFields(next)
      /\ rest.id = job[r].id /\ rest.todo \subseteq job[r].todo /\ rest.next = job[r].next
      /\ rest.imported = job[r].imported
      /\ next.id = job[r].id /\ next.todo \subseteq job[r].todo /\ next.next = {name}
      /\ next.imported = job[r].imported
  BY <1>2 DEF HasFields
<1> HIDE DEF rest, next
<1>4. Knows(rest, "import", competitions, current[r])
  BY <1>2, <1>3 DEF Knows, Asks, Found
<1>5. ~exists => Knows(next, "insert", competitions, current[r])
  BY <1>2, <1>3 DEF Knows, Asks, Found
<1>6. WillInvalidate(r) => rest.imported /\ next.imported
  BY <1>1, <1>3 DEF WillInvalidate
<1>7. CASE exists /\ Continue(r, rest, "import")
  BY <1>1, <1>4, <1>6, <1>7, ReadInv DEF PC
<1>8. CASE ~exists /\ Continue(r, next, "insert")
  BY <1>1, <1>5, <1>6, <1>8, ReadInv DEF PC
<1> QED
  BY <1>1, <1>7, <1>8

\* InsertImported keeps the invariant.
LEMMA InsertImportedInv ==
  ASSUME IInv, NEW r \in Requests, NEW active \in BOOLEAN, InsertImported(r, active)
  PROVE  IInv'
<1> DEFINE j == [job[r] EXCEPT !.next = {}, !.imported = TRUE]
<1>1. PICK name \in job[r].next :
        Write(r, Append(competitions, NewCompetition(name, active)), j, "import")
  BY DEF InsertImported
<1>2. Asks(job[r], "insert", competitions) /\ HasFields(job[r])
  BY Known DEF InsertImported
<1> DEFINE rows == Append(competitions, NewCompetition(name, active))
<1>3. NewCompetition(name, active) \in Row
  BY <1>2, NewTyped DEF Asks
<1>4. /\ rows \in Seq(Row) /\ Len(rows) <= Len(competitions) + 1
      /\ DOMAIN competitions \subseteq DOMAIN rows
  BY <1>3, Added
<1>5. /\ HasFields(j) /\ j.id = job[r].id /\ j.todo = job[r].todo /\ j.next = {} /\ j.imported = TRUE
  BY <1>2 DEF HasFields
<1> HIDE DEF rows, j
<1>6. Asks(j, "import", rows) /\ Found(j, "import", rows)
  BY <1>2, <1>4, <1>5 DEF Asks, Found
<1>7. Write(r, rows, j, "import")
  BY <1>1 DEF rows
<1> QED
  BY <1>4, <1>5, <1>6, <1>7, WriteInv DEF PC

\* EndImport keeps the invariant.
LEMMA EndImportInv ==
  ASSUME IInv, NEW r \in Requests, EndImport(r)
  PROVE  IInv'
<1> DEFINE where == IF job[r].imported THEN "invalidate" ELSE "idle"
<1>1. Continue(r, NoJob, where) /\ UNCHANGED cacheVars /\ pc[r] = "import"
  BY DEF EndImport
<1>2. where \in PC /\ Knows(NoJob, where, competitions, current[r])
  BY NoJobAsks DEF PC, Knows, Asks, Found, NoJob
<1>3. WillInvalidate(r) => where = "invalidate"
  BY <1>1 DEF WillInvalidate
<1> HIDE DEF where
<1> QED
  BY <1>1, <1>2, <1>3, ReadInv

----------------------------------------------------------------------------
\* Request r loads entity e of a competition, the columns `given` changed.
Loads(r, id, asked, given, e) ==
  /\ pc[r] = "idle"
  /\ IsPart(e)
  /\ \A c \in DOMAIN e \ given : e[c] = competitions[id][c]
  /\ Load(r, id, asked, given, e)
  /\ UNCHANGED cacheVars

\* A request that has loaded an entity and changed the given columns knows it.
LEMMA LoadedInv ==
  ASSUME IInv, NEW r \in Requests, NEW id \in DOMAIN competitions, NEW asked, NEW given, NEW e,
         Loads(r, id, asked, given, e)
  PROVE  IInv'
<1> DEFINE j == [NoJob EXCEPT !.id = id, !.asked = asked, !.given = given, !.entity = e]
<1>1. /\ HasFields(j) /\ j.id = id /\ j.given = given /\ j.entity = e
      /\ j.todo = {} /\ j.next = {} /\ j.imported = FALSE
  BY DEF HasFields, NoJob
<1>2. Continue(r, j, "save") /\ UNCHANGED cacheVars
  BY DEF Loads, Load
<1> HIDE DEF j
<1>3. Knows(j, "save", competitions, current[r])
  BY <1>1 DEF Loads, Knows, Asks, Found
<1>4. ~WillInvalidate(r)
  BY Known DEF Loads, Asks, WillInvalidate
<1> QED
  BY <1>2, <1>3, <1>4, ReadInv DEF PC

\* The DTO of a body is some columns of a row: those of the body, and those
\* with an initial value.
LEMMA DtoTyped ==
  ASSUME NEW body \in Bodies
  PROVE  IsPart(UpdateCompetitionDto(body))
<1> DEFINE dto == UpdateCompetitionDto(body)
<1>1. /\ DOMAIN body \subseteq {"name", "isActive"}
      /\ \A c \in DOMAIN body : body[c] \in ColumnValues(c)
  BY DEF Bodies
<1>2. /\ DOMAIN dto = DOMAIN body \cup {"name"}
      /\ \A c \in DOMAIN dto : dto[c] = IF c \in DOMAIN body THEN body[c] ELSE Unnamed
  BY DEF UpdateCompetitionDto
<1> HIDE DEF dto
<1>3. \A c \in DOMAIN dto : dto[c] \in ColumnType(c)
  BY <1>1, <1>2, CatalogueAssumption DEF ColumnType, ColumnValues
<1> QED
  BY <1>1, <1>2, <1>3 DEF IsPart, Columns, dto

\* UpdateCompetition keeps the invariant.
LEMMA UpdateCompetitionInv ==
  ASSUME IInv, NEW r \in Requests, NEW id \in DOMAIN competitions,
         NEW body \in Bodies, UpdateCompetition(r, id, body)
  PROVE  IInv'
<1> DEFINE dto == UpdateCompetitionDto(body)
           e == Update(competitions[id], dto)
<1>1. competitions[id] \in Row /\ IsPart(dto)
  BY Known, DtoTyped
<1>2. e \in Row
  BY <1>1, UpdateTyped
<1>3. IsPart(e)
  BY <1>2, RowParts
<1>4. \A c \in DOMAIN e \ DOMAIN dto : e[c] = competitions[id][c]
  BY DEF Update
<1>5. Loads(r, id, DOMAIN body, DOMAIN dto, e)
  BY <1>3, <1>4 DEF UpdateCompetition, Loads
<1> QED
  BY <1>5, LoadedInv

\* UpdateWave keeps the invariant.
LEMMA UpdateWaveInv ==
  ASSUME IInv, NEW r \in Requests, NEW id \in DOMAIN competitions, NEW value \in Prices,
         UpdateWave(r, id, value)
  PROVE  IInv'
<1> DEFINE e == [price |-> value]
<1>1. IsPart(e) /\ \A c \in DOMAIN e \ {"price"} : e[c] = competitions[id][c]
  BY DEF IsPart, Columns, ColumnType
<1>2. Loads(r, id, {"price"}, {"price"}, e)
  BY <1>1 DEF UpdateWave, Loads
<1> QED
  BY <1>2, LoadedInv

\* SoftDelete keeps the invariant.
LEMMA SoftDeleteInv ==
  ASSUME IInv, NEW r \in Requests, NEW id \in DOMAIN competitions, SoftDelete(r, id)
  PROVE  IInv'
<1>1. CASE competitions[id].isActive
  <2> DEFINE e == [competitions[id] EXCEPT !["isActive"] = FALSE]
  <2>1. competitions[id] \in Row /\ "isActive" \in Columns /\ FALSE \in ColumnType("isActive")
    BY Known DEF Columns, ColumnType, ColumnValues
  <2>2. IsPart(e) /\ \A c \in Columns \ {"isActive"} : e[c] = competitions[id][c]
    BY <2>1, RowParts
  <2>3. \A c \in DOMAIN e \ {"isActive"} : e[c] = competitions[id][c]
    BY <2>2 DEF IsPart
  <2>4. Loads(r, id, {"isActive"}, {"isActive"}, e)
    BY <1>1, <2>2, <2>3 DEF SoftDelete, Loads
  <2> QED
    BY <2>4, LoadedInv
<1>2. CASE ~competitions[id].isActive
  <2>1. Continue(r, NoJob, "invalidate") /\ UNCHANGED cacheVars
    BY <1>2 DEF SoftDelete
  <2>2. Knows(NoJob, "invalidate", competitions, current[r])
    BY NoJobAsks DEF Knows, Asks, Found, NoJob
  <2> QED
    BY <2>1, <2>2, ReadInv DEF PC
<1> QED
  BY <1>1, <1>2

\* The row is re-read, and what differs is to be written.
LEMMA SaveReloadInv ==
  ASSUME IInv, NEW r \in Requests, SaveReload(r)
  PROVE  IInv'
<1> DEFINE entity == job[r].entity
           row == competitions[job[r].id]
           reread == [c \in DOMAIN entity |-> row[c]]
           changes == Changes(entity, reread)
           j == [job[r] EXCEPT !.entity = <<>>, !.changes = changes]
<1>1. pc[r] = "save" /\ Continue(r, j, "commit") /\ UNCHANGED cacheVars
  BY DEF SaveReload
<1>2. Asks(job[r], "save", competitions) /\ HasFields(job[r])
      /\ (current[r] => Found(job[r], "save", competitions))
  BY <1>1, Known
<1>3. /\ DOMAIN changes = {c \in DOMAIN entity : entity[c] # row[c]}
      /\ \A c \in DOMAIN changes : changes[c] = entity[c]
  BY DEF Changes
<1>4. /\ HasFields(j) /\ j.id = job[r].id /\ j.given = job[r].given /\ j.changes = changes
      /\ j.todo = job[r].todo /\ j.next = job[r].next /\ j.imported = job[r].imported
  BY <1>2 DEF HasFields
<1> HIDE DEF j, changes
<1>5. IsPart(changes)
  BY <1>2, <1>3 DEF IsPart, Asks
<1>6. current[r] => DOMAIN changes \subseteq job[r].given
  BY <1>2, <1>3 DEF Found
<1>7. Knows(j, "commit", competitions, current[r])
  BY <1>2, <1>4, <1>5, <1>6 DEF Knows, Asks, Found
<1>8. WillInvalidate(r) => j.imported
  BY <1>1, <1>4 DEF WillInvalidate
<1> QED
  BY <1>1, <1>7, <1>8, ReadInv DEF PC

\* SaveCommit keeps the invariant.
LEMMA SaveCommitInv ==
  ASSUME IInv, NEW r \in Requests, SaveCommit(r)
  PROVE  IInv'
<1> DEFINE id == job[r].id
           changes == job[r].changes
           rows == [competitions EXCEPT ![id] = Update(@, changes)]
<1>1. pc[r] = "commit"
      /\ \/ Continue(r, NoJob, "invalidate") /\ UNCHANGED cacheVars
         \/ Write(r, rows, NoJob, "invalidate")
  BY DEF SaveCommit
<1>2. CASE Continue(r, NoJob, "invalidate") /\ UNCHANGED cacheVars
  <2>1. Knows(NoJob, "invalidate", competitions, current[r])
    BY NoJobAsks DEF Knows, Asks, Found, NoJob
  <2> QED
    BY <1>2, <2>1, ReadInv DEF PC
<1>3. CASE Write(r, rows, NoJob, "invalidate")
  <2>1. id \in DOMAIN competitions /\ IsPart(changes)
    BY <1>1, Known DEF Asks
  <2>2. Update(competitions[id], changes) \in Row
    BY <2>1, Known, UpdateTyped
  <2>3. /\ rows \in Seq(Row) /\ Len(rows) = Len(competitions)
    BY <2>1, <2>2, Known, ExceptSeq
  <2>4. Len(competitions) \in Nat /\ DOMAIN competitions = 1..Len(competitions) /\ DOMAIN rows = 1..Len(rows)
    BY <2>3, Known, LenProperties
  <2> HIDE DEF rows
  <2>5. Len(rows) <= Len(competitions) + 1 /\ DOMAIN competitions \subseteq DOMAIN rows
    BY <2>3, <2>4
  <2>6. Asks(NoJob, "invalidate", rows) /\ Found(NoJob, "invalidate", rows)
    BY NoJobAsks DEF Asks, Found, NoJob
  <2> QED
    BY <1>3, <2>3, <2>5, <2>6, WriteInv DEF PC
<1> QED
  BY <1>1, <1>2, <1>3

----------------------------------------------------------------------------
\* The list's key is deleted.
LEMMA InvalidateCacheInv ==
  ASSUME IInv, NEW r \in Requests, InvalidateCache(r)
  PROVE  IInv'
<1>1. Continue(r, NoJob, "idle") /\ key' = key
  BY DEF InvalidateCache
<1>2. Knows(NoJob, "idle", competitions, current[r])
  BY NoJobAsks DEF Knows
<1>3. CASE key = "COMPETITIONS_LIST_CACHE"
  <2>1. cached' = NoEntry /\ missed' = FALSE
    BY <1>3 DEF InvalidateCache
  <2>2. StaleListHasACause'
    BY <2>1 DEF StaleListHasACause
  <2> QED
    BY <1>1, <1>2, <2>1, <2>2, ContinueInv DEF PC
<1>4. CASE key # "COMPETITIONS_LIST_CACHE"
  <2>1. cached' = cached /\ missed' = missed
    BY <1>4 DEF InvalidateCache
  <2>2. StaleListHasACause'
    BY <1>1, <1>4 DEF StaleListHasACause
  <2>3. missed' \in BOOLEAN /\ (cached' = NoEntry \/ IsView(cached'))
    BY <2>1 DEF IInv, Types, CatalogueTypeOK, IsView
  <2> QED
    BY <1>1, <1>2, <2>2, <2>3, ContinueInv DEF PC
<1> QED
  BY <1>3, <1>4

\* A reader that missed the cache, up to storing what it read.
LEMMA ReadViewInv ==
  ASSUME IInv, NEW r \in Requests, Read(r)
  PROVE  IInv'
<1> DEFINE j == [NoJob EXCEPT !.view = view]
<1>1. Continue(r, j, "read") /\ UNCHANGED cacheVars /\ pc[r] = "idle"
  BY DEF Read
<1>2. IsView(view)
  BY Known DEF IsView, view
<1>3. /\ HasFields(j) /\ j.id = 0 /\ j.view = view
      /\ j.todo = {} /\ j.next = {} /\ j.imported = FALSE
  BY DEF HasFields, NoJob
<1> HIDE DEF j
<1>4. Knows(j, "read", competitions, current[r])
  BY <1>2, <1>3 DEF Knows, Asks, Found
<1>5. ~WillInvalidate(r)
  BY <1>1, Known DEF Asks, WillInvalidate
<1> QED
  BY <1>1, <1>4, <1>5, ReadInv DEF PC

\* Store keeps the invariant.
LEMMA StoreInv ==
  ASSUME IInv, NEW r \in Requests, Store(r)
  PROVE  IInv'
<1>1. /\ Continue(r, NoJob, "idle") /\ key' = key
      /\ cached' = job[r].view /\ missed' = (cached' # view)
  BY DEF Store
<1>2. Knows(NoJob, "idle", competitions, current[r])
  BY NoJobAsks DEF Knows
<1>3. IsView(cached')
  BY <1>1, Known DEF Store, Asks
<1>4. view' = view
  BY <1>1 DEF Continue, view
<1>5. StaleListHasACause'
  BY <1>1, <1>4 DEF StaleListHasACause
<1>6. missed' \in BOOLEAN
  BY <1>1
<1> QED
  BY <1>1, <1>2, <1>3, <1>5, <1>6, ContinueInv DEF PC

\* Expire keeps the invariant.
LEMMA ExpireInv ==
  ASSUME IInv, Expire
  PROVE  IInv'
<1>1. /\ cached' = NoEntry /\ missed' = FALSE
      /\ UNCHANGED <<competitions, writes, key, pc, job, current>>
  BY DEF Expire
<1>2. StaleListHasACause'
  BY <1>1 DEF StaleListHasACause
<1>3. Types'
  BY <1>1 DEF IInv, Types, CatalogueTypeOK
<1> QED
  BY <1>1, <1>2, <1>3 DEF IInv

\* The writer that fails before it invalidated leaves the entry for good.
LEMMA FailInv ==
  ASSUME IInv, NEW r \in Requests, Fail(r)
  PROVE  IInv'
<1>1. /\ Continue(r, NoJob, "idle") /\ key' = key /\ cached' = cached
      /\ missed' = (missed \/ WillInvalidate(r))
  BY DEF Fail, WillInvalidate
<1>2. Knows(NoJob, "idle", competitions, current[r])
  BY NoJobAsks DEF Knows
<1>3. missed' \in BOOLEAN /\ (missed \/ WillInvalidate(r) => missed')
  BY <1>1
<1>4. cached' = NoEntry \/ IsView(cached')
  BY <1>1 DEF IInv, Types, CatalogueTypeOK, IsView
<1>5. view' = view
  BY <1>1 DEF Continue, view
<1>6. StaleListHasACause'
  <2> SUFFICES ASSUME (key = "COMPETITIONS_LIST_CACHE")', (cached \notin {NoEntry, view})', ~missed'
               PROVE  \E q \in Requests : WillInvalidate(q)'
    BY DEF StaleListHasACause, WillInvalidate
  <2>1. PICK q \in Requests : WillInvalidate(q)
    BY <1>1, <1>3, <1>5 DEF IInv, StaleListHasACause, WillInvalidate
  <2>2. q # r
    BY <1>3, <2>1
  <2>3. pc'[q] = pc[q] /\ job'[q] = job[q]
    BY <1>1, <2>2, ContinueMoves DEF IInv, PC
  <2>4. WillInvalidate(q)'
    BY <2>1, <2>3 DEF WillInvalidate
  <2> QED
    BY <2>4
<1> QED
  BY <1>1, <1>2, <1>3, <1>4, <1>6, ContinueInv DEF PC

\* Every step keeps the invariant.
LEMMA NextInv == IInv /\ [Next]_vars => IInv'
<1> SUFFICES ASSUME IInv, [Next]_vars PROVE IInv'
  OBVIOUS
<1>1. ASSUME NEW r \in Requests, Begin(r) PROVE IInv'
  <2>1. CASE \E name \in Names : Create(r, name)
    BY <2>1, CreateInv
  <2>2. CASE \E names \in SUBSET Names : Import(r, names)
    BY <2>2, ImportInv
  <2>3. CASE \E id \in DOMAIN competitions : \E body \in Bodies : UpdateCompetition(r, id, body)
    BY <2>3, UpdateCompetitionInv
  <2>4. CASE \E id \in DOMAIN competitions :
               (\E price \in Prices : UpdateWave(r, id, price)) \/ SoftDelete(r, id)
    BY <2>4, UpdateWaveInv, SoftDeleteInv
  <2>5. CASE Read(r)
    BY <2>5, ReadViewInv
  <2> QED
    BY <1>1, <2>1, <2>2, <2>3, <2>4, <2>5 DEF Begin
<1>2. ASSUME NEW r \in Requests, Settle(r) PROVE IInv'
  BY <1>2, FindByNameInv, InsertImportedInv, EndImportInv, SaveReloadInv, SaveCommitInv,
     InvalidateCacheInv, StoreInv, FailInv DEF Settle
<1>3. CASE UNCHANGED vars
  BY <1>3 DEF vars, IInv, Types, CatalogueTypeOK, StaleListHasACause, view
<1> QED
  BY <1>1, <1>2, <1>3, ExpireInv DEF Next

----------------------------------------------------------------------------
\* The inductive invariant holds in every reachable state.
THEOREM Invariance == Spec => []IInv
BY InitInv, NextInv, PTL DEF Spec

\* The variables keep their types: an entry of the cache holds rows, a request
\* names a competition that is there.
THEOREM TypeCorrect == Spec => []CatalogueTypeOK
<1>1. IInv => CatalogueTypeOK
  BY DEF IInv, Types
<1> QED
  BY Invariance, <1>1, PTL

\* The list under COMPETITIONS_LIST_CACHE is that of the active competitions
\* unless a use case has yet to call invalidateCache, or failed before it, or
\* CacheInterceptor stored what it read before a write.
THEOREM StaleListExplained == Spec => []StaleListHasACause
<1>1. IInv => StaleListHasACause
  BY DEF IInv
<1> QED
  BY Invariance, <1>1, PTL

\* save() of UpdateCompetitionUseCase, UpdateWaveUseCase and
\* SoftDeleteCompetitionUseCase writes only columns of its DTO, those that have
\* got an initial value included, if no other request wrote since the entity was
\* loaded.
THEOREM OwnColumns == Spec => OwnColumnsUnlessOvertaken
<1>1. IInv /\ [Next]_vars =>
        [\A r \in Requests :
           pc[r] = "commit" /\ pc'[r] = "invalidate" /\ current[r] =>
             DOMAIN job[r].changes \subseteq job[r].given]_vars
  BY Known DEF Found
<1> QED
  BY Invariance, <1>1, PTL DEF Spec, OwnColumnsUnlessOvertaken

\* ImportCompetitionsUseCase adds a second competition of one name only if
\* another request wrote between the look-up and the INSERT.
THEOREM ImportSkips == Spec => ImportSkipsUnlessOvertaken
<1>1. IInv /\ [Next]_vars =>
        [\A r \in Requests :
           pc[r] = "insert" /\ pc'[r] = "import" /\ current[r] =>
             \A id \in DOMAIN competitions : competitions[id].name \notin job[r].next]_vars
  BY Known DEF Found
<1> QED
  BY Invariance, <1>1, PTL DEF Spec, ImportSkipsUnlessOvertaken
=============================================================================
