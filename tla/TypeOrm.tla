------------------------------ MODULE TypeOrm ------------------------------
(***************************************************************************)
(* What the repositories' `this.repo.save(entity)` does to a row that is   *)
(* already in MySQL.  TypeORM is a dependency, so this module is modelled  *)
(* from how the repositories use it: save first re-reads the row, works    *)
(* out which columns of the in-memory entity differ from what it re-read,  *)
(* and then writes exactly those columns in one transaction.  Nothing      *)
(* compares the row with the state the use case loaded earlier, so a       *)
(* column the use case never touched is written back whenever somebody     *)
(* else changed it between the load and the re-read.                       *)
(***************************************************************************)

\* The columns save() will write, with the values it will write.
Changes(entity, row) == [c \in {d \in DOMAIN row : entity[d] # row[d]} |-> entity[c]]

\* The row after an UPDATE of these columns.
Update(row, changes) ==
  [c \in DOMAIN row |-> IF c \in DOMAIN changes THEN changes[c] ELSE row[c]]
============================================================================
