------------------------------ MODULE TypeOrm ------------------------------
(***************************************************************************)
(* What repository.save(entity) does to a row that already exists, as the  *)
(* services rely on it.  The library is not part of the repository.        *)
(*                                                                         *)
(* save() first SELECTs the row by its id, soft-deleted or not, and        *)
(* compares it with the entity in memory column by column; an UPDATE then  *)
(* writes the columns that differed.  The entity was read some awaits      *)
(* earlier, so a column another request changed in between differs too,    *)
(* and is written back to the value it had.                                *)
(*                                                                         *)
(* A row is a record.  A property whose value is `undefined` is not        *)
(* compared: such an entity is a record without that column.               *)
(***************************************************************************)

\* The columns that save() finds different in the row it has just selected.
Dirty(entity, row) == {col \in DOMAIN entity : entity[col] # row[col]}

\* The row after UPDATE ... SET <cols of entity>.
Written(row, entity, cols) ==
    [col \in DOMAIN row |-> IF col \in cols THEN entity[col] ELSE row[col]]

=============================================================================
