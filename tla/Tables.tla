------------------------------- MODULE Tables -------------------------------
(***************************************************************************)
(* A database table as a function: its DOMAIN is the set of primary keys   *)
(* of its live rows.                                                       *)
(***************************************************************************)
EXTENDS Functions

IsTable(table, Key, RowType) ==
  DOMAIN table \subseteq Key /\ table \in [DOMAIN table -> RowType]

(* INSERT of rows under new keys, and DELETE of the rows under `keys'.     *)
Insert(table, rows) ==
  [k \in DOMAIN table \cup DOMAIN rows |->
     IF k \in DOMAIN rows THEN rows[k] ELSE table[k]]

Row(key, row) == [k \in {key} |-> row]

Delete(table, keys) == Restrict(table, DOMAIN table \ keys)
=============================================================================
