-------------------------- MODULE SchemaEvolution --------------------------
(***************************************************************************)
(* What the writers promise the database, without the cache and the steps  *)
(* in between: a table is created once, from a record that was offered for *)
(* it, and afterwards only gets the columns of records offered for it.     *)
(* The offers are the writers' (open here).  DeviceStore implements this,  *)
(* a column being its name, and DataPaths, a column having its type too.   *)
(***************************************************************************)
CONSTANT Tables

VARIABLES
    tables,    \* the tables there are
    columns,   \* the columns of each
    offers     \* the records the writers work on, each with its table

schema == <<tables, columns>>

Init == tables = {} /\ columns = [t \in Tables |-> {}]

Create(offer) ==
    /\ offer.table \notin tables
    /\ tables' = tables \cup {offer.table}
    /\ columns' = [columns EXCEPT ![offer.table] = offer.fields]

Gained(table) == columns'[table] \ columns[table]

\* Not all of an offer need be added: a widening can fail on the way.
Widen(offer) ==
    /\ offer.table \in tables
    /\ columns' = [columns EXCEPT ![offer.table] = @ \cup Gained(offer.table)]
    /\ Gained(offer.table) \subseteq offer.fields
    /\ UNCHANGED tables

Next == \E offer \in offers : Create(offer) \/ Widen(offer)

Spec == Init /\ [][Next]_schema
============================================================================
