--------------------------- MODULE RecordEncoding ---------------------------
(***************************************************************************)
(* How a record of parameters becomes columns of a table and values of an  *)
(* insert (http.go, eco_mqtt.go).  Two switches over the kind of a value   *)
(* have to agree: createValueColumn chooses the column when a parameter is *)
(* first seen, insertHttpData and insertMqttData encode each value later.  *)
(*                                                                         *)
(* A value is a record with its kind: a "number" has tenths, a "string" a  *)
(* length, a nested object or list ("json") the length of its text; "time" *)
(* is the time stamp the http loop adds, "other" is null or a Boolean.     *)
(* What a column takes is the database's (external): a text of its length  *)
(* at most, numbers of its type, times.  The length 8 that a column of     *)
(* decimals is made with (http.go:171) is left out: how many digits it     *)
(* gives is flynn's, which the repository does not hold, so Keeps takes a  *)
(* decimal column for one that holds every number.                         *)
(***************************************************************************)
EXTENDS Integers, FiniteSets, Functions

CONSTANTS
    Params,      \* the names of parameters
    ColumnName,  \* the column of each: "eco_", dots replaced, case folded
    MaxInt64     \* 2^63, in tenths

ASSUME EncodingAssumption ==
    /\ ColumnName \in [Params -> STRING]
    /\ MaxInt64 \in Nat \ {0}

Values ==
    [kind : {"number"}, tenths : Int] \cup [kind : {"string", "json"}, length : Nat]
      \cup [kind : {"time", "other"}]
----------------------------------------------------------------------------
\* Mutant of ColumnLength: a long text gets no more room.
ColumnLengthFlat(length) == 1024

\* uint16 arithmetic.
ColumnLength(length) ==
    IF length > 1024 THEN (2048 + length) % 65536 ELSE 1024

Whole(v) == v.tenths % 10 = 0

\* createValueColumn; there is no column for a value of another kind.
ColumnOf(v) ==
    CASE v.kind = "string" -> [type |-> "Alpha", length |-> 255]
      [] v.kind = "json"   -> [type |-> "Alpha", length |-> ColumnLength(v.length)]
      [] v.kind = "time"   -> [type |-> "CurrentTimestamp", length |-> 8]
      [] v.kind = "number" -> IF Whole(v) /\ v.tenths < MaxInt64
                              THEN [type |-> "BigInteger", length |-> 0]
                              ELSE [type |-> "Decimal", length |-> 8]

Known(v) == v.kind # "other"

InInt64(tenths) == tenths \in -MaxInt64..(MaxInt64 - 1)

\* What the insert sends for a value; a whole number that no int64 holds is
\* converted to another (the least one, or the nearest, as the machine does).
Encoded(v) ==
    CASE v.kind = "number" ->
           IF Whole(v)
           THEN [type |-> "int64", tenths |-> IF InInt64(v.tenths) THEN v.tenths ELSE -MaxInt64]
           ELSE [type |-> "float64", tenths |-> v.tenths]
      [] v.kind = "time" -> [type |-> "time"]
      [] OTHER -> [type |-> "string", length |-> v.length]

\* The column holds what the record said.
Keeps(column, v) ==
    LET sent == Encoded(v)
    IN  CASE sent.type = "string"  -> column.type = "Alpha" /\ sent.length <= column.length
          [] sent.type = "time"    -> column.type = "CurrentTimestamp"
          [] sent.type = "int64"   -> /\ column.type \in {"BigInteger", "Decimal"}
                                      /\ sent.tenths = v.tenths
          [] sent.type = "float64" -> column.type = "Decimal"

\* A number in a numeric column that cannot hold it may be stored as another.
Bends(column, v) == v.kind = "number" /\ column.type \in {"BigInteger", "Decimal"}

\* The limits of the encoding: what a column made for the value can hold.
WithinBounds(v) ==
    CASE v.kind = "string" -> v.length <= 255
      [] v.kind = "json"   -> v.length < 63488
      [] v.kind = "number" -> Whole(v) => InInt64(v.tenths)
      [] v.kind = "time"   -> TRUE
----------------------------------------------------------------------------
(* Records: functions from some of the parameters to values. *)

AllKnown(record) == \A p \in DOMAIN record : Known(record[p])

\* No two parameters share a column.
Distinct(params) == IsInjective([p \in params |-> ColumnName[p]])

\* CREATE TABLE fails on a nil column and on a column twice, an insert on a
\* field without a value and on a field twice.
WellFormed(record) == AllKnown(record) /\ Distinct(DOMAIN record)

\* Both, f where they differ.
Joined(f, g) ==
    [x \in DOMAIN f \cup DOMAIN g |-> IF x \in DOMAIN f THEN f[x] ELSE g[x]]

\* The columns made for some of a record's parameters.
ColumnsOf(record, params) ==
    [name \in {ColumnName[p] : p \in params} |->
       ColumnOf(record[CHOOSE p \in params : ColumnName[p] = name])]

\* checkTableColumns: the parameters whose column is missing.
Missing(columns, record) == {p \in DOMAIN record : ColumnName[p] \notin DOMAIN columns}
============================================================================
