----------------------------- MODULE DataPaths -----------------------------
(***************************************************************************)
(* The daemon and its data: a meter whose messages are mapped to events    *)
(* for the controller, and a writer that turns a device's answers into     *)
(* columns and records.  They share the process: a message the mapping     *)
(* cannot take ends it, and with it whatever the writer was doing; what    *)
(* the table has become stays.                                             *)
(*                                                                         *)
(* One writer is looked at, chosen once: the http store, which creates its *)
(* table in its start-up round and adds a serial number and a time stamp   *)
(* to later answers, or the Callback, which creates its table from the     *)
(* first message.  Each has tables of its own, and how they share the      *)
(* cache is DeviceStore's; a restarted daemon knows whether the table is   *)
(* there.  Where the values of a record fit nowhere, what the database     *)
(* does with it is its own (external) choice.                              *)
(*                                                                         *)
(* What does not come from the data is counted, there are at most          *)
(* MaxDisturbances of it: a start-up query, a comparison of columns or an  *)
(* insert that fails, and every end of the process that neither a message  *)
(* nor a table brings about (a crash, a CREATE TABLE over a connection     *)
(* that was closed).  A query of the loop that fails changes nothing here. *)
(***************************************************************************)
EXTENDS EventMapping, RecordEncoding

CONSTANTS
    Homes,       \* a meter, its mapping with the messages it sends, and the
                 \* set of records a device answers with
    Added,       \* the record of what the http loop adds to an answer
    MaxDisturbances

VARIABLES
    process,   \* "up" while the daemon runs
    meter,     \* its mapping and its messages, chosen once
    heard,     \* the message taken last: a set of none, or one
    event,     \* what it became
    writer,    \* "http" or "mqtt", chosen once
    answers,   \* the records the device answers with, chosen once
    pc,        \* where the writer is
    record,    \* what it works on
    created,   \* the table is there
    columns,   \* its columns
    comparison,   \* of the record with the columns: "fine" or "failed",
                  \* recorded for the properties
    kept,         \* what became of the last record
    disturbances  \* how many more can happen

meterVars == <<meter, heard, event>>
tableVars == <<created, columns>>
writerVars == <<writer, answers, pc, record, comparison, kept>>
dataVars == <<process, meterVars, writerVars, tableVars, disturbances>>

Meters == {home.meter : home \in Homes}
AnswerSets == {home.answers : home \in Homes}

Empty == [p \in {} |-> {}]

IsRecord(r) ==
    /\ r = [p \in DOMAIN r |-> r[p]]
    /\ DOMAIN r \subseteq Params
    /\ \A p \in DOMAIN r : r[p] \in Values

ASSUME DataAssumption ==
    /\ \A m \in Meters : m.mapping \in Mappings
    /\ IsRecord(Added)
    /\ \A as \in AnswerSets : as # {} /\ \A a \in as : IsRecord(a)
    /\ MaxDisturbances \in Nat
----------------------------------------------------------------------------
DataInit ==
    /\ process = "up"
    /\ \E home \in Homes : meter = home.meter /\ answers = home.answers
    /\ heard = {} /\ event = Empty
    /\ writer \in {"http", "mqtt"}
    /\ pc = "start" /\ record = Empty
    /\ created = FALSE /\ columns = Empty
    /\ comparison = "fine" /\ kept = "none"
    /\ disturbances = MaxDisturbances

At(step) == process = "up" /\ pc = step

Disturbed == disturbances > 0 /\ disturbances' = disturbances - 1

Ends ==
    /\ process' = "down"
    /\ heard' = {} /\ event' = Empty
    /\ pc' = "start" /\ record' = Empty /\ comparison' = "fine"
    /\ UNCHANGED <<meter, writer, answers, kept>>
----------------------------------------------------------------------------
(* The message loop. *)

TakeMessage(m) ==
    /\ process = "up"
    /\ Taken(meter.mapping, m)
    /\ heard' = {m}
    /\ event' = CreateEntry(meter.mapping, m)
    /\ UNCHANGED <<process, meter, writerVars, tableVars, disturbances>>

EndOnMessage(m) ==
    /\ process = "up"
    /\ ~Taken(meter.mapping, m)
    /\ Ends
    /\ UNCHANGED <<tableVars, disturbances>>
----------------------------------------------------------------------------
(* The writer. *)

\* What is stored of an answer: a value of its own goes before an added one.
ToStore(answer) == IF writer = "http" THEN Joined(answer, Added) ELSE answer

\* Mutant of FirstAnswer: the tables that are there are not known.
FirstAnswerUnaware(a) ==
    /\ writer = "http"
    /\ At("start")
    /\ record' = a
    /\ pc' = "create"
    /\ UNCHANGED <<process, meterVars, writer, answers, comparison, kept, tableVars, disturbances>>

\* The http store's first answer; only a table that is not there needs it.
FirstAnswer(a) ==
    /\ writer = "http"
    /\ At("start")
    /\ record' = a
    /\ pc' = IF created THEN "idle" ELSE "create"
    /\ UNCHANGED <<process, meterVars, writer, answers, comparison, kept, tableVars, disturbances>>

\* The start-up query fails: the table is not made, and the loop follows.
FirstFails ==
    /\ writer = "http"
    /\ At("start")
    /\ Disturbed
    /\ pc' = "idle"
    /\ UNCHANGED <<process, meterVars, writer, answers, record, comparison, kept, tableVars>>

\* Mutant of Answer: the columns are not compared.
AnswerUncompared(a) ==
    /\ At(IF writer = "http" THEN "idle" ELSE "start")
    /\ record' = ToStore(a)
    /\ comparison' = "fine"
    /\ pc' = IF writer = "http" \/ created THEN "insert" ELSE "create"
    /\ UNCHANGED <<process, meterVars, writer, answers, kept, tableVars, disturbances>>

\* An answer in the http loop, which makes no table, or a message of the
\* Callback, which does.
Answer(a) ==
    /\ At(IF writer = "http" THEN "idle" ELSE "start")
    /\ record' = ToStore(a)
    /\ comparison' = "fine"
    /\ pc' = IF writer = "http" \/ created THEN "adapt" ELSE "create"
    /\ UNCHANGED <<process, meterVars, writer, answers, kept, tableVars, disturbances>>

Creatable == ~created /\ WellFormed(record)

CreateTable ==
    /\ At("create")
    /\ Creatable
    /\ created' = TRUE
    /\ columns' = ColumnsOf(record, DOMAIN record)
    /\ pc' = IF writer = "http" THEN "idle" ELSE "insert"
    /\ UNCHANGED <<process, meterVars, writer, answers, record, comparison, kept, disturbances>>

\* checkTable ends the daemon.
EndOnTable ==
    /\ At("create")
    /\ ~Creatable
    /\ Ends
    /\ UNCHANGED <<tableVars, disturbances>>

\* Mutant of AddColumns: the columns there are get the types of the record.
AddColumnsRetyped(ps) ==
    columns' = Joined(ColumnsOf(record, {p \in DOMAIN record : Known(record[p])}), columns)

AddColumns(ps) == columns' = Joined(columns, ColumnsOf(record, ps))

\* Some columns of a record are added, or none.
AddSome ==
    \E ps \in SUBSET {p \in Missing(columns, record) : Known(record[p])} : AddColumns(ps)

ToInsert(outcome) ==
    /\ comparison' = outcome
    /\ pc' = "insert"
    /\ UNCHANGED <<process, meterVars, writer, answers, record, kept>>

\* checkTableColumns.  Without the table nothing is added; of columns that
\* cannot all be added, some may be; and a nil column may end the process.
AdaptTable ==
    LET missing == Missing(columns, record)
        added == [p \in missing |-> record[p]]
        addable == created /\ WellFormed(added)
    IN  /\ At("adapt")
        /\ \/ addable /\ AddColumns(missing)
           \/ created /\ ~addable /\ AddSome
           \/ ~created /\ UNCHANGED columns
        /\ \/ ToInsert(IF addable THEN "fine" ELSE "failed")
           \/ ~AllKnown(added) /\ Ends
        /\ UNCHANGED <<created, disturbances>>

\* GetTableColumn or AdaptTable fails on a table that is there and on columns
\* it could have; the insert follows.
AdaptFails ==
    /\ At("adapt")
    /\ created
    /\ Disturbed
    /\ AddSome
    /\ ToInsert("failed")
    /\ UNCHANGED created

\* What the database does with the record: it takes none without its table, a
\* column and a value for each field, and no field twice.
Outcomes ==
    LET column(p) == columns[ColumnName[p]]
    IN  IF ~created \/ Missing(columns, record) # {} \/ ~Distinct(DOMAIN record)
        THEN {"refused"}
        ELSE IF ~AllKnown(record) THEN {"refused", "bent"}
        ELSE IF \A p \in DOMAIN record : Keeps(column(p), record[p]) THEN {"exact"}
        ELSE IF \A p \in DOMAIN record :
                  Keeps(column(p), record[p]) \/ Bends(column(p), record[p])
        THEN {"refused", "bent"}
        ELSE {"refused"}

Stored(outcome) ==
    /\ kept' = outcome
    /\ pc' = IF writer = "http" THEN "idle" ELSE "start"
    /\ record' = Empty /\ comparison' = "fine"
    /\ UNCHANGED <<process, meterVars, writer, answers, tableVars>>

Insert ==
    /\ At("insert")
    /\ \E outcome \in Outcomes : Stored(outcome)
    /\ UNCHANGED disturbances

\* The insert fails whatever the record is: the connection is closed, and is
\* opened again for the next one; no insert is repeated.
InsertFails ==
    /\ At("insert")
    /\ Disturbed
    /\ Stored("lost")
----------------------------------------------------------------------------
CrashData ==
    /\ process = "up"
    /\ Disturbed
    /\ Ends
    /\ UNCHANGED tableVars

RestartData ==
    /\ process = "down"
    /\ process' = "up"
    /\ UNCHANGED <<meterVars, writerVars, tableVars, disturbances>>

Answered == \E a \in answers : Answer(a)

\* What the writer does on its own, without a message of the device.
WriterStep ==
    \/ \E a \in answers : FirstAnswer(a)
    \/ writer = "http" /\ Answered
    \/ CreateTable
    \/ EndOnTable
    \/ AdaptTable
    \/ Insert

DataNext ==
    \/ \E m \in meter.messages : TakeMessage(m) \/ EndOnMessage(m)
    \/ WriterStep
    \/ writer = "mqtt" /\ Answered
    \/ FirstFails
    \/ AdaptFails
    \/ InsertFails
    \/ CrashData
    \/ RestartData

\* The writer's goroutine runs on and its calls return; the container is
\* started again.  The meter and the device's messages may stay out.
DataSpec ==
    /\ DataInit /\ [][DataNext]_dataVars
    /\ WF_dataVars(WriterStep) /\ WF_dataVars(RestartData)
----------------------------------------------------------------------------
DataTypeOK ==
    /\ process \in {"up", "down"}
    /\ meter \in Meters
    /\ heard \subseteq meter.messages
    /\ heard # {} => Usable(event)
    /\ writer \in {"http", "mqtt"}
    /\ answers \in AnswerSets
    /\ pc \in {"start", "idle", "create", "adapt", "insert"}
    /\ IsRecord(record)
    /\ created \in BOOLEAN
    /\ DOMAIN columns \subseteq Range(ColumnName)
    /\ ~created => columns = Empty
    /\ comparison \in {"fine", "failed"}
    /\ kept \in {"none", "exact", "bent", "refused", "lost"}
    /\ disturbances \in 0..MaxDisturbances

\* What the controller decides on is what the mapping promises of the message:
\* of entries with one destination the last that forces its value, else the
\* first, whatever the order the others come in (createEntry).
EventAsMapped == \A m \in heard : Mapped(meter.mapping, m, event)

\* createValueColumn and the insert agree: the column made for a value holds
\* the value, unless it is beyond the limits of the encoding (a text of more
\* than 255, a nested value of 63488 or more, a whole number of more than 64 bit).
FreshColumnsFit ==
    At("insert") =>
        \A p \in DOMAIN record :
            Known(record[p]) => (Keeps(ColumnOf(record[p]), record[p]) <=> WithinBounds(record[p]))

\* The records fit each other: each has its columns, and a column made for
\* the value of one holds the values the others give it.
Compatible(records) ==
    /\ \A r \in records : WellFormed(r)
    /\ \A r, s \in records : \A p \in DOMAIN r, q \in DOMAIN s :
         ColumnName[p] = ColumnName[q] => Keeps(ColumnOf(r[p]), s[q])

Stores == {ToStore(a) : a \in answers}

\* The writer is done with a record.
Inserted == At("insert") /\ process' = "up" /\ pc' # "insert"

\* Of records that fit each other none is stored as another, whichever came
\* first and wherever the process ended meanwhile.  One is refused only if its
\* own comparison with the columns failed, for want of the table or in the
\* database, and lost only with its connection; a failure of an earlier record
\* is made good by the next comparison.  A whole number followed by a fraction
\* does not fit (http.go:168).
CompatibleKept ==
    [][Inserted /\ Compatible(Stores) =>
         \/ kept' = "exact"
         \/ kept' = "refused" /\ comparison = "failed"
         \/ kept' = "lost" /\ disturbances' < disturbances]_dataVars

\* The graph of columns: the name of each with what it takes.
Typed(cs) == {<<name, cs[name]>> : name \in DOMAIN cs}

\* What the writer may make of its record: columns for some of its values.
Offers ==
    {[table |-> "table", fields |-> Typed(ColumnsOf(record, ps))] :
       ps \in SUBSET {p \in DOMAIN record : Known(record[p])}}

\* Whatever the values, and wherever the process ends, the table has an orderly
\* schema: made once, from the record in hand, and widened only by columns for
\* its values; a column keeps its type, even where a later value needs another
\* (checkTable, checkTableColumns).
TypedSchema == INSTANCE SchemaEvolution
                 WITH Tables  <- {"table"},
                      tables  <- IF created THEN {"table"} ELSE {},
                      columns <- [t \in {"table"} |-> Typed(columns)],
                      offers  <- Offers

EvolvesTyped == TypedSchema!Spec

\* A device whose records fit each other, beside a meter whose messages the
\* mapping takes.
Fitting == Compatible(Stores) /\ \A m \in meter.messages : Taken(meter.mapping, m)

\* Nothing in such data ends the daemon: no message, no value, and no table or
\* column that a process before it has left (checkTable, checkTableColumns).
FittingStaysUp ==
    [][process = "up" /\ process' = "down" /\ Fitting => disturbances' < disturbances]_dataVars

\* Such a device is stored for ever once its table is there, and the Callback's
\* as long as messages come: no order of answers, no failure and no end of the
\* process leaves a table behind that keeps a record out.
KeepsStoringData ==
    Fitting /\ <>created /\ (writer = "mqtt" => []<>(pc # "start"))
        => []<>(At("insert") /\ Outcomes = {"exact"})
============================================================================
