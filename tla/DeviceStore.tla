---------------------------- MODULE DeviceStore ----------------------------
(***************************************************************************)
(* What the daemon stores (http.go, database.go).  Two writers share the   *)
(* database and the cache dbTables of the tables known to exist:           *)
(*   "http"  the goroutine httpParameterStore: a start-up round over the   *)
(*           devices that creates the quota table from the first answer,   *)
(*           then round after round of a query, a check of the columns and *)
(*           an insert for each device;                                    *)
(*   "mqtt"  the Callback of the Ecoflow MQTT client: the same steps for   *)
(*           one message, in a table of the device it came from.           *)
(* checkTable tests the cache, creates the table, reads the tables there   *)
(* are and replaces the cache, without a lock and with database calls in   *)
(* between; each of the four is a step here.                               *)
(*                                                                         *)
(* Data is abstracted to the set of parameters an answer holds; the kinds  *)
(* of their values and the types of the columns are left out.  The         *)
(* database (external) refuses to create a table twice and to insert a     *)
(* record into a table that does not exist or lacks a column.              *)
(* Failures of the API and of the columns' comparison, closed connections  *)
(* and crashes are counted, there are at most MaxDisturbances of them.     *)
(***************************************************************************)
EXTENDS Integers, Sequences, SequencesExt

CONSTANTS
    Devices,          \* the devices of the account, in the API's order
    Params,           \* the parameters of a device
    Answers,          \* the sets of parameters it can answer with
    MaxDisturbances

VARIABLES
    process,       \* "up" while the daemon runs
    mqttDisable,   \* the command line switches the MQTT client off
    dbTables,      \* the cache
    pc,            \* where each writer is
    todo,          \* devices left in the round of the http writer
    target,        \* the table each writer works on
    data,          \* the answer or message it works on
    listed,        \* the tables it has read, not yet in the cache
    conn,          \* its connection, "open" or "closed"
    unadapted,     \* the writers whose comparison of columns failed for the
                   \* record at hand: recorded for the properties
    tables,        \* the tables of the database
    columns,       \* the columns of each table
    disturbances   \* how many more can happen

memory == <<dbTables, pc, todo, target, data, listed, conn, unadapted>>
database == <<tables, columns>>
storeVars == <<process, mqttDisable, memory, database, disturbances>>

Writers == {"http", "mqtt"}
DeviceSet == ToSet(Devices)
Tables == {"quota"} \cup DeviceSet   \* a device stands for its own table

\* What the http loop adds to an answer: the serial number and the time, which
\* come together and are taken for one field.
Added == {"serial_number"}

Fields == Params \cup Added

ASSUME StoreAssumption ==
    /\ "quota" \notin DeviceSet /\ Devices \in Seq(DeviceSet) /\ Devices # <<>>
    /\ Answers \subseteq (SUBSET Params) \ {{}}
    /\ MaxDisturbances \in Nat

DevicesAfter(n) == SubSeq(Devices, n + 1, Len(Devices))

StoreTypeOK ==
    /\ process \in {"up", "down"}
    /\ mqttDisable \in BOOLEAN
    /\ dbTables \subseteq Tables /\ tables \subseteq Tables
    /\ pc \in [Writers -> {"idle", "first", "check", "create", "list", "cache",
                           "poll", "adapt", "insert"}]
    /\ \E n \in 0..Len(Devices) : todo = DevicesAfter(n)
    /\ target \in [Writers -> Tables]
    /\ data \in [Writers -> SUBSET Fields]
    /\ listed \in [Writers -> SUBSET Tables]
    /\ conn \in [Writers -> {"open", "closed"}]
    /\ unadapted \subseteq Writers
    /\ columns \in [Tables -> SUBSET Fields]
    /\ disturbances \in 0..MaxDisturbances
----------------------------------------------------------------------------
HasColumns(p) == data[p] \subseteq columns[target[p]]

\* The insert of the writer's record will succeed.
Storable(p) ==
    /\ conn[p] = "open"
    /\ target[p] \in tables
    /\ HasColumns(p)
----------------------------------------------------------------------------
\* A process that has just started: no write is under way.
StartPc == [http |-> "first", mqtt |-> "idle"]
NoTarget == [p \in Writers |-> "quota"]
NoData == [p \in Writers |-> {}]
Connected == [p \in Writers |-> "open"]

StoreInit ==
    /\ process = "up"
    /\ mqttDisable \in BOOLEAN
    /\ dbTables = {} /\ tables = {}
    /\ columns = [t \in Tables |-> {}]
    /\ disturbances = MaxDisturbances
    /\ pc = StartPc /\ todo = Devices /\ target = NoTarget
    /\ data = NoData /\ listed = NoData /\ conn = Connected /\ unadapted = {}

Disturbed == disturbances > 0 /\ disturbances' = disturbances - 1

At(p, step) == process = "up" /\ pc[p] = step

Goto(p, step) == pc' = [pc EXCEPT ![p] = step]

\* The end of a pass over checkTable or over a device.
NextDevice(step) ==
    /\ todo' = Tail(todo)
    /\ Goto("http", IF Tail(todo) = <<>> THEN "idle" ELSE step)

\* Mutant of Checked: the Callback never compares the columns.
CheckedWithoutColumns(p, created) ==
    IF p = "http" THEN NextDevice("first")
    ELSE Goto(p, "insert") /\ UNCHANGED todo

\* checkTable is left: the http writer goes on to the next device, the
\* Callback compares the columns unless it has just created the table.
Checked(p, created) ==
    IF p = "http" THEN NextDevice("first")
    ELSE Goto(p, IF created THEN "insert" ELSE "adapt") /\ UNCHANGED todo

\* What is in memory is lost with the process.
Die ==
    /\ process' = "down"
    /\ dbTables' = {}
    /\ pc' = StartPc /\ todo' = Devices /\ target' = NoTarget
    /\ data' = NoData /\ listed' = NoData /\ conn' = Connected /\ unadapted' = {}
    /\ UNCHANGED <<mqttDisable, database>>
----------------------------------------------------------------------------
(* The http writer. *)

\* GetDeviceAllParameters, in the start-up round.
FirstAnswer(a) ==
    /\ At("http", "first")
    /\ target' = [target EXCEPT !["http"] = "quota"]
    /\ data' = [data EXCEPT !["http"] = a]
    /\ Goto("http", "check")
    /\ UNCHANGED <<process, mqttDisable, dbTables, todo, listed, conn, unadapted, database, disturbances>>

FirstFails ==
    /\ At("http", "first")
    /\ Disturbed
    /\ NextDevice("first")
    /\ UNCHANGED <<process, mqttDisable, dbTables, target, data, listed, conn, unadapted, database>>

\* The loop's timer.
Wake ==
    /\ At("http", "idle")
    /\ todo' = Devices
    /\ Goto("http", "poll")
    /\ UNCHANGED <<process, mqttDisable, dbTables, target, data, listed, conn, unadapted, database, disturbances>>

\* Mutant of Answer: the serial number gets another name.
AnswerMisnamed(a) ==
    /\ At("http", "poll")
    /\ data' = [data EXCEPT !["http"] = a \cup {"sn"}]
    /\ Goto("http", "adapt")
    /\ UNCHANGED <<process, mqttDisable, dbTables, todo, target, listed, conn, unadapted, database, disturbances>>

\* The loop adds the serial number of the device and the time to its answer.
Answer(a) ==
    /\ At("http", "poll")
    /\ data' = [data EXCEPT !["http"] = a \cup Added]
    /\ Goto("http", "adapt")
    /\ UNCHANGED <<process, mqttDisable, dbTables, todo, target, listed, conn, unadapted, database, disturbances>>

AnswerFails ==
    /\ At("http", "poll")
    /\ Disturbed
    /\ NextDevice("poll")
    /\ UNCHANGED <<process, mqttDisable, dbTables, target, data, listed, conn, unadapted, database>>
----------------------------------------------------------------------------
(* The Callback. *)

Callback(d, a) ==
    /\ ~mqttDisable
    /\ At("mqtt", "idle")
    /\ target' = [target EXCEPT !["mqtt"] = d]
    /\ data' = [data EXCEPT !["mqtt"] = a]
    /\ Goto("mqtt", "check")
    /\ UNCHANGED <<process, mqttDisable, dbTables, todo, listed, conn, unadapted, database, disturbances>>
----------------------------------------------------------------------------
(* The steps they share. *)

\* Mutant of Check: the table is put into the cache before it is created.
CheckReserving(p) ==
    /\ At(p, "check")
    /\ IF target[p] \in dbTables
       THEN Checked(p, FALSE) /\ UNCHANGED dbTables
       ELSE Goto(p, "create") /\ dbTables' = dbTables \cup {target[p]} /\ UNCHANGED todo
    /\ UNCHANGED <<process, mqttDisable, target, data, listed, conn, unadapted, database, disturbances>>

Check(p) ==
    /\ At(p, "check")
    /\ IF target[p] \in dbTables
       THEN Checked(p, FALSE)
       ELSE Goto(p, "create") /\ UNCHANGED todo
    /\ UNCHANGED <<process, mqttDisable, dbTables, target, data, listed, conn, unadapted, database, disturbances>>

Create(p) ==
    /\ At(p, "create")
    /\ conn[p] = "open"
    /\ target[p] \notin tables
    /\ tables' = tables \cup {target[p]}
    /\ columns' = [columns EXCEPT ![target[p]] = data[p]]
    /\ Goto(p, "list")
    /\ UNCHANGED <<process, mqttDisable, dbTables, todo, target, data, listed, conn, unadapted, disturbances>>

\* CreateTable fails: the daemon ends ("Shuting down").
CreateFails(p) ==
    /\ At(p, "create")
    /\ conn[p] = "closed" \/ target[p] \in tables
    /\ Die
    /\ UNCHANGED disturbances

\* readDatabaseMaps, in two steps: flynn.Maps and the assignment.
ListTables(p) ==
    /\ At(p, "list")
    /\ listed' = [listed EXCEPT ![p] = tables]
    /\ Goto(p, "cache")
    /\ UNCHANGED <<process, mqttDisable, dbTables, todo, target, data, conn, unadapted, database, disturbances>>

\* Mutant of CacheTables: the cache is left as it was.
CacheNothing(p) ==
    /\ At(p, "cache")
    /\ listed' = [listed EXCEPT ![p] = {}]
    /\ Checked(p, TRUE)
    /\ UNCHANGED <<process, mqttDisable, dbTables, target, data, conn, unadapted, database, disturbances>>

CacheTables(p) ==
    /\ At(p, "cache")
    /\ dbTables' = listed[p]
    /\ listed' = [listed EXCEPT ![p] = {}]
    /\ Checked(p, TRUE)
    /\ UNCHANGED <<process, mqttDisable, target, data, conn, unadapted, database, disturbances>>

\* What a comparison that fails leaves to the insert.
Unadapted(p) ==
    /\ unadapted' = unadapted \cup {p}
    /\ UNCHANGED columns

\* Mutant of Adapt: the columns of the record replace those of the table.
AdaptReplacing(p) ==
    /\ At(p, "adapt")
    /\ IF conn[p] = "open" /\ target[p] \in tables
       THEN columns' = [columns EXCEPT ![target[p]] = data[p]] /\ UNCHANGED unadapted
       ELSE Unadapted(p)
    /\ Goto(p, "insert")
    /\ UNCHANGED <<process, mqttDisable, dbTables, todo, target, data, listed, conn, tables, disturbances>>

\* checkTableColumns; a table whose columns cannot be read is left as it is.
Adapt(p) ==
    /\ At(p, "adapt")
    /\ IF conn[p] = "open" /\ target[p] \in tables
       THEN columns' = [columns EXCEPT ![target[p]] = @ \cup data[p]] /\ UNCHANGED unadapted
       ELSE Unadapted(p)
    /\ Goto(p, "insert")
    /\ UNCHANGED <<process, mqttDisable, dbTables, todo, target, data, listed, conn, tables, disturbances>>

\* GetTableColumn or AdaptTable fails over an open connection: some columns
\* are added, or none; the error is logged, and the insert follows.
AdaptFails(p) ==
    /\ At(p, "adapt")
    /\ conn[p] = "open" /\ target[p] \in tables
    /\ Disturbed
    /\ \E some \in SUBSET (data[p] \ columns[target[p]]) :
          columns' = [columns EXCEPT ![target[p]] = @ \cup some]
    /\ unadapted' = unadapted \cup {p}
    /\ Goto(p, "insert")
    /\ UNCHANGED <<process, mqttDisable, dbTables, todo, target, data, listed, conn, tables>>

\* Mutant of Insert: a closed connection stays closed.
InsertWithoutReconnect(p) ==
    /\ At(p, "insert")
    /\ data' = [data EXCEPT ![p] = {}]
    /\ unadapted' = unadapted \ {p}
    /\ IF p = "http" THEN NextDevice("poll") ELSE Goto(p, "idle") /\ UNCHANGED todo
    /\ UNCHANGED <<process, mqttDisable, dbTables, target, listed, conn, database, disturbances>>

\* insertTable: the record is stored or lost.  A closed connection, and
\* nothing else, is opened again.
Insert(p) ==
    /\ At(p, "insert")
    /\ conn' = [conn EXCEPT ![p] = "open"]
    /\ data' = [data EXCEPT ![p] = {}]
    /\ unadapted' = unadapted \ {p}
    /\ IF p = "http" THEN NextDevice("poll") ELSE Goto(p, "idle") /\ UNCHANGED todo
    /\ UNCHANGED <<process, mqttDisable, dbTables, target, listed, database, disturbances>>
----------------------------------------------------------------------------
(* The environment. *)

CloseConnection(p) ==
    /\ process = "up"
    /\ conn[p] = "open"
    /\ Disturbed
    /\ conn' = [conn EXCEPT ![p] = "closed"]
    /\ UNCHANGED <<process, mqttDisable, dbTables, pc, todo, target, data, listed, unadapted, database>>

StoreCrash ==
    /\ process = "up"
    /\ Disturbed
    /\ Die

\* Mutant of StoreRestart: the tables are read after the writers have started.
StoreRestartUnread ==
    /\ process = "down"
    /\ process' = "up"
    /\ dbTables' = {}
    /\ UNCHANGED <<mqttDisable, pc, todo, target, data, listed, conn, unadapted, database, disturbances>>

\* InitDatabase reads the tables before anything else runs.
StoreRestart ==
    /\ process = "down"
    /\ process' = "up"
    /\ dbTables' = tables
    /\ UNCHANGED <<mqttDisable, pc, todo, target, data, listed, conn, unadapted, database, disturbances>>

WriterStep(p) ==
    Check(p) \/ Create(p) \/ CreateFails(p) \/ ListTables(p) \/ CacheTables(p)
      \/ Adapt(p) \/ Insert(p)

HttpAnswered == \E a \in Answers : FirstAnswer(a) \/ Answer(a)

StoreNext ==
    \/ HttpAnswered
    \/ FirstFails
    \/ Wake
    \/ AnswerFails
    \/ \E d \in DeviceSet, a \in Answers : Callback(d, a)
    \/ \E p \in Writers : WriterStep(p) \/ AdaptFails(p) \/ CloseConnection(p)
    \/ StoreCrash
    \/ StoreRestart

\* Goroutines run on, calls return, the timer fires, the container is
\* restarted.  Messages of the MQTT client may stay out.
StoreFairness ==
    /\ WF_storeVars(HttpAnswered)
    /\ WF_storeVars(Wake)
    /\ \A p \in Writers : WF_storeVars(WriterStep(p))
    /\ WF_storeVars(StoreRestart)

StoreSpec == StoreInit /\ [][StoreNext]_storeVars /\ StoreFairness
----------------------------------------------------------------------------
\* The cache never names a table the database does not have, so no insert
\* fails for a table that checkTable took for an existing one.
CacheSound == process = "up" => dbTables \subseteq tables

\* A record comes to its insert with its table there and a column for each of
\* its values, added or created with the table since the answer came, whatever
\* the other writer did and whatever failed before; only a record whose own
\* comparison failed (GetTableColumn, AdaptTable) goes without.
InsertsHaveColumns ==
    \A p \in Writers :
        At(p, "insert") /\ p \notin unadapted => target[p] \in tables /\ HasColumns(p)

\* With the http writer alone, checkTable creates only a table that is not
\* there ("if not available, create table"): the daemon never ends for it.
AloneCreatesAbsent ==
    mqttDisable /\ At("http", "create") => target["http"] \notin tables

\* The race of the two lists can end the daemon, but for a table only once: a
\* table the database has when the daemon is down is never taken for a missing
\* one again, by no later process and however its writers race (InitDatabase
\* reads the tables first, and every later list has them too).
NeverCreatedAgain ==
    \A t \in Tables :
        [](process = "down" /\ t \in tables
             => [](\A p \in Writers : ~(At(p, "create") /\ target[p] = t)))

\* checkTable creates only a table that is not there ("check table and if not
\* available, create table").  A cache replaced by an older list breaks it.
CreatesAbsent ==
    \A p \in Writers : At(p, "create") => target[p] \notin tables

\* Whatever the cache says, and whichever writer a crash or a closed connection
\* stops where, the database only ever sees an orderly schema: a table made
\* once and from a record for it, columns that are added and never lost.
Schema == INSTANCE SchemaEvolution
            WITH offers <- {[table |-> target[p], fields |-> data[p]] : p \in Writers}

EvolvesSchema == Schema!Spec

Stores(d) == At("http", "insert") /\ Head(todo) = d /\ Storable("http")

\* Once the quota table exists, every device is stored again and again: no
\* failure, restart or race of the writers stops it for good.
KeepsStoring ==
    \A d \in DeviceSet : <>("quota" \in tables) => []<>Stores(d)

\* Every device is stored again and again ("queries periodically data from all
\* devices quota API calls and store the data").  It fails if the start-up
\* round does.
StoresAll == \A d \in DeviceSet : []<>Stores(d)
============================================================================
