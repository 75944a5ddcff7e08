------------------------- MODULE DeviceStoreProofs -------------------------
(***************************************************************************)
(* Proofs about the writers, for any devices, answers and failures:        *)
(*   - CacheIsSound and ColumnsAreThere: the cache and the columns;        *)
(*   - AloneNeverCollides: the creation, with the http writer alone;       *)
(*   - CollidesOnce: how often a table can end the daemon;                 *)
(*   - StoreTypeCorrect: the type invariant;                               *)
(*   - SchemaRefinement: SchemaEvolution is implemented.                   *)
(***************************************************************************)
EXTENDS DeviceStore, TLAPS

Steps == {"idle", "first", "check", "create", "list", "cache", "poll", "adapt", "insert"}

\* Where a writer is, and that the two never work on the same table.
WritersOK ==
    /\ process \in {"up", "down"}
    /\ pc \in [Writers -> Steps]
    /\ target \in [Writers -> Tables]
    /\ data \in [Writers -> SUBSET Fields]
    /\ listed \in [Writers -> SUBSET Tables]
    /\ conn \in [Writers -> {"open", "closed"}]
    /\ unadapted \subseteq Writers
    /\ tables \subseteq Tables
    /\ columns \in [Tables -> SUBSET Fields]
    /\ target["http"] = "quota"
    /\ pc["mqtt"] # "idle" => target["mqtt"] # "quota"
    /\ pc["mqtt"] \notin {"first", "poll"}
    /\ process = "down" => pc = StartPc

\* Tables are never dropped: what was listed once stays a list of tables.
ListsOK ==
    /\ dbTables \subseteq tables
    /\ \A p \in Writers : listed[p] \subseteq tables

\* The columns a writer counts on are there from the creation of its table,
\* or from a comparison that did not fail, to its insert.
ColumnsOK ==
    \A p \in Writers :
        /\ pc[p] \in {"list", "cache"} => target[p] \in tables /\ HasColumns(p)
        /\ pc[p] = "insert" /\ p \notin unadapted => target[p] \in tables /\ HasColumns(p)

\* With one writer the cache is behind the database only while it is filled.
AloneOK ==
    mqttDisable =>
        /\ pc["mqtt"] = "idle"
        /\ process = "up" =>
             /\ pc["http"] \notin {"list", "cache"} => dbTables = tables
             /\ pc["http"] = "cache" => listed["http"] = tables
             /\ pc["http"] = "create" => target["http"] \notin tables

SInv == WritersOK /\ ListsOK /\ ColumnsOK /\ AloneOK

\* A fresh daemon on an empty database.
LEMMA StoreInitSInv == StoreInit => SInv
BY DEF StoreInit, SInv, WritersOK, ListsOK, ColumnsOK, AloneOK, HasColumns, StartPc,
       NoTarget, NoData, Connected, Writers, Steps, Tables

\* The end of the process forgets, and changes nothing in the database.
LEMMA DieSInv == ASSUME SInv, Die, process = "up" PROVE SInv'
BY DEF Die, SInv, WritersOK, ListsOK, ColumnsOK, AloneOK, HasColumns, StartPc, NoTarget,
       NoData, Connected, Writers, Steps, Tables, database, DeviceSet

\* Where checkTable leaves a writer to.
LEMMA CheckedGoes ==
    ASSUME SInv, NEW p \in Writers, NEW created \in BOOLEAN, Checked(p, created)
    PROVE  \E step \in IF p = "http" THEN {"first", "idle"}
                       ELSE IF created THEN {"insert"} ELSE {"adapt"} :
             pc' = [pc EXCEPT ![p] = step]
BY DEF Checked, NextDevice, Goto, Writers

\* A step of a writer keeps the books of tables and columns.
LEMMA WriterSInv ==
    ASSUME SInv, NEW p \in Writers, WriterStep(p)
    PROVE  SInv'
<1> USE DEF SInv, WritersOK, ListsOK, ColumnsOK, AloneOK, HasColumns, Writers, Steps, StartPc,
            At, database
<1>1. CASE Check(p)
  <2>1. CASE target[p] \in dbTables
    <3>1. PICK step \in IF p = "http" THEN {"first", "idle"} ELSE {"adapt"} :
             pc' = [pc EXCEPT ![p] = step]
      BY <1>1, <2>1, CheckedGoes DEF Check
    <3>2. QED
      BY <1>1, <2>1, <3>1 DEF Check
  <2>2. CASE target[p] \notin dbTables
    BY <1>1, <2>2 DEF Check, Goto
  <2>3. QED
    BY <2>1, <2>2
<1>2. CASE Create(p)
  BY <1>2 DEF Create, Goto
<1>3. CASE CreateFails(p)
  BY <1>3, DieSInv DEF CreateFails
<1>4. CASE ListTables(p)
  BY <1>4 DEF ListTables, Goto
<1>5. CASE CacheTables(p)
  <2>1. PICK step \in IF p = "http" THEN {"first", "idle"} ELSE {"insert"} :
           pc' = [pc EXCEPT ![p] = step]
    BY <1>5, CheckedGoes DEF CacheTables
  <2>2. QED
    BY <1>5, <2>1 DEF CacheTables
<1>6. CASE Adapt(p)
  <2>1. CASE conn[p] = "open" /\ target[p] \in tables
    <3>1. columns' = [columns EXCEPT ![target[p]] = @ \cup data[p]]
      BY <1>6, <2>1 DEF Adapt
    <3>2. /\ columns' \in [Tables -> SUBSET Fields]
          /\ \A t \in Tables : columns[t] \subseteq columns'[t]
          /\ data[p] \subseteq columns'[target[p]]
      BY <3>1
    <3>3. unadapted' = unadapted /\ pc' = [pc EXCEPT ![p] = "insert"]
      BY <1>6, <2>1 DEF Adapt, Goto
    <3>4. QED
      BY <1>6, <2>1, <3>2, <3>3 DEF Adapt
  <2>2. CASE ~(conn[p] = "open" /\ target[p] \in tables)
    BY <1>6, <2>2 DEF Adapt, Unadapted, Goto
  <2>3. QED
    BY <2>1, <2>2
<1>7. CASE Insert(p)
  <2>1. PICK step \in IF p = "http" THEN {"poll", "idle"} ELSE {"idle"} :
           pc' = [pc EXCEPT ![p] = step]
    BY <1>7 DEF Insert, NextDevice, Goto
  <2>2. QED
    BY <1>7, <2>1 DEF Insert
<1>8. QED
  BY <1>1, <1>2, <1>3, <1>4, <1>5, <1>6, <1>7 DEF WriterStep

\* A comparison that fails adds what it adds, and lets the insert go without.
LEMMA AdaptFailsSInv == ASSUME SInv, NEW p \in Writers, AdaptFails(p) PROVE SInv'
<1>1. PICK some \in SUBSET (data[p] \ columns[target[p]]) :
         columns' = [columns EXCEPT ![target[p]] = @ \cup some]
  BY DEF AdaptFails
<1>2. some \subseteq Fields /\ target[p] \in Tables
  BY <1>1 DEF SInv, WritersOK
<1>3. columns' \in [Tables -> SUBSET Fields] /\ \A t \in Tables : columns[t] \subseteq columns'[t]
  BY <1>1, <1>2 DEF SInv, WritersOK
<1>4. QED
  BY <1>3 DEF AdaptFails, Goto, At, SInv, WritersOK, ListsOK, ColumnsOK, AloneOK, HasColumns,
              Writers, Steps, StartPc

\* Every step keeps the invariant.
LEMMA StoreNextSInv == SInv /\ [StoreNext]_storeVars => SInv'
<1> SUFFICES ASSUME SInv, [StoreNext]_storeVars PROVE SInv'
  OBVIOUS
<1> USE StoreAssumption
    DEF SInv, WritersOK, ListsOK, ColumnsOK, AloneOK, HasColumns, Writers, Steps, StartPc, At,
        database, Tables, Fields
<1>1. ASSUME NEW a \in Answers, FirstAnswer(a) PROVE SInv'
  BY <1>1 DEF FirstAnswer, Goto
<1>2. ASSUME NEW a \in Answers, Answer(a) PROVE SInv'
  BY <1>2 DEF Answer, Goto
<1>3. CASE FirstFails
  BY <1>3 DEF FirstFails, NextDevice, Goto
<1>4. CASE Wake
  BY <1>4 DEF Wake, Goto
<1>5. CASE AnswerFails
  BY <1>5 DEF AnswerFails, NextDevice, Goto
<1>6. ASSUME NEW d \in DeviceSet, NEW a \in Answers, Callback(d, a) PROVE SInv'
  BY <1>6 DEF Callback, Goto
<1>7. ASSUME NEW p \in Writers, WriterStep(p) PROVE SInv'
  BY <1>7, WriterSInv
<1>8. ASSUME NEW p \in Writers, CloseConnection(p) PROVE SInv'
  BY <1>8 DEF CloseConnection
<1>9. ASSUME NEW p \in Writers, AdaptFails(p) PROVE SInv'
  BY <1>9, AdaptFailsSInv
<1>10. CASE StoreCrash
  BY <1>10, DieSInv DEF StoreCrash
<1>11. CASE StoreRestart
  BY <1>11 DEF StoreRestart
<1>12. CASE UNCHANGED storeVars
  BY <1>12 DEF storeVars, memory
<1>13. QED
  BY <1>1, <1>2, <1>3, <1>4, <1>5, <1>6, <1>7, <1>8, <1>9, <1>10, <1>11, <1>12
  DEF StoreNext, HttpAnswered

\* The books are in order in every state of a daemon and of the next ones.
LEMMA StoreInvariance == StoreSpec => []SInv
BY StoreInitSInv, StoreNextSInv, PTL DEF StoreSpec

\* dbTables never names a table the database does not have, though two
\* goroutines replace it without a lock.
THEOREM CacheIsSound == StoreSpec => []CacheSound
<1>1. SInv => CacheSound
  BY DEF SInv, ListsOK, CacheSound
<1>2. QED
  BY <1>1, StoreInvariance, PTL

\* No record is refused for want of its table or of a column, unless its own
\* comparison in checkTableColumns failed.
THEOREM ColumnsAreThere == StoreSpec => []InsertsHaveColumns
<1>1. SInv => InsertsHaveColumns
  BY DEF SInv, ColumnsOK, InsertsHaveColumns, At
<1>2. QED
  BY <1>1, StoreInvariance, PTL

\* A daemon without the Ecoflow callback never creates a table that exists.
THEOREM AloneNeverCollides == StoreSpec => []AloneCreatesAbsent
<1>1. SInv => AloneCreatesAbsent
  BY DEF SInv, AloneOK, AloneCreatesAbsent, At
<1>2. QED
  BY <1>1, StoreInvariance, PTL
----------------------------------------------------------------------------
(* What the race of the writers cannot do. *)

\* A table every process to come knows: it is in the database, in the cache
\* from the start on, in every list that replaces it, and nobody is about to
\* create it.
Known(t) ==
    /\ t \in tables
    /\ process = "up" => t \in dbTables
    /\ \A p \in Writers :
         /\ pc[p] = "cache" => t \in listed[p]
         /\ ~(At(p, "create") /\ target[p] = t)

\* A process that is down has no list and creates nothing.
LEMMA DownIsKnown ==
    ASSUME SInv, NEW t, process = "down", t \in tables PROVE Known(t)
  BY DEF SInv, WritersOK, StartPc, Known, At, Writers

\* Once known, a table stays known, whoever replaces the cache.
LEMMA StaysKnown ==
    ASSUME SInv, [StoreNext]_storeVars, NEW t, Known(t) PROVE Known(t)'
<1> USE DEF SInv, WritersOK, Known, At, Writers, Steps, StartPc, database
<1>1. ASSUME NEW a \in Answers, FirstAnswer(a) \/ Answer(a) PROVE Known(t)'
  BY <1>1 DEF FirstAnswer, Answer, Goto
<1>2. CASE FirstFails \/ Wake \/ AnswerFails
  BY <1>2 DEF FirstFails, Wake, AnswerFails, NextDevice, Goto
<1>3. ASSUME NEW d \in DeviceSet, NEW a \in Answers, Callback(d, a) PROVE Known(t)'
  BY <1>3 DEF Callback, Goto
<1>4. CASE Die
  BY <1>4 DEF Die, StartPc
<1>5. ASSUME NEW p \in Writers, WriterStep(p) PROVE Known(t)'
  <2>1. CASE Check(p)
    <3>1. CASE target[p] \in dbTables
      <4>1. PICK step \in {"first", "idle", "adapt", "insert"} :
               pc' = [pc EXCEPT ![p] = step]
        BY <2>1, <3>1, CheckedGoes DEF Check
      <4>2. QED
        BY <2>1, <3>1, <4>1 DEF Check
    <3>2. CASE target[p] \notin dbTables
      BY <2>1, <3>2 DEF Check, Goto
    <3>3. QED
      BY <3>1, <3>2
  <2>2. CASE Create(p) \/ ListTables(p)
    BY <2>2 DEF Create, ListTables, Goto
  <2>3. CASE CacheTables(p)
    <3>1. PICK step \in {"first", "idle", "adapt", "insert"} :
             pc' = [pc EXCEPT ![p] = step]
      BY <2>3, CheckedGoes DEF CacheTables
    <3>2. QED
      BY <2>3, <3>1 DEF CacheTables
  <2>4. CASE Adapt(p) \/ Insert(p)
    BY <2>4 DEF Adapt, Insert, NextDevice, Goto
  <2>5. QED
    BY <1>4, <1>5, <2>1, <2>2, <2>3, <2>4 DEF WriterStep, CreateFails
<1>6. ASSUME NEW p \in Writers, CloseConnection(p) PROVE Known(t)'
  BY <1>6 DEF CloseConnection
<1>7. ASSUME NEW p \in Writers, AdaptFails(p) PROVE Known(t)'
  BY <1>7 DEF AdaptFails, Goto
<1>8. CASE StoreRestart
  BY <1>8 DEF StoreRestart
<1>9. CASE UNCHANGED storeVars
  BY <1>9 DEF storeVars, memory
<1>10. QED
  BY <1>1, <1>2, <1>3, <1>4, <1>5, <1>6, <1>7, <1>8, <1>9 DEF StoreNext, HttpAnswered, StoreCrash

\* The race of the two lists ends the daemon at most once for a table: the next
\* process finds the table, and none takes it for a missing one again.
THEOREM CollidesOnce == StoreSpec => NeverCreatedAgain
<1> DEFINE Found(t) == process = "down" /\ t \in tables
           Spared(t) == \A p \in Writers : ~(At(p, "create") /\ target[p] = t)
<1>1. ASSUME NEW t \in Tables
      PROVE  StoreSpec => [](Found(t) => []Spared(t))
  <2>1. SInv /\ Found(t) => Known(t)
    BY DownIsKnown
  <2>2. SInv /\ Known(t) /\ [StoreNext]_storeVars => Known(t)'
    BY StaysKnown
  <2>3. Known(t) => Spared(t)
    BY DEF Known
  <2> HIDE DEF Found, Spared
  <2>4. QED
    BY <2>1, <2>2, <2>3, StoreInvariance, PTL DEF StoreSpec
<1>2. QED
  BY <1>1 DEF NeverCreatedAgain
----------------------------------------------------------------------------
(* The types. *)

\* The rest of a round is a rest of the devices, and not empty within it.
TodoOK ==
    /\ \E n \in 0..Len(Devices) : todo = DevicesAfter(n)
    /\ pc["http"] # "idle" => todo # <<>>
    /\ mqttDisable \in BOOLEAN
    /\ disturbances \in 0..MaxDisturbances

TInv == SInv /\ TodoOK

\* After a device come fewer.
LEMMA TailOfDevices ==
    ASSUME NEW n \in 0..Len(Devices), DevicesAfter(n) # <<>>
    PROVE  n < Len(Devices) /\ Tail(DevicesAfter(n)) = DevicesAfter(n + 1)
<1>1. Devices \in Seq(DeviceSet) /\ Len(Devices) \in Nat
  BY StoreAssumption
<1>2. n < Len(Devices)
  BY <1>1 DEF DevicesAfter
<1>3. QED
  BY <1>1, <1>2 DEF DevicesAfter

\* All devices are a rest of the devices, and there are some.
LEMMA AllDevices == DevicesAfter(0) = Devices /\ Devices # <<>> /\ 0 \in 0..Len(Devices)
  BY StoreAssumption DEF DevicesAfter

\* A pass to the next device keeps the round.
LEMMA NextDeviceTodo ==
    ASSUME SInv, TodoOK, pc["http"] # "idle", NEW step, NextDevice(step),
           UNCHANGED mqttDisable, disturbances' \in 0..MaxDisturbances
    PROVE  TodoOK'
<1>1. PICK n \in 0..Len(Devices) : todo = DevicesAfter(n) /\ todo # <<>>
  BY DEF TodoOK
<1>2. todo' = DevicesAfter(n + 1) /\ n + 1 \in 0..Len(Devices)
  BY <1>1, TailOfDevices, StoreAssumption DEF NextDevice
<1>3. pc'["http"] # "idle" => todo' # <<>>
  BY DEF NextDevice, Goto, SInv, WritersOK, Writers
<1>4. QED
  BY <1>2, <1>3 DEF TodoOK

\* A step of the http writer's or the Callback's that stays at its device.
LEMMA SameTodo ==
    ASSUME SInv, TodoOK, NEW p \in Writers, NEW step \in Steps, Goto(p, step),
           pc[p] # "idle" \/ p = "mqtt", UNCHANGED <<todo, mqttDisable>>,
           disturbances' \in 0..MaxDisturbances
    PROVE  TodoOK'
  BY DEF Goto, TodoOK, SInv, WritersOK, Writers

\* The end of the process starts the round anew.
LEMMA DieTodo ==
    ASSUME TodoOK, Die, disturbances' \in 0..MaxDisturbances PROVE TodoOK'
  BY AllDevices DEF Die, TodoOK, StartPc, Writers

\* Every step keeps the types.
LEMMA StoreNextTInv == TInv /\ [StoreNext]_storeVars => TInv'
<1> SUFFICES ASSUME SInv, TodoOK, [StoreNext]_storeVars PROVE TodoOK'
  BY StoreNextSInv DEF TInv
<1>1. disturbances \in 0..MaxDisturbances /\ MaxDisturbances \in Nat
  BY StoreAssumption DEF TodoOK
<1> USE DEF At, database
<1>2. ASSUME NEW a \in Answers, FirstAnswer(a) PROVE TodoOK'
  BY <1>1, <1>2, SameTodo DEF FirstAnswer, Writers, Steps
<1>3. ASSUME NEW a \in Answers, Answer(a) PROVE TodoOK'
  BY <1>1, <1>3, SameTodo DEF Answer, Writers, Steps
<1>4. CASE FirstFails
  BY <1>1, <1>4, NextDeviceTodo DEF FirstFails, Disturbed
<1>5. CASE Wake
  BY <1>1, <1>5, AllDevices DEF Wake, TodoOK
<1>6. CASE AnswerFails
  BY <1>1, <1>6, NextDeviceTodo DEF AnswerFails, Disturbed
<1>7. ASSUME NEW d \in DeviceSet, NEW a \in Answers, Callback(d, a) PROVE TodoOK'
  BY <1>1, <1>7, SameTodo DEF Callback, Writers, Steps
<1>8. ASSUME NEW p \in Writers, WriterStep(p) PROVE TodoOK'
  <2>1. ASSUME NEW created \in BOOLEAN, Checked(p, created), pc[p] # "idle",
               UNCHANGED <<mqttDisable, disturbances>>
        PROVE  TodoOK'
    <3>1. CASE p = "http"
      BY <1>1, <2>1, <3>1, NextDeviceTodo DEF Checked
    <3>2. CASE p # "http"
      BY <1>1, <2>1, <3>2, SameTodo DEF Checked, Writers, Steps
    <3>3. QED
      BY <3>1, <3>2
  <2>2. CASE Check(p)
    <3>1. CASE target[p] \in dbTables
      BY <2>1, <2>2, <3>1 DEF Check
    <3>2. CASE target[p] \notin dbTables
      BY <1>1, <2>2, <3>2, SameTodo DEF Check, Steps
    <3>3. QED
      BY <3>1, <3>2
  <2>3. CASE Create(p)
    BY <1>1, <2>3, SameTodo DEF Create, Steps
  <2>4. CASE CreateFails(p)
    BY <1>1, <2>4, DieTodo DEF CreateFails
  <2>5. CASE ListTables(p)
    BY <1>1, <2>5, SameTodo DEF ListTables, Steps
  <2>6. CASE CacheTables(p)
    BY <2>1, <2>6 DEF CacheTables
  <2>7. CASE Adapt(p)
    BY <1>1, <2>7, SameTodo DEF Adapt, Steps
  <2>8. CASE Insert(p)
    <3>1. CASE p = "http"
      BY <1>1, <2>8, <3>1, NextDeviceTodo DEF Insert
    <3>2. CASE p # "http"
      BY <1>1, <2>8, <3>2, SameTodo DEF Insert, Writers, Steps
    <3>3. QED
      BY <3>1, <3>2
  <2>9. QED
    BY <1>8, <2>2, <2>3, <2>4, <2>5, <2>6, <2>7, <2>8 DEF WriterStep
<1>9. ASSUME NEW p \in Writers, CloseConnection(p) PROVE TodoOK'
  BY <1>1, <1>9 DEF CloseConnection, Disturbed, TodoOK
<1>10. ASSUME NEW p \in Writers, AdaptFails(p) PROVE TodoOK'
  BY <1>1, <1>10, SameTodo DEF AdaptFails, Disturbed, Steps
<1>11. CASE StoreCrash
  BY <1>1, <1>11, DieTodo DEF StoreCrash, Disturbed
<1>12. CASE StoreRestart
  BY <1>12 DEF StoreRestart, TodoOK
<1>13. CASE UNCHANGED storeVars
  BY <1>13 DEF storeVars, memory, TodoOK
<1>14. QED
  BY <1>2, <1>3, <1>4, <1>5, <1>6, <1>7, <1>8, <1>9, <1>10, <1>11, <1>12, <1>13
  DEF StoreNext, HttpAnswered

\* Every variable of the store keeps its type: no round leaves the list of
\* devices, no table gets a column nobody reports, for any list of devices.
THEOREM StoreTypeCorrect == StoreSpec => []StoreTypeOK
<1>1. StoreInit => TInv
  <2>1. StoreInit => SInv
    BY StoreInitSInv
  <2>2. StoreInit => TodoOK
    BY AllDevices, StoreAssumption DEF StoreInit, TodoOK, StartPc
  <2>3. QED
    BY <2>1, <2>2 DEF TInv
<1>2. TInv => StoreTypeOK
  BY DEF TInv, SInv, WritersOK, ListsOK, TodoOK, StoreTypeOK, Steps
<1>3. QED
  BY <1>1, <1>2, StoreNextTInv, PTL DEF StoreSpec
----------------------------------------------------------------------------
(* The refinement of SchemaEvolution. *)

\* Columns added to a writer's table and from its record are a widening.
LEMMA SomeWidens ==
    ASSUME SInv, NEW p \in Writers, target[p] \in tables, UNCHANGED tables,
           NEW some \in SUBSET data[p],
           columns' = [columns EXCEPT ![target[p]] = @ \cup some]
    PROVE  Schema!Next
<1> DEFINE offers == {[table |-> target[q], fields |-> data[q]] : q \in Writers}
           offer == [table |-> target[p], fields |-> data[p]]
<1>1. target[p] \in DOMAIN columns /\ offer.table = target[p] /\ offer.fields = data[p]
  BY DEF SInv, WritersOK
<1>2. columns'[target[p]] = columns[target[p]] \cup some
  BY <1>1
<1>3. /\ Schema!Gained(target[p]) \subseteq data[p]
      /\ columns[target[p]] \cup Schema!Gained(target[p]) = columns[target[p]] \cup some
  BY <1>2 DEF Schema!Gained
<1>4. columns' = [columns EXCEPT ![target[p]] = @ \cup Schema!Gained(target[p])]
  BY <1>1, <1>3
<1>5. offer \in offers /\ Schema!Widen(offer)
  BY <1>1, <1>3, <1>4 DEF Schema!Widen
<1>6. QED
  BY <1>5 DEF Schema!Next

\* Create makes a table from the writer's offer, a comparison of columns widens
\* it by the offer or by a part, and no other step touches the schema.
LEMMA StepEvolves == SInv /\ [StoreNext]_storeVars => [Schema!Next]_(Schema!schema)
<1> SUFFICES ASSUME SInv, [StoreNext]_storeVars
             PROVE  [Schema!Next]_(Schema!schema)
  OBVIOUS
<1> DEFINE offers == {[table |-> target[p], fields |-> data[p]] : p \in Writers}
<1> USE DEF database, Schema!schema
<1>1. ASSUME NEW p \in Writers, Create(p) PROVE Schema!Next
  <2> DEFINE offer == [table |-> target[p], fields |-> data[p]]
  <2>1. offer \in offers /\ Schema!Create(offer)
    BY <1>1 DEF Create, Schema!Create
  <2>2. QED
    BY <2>1 DEF Schema!Next
<1>2. ASSUME NEW p \in Writers, Adapt(p) PROVE Schema!Next \/ UNCHANGED Schema!schema
  <2>1. CASE conn[p] = "open" /\ target[p] \in tables
    <3>1. columns' = [columns EXCEPT ![target[p]] = @ \cup data[p]] /\ UNCHANGED tables
      BY <1>2, <2>1 DEF Adapt
    <3>2. QED
      BY <2>1, <3>1, SomeWidens
  <2>2. CASE ~(conn[p] = "open" /\ target[p] \in tables)
    BY <1>2, <2>2 DEF Adapt, Unadapted
  <2>3. QED
    BY <2>1, <2>2
<1>3. ASSUME NEW p \in Writers, AdaptFails(p) PROVE Schema!Next
  <2>1. PICK some \in SUBSET (data[p] \ columns[target[p]]) :
           columns' = [columns EXCEPT ![target[p]] = @ \cup some]
    BY <1>3 DEF AdaptFails
  <2>2. some \in SUBSET data[p] /\ target[p] \in tables /\ UNCHANGED tables
    BY <1>3, <2>1 DEF AdaptFails
  <2>3. QED
    BY <2>1, <2>2, SomeWidens
<1>4. ASSUME NEW p \in Writers, WriterStep(p) PROVE Schema!Next \/ UNCHANGED Schema!schema
  BY <1>1, <1>2, <1>4 DEF WriterStep, Check, CreateFails, Die, ListTables, CacheTables, Insert
<1>5. ASSUME NEW a \in Answers, FirstAnswer(a) \/ Answer(a) PROVE UNCHANGED Schema!schema
  BY <1>5 DEF FirstAnswer, Answer
<1>6. ASSUME NEW d \in DeviceSet, NEW a \in Answers, Callback(d, a) PROVE UNCHANGED Schema!schema
  BY <1>6 DEF Callback
<1>7. ASSUME NEW p \in Writers, CloseConnection(p) PROVE UNCHANGED Schema!schema
  BY <1>7 DEF CloseConnection
<1>8. CASE FirstFails \/ Wake \/ AnswerFails \/ StoreCrash \/ StoreRestart
  BY <1>8 DEF FirstFails, Wake, AnswerFails, StoreCrash, Die, StoreRestart
<1>9. CASE UNCHANGED storeVars
  BY <1>9 DEF storeVars
<1>10. QED
  BY <1>3, <1>4, <1>5, <1>6, <1>7, <1>8, <1>9 DEF StoreNext, HttpAnswered

\* The two writers, with their unlocked cache, crashes and closed connections,
\* implement the orderly schema.
THEOREM SchemaRefinement == StoreSpec => EvolvesSchema
<1>1. StoreInit => Schema!Init
  BY DEF StoreInit, Schema!Init
<1>2. QED
  BY <1>1, StepEvolves, StoreInvariance, PTL
  DEF StoreSpec, EvolvesSchema, Schema!Spec
============================================================================
