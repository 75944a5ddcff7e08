-------------------------- MODULE DataPathsProofs --------------------------
(***************************************************************************)
(* What becomes of a message and of a record, for any mappings, meters,    *)
(* parameters and answers:                                                 *)
(*   - CreateEntryMapped and EventIsMapped: the event says of each name    *)
(*     what the deciding entry says, by induction on the entries;          *)
(*   - FreshFits: the column made for a value holds it within the limits   *)
(*     of the encoding, and LengthFits, the limit of nested values;        *)
(*   - CompatibleIsKept: of records that fit each other none is stored as  *)
(*     another, or refused but for its own failed comparison;              *)
(*   - DataTypeCorrect: the type invariant;                                *)
(*   - FittingIsUp: no data that fit end the daemon;                       *)
(*   - TypedRefinement: SchemaEvolution is implemented, types included.    *)
(***************************************************************************)
EXTENDS DataPaths, NaturalOrder

\* In uint16 the length of a column covers the text it is made for up to
\* 63487 bytes, and no longer text at all (createValueColumn).
THEOREM LengthFits == \A l \in Nat : l <= ColumnLength(l) <=> l < 63488
<1> TAKE l \in Nat
<1>1. CASE l < 63488
  BY <1>1 DEF ColumnLength
<1>2. CASE l >= 63488
  BY <1>2 DEF ColumnLength
<1>3. QED
  BY <1>1, <1>2

\* The two switches over the kind of a value agree.
LEMMA ColumnHolds ==
    ASSUME NEW v \in Values, Known(v)
    PROVE  Keeps(ColumnOf(v), v) <=> WithinBounds(v)
<1>1. CASE v.kind \in {"string", "json"}
  <2>1. v.length \in Nat
    BY <1>1 DEF Values
  <2>2. Encoded(v) = [type |-> "string", length |-> v.length]
    BY <1>1 DEF Encoded
  <2>3. Keeps(ColumnOf(v), v)
          <=> ColumnOf(v).type = "Alpha" /\ v.length <= ColumnOf(v).length
    BY <2>2 DEF Keeps
  <2>4. CASE v.kind = "string"
    <3>1. ColumnOf(v) = [type |-> "Alpha", length |-> 255]
      BY <2>4 DEF ColumnOf
    <3>2. WithinBounds(v) <=> v.length <= 255
      BY <2>4 DEF WithinBounds
    <3>3. QED
      BY <2>3, <3>1, <3>2
  <2>5. CASE v.kind = "json"
    <3>1. ColumnOf(v) = [type |-> "Alpha", length |-> ColumnLength(v.length)]
      BY <2>5 DEF ColumnOf
    <3>2. WithinBounds(v) <=> v.length < 63488
      BY <2>5 DEF WithinBounds
    <3>3. QED
      BY <2>1, <2>3, <3>1, <3>2, LengthFits
  <2>6. QED
    BY <1>1, <2>4, <2>5
<1>2. CASE v.kind = "number"
  <2>1. v.tenths \in Int
    BY <1>2 DEF Values
  <2>2. WithinBounds(v) <=> (Whole(v) => InInt64(v.tenths))
    BY <1>2 DEF WithinBounds
  <2>3. CASE Whole(v)
    <3>1. /\ Encoded(v).type = "int64"
          /\ Encoded(v).tenths = v.tenths <=> InInt64(v.tenths)
      BY <1>2, <2>1, <2>3, EncodingAssumption DEF Encoded, InInt64
    <3>2. ColumnOf(v).type \in {"BigInteger", "Decimal"}
      BY <1>2 DEF ColumnOf
    <3>3. Keeps(ColumnOf(v), v) <=> InInt64(v.tenths)
      BY <3>1, <3>2 DEF Keeps
    <3>4. QED
      BY <2>2, <2>3, <3>3
  <2>4. CASE ~Whole(v)
    <3>1. Encoded(v) = [type |-> "float64", tenths |-> v.tenths]
      BY <1>2, <2>4 DEF Encoded
    <3>2. ColumnOf(v) = [type |-> "Decimal", length |-> 8]
      BY <1>2, <2>4 DEF ColumnOf
    <3>3. Keeps(ColumnOf(v), v)
      BY <3>1, <3>2 DEF Keeps
    <3>4. QED
      BY <2>2, <2>4, <3>3
  <2>5. QED
    BY <2>3, <2>4
<1>3. CASE v.kind = "time"
  <2>1. Encoded(v) = [type |-> "time"]
    BY <1>3 DEF Encoded
  <2>2. ColumnOf(v) = [type |-> "CurrentTimestamp", length |-> 8]
    BY <1>3 DEF ColumnOf
  <2>3. QED
    BY <1>3, <2>1, <2>2 DEF Keeps, WithinBounds
<1>4. QED
  BY <1>1, <1>2, <1>3 DEF Values, Known
----------------------------------------------------------------------------
(* The invariant. *)

WriterOK ==
    /\ process \in {"up", "down"}
    /\ pc \in {"start", "idle", "create", "adapt", "insert"}
    /\ answers \in AnswerSets
    /\ writer \in {"http", "mqtt"}
    /\ comparison \in {"fine", "failed"}
    /\ pc = "insert" => record \in Stores
    /\ pc = "adapt" => record \in Stores
    /\ pc = "create" => (writer = "mqtt" => record \in Stores)
    /\ pc = "create" => \E s \in Stores : \A p \in DOMAIN record :
                          p \in DOMAIN s /\ s[p] = record[p]

\* Each column was made for a value some record holds.
ColumnsMade ==
    \A name \in DOMAIN columns :
        \E s \in Stores : \E p \in DOMAIN s :
            ColumnName[p] = name /\ columns[name] = ColumnOf(s[p])

\* A record whose comparison went well has its table and its columns.
ColumnsReady ==
    pc = "insert" /\ comparison = "fine" /\ WellFormed(record) =>
        created /\ Missing(columns, record) = {}

DInv == WriterOK /\ ColumnsMade /\ ColumnsReady

\* What is stored of an answer is a record that agrees with it.
LEMMA StoredAnswer ==
    ASSUME WriterOK, NEW a \in answers
    PROVE  /\ ToStore(a) \in Stores
           /\ IsRecord(ToStore(a))
           /\ \A p \in DOMAIN a : p \in DOMAIN ToStore(a) /\ ToStore(a)[p] = a[p]
<1>1. IsRecord(a) /\ IsRecord(Added)
  BY DataAssumption DEF WriterOK
<1>2. QED
  BY <1>1 DEF Stores, ToStore, IsRecord, Joined

\* What is stored depends on the writer and the answers only.
LEMMA SameStores == ASSUME UNCHANGED <<writer, answers>> PROVE Stores' = Stores
  BY DEF Stores, ToStore

\* The columns f are made for parameters ps of the record r.
MadeFor(f, r, ps) ==
    /\ DOMAIN f = {ColumnName[p] : p \in ps}
    /\ \A name \in DOMAIN f :
         \E p \in ps : ColumnName[p] = name /\ f[name] = ColumnOf(r[p])

\* Columns made for a record's parameters have their names, and its values.
LEMMA ColumnsOfRecord == \A r, ps : MadeFor(ColumnsOf(r, ps), r, ps)
<1> SUFFICES ASSUME NEW r, NEW ps PROVE MadeFor(ColumnsOf(r, ps), r, ps)
  OBVIOUS
<1>1. ASSUME NEW name \in {ColumnName[p] : p \in ps}
      PROVE  \E p \in ps : ColumnName[p] = name
                 /\ ColumnsOf(r, ps)[name] = ColumnOf(r[p])
  <2> DEFINE q == CHOOSE p \in ps : ColumnName[p] = name
  <2>1. q \in ps /\ ColumnName[q] = name
    BY <1>1
  <2>2. ColumnsOf(r, ps)[name] = ColumnOf(r[q])
    BY <1>1 DEF ColumnsOf
  <2> HIDE DEF q
  <2>3. QED
    BY <2>1, <2>2
<1>2. QED
  BY <1>1 DEF ColumnsOf, MadeFor

\* A daemon on an empty database.
LEMMA DataInitDInv == DataInit => DInv
  BY DEF DataInit, AnswerSets, DInv, WriterOK, ColumnsMade, ColumnsReady, Empty

\* The end of the process leaves only the table.
LEMMA EndsDInv ==
    ASSUME DInv, Ends, columns' = columns \/ ColumnsMade'
    PROVE  DInv'
  BY DEF Ends, DInv, WriterOK, ColumnsMade, ColumnsReady, Stores, ToStore

\* Adding columns for a writer's record keeps them made for records.
LEMMA AddKeepsMade ==
    ASSUME ColumnsMade, record \in Stores, NEW ps \in SUBSET DOMAIN record,
           AddColumns(ps), UNCHANGED <<writer, answers>>
    PROVE  /\ ColumnsMade'
           /\ DOMAIN columns' = DOMAIN columns \cup {ColumnName[p] : p \in ps}
<1> DEFINE new == ColumnsOf(record, ps)
<1>1. columns' = Joined(columns, new)
  BY DEF AddColumns
<1>2. MadeFor(new, record, ps)
  BY ColumnsOfRecord
<1>3. Stores' = Stores
  BY SameStores
<1> HIDE DEF new
<1>4. DOMAIN columns' = DOMAIN columns \cup DOMAIN new
  BY <1>1 DEF Joined
<1>5. \A name \in DOMAIN columns' :
        columns'[name] = IF name \in DOMAIN columns THEN columns[name] ELSE new[name]
  BY <1>1 DEF Joined
<1>6. ColumnsMade'
  BY <1>2, <1>3, <1>4, <1>5 DEF ColumnsMade, MadeFor
<1>7. QED
  BY <1>2, <1>4, <1>6 DEF MadeFor

\* Among records that fit each other, one that has its columns is stored.
LEMMA FitsAllColumns ==
    ASSUME ColumnsMade, record \in Stores, Compatible(Stores),
           created, Missing(columns, record) = {}
    PROVE  Outcomes = {"exact"}
<1>1. WellFormed(record)
  BY DEF Compatible
<1>2. Missing(columns, record) = {} /\ created
  OBVIOUS
<1>3. ASSUME NEW p \in DOMAIN record PROVE Keeps(columns[ColumnName[p]], record[p])
  <2>1. ColumnName[p] \in DOMAIN columns
    BY <1>2 DEF Missing
  <2>2. PICK s \in Stores : \E q \in DOMAIN s :
          ColumnName[q] = ColumnName[p] /\ columns[ColumnName[p]] = ColumnOf(s[q])
    BY <2>1 DEF ColumnsMade
  <2>3. QED
    BY <2>2 DEF Compatible
<1>4. QED
  BY <1>1, <1>2, <1>3 DEF Outcomes, WellFormed

\* One that has not is refused.
LEMMA FitsOrIsRefused ==
    ASSUME ColumnsMade, record \in Stores, Compatible(Stores)
    PROVE  Outcomes \in {{"exact"}, {"refused"}}
<1>1. CASE created /\ Missing(columns, record) = {}
  BY <1>1, FitsAllColumns
<1>2. CASE ~created \/ Missing(columns, record) # {}
  BY <1>2 DEF Outcomes
<1>3. QED
  BY <1>1, <1>2

\* A comparison leaves columns made for records, whatever part is added.
LEMMA SomeMade ==
    ASSUME ColumnsMade, record \in Stores, AddSome, UNCHANGED <<writer, answers>>
    PROVE  ColumnsMade'
<1>1. PICK ps \in SUBSET DOMAIN record : AddColumns(ps)
  BY DEF AddSome, Missing
<1>2. QED
  BY <1>1, AddKeepsMade

\* A comparison that adds all that is missing makes the record ready.
LEMMA ComparisonReady ==
    ASSUME DInv, AdaptTable, ToInsert("fine"), ~ToInsert("failed")
    PROVE  created' /\ Missing(columns', record) = {}
<1> DEFINE missing == Missing(columns, record)
           added == [p \in missing |-> record[p]]
<1>1. record \in Stores /\ UNCHANGED <<writer, answers, created>>
  BY DEF AdaptTable, At, DInv, WriterOK, ToInsert
<1>2. ASSUME ~(created /\ WellFormed(added)) PROVE FALSE
  <2>1. ToInsert("failed") \/ Ends
    BY <1>2 DEF AdaptTable
  <2>2. ~Ends
    BY DEF Ends, ToInsert
  <2>3. QED
    BY <2>1, <2>2
<1>3. created /\ AddColumns(missing)
  BY <1>2 DEF AdaptTable
<1>4. DOMAIN columns' = DOMAIN columns \cup {ColumnName[p] : p \in missing}
  BY <1>1, <1>3, AddKeepsMade DEF Missing, DInv
<1>5. QED
  BY <1>1, <1>3, <1>4 DEF Missing

\* The columns, across a comparison.
LEMMA AdaptMade == ASSUME DInv, AdaptTable PROVE ColumnsMade'
<1>1. record \in Stores /\ ColumnsMade
  BY DEF AdaptTable, At, DInv, WriterOK
<1>2. UNCHANGED <<writer, answers>>
  BY DEF AdaptTable, ToInsert, Ends
<1>3. CASE AddColumns(Missing(columns, record))
  BY <1>1, <1>2, <1>3, AddKeepsMade DEF Missing
<1>4. CASE AddSome
  BY <1>1, <1>2, <1>4, SomeMade
<1>5. CASE UNCHANGED columns
  BY <1>1, <1>2, <1>5, SameStores DEF ColumnsMade
<1>6. QED
  BY <1>3, <1>4, <1>5 DEF AdaptTable

\* The device and its writer are chosen once.
LEMMA WriterStays == [DataNext]_dataVars => UNCHANGED <<writer, answers>>
  BY DEF DataNext, WriterStep, Answered, dataVars, writerVars, TakeMessage, EndOnMessage,
     FirstAnswer, FirstFails, Answer, CreateTable, EndOnTable, AdaptTable, AdaptFails, ToInsert,
     Insert, InsertFails, Stored, CrashData, RestartData, Ends

\* Every step keeps the invariant.
LEMMA DataNextDInv == DInv /\ [DataNext]_dataVars => DInv'
<1> SUFFICES ASSUME DInv, [DataNext]_dataVars PROVE DInv'
  OBVIOUS
<1>1. UNCHANGED <<writer, answers>> /\ Stores' = Stores
  BY WriterStays, SameStores
<1> USE DEF DInv
<1>2. ASSUME NEW m, TakeMessage(m) PROVE DInv'
  BY <1>1, <1>2 DEF TakeMessage, writerVars, tableVars, WriterOK, ColumnsMade, ColumnsReady
<1>3. ASSUME NEW m, EndOnMessage(m) PROVE DInv'
  BY <1>3, EndsDInv DEF EndOnMessage, tableVars
<1>4. ASSUME NEW a \in answers, FirstAnswer(a) PROVE DInv'
  BY <1>1, <1>4, StoredAnswer DEF FirstAnswer, At, tableVars, WriterOK, ColumnsMade, ColumnsReady
<1>5. CASE FirstFails
  BY <1>1, <1>5 DEF FirstFails, At, tableVars, WriterOK, ColumnsMade, ColumnsReady
<1>6. ASSUME NEW a \in answers, Answer(a) PROVE DInv'
  BY <1>1, <1>6, StoredAnswer DEF Answer, At, tableVars, WriterOK, ColumnsMade, ColumnsReady
<1>7. CASE CreateTable
  <2>1. PICK s \in Stores : \A p \in DOMAIN record : p \in DOMAIN s /\ s[p] = record[p]
    BY <1>7 DEF CreateTable, At, WriterOK
  <2> DEFINE new == ColumnsOf(record, DOMAIN record)
  <2>2. columns' = new /\ MadeFor(new, record, DOMAIN record)
    BY <1>7, ColumnsOfRecord DEF CreateTable
  <2> HIDE DEF new
  <2>3. ColumnsMade' /\ Missing(columns', record) = {}
    BY <1>1, <2>1, <2>2 DEF ColumnsMade, Missing, MadeFor
  <2>4. QED
    BY <1>1, <1>7, <2>3 DEF CreateTable, At, WriterOK, ColumnsReady
<1>8. CASE EndOnTable
  BY <1>8, EndsDInv DEF EndOnTable, tableVars
<1>9. CASE AdaptTable
  <2>1. ColumnsMade' /\ record \in Stores
    BY <1>9, AdaptMade DEF AdaptTable, At, WriterOK
  <2>2. CASE Ends
    BY <2>1, <2>2, EndsDInv
  <2>3. CASE ToInsert("fine")
    <3>1. ~ToInsert("failed")
      BY <2>3 DEF ToInsert
    <3>2. created' /\ Missing(columns', record) = {}
      BY <1>9, <2>3, <3>1, ComparisonReady
    <3>3. QED
      BY <1>1, <2>1, <2>3, <3>2 DEF ToInsert, WriterOK, ColumnsReady
  <2>4. CASE ToInsert("failed")
    BY <1>1, <2>1, <2>4 DEF ToInsert, WriterOK, ColumnsReady
  <2>5. QED
    BY <1>9, <2>2, <2>3, <2>4 DEF AdaptTable
<1>10. CASE AdaptFails
  <2>1. record \in Stores
    BY <1>10 DEF AdaptFails, At, WriterOK
  <2>2. ColumnsMade'
    BY <1>1, <1>10, <2>1, SomeMade DEF AdaptFails
  <2>3. QED
    BY <1>1, <1>10, <2>1, <2>2 DEF AdaptFails, ToInsert, WriterOK, ColumnsReady
<1>11. ASSUME NEW outcome, Stored(outcome) PROVE DInv'
  BY <1>1, <1>11 DEF Stored, tableVars, WriterOK, ColumnsMade, ColumnsReady
<1>12. CASE CrashData
  BY <1>12, EndsDInv DEF CrashData, tableVars
<1>13. CASE RestartData
  BY <1>1, <1>13 DEF RestartData, writerVars, tableVars, WriterOK, ColumnsMade, ColumnsReady
<1>14. CASE UNCHANGED dataVars
  BY <1>1, <1>14 DEF dataVars, writerVars, tableVars, WriterOK, ColumnsMade, ColumnsReady
<1>15. QED
  BY <1>2, <1>3, <1>4, <1>5, <1>6, <1>7, <1>8, <1>9, <1>10, <1>11, <1>12, <1>13, <1>14
  DEF DataNext, WriterStep, Answered, Insert, InsertFails

\* The invariant holds in every state, across every end of the process.
LEMMA DataInvariance == DataSpec => []DInv
  BY DataInitDInv, DataNextDInv, PTL DEF DataSpec

\* A column made for a value holds it, exactly within the limits of the
\* encoding: createValueColumn and insertHttpData agree on every value.
THEOREM FreshFits == DataSpec => []FreshColumnsFit
<1>1. DInv => FreshColumnsFit
  <2> SUFFICES ASSUME DInv, At("insert"), NEW p \in DOMAIN record, Known(record[p])
               PROVE  Keeps(ColumnOf(record[p]), record[p]) <=> WithinBounds(record[p])
    BY DEF FreshColumnsFit
  <2>1. PICK a \in answers : record = ToStore(a)
    BY DEF DInv, WriterOK, At, Stores
  <2>2. IsRecord(record)
    BY <2>1, StoredAnswer DEF DInv
  <2>3. QED
    BY <2>2, ColumnHolds DEF IsRecord
<1>2. QED
  BY <1>1, DataInvariance, PTL

\* A step that leaves the insert with the process up is an insert.
LEMMA InsertedSteps ==
    ASSUME [DataNext]_dataVars, Inserted PROVE Insert \/ InsertFails
  BY DEF Inserted, At, DataNext, WriterStep, Answered, dataVars, writerVars, TakeMessage,
     EndOnMessage, FirstAnswer, FirstFails, Answer, CreateTable, EndOnTable, AdaptTable,
     AdaptFails, CrashData, RestartData, Ends

Counted == disturbances \in Nat

\* No record that fits the others is stored as another.  None is refused that
\* was compared with the columns, and none lost but with a connection,
\* whichever comes first and wherever the process ends.
THEOREM CompatibleIsKept == DataSpec => CompatibleKept
<1> DEFINE Kept == \/ kept' = "exact"
                   \/ kept' = "refused" /\ comparison = "failed"
                   \/ kept' = "lost" /\ disturbances' < disturbances
<1>1. ASSUME DInv, Counted, [DataNext]_dataVars, Inserted, Compatible(Stores)
      PROVE  Kept
  <2>1. record \in Stores /\ pc = "insert" /\ ColumnsMade /\ ColumnsReady /\ comparison \in {"fine", "failed"}
    BY <1>1 DEF DInv, WriterOK, Inserted, At
  <2>2. CASE Insert
    <3>1. kept' \in Outcomes
      BY <2>2 DEF Insert, Stored
    <3>2. CASE comparison = "fine"
      <4>1. created /\ Missing(columns, record) = {}
        BY <1>1, <2>1, <3>2 DEF ColumnsReady, Compatible
      <4>2. Outcomes = {"exact"}
        BY <1>1, <2>1, <4>1, FitsAllColumns
      <4>3. QED
        BY <3>1, <4>2
    <3>3. CASE comparison = "failed"
      <4>1. Outcomes \in {{"exact"}, {"refused"}}
        BY <1>1, <2>1, FitsOrIsRefused
      <4>2. QED
        BY <3>1, <3>3, <4>1
    <3>4. QED
      BY <2>1, <3>2, <3>3
  <2>3. CASE InsertFails
    BY <1>1, <2>3 DEF InsertFails, Stored, Disturbed, Counted
  <2>4. QED
    BY <1>1, <2>2, <2>3, InsertedSteps
<1>2. DataInit => Counted
  BY DataAssumption DEF DataInit, Counted
<1>3. Counted /\ [DataNext]_dataVars => Counted'
  BY DEF Counted, DataNext, WriterStep, Answered, dataVars, TakeMessage, EndOnMessage, FirstAnswer,
     FirstFails, Answer, CreateTable, EndOnTable, AdaptTable, AdaptFails, Insert, InsertFails,
     CrashData, RestartData, Disturbed
<1> DEFINE Act == Inserted /\ Compatible(Stores) => Kept
<1>4. DInv /\ Counted /\ [DataNext]_dataVars => [Act]_dataVars
  BY <1>1
<1> HIDE DEF Act
<1>5. DataSpec => [][Act]_dataVars
  BY <1>2, <1>3, <1>4, DataInvariance, PTL DEF DataSpec
<1>6. QED
  BY <1>5 DEF Act, CompatibleKept
----------------------------------------------------------------------------
(* The types. *)

HeardOK == meter \in Meters /\ heard \subseteq meter.messages /\ (heard # {} => Usable(event))

TableOK ==
    /\ created \in BOOLEAN
    /\ ~created => columns = Empty

RestOK ==
    /\ IsRecord(record)
    /\ comparison \in {"fine", "failed"}
    /\ kept \in {"none", "exact", "bent", "refused", "lost"}
    /\ disturbances \in 0..MaxDisturbances

TInv == DInv /\ HeardOK /\ TableOK /\ RestOK

\* The record of no parameter is one.
LEMMA EmptyIsRecord == IsRecord(Empty)
  BY DEF IsRecord, Empty

\* A daemon on an empty database has heard nothing.
LEMMA DataInitTInv == DataInit => TInv
<1> SUFFICES ASSUME DataInit PROVE TInv
  OBVIOUS
<1>1. HeardOK
  BY DEF DataInit, Meters, HeardOK
<1>2. TableOK
  BY DEF DataInit, TableOK
<1>3. RestOK
  BY EmptyIsRecord, DataAssumption DEF DataInit, RestOK
<1>4. QED
  BY <1>1, <1>2, <1>3, DataInitDInv DEF TInv

\* A message is remembered only if processEvent can use what it became.
LEMMA NextHeard == HeardOK /\ [DataNext]_dataVars => HeardOK'
<1> SUFFICES ASSUME HeardOK, [DataNext]_dataVars PROVE HeardOK'
  OBVIOUS
<1>1. ASSUME NEW m \in meter.messages, TakeMessage(m) PROVE HeardOK'
  BY <1>1 DEF TakeMessage, Taken, HeardOK
<1>2. CASE Ends
  BY <1>2 DEF Ends, HeardOK
<1>3. CASE UNCHANGED meterVars
  BY <1>3 DEF meterVars, HeardOK
<1>4. QED
  BY <1>1, <1>2, <1>3
     DEF DataNext, WriterStep, Answered, EndOnMessage, FirstAnswer, FirstFails, Answer,
         CreateTable, EndOnTable, AdaptTable, AdaptFails, ToInsert, Insert, InsertFails, Stored,
         CrashData, RestartData, dataVars

\* Columns come with a table and after it.
LEMMA NextTable == TableOK /\ [DataNext]_dataVars => TableOK'
<1> SUFFICES ASSUME TableOK, [DataNext]_dataVars PROVE TableOK'
  OBVIOUS
<1>1. CASE UNCHANGED tableVars
  BY <1>1 DEF tableVars, TableOK
<1>2. CASE CreateTable
  BY <1>2 DEF CreateTable, TableOK
<1>3. CASE AdaptTable
  BY <1>3 DEF AdaptTable, TableOK
<1>4. CASE AdaptFails
  BY <1>4 DEF AdaptFails, TableOK
<1>5. QED
  BY <1>1, <1>2, <1>3, <1>4
     DEF DataNext, WriterStep, Answered, TakeMessage, EndOnMessage, FirstAnswer, FirstFails,
         Answer, EndOnTable, Insert, InsertFails, Stored, CrashData, RestartData, dataVars

\* What the writer works on is a record of the device, or none.
LEMMA NextRest == WriterOK /\ RestOK /\ [DataNext]_dataVars => RestOK'
<1> SUFFICES ASSUME WriterOK, RestOK, [DataNext]_dataVars PROVE RestOK'
  OBVIOUS
<1>0. /\ disturbances \in 0..MaxDisturbances /\ MaxDisturbances \in Nat
      /\ Disturbed => disturbances' \in 0..MaxDisturbances
  BY DataAssumption DEF RestOK, Disturbed
<1>1. ASSUME NEW a \in answers, FirstAnswer(a) PROVE RestOK'
  BY <1>1, DataAssumption DEF FirstAnswer, WriterOK, RestOK
<1>2. ASSUME NEW a \in answers, Answer(a) PROVE RestOK'
  BY <1>2, StoredAnswer DEF Answer, RestOK
<1>3. CASE Insert
  BY <1>3, EmptyIsRecord DEF Insert, Stored, Outcomes, RestOK
<1>4. CASE InsertFails
  BY <1>0, <1>4, EmptyIsRecord DEF InsertFails, Stored, RestOK
<1>5. CASE UNCHANGED <<record, comparison, kept>> /\ (UNCHANGED disturbances \/ Disturbed)
  BY <1>0, <1>5 DEF RestOK
<1>6. CASE Ends /\ (UNCHANGED disturbances \/ Disturbed)
  BY <1>0, <1>6, EmptyIsRecord DEF Ends, RestOK
<1>7. ASSUME NEW outcome \in {"fine", "failed"}, ToInsert(outcome),
             UNCHANGED disturbances \/ Disturbed
      PROVE  RestOK'
  BY <1>0, <1>7 DEF ToInsert, RestOK
<1>8. CASE AdaptTable
  BY <1>6, <1>7, <1>8 DEF AdaptTable
<1>9. CASE AdaptFails
  BY <1>7, <1>9 DEF AdaptFails
<1>10. QED
  BY <1>1, <1>2, <1>3, <1>4, <1>5, <1>6, <1>8, <1>9
     DEF DataNext, WriterStep, Answered, TakeMessage, EndOnMessage, FirstFails, CreateTable,
         EndOnTable, CrashData, RestartData, dataVars, writerVars

\* A table is created only where none is known to be there.
LEMMA NextCreates ==
    (pc = "create" => ~created) /\ [DataNext]_dataVars => (pc' = "create" => ~created')
<1> SUFFICES ASSUME pc = "create" => ~created, [DataNext]_dataVars, pc' = "create"
             PROVE  ~created'
  OBVIOUS
<1>1. CASE UNCHANGED <<pc, created>>
  BY <1>1
<1>2. ASSUME NEW a, FirstAnswer(a) \/ Answer(a) PROVE ~created'
  BY <1>2 DEF FirstAnswer, Answer, tableVars
<1>3. QED
  BY <1>1, <1>2
     DEF DataNext, WriterStep, Answered, TakeMessage, EndOnMessage, FirstFails, CreateTable,
         EndOnTable, AdaptTable, AdaptFails, ToInsert, Insert, InsertFails, Stored, CrashData,
         RestartData, Ends, dataVars, writerVars, tableVars

\* A daemon keeps its types; what it has taken last, the controller could use,
\* and columns are those of the device's parameters, in a table.
THEOREM DataTypeCorrect == DataSpec => []DataTypeOK
<1>1. TInv /\ [DataNext]_dataVars => TInv'
  BY DataNextDInv, NextHeard, NextTable, NextRest DEF TInv, DInv
<1>2. TInv => DataTypeOK
  <2> SUFFICES ASSUME TInv PROVE DataTypeOK
    OBVIOUS
  <2>1. DOMAIN columns \subseteq Range(ColumnName)
    <3> SUFFICES ASSUME NEW name \in DOMAIN columns PROVE name \in Range(ColumnName)
      OBVIOUS
    <3>1. PICK s \in Stores : \E p \in DOMAIN s : ColumnName[p] = name
      BY DEF TInv, DInv, ColumnsMade
    <3>2. IsRecord(s)
      BY StoredAnswer DEF TInv, DInv, Stores
    <3>3. QED
      BY <3>1, <3>2, EncodingAssumption DEF IsRecord, Range
  <2>2. QED
    BY <2>1 DEF TInv, DInv, WriterOK, HeardOK, TableOK, RestOK, DataTypeOK
<1>3. QED
  BY <1>1, <1>2, DataInitTInv, PTL DEF DataSpec

\* Data that fit end nothing: a table to be created is not there and has a
\* column for each parameter, and no column to be added is nil.
THEOREM FittingIsUp == DataSpec => FittingStaysUp
<1> DEFINE UInv == DInv /\ RestOK /\ (pc = "create" => ~created)
<1>1. DataInit => UInv
  BY DataInitDInv, DataInitTInv DEF DataInit, TInv
<1>2. UInv /\ [DataNext]_dataVars => UInv'
  BY DataNextDInv, NextRest, NextCreates DEF DInv
<1>3. ASSUME UInv, [DataNext]_dataVars, process = "up", process' = "down", Fitting
      PROVE  disturbances' < disturbances
  <2>1. CASE CrashData
    BY <1>3, <2>1, DataAssumption DEF CrashData, Disturbed, RestOK
  <2>2. ASSUME NEW m \in meter.messages, EndOnMessage(m) PROVE FALSE
    BY <1>3, <2>2 DEF EndOnMessage, Fitting
  <2>3. CASE EndOnTable
    <3>1. PICK s \in Stores : \A p \in DOMAIN record : p \in DOMAIN s /\ s[p] = record[p]
      BY <1>3, <2>3 DEF EndOnTable, At, DInv, WriterOK
    <3>2. WellFormed(s)
      BY <1>3 DEF Fitting, Compatible
    <3>3. WellFormed(record)
      BY <3>1, <3>2 DEF WellFormed, AllKnown, Distinct, IsInjective
    <3>4. QED
      BY <1>3, <2>3, <3>3 DEF EndOnTable, At, Creatable
  <2>4. CASE AdaptTable
    <3>1. record \in Stores
      BY <1>3, <2>4 DEF AdaptTable, At, DInv, WriterOK
    <3>2. AllKnown(record)
      BY <1>3, <3>1 DEF Fitting, Compatible, WellFormed
    <3>3. AllKnown([p \in Missing(columns, record) |-> record[p]])
      BY <3>2 DEF AllKnown, Missing
    <3>4. QED
      BY <1>3, <2>4, <3>3 DEF AdaptTable, ToInsert
  <2>5. QED
    BY <1>3, <2>1, <2>2, <2>3, <2>4
       DEF DataNext, WriterStep, Answered, TakeMessage, FirstAnswer, FirstFails, Answer,
           CreateTable, AdaptFails, ToInsert, Insert, InsertFails, Stored, RestartData, dataVars
<1>4. QED
  BY <1>1, <1>2, <1>3, PTL DEF DataSpec, FittingStaysUp
----------------------------------------------------------------------------
(* The refinement of SchemaEvolution. *)

\* Columns with new names are added to the graph of those there are.
LEMMA JoinedTyped ==
    ASSUME NEW f, NEW g, DOMAIN f \cap DOMAIN g = {}
    PROVE  Typed(Joined(f, g)) = Typed(f) \cup Typed(g)
<1>1. DOMAIN Joined(f, g) = DOMAIN f \cup DOMAIN g
  BY DEF Joined
<1>2. \A name \in DOMAIN f : Joined(f, g)[name] = f[name]
  BY DEF Joined
<1>3. \A name \in DOMAIN g : Joined(f, g)[name] = g[name]
  BY DEF Joined
<1>4. QED
  BY <1>1, <1>2, <1>3 DEF Typed

\* Columns added for some of the missing parameters are a widening.
LEMMA SomeWidensTyped ==
    ASSUME created, created',
           NEW ps \in SUBSET {p \in Missing(columns, record) : Known(record[p])}, AddColumns(ps)
    PROVE  TypedSchema!Next
<1> DEFINE new == ColumnsOf(record, ps)
           offer == [table |-> "table", fields |-> Typed(new)]
           typed == [t \in {"table"} |-> Typed(columns)]
           gained == typed'["table"] \ typed["table"]
<1>1. offer \in Offers
  BY DEF Offers, Missing
<1>2. DOMAIN columns \cap DOMAIN new = {}
  BY DEF ColumnsOf, Missing
<1>3. columns' = Joined(columns, new)
  BY DEF AddColumns
<1> HIDE DEF new
<1>4. Typed(columns') = Typed(columns) \cup Typed(new)
  BY <1>2, <1>3, JoinedTyped
<1>5. gained \subseteq Typed(new) /\ typed' = [typed EXCEPT !["table"] = @ \cup gained]
  BY <1>4
<1>6. TypedSchema!Gained("table") = gained
  BY DEF TypedSchema!Gained
<1> HIDE DEF gained, typed
<1>7. TypedSchema!Widen(offer)
  BY <1>5, <1>6 DEF TypedSchema!Widen, typed
<1>8. QED
  BY <1>1, <1>7 DEF TypedSchema!Next

\* CreateTable makes the table from the record, a comparison widens it by some
\* of the columns that are missing, and no other step touches the schema.
LEMMA StepEvolvesTyped ==
    TableOK /\ [DataNext]_dataVars => [TypedSchema!Next]_(TypedSchema!schema)
<1> SUFFICES ASSUME TableOK, [DataNext]_dataVars
             PROVE  [TypedSchema!Next]_(TypedSchema!schema)
  OBVIOUS
<1> DEFINE offer(ps) == [table |-> "table", fields |-> Typed(ColumnsOf(record, ps))]
           addable(ps) == ps \in SUBSET {p \in Missing(columns, record) : Known(record[p])}
<1>1. CASE CreateTable
  <2>1. AllKnown(record) /\ ~created /\ created'
    BY <1>1 DEF CreateTable, Creatable, WellFormed
  <2>2. offer(DOMAIN record) \in Offers
    BY <2>1 DEF AllKnown, Offers
  <2>3. TypedSchema!Create(offer(DOMAIN record))
    BY <1>1, <2>1 DEF CreateTable, TypedSchema!Create
  <2>4. QED
    BY <2>2, <2>3 DEF TypedSchema!Next
<1>2. CASE AdaptTable
  <2>1. CASE ~created
    BY <1>2, <2>1 DEF AdaptTable, TypedSchema!schema
  <2>2. CASE created
    <3>1. created'
      BY <1>2, <2>2 DEF AdaptTable
    <3>2. \E ps : addable(ps) /\ AddColumns(ps)
      BY <1>2, <2>2 DEF AdaptTable, AddSome, WellFormed, AllKnown
    <3>3. QED
      BY <2>2, <3>1, <3>2, SomeWidensTyped
  <2>3. QED
    BY <2>1, <2>2 DEF TableOK
<1>3. CASE AdaptFails
  <2>1. created /\ created' /\ \E ps : addable(ps) /\ AddColumns(ps)
    BY <1>3 DEF AdaptFails, AddSome
  <2>2. QED
    BY <2>1, SomeWidensTyped
<1>4. CASE UNCHANGED tableVars
  BY <1>4 DEF tableVars, TypedSchema!schema
<1>5. QED
  BY <1>1, <1>2, <1>3, <1>4
     DEF DataNext, WriterStep, Answered, TakeMessage, EndOnMessage, FirstAnswer, FirstFails,
         Answer, EndOnTable, Insert, InsertFails, Stored, CrashData, RestartData, dataVars

\* The values of the writers, too, make an orderly schema, in which no column
\* changes its type: for any parameters, records and ends of the process.
THEOREM TypedRefinement == DataSpec => EvolvesTyped
<1>1. DataInit => TypedSchema!Init
  BY DEF DataInit, TypedSchema!Init, Typed, Empty
<1>2. DataInit => TableOK
  BY DataInitTInv DEF TInv
<1>3. QED
  BY <1>1, <1>2, NextTable, StepEvolvesTyped, PTL
     DEF DataSpec, EvolvesTyped, TypedSchema!Spec
----------------------------------------------------------------------------
(* The events. *)

\* The steps of createEntry over the first n entries, as a function.
IsRun(f, mapping, message, n) ==
    f = [k \in 0..n |-> IF k = 0 THEN <<>>
                        ELSE Put(f[k - 1], mapping[k], Value(mapping[k], message))]

\* There is a run of any length.
LEMMA RunExists ==
    ASSUME NEW mapping, NEW message
    PROVE  \A n \in Nat : \E f : IsRun(f, mapping, message, n)
<1> DEFINE S == {n \in Nat : \E f : IsRun(f, mapping, message, n)}
<1>1. 0 \in S
  <2> DEFINE f == [k \in 0..0 |-> <<>>]
  <2>1. f = [k \in 0..0 |-> IF k = 0 THEN <<>>
                            ELSE Put(f[k - 1], mapping[k], Value(mapping[k], message))]
    OBVIOUS
  <2>2. IsRun(f, mapping, message, 0)
    BY <2>1 DEF IsRun
  <2>3. QED
    BY <2>2
<1>2. ASSUME NEW n \in Nat, n \in S PROVE n + 1 \in S
  <2>1. PICK f : IsRun(f, mapping, message, n)
    BY <1>2
  <2> DEFINE last == Put(f[n], mapping[n + 1], Value(mapping[n + 1], message))
             g == [k \in 0..(n + 1) |-> IF k = n + 1 THEN last ELSE f[k]]
             step(h, k) == Put(h[k - 1], mapping[k], Value(mapping[k], message))
  <2>2. \A k \in 0..n : f[k] = IF k = 0 THEN <<>> ELSE step(f, k)
    BY <2>1 DEF IsRun
  <2>3. \A k \in 0..(n + 1) : g[k] = IF k = n + 1 THEN last ELSE f[k]
    OBVIOUS
  <2>4. \A k \in 1..(n + 1) : g[k - 1] = f[k - 1]
    BY <2>3
  <2>5. ASSUME NEW k \in 0..(n + 1)
        PROVE  g[k] = IF k = 0 THEN <<>> ELSE step(g, k)
    <3>1. CASE k = n + 1
      <4>1. g[k] = step(f, k)
        BY <2>3, <3>1
      <4>2. g[k - 1] = f[k - 1] /\ k # 0
        BY <2>4, <3>1
      <4> HIDE DEF g
      <4>3. QED
        BY <4>1, <4>2
    <3>2. CASE k # n + 1
      <4>1. k \in 0..n /\ g[k] = f[k]
        BY <2>3, <3>2
      <4>2. k # 0 => g[k - 1] = f[k - 1]
        BY <2>4
      <4> HIDE DEF g
      <4>3. QED
        BY <2>2, <4>1, <4>2
    <3>3. QED
      BY <3>1, <3>2
  <2>6. IsRun(g, mapping, message, n + 1)
    <3> DEFINE body == [k \in 0..(n + 1) |-> IF k = 0 THEN <<>> ELSE step(g, k)]
    <3>1. g = body
      BY <2>5
    <3>2. QED
      BY <3>1 DEF IsRun
  <2>7. QED
    BY <2>6
<1>3. QED
  BY <1>1, <1>2, NaturalsFrom0

\* createEntry goes through the entries in their order.
LEMMA EventsAfterRun ==
    ASSUME NEW mapping \in Mappings, NEW message
    PROVE  IsRun(EventsAfter(mapping, message), mapping, message, Len(mapping))
<1> DEFINE run == CHOOSE f : IsRun(f, mapping, message, Len(mapping))
<1>0. Len(mapping) \in Nat
  BY DEF Mappings
<1>1. IsRun(run, mapping, message, Len(mapping))
  BY <1>0, RunExists
<1>2. EventsAfter(mapping, message) = run
  BY DEF EventsAfter, IsRun
<1>3. QED
  BY <1>1, <1>2

\* The names an entry writes.
Named(entry, v) == {w.name : w \in Writes(entry, v)}

\* What a step of createEntry does with the event are the writes of the entry.
LEMMA PutWrites ==
    ASSUME NEW made, NEW entry, NEW v
    PROVE  /\ DOMAIN Put(made, entry, v) = DOMAIN made \cup Named(entry, v)
           /\ \A name \in DOMAIN made \ Named(entry, v) :
                Put(made, entry, v)[name] = made[name]
           /\ \A w \in Writes(entry, v) :
                Put(made, entry, v)[w.name] =
                  IF w.how = "forces" \/ w.name \notin DOMAIN made
                  THEN w.value ELSE made[w.name]
           /\ \A u, w \in Writes(entry, v) : u.name = w.name => u = w
           /\ entry.Destination \in Named(entry, v)
<1> DEFINE dest == entry.Destination
           other == entry.IfNegative
           zero == Zeroed(v)
           minus == Negated(v)
<1>1. CASE Flips(entry, v)
  <2>1. v.type \in NumberTypes
    BY <1>1 DEF Flips
  <2>2. Put(made, entry, v) = With(With(made, other, minus), dest, zero)
    BY <1>1, <2>1 DEF Put
  <2>3. Writes(entry, v) =
          {[name |-> dest, value |-> zero, how |-> "forces"]}
            \cup {[name |-> name, value |-> minus, how |-> "forces"] : name \in {other} \ {dest}}
    BY <1>1 DEF Writes
  <2> HIDE DEF dest, other, zero, minus
  <2>4. \A w \in Writes(entry, v) :
          /\ w.how = "forces"
          /\ \/ w.name = dest /\ w.value = zero
             \/ w.name = other /\ w.name # dest /\ w.value = minus
    BY <2>3
  <2>5. Named(entry, v) = {dest, other}
    <3>1. \E w \in Writes(entry, v) : w.name = dest
      BY <2>3
    <3>2. other # dest => \E w \in Writes(entry, v) : w.name = other
      <4> SUFFICES ASSUME other # dest PROVE \E w \in Writes(entry, v) : w.name = other
        OBVIOUS
      <4> DEFINE u == [name |-> other, value |-> minus, how |-> "forces"]
      <4>1. u \in Writes(entry, v) /\ u.name = other
        BY <2>3
      <4>2. QED
        BY <4>1
    <3>3. QED
      BY <2>4, <3>1, <3>2 DEF Named
  <2>6. \A u, w \in Writes(entry, v) : u.name = w.name => u = w
    BY <2>3
  <2>7. /\ DOMAIN Put(made, entry, v) = DOMAIN made \cup {dest, other}
        /\ Put(made, entry, v)[dest] = zero
        /\ other # dest => Put(made, entry, v)[other] = minus
        /\ \A name \in DOMAIN made \ {dest, other} : Put(made, entry, v)[name] = made[name]
    BY <2>2 DEF With
  <2>8. \A w \in Writes(entry, v) : Put(made, entry, v)[w.name] = w.value
    BY <2>4, <2>7
  <2>9. QED
    BY <2>4, <2>5, <2>6, <2>7, <2>8 DEF dest
<1>2. CASE ~Flips(entry, v)
  <2> DEFINE how == IF v.type \in NumberTypes THEN "offers" ELSE "forces"
  <2>1. Writes(entry, v) = {[name |-> dest, value |-> v, how |-> how]}
    BY <1>2 DEF Writes
  <2>2. Put(made, entry, v) = IF how = "forces" THEN With(made, dest, v)
                                                ELSE WithNew(made, dest, v)
    BY <1>2 DEF Put
  <2>3. Named(entry, v) = {dest}
    BY <2>1 DEF Named
  <2> HIDE DEF how, dest
  <2>4. \A w \in Writes(entry, v) : w.name = dest /\ w.value = v /\ w.how = how
    BY <2>1
  <2>5. /\ DOMAIN Put(made, entry, v) = DOMAIN made \cup {dest}
        /\ \A name \in DOMAIN made \ {dest} : Put(made, entry, v)[name] = made[name]
        /\ Put(made, entry, v)[dest] =
             IF how = "forces" \/ dest \notin DOMAIN made THEN v ELSE made[dest]
    BY <2>2 DEF With, WithNew
  <2>6. QED
    BY <2>1, <2>3, <2>4, <2>5 DEF dest
<1>3. QED
  BY <1>1, <1>2

\* Whatever the first m entries write has its name in the event.
NamesWritten(mapping, message, made, m) ==
    \A n \in 1..m : Named(mapping[n], Value(mapping[n], message)) \subseteq DOMAIN made

\* An entry that forces nothing under a name leaves the decision to the others.
LEMMA DecidesOn ==
    ASSUME NEW mapping, NEW message, NEW m \in Nat, NEW k \in 1..m, NEW w,
           Decides(mapping, message, m, k, w),
           \A u \in WritesOf(mapping, message, m + 1, w.name) : u.how # "forces"
    PROVE  Decides(mapping, message, m + 1, k, w)
  BY DEF Decides

\* One more entry keeps the promise.
LEMMA MappedStep ==
    ASSUME NEW mapping, NEW message, NEW made, NEW m \in Nat,
           MappedBy(mapping, message, made, m), NamesWritten(mapping, message, made, m)
    PROVE  LET next == Put(made, mapping[m + 1], Value(mapping[m + 1], message))
           IN  /\ MappedBy(mapping, message, next, m + 1)
               /\ NamesWritten(mapping, message, next, m + 1)
<1> DEFINE entry == mapping[m + 1]
           v == Value(entry, message)
           next == Put(made, entry, v)
           W(n, name) == WritesOf(mapping, message, n, name)
<1>1. /\ DOMAIN next = DOMAIN made \cup Named(entry, v)
      /\ \A name \in DOMAIN made \ Named(entry, v) : next[name] = made[name]
      /\ \A w \in Writes(entry, v) :
           next[w.name] = IF w.how = "forces" \/ w.name \notin DOMAIN made
                          THEN w.value ELSE made[w.name]
      /\ \A u, w \in Writes(entry, v) : u.name = w.name => u = w
      /\ entry.Destination \in Named(entry, v)
  BY PutWrites
<1>2. \A name : W(m + 1, name) = {w \in Writes(entry, v) : w.name = name}
  BY DEF WritesOf
<1> HIDE DEF next
<1>3. NamesWritten(mapping, message, next, m + 1)
  BY <1>1 DEF NamesWritten
<1>4. ASSUME NEW n \in 1..(m + 1) PROVE mapping[n].Destination \in DOMAIN next
  BY <1>3, PutWrites DEF NamesWritten
<1>5. ASSUME NEW name \in DOMAIN next
      PROVE  \E k \in 1..(m + 1) : \E w \in W(k, name) :
               w.value = next[name] /\ Decides(mapping, message, m + 1, k, w)
  <2>1. CASE \E w \in W(m + 1, name) : w.how = "forces" \/ name \notin DOMAIN made
    <3>1. PICK w \in W(m + 1, name) : w.how = "forces" \/ name \notin DOMAIN made
      BY <2>1
    <3>2. w.name = name /\ w.value = next[name] /\ W(m + 1, name) = {w}
      BY <1>1, <1>2, <3>1
    <3>3. CASE w.how = "forces"
      BY <3>2, <3>3 DEF Decides
    <3>4. CASE w.how # "forces"
      <4>1. \A n \in 1..m : W(n, name) = {}
        BY <3>1, <3>4 DEF NamesWritten, Named, WritesOf
      <4>2. \A n \in 1..(m + 1) : \A u \in W(n, name) : u.how # "forces"
        BY <3>2, <3>4, <4>1
      <4>3. Decides(mapping, message, m + 1, m + 1, w)
        BY <3>2, <3>4, <4>1, <4>2 DEF Decides
      <4>4. QED
        BY <3>2, <4>3
    <3>5. QED
      BY <3>3, <3>4
  <2>2. CASE \A w \in W(m + 1, name) : w.how # "forces" /\ name \in DOMAIN made
    <3>1. name \in DOMAIN made /\ next[name] = made[name]
      <4>1. CASE name \in Named(entry, v)
        BY <1>1, <1>2, <2>2, <4>1 DEF Named
      <4>2. CASE name \notin Named(entry, v)
        BY <1>1, <4>2
      <4>3. QED
        BY <4>1, <4>2
    <3>2. PICK k \in 1..m : \E w \in W(k, name) :
            w.value = made[name] /\ Decides(mapping, message, m, k, w)
      BY <3>1 DEF MappedBy
    <3>3. PICK w \in W(k, name) : w.value = made[name] /\ Decides(mapping, message, m, k, w)
      BY <3>2
    <3>4. w.name = name
      BY <3>3 DEF WritesOf
    <3>5. Decides(mapping, message, m + 1, k, w)
      BY <2>2, <3>3, <3>4, DecidesOn
    <3>6. QED
      BY <3>1, <3>3, <3>5
  <2>3. QED
    BY <2>1, <2>2
<1>6. MappedBy(mapping, message, next, m + 1)
  BY <1>4, <1>5 DEF MappedBy
<1>7. QED
  BY <1>3, <1>6 DEF next

\* The event of a mapping says of each name what the entry that decides on it
\* says, whatever the order and the number of the entries (createEntry).
THEOREM CreateEntryMapped ==
    ASSUME NEW mapping \in Mappings, NEW message
    PROVE  Mapped(mapping, message, CreateEntry(mapping, message))
<1> DEFINE run == EventsAfter(mapping, message)
           Holds(k) == /\ MappedBy(mapping, message, run[k], k)
                       /\ NamesWritten(mapping, message, run[k], k)
           S == {k \in Nat : k <= Len(mapping) => Holds(k)}
<1>0. Len(mapping) \in Nat
  BY DEF Mappings
<1>1. /\ run[0] = <<>>
      /\ \A k \in 1..Len(mapping) :
           run[k] = Put(run[k - 1], mapping[k], Value(mapping[k], message))
  BY <1>0, EventsAfterRun DEF IsRun
<1> HIDE DEF run
<1>2. 0 \in S
  <2>1. DOMAIN run[0] = {}
    BY <1>1
  <2>2. QED
    BY <2>1 DEF MappedBy, NamesWritten
<1>3. ASSUME NEW n \in Nat, n \in S PROVE n + 1 \in S
  <2> SUFFICES ASSUME n + 1 <= Len(mapping) PROVE Holds(n + 1)
    OBVIOUS
  <2>1. Holds(n)
    BY <1>3
  <2>2. run[n + 1] = Put(run[n], mapping[n + 1], Value(mapping[n + 1], message))
    BY <1>1
  <2>3. QED
    BY <2>1, <2>2, MappedStep
<1>4. Len(mapping) \in S
  BY <1>0, <1>2, <1>3, NaturalsFrom0
<1>5. QED
  BY <1>4 DEF Mapped, CreateEntry, run

HeardMapped == meter \in Meters /\ EventAsMapped

\* Only a message that is taken makes an event; the mapping stays.
LEMMA NextHeardMapped == HeardMapped /\ [DataNext]_dataVars => HeardMapped'
<1> SUFFICES ASSUME HeardMapped, [DataNext]_dataVars PROVE HeardMapped'
  OBVIOUS
<1>1. ASSUME NEW m \in meter.messages, TakeMessage(m) PROVE HeardMapped'
  <2>1. meter.mapping \in Mappings
    BY DataAssumption DEF HeardMapped
  <2>2. Mapped(meter.mapping, m, CreateEntry(meter.mapping, m))
    BY <2>1, CreateEntryMapped
  <2>3. QED
    BY <1>1, <2>2 DEF TakeMessage, HeardMapped, EventAsMapped
<1>2. CASE Ends
  BY <1>2 DEF Ends, HeardMapped, EventAsMapped
<1>3. CASE UNCHANGED meterVars
  BY <1>3 DEF meterVars, HeardMapped, EventAsMapped
<1>4. QED
  BY <1>1, <1>2, <1>3
     DEF DataNext, WriterStep, Answered, EndOnMessage, FirstAnswer, FirstFails, Answer,
         CreateTable, EndOnTable, AdaptTable, AdaptFails, ToInsert, Insert, InsertFails, Stored,
         CrashData, RestartData, dataVars

\* What the controller decides on is what the mapping promises of the message,
\* for every mapping and every message.
THEOREM EventIsMapped == DataSpec => []EventAsMapped
<1>1. DataInit => HeardMapped
  BY DEF DataInit, Meters, HeardMapped, EventAsMapped
<1>2. HeardMapped => EventAsMapped
  BY DEF HeardMapped
<1>3. QED
  BY <1>1, <1>2, NextHeardMapped, PTL DEF DataSpec
============================================================================
