# Verification of ecoflow2db

ecoflow2db runs beside a solar converter (an Ecoflow Powerstream). It stores
what the Ecoflow API tells of the devices in Postgres, listens to an electric
meter over MQTT, and tells the converter through the API how much power to
deliver. This directory holds TLA+ models of it, the TLC runs that check them,
and TLAPS proofs. Source references are `file:line` in the repository.

## The system

| Component | Files | State it keeps | Operations |
| --- | --- | --- | --- |
| Configuration | `config.go` | the global record `adapter` | `LoadConfig` at the start; `watchConfig`, from the file watcher's goroutine, on each change |
| Realtime controller | `mqtt.go:113-137, 263-325` | `currentRequested`, `blockRequestTime` | `processEvent` per meter message, `getMqttCurrentRequest` |
| MQTT connection | `mqtt.go:57-111, 139-261` | Paho client, `mqttCounter`, `try` | `tryConnectMQTT`, `ConnectMQTT`, the message loop, a signal handler |
| Message mapping | `mqtt_parser.go` | none | `ParseMessage` |
| Dynamic controller | `compute.go` | the history of one round | `StartFlow`, `ReadCurrentFlow`, `AnalyzeEnergyHistory` |
| HTTP store | `http.go:54-154` | `statusChange`, its connection | a start-up round, then a round every `LoopSeconds` |
| Ecoflow callback | `http.go:264-291`, `eco_mqtt.go` | `mqttid` | `Callback` per message of the Ecoflow MQTT client |
| Database access | `database.go` | `dbTables` | `InitDatabase`, `checkTable`, `insertTable`, `readDatabaseMaps` |
| Start and shutdown | `cmd/ecoflow2db/main.go`, `ecoflow.go`, `general.go` | `client`, `httpDone`, `done`, `quit` | `InitEcoflow`, `setupGracefulShutdown` |
| Statistics | `stat.go` | `mapStatDatabase` | a ticker loop |
| REST plugins | `restPlugins/` | none; a process of another server | GET calls that report, a PUT call that asks the converter for a power |
| Others | `byte_formatter.go`, `mqtt_logger.go`, `version.go`, `docker/`, `grafana/` | none the daemon uses | see *Not modelled* |

All of them share one process. `main` loads the configuration, reads the list
of tables and calls `InitEcoflow`, which dials the broker, starts the message
loop, creates the API client, and starts the dynamic controller, the http store
and the statistics loop, each a goroutine. They share globals - `adapter`,
`client`, `dbTables`, the channels - and there is no lock in the program. A
panic or a `Fatalf` in any goroutine ends all of them, and the container starts
the daemon again (`docker/podstart.sh`).

What is hard in it, and what each component has to get right:

- **Configuration.** A reload overwrites the live record in two steps, with
  only the keys the file holds. At most one controller may be on.
- **Realtime controller.** A request takes effect late, readings and the value
  read back may be older than it, configuration changes in the middle of a
  decision. It must not climb on stale readings, must stay in the limits, and
  should settle.
- **Dynamic controller.** It decides on history, reads limits and switches one
  after the other while they may be reloaded, and sends later; it must stay
  within limits and not act beside the realtime controller.
- **Store.** Two writers share the cache of tables, and most failures are only
  logged. No table is created twice, no insert lacks a column unless its own
  comparison of columns failed, storing never stops for good.
- **Data.** A mapping decides what a message is, and a message it does not fit
  ends the daemon. Two switches over the kinds of JSON values choose a column
  when a parameter is first seen and encode every value later: they must agree,
  and no order of answers and no crash may leave a table that keeps records out.
- **Life cycle.** Broker, database and signals interfere at any point. The
  daemon must come up, end when told to, and keep listening.

`PROJECT.json` lists every hazard at its line with the properties that cover it.

## Modules

| Module | Models | Extends |
| --- | --- | --- |
| `AdapterConfig` | `adapter.DefaultConfig`, `evaluateConfig`, the watcher | |
| `PowerRequest` | the arithmetic of `processEvent`, two operators of which `AnalyzeEnergyHistory` shares | |
| `RealtimeControl` | the message loop's goroutine: `processEvent`, `getMqttCurrentRequest` | `AdapterConfig`, `PowerRequest` |
| `RequestDiscipline` | no code: what the realtime controller promises the converter | |
| `GridLoop` | the realtime controller with meter, converter and house | `RealtimeControl` |
| `DynamicControl` | `StartFlow`, `ReadCurrentFlow`, `AnalyzeEnergyHistory` | `AdapterConfig`, `PowerRequest` |
| `PowerControl` | both controllers on one configuration | `RealtimeControl`, `DynamicControl` |
| `DeviceStore` | `httpParameterStore`, `Callback`, `checkTable` and what they call | |
| `SchemaEvolution` | no code: what the writers promise the database | |
| `EventMapping` | `ParseMessage`, `createEntry`, `reflectType` | |
| `RecordEncoding` | `createValueColumn`, `insertHttpData`, `insertMqttData` | |
| `DataPaths` | the message loop and one writer, with the values they handle | `EventMapping`, `RecordEncoding`; maps to `SchemaEvolution` |
| `Lifecycle` | `main`, `InitEcoflow`, `ConnectMQTT`, the loops' stop channels, both signal handlers | |
| `NaturalOrder` | no code: induction over the natural numbers, for the proofs | |
| `*Proofs` | theorems about the module they extend | `PowerControlProofs` and `DataPathsProofs` also `NaturalOrder` |
| `MC*` | the instances TLC checks | |

### How state and actions correspond to the code

*AdapterConfig.* `adapter` is the `DefaultConfig` record without `debug`.
`watcher` tells whether the watcher is between `yaml.Unmarshal` and the
normalisation: the two actions `Unmarshal(f)` and `Normalise`. A file is a
record of values and the set of keys it holds (`Overlay`). Unmarshal writes its
keys in one step; in the program a reader could even see some of them.
`Boots` starts from `StartConfigs`: `main` loads the file before it starts a
goroutine of its own. The watcher exists already then (`config.go:103` installs
it before `evaluateConfig` runs at 104); a file that changes within that first
evaluation is left out. It would be evaluated twice, each time with a
normalisation at the end, before any controller runs.

Both controllers read the live configuration field by field, and each read is a
step: a reload, in its two steps, can come between any two. What is one step is
the comparison and the assignment of one field where the code has neither a call
nor a store between them (`mqtt.go:297-298, 306-307, 311-312`,
`compute.go:227-230, 279-280, 282-283`; the Go compiler loads the field once),
the lifts of the records' drawn power in the loop `compute.go:248-251`, of which
only the first record's is used, and `StartFlow`'s test and set of the dead zone
(`compute.go:121-123`: a reload exactly between the two would have its dead zone
replaced by the default).

*RealtimeControl.* `handler` is where the loop's goroutine is. `Receive(e)`
takes a message: `ReadOnly` where nothing is known of the converter or the
switch is off (`mqtt.go:273-276`), `Accept` otherwise. Then, each with what is in
force at that moment: `Window` (287-290, which goes on to the read-back while
the wait lasts), `Narrow` (the dead zone, 297-305), `Cap` (the upper limit,
306-308), `Raise` (the base request, 311-313), `Decide` (317-321, the wait) or
`Ignore`. `Accept` already computes what the reading asks for (`Wished`), which
needs no configuration. `SetRequest` is the API call,
`RefreshOk`/`RefreshFails` the read-back. `blockLeft` counts ticks until
`blockRequestTime`. `SetOnNilClient` is the request through the client that
`prepareEcoflow` has not set yet.

*GridLoop* conjoins each of those with what it does to the converter's
`demand` and to the queue of `readings`. The environment (external) is: the
meter publishes load minus output, the converter follows `demand` some time
later, the API tells the converter's `output`. `faithful` is chosen at the
start: a faithful API always answers, with the output the last request has led
to. `OtherRequest` is a request from a process of its own: the plugin's PUT call
(`restPlugins/greeter.go:122-130`) or `main -p`.

*DynamicControl.* `flow` is where the goroutine is. The two tests of
`DynamicRequest` (`compute.go:211` and `232`/`288`) are the actions `Gate` and
`DecideFlow`; between them `ReduceFlow` (224-225), or `LiftFlow` (250-262) and
`SizeFlow` (278), then `BaseFlow` (227-231, 279-281), `CapFlow` (282-284) and
`AboveFlow` (286) read the limits. `asked` is `newRequested` (or
`reduceToRequest`) in between. The median and the base request of lines 237-242
are computed and not used. What the SQL query returns is any of `Histories`.

*PowerControl* adds `since`, which records the extremes of the limits in force
since `AnalyzeEnergyHistory` was entered; no step looks at it. A request is
judged by them: limits of different files can meet in one computation, and no
single file need allow the result.

*DeviceStore.* `pc[p]` is where each of the two writers is. `checkTable` is four
steps (`Check`, `Create`, `ListTables`, `CacheTables`) because a database call
is between them and another goroutine can run. An answer is the set of
parameters it holds; `columns` holds what each table has. The database is
external: it refuses to create an existing table and to store a record whose
table or column is missing. The serial number and the time that the loop adds
come together, and are one field (`Added`). A comparison of columns fails on a closed
connection or without the table (`Adapt`), and may fail for no reason of ours
(`AdaptFails`: `GetTableColumn` or `AdaptTable` returns an error, after some of
the columns or none were added); it is logged and the insert follows, as in
`http.go:194-197, 211-212`. `unadapted` records the writers it happened to. The assignment of the slice `dbTables` is one step;
in Go a concurrent reader could see half of it. `EvolvesSchema` maps the model
to `SchemaEvolution`: the offers are the records the writers are working on.

*EventMapping* has no state. A JSON value is a record with its kind, numbers are
tenths. `Lookup` walks a path and ends like the `break` of `createEntry`, with
the value it got to; `Convertible` has the panics and `Fatalf`s of
`reflectType`, `Converted` its results, `Put` the rules for a destination that
is already set. `CreateEntry` puts one entry after the other, as a
recursive function over the prefixes of the mapping (`EventsAfter`). `Usable` is the pair of type assertions of `processEvent`.
`Mapped` states the result without the order of steps: each entry forces a value
on a name or offers one, and of a name the last entry that forces decides, or
the first that offers when none does.

*RecordEncoding* has no state either. The length 8 of a decimal column
(`http.go:171`) is left out: how the database adapter declares it is not in the
repository. `ColumnOf` is `createValueColumn`,
`Encoded` the switch that `insertHttpData` and `insertMqttData` share, `Keeps`
what the database takes (external). `ColumnName` is given per parameter: dots
become underscores and Postgres folds case, so two parameters may share one.

*DataPaths* runs the message loop (`TakeMessage`, `EndOnMessage`) beside one
writer, chosen at the start: the http store, or the callback with its table.
`FirstAnswer` is a start-up query that is answered, and `CreateTable` follows if
the table is missing; `FirstFails` is one that is not: the http store then has no
table until a restart makes one. `Answer` is an answer in
the loop, or a message for the callback, then `CreateTable` (the callback only)
or `AdaptTable`, and `Insert`. `AdaptFails` and `InsertFails` are the database's
errors of `http.go:194-197`, `211` and `124`, whatever the data are;
`comparison` records whether the record in hand was compared. A query of the
loop that fails changes nothing here, and a `CREATE TABLE` over a closed
connection is one more end of the process (`CrashData`). `created` stands for
both the table and the cache; that they may differ is `DeviceStore`'s subject. `EvolvesTyped`
maps the model to `SchemaEvolution` as well, a column being its name with its
type and length. A message that
is no JSON, or of an unmapped topic, is ignored by the code and left out.

*Lifecycle.* `main` is where the main goroutine is, `loop` and `handler` where
the other goroutines are. Work inside a loop's round is one state, `busy`,
which may last for ever. `ReadRequest` panics without a `microConverter` in the
file (`mqtt.go:126` runs before `ecoflow.go:44-47`). A signal before the first
`signal.Notify` ends the process.

Watts are integers (of any unit: the API reports tenths), seconds are ticks.
`int64` and `float64` do not overflow with powers of a household.

## Runs

| Run | Checks | Shows |
| --- | --- | --- |
| `grid_loop` | `GridTypeOK`, `DemandWithinLimits`, `RaisesStayBelowLoad`, `QuietDecisionsBalance`, `Settles` | with stale readings, no raise goes beyond the load measured for it; requests stay in the limits; with a faithful API one decision after the wait balances the load, and the loop settles |
| `grid_stale` | `UpdatedIfNeeded` violated | a late or failed read-back is never corrected when the next readings ask for no change |
| `power_control` | `PowerTypeOK`, `RaisesAreUnblocked`, `OneController`, `DynamicDecidesAlone`, `DynamicWithinLimits`, `KeepsDiscipline` | with reloads between any two reads of the configuration, failures and restarts: a raise is decided only outside the blocked window; the realtime controller implements `RequestDiscipline` beside the dynamic one; the configuration keeps the two apart through any sequence of partial files; a dynamic request stays within limits in force since its round began |
| `power_yields` | `DynamicYields` violated | a request decided before a reload is sent after it |
| `power_needed` | `RaisedIfNeeded` violated | the dynamic controller raises to the upper limit though nothing is drawn |
| `device_store` | `StoreTypeOK`, `CacheSound`, `InsertsHaveColumns`, `AloneCreatesAbsent`, `EvolvesSchema`, `NeverCreatedAgain`, `KeepsStoring` | the cache names existing tables only, a record has its columns at the insert unless its own comparison failed, a table is taken for a missing one by no process that starts after its creation, storing goes on once the table exists; the abstract store is implemented |
| `store_race` | `CreatesAbsent` violated | the two writers' lists overlap and an existing table is created |
| `store_startup` | `StoresAll` violated | a failed start-up round leaves the store without its table |
| `lifecycle` | `LifeTypeOK`, `SignalInHand`, `ShutdownCompletes`, `ComesUp` | a signal is never lost between its handlers, a signalled process ends, a failing daemon comes up |
| `lifecycle_stop` | `EndHttpEndsStore` violated | the value `endHttp` sends for the http store is taken by the dynamic loop |
| `lifecycle_listens` | `ListensAgain` violated | a lost connection to the broker is never made again |
| `message_data` | `DataTypeOK`, `EventAsMapped`, `FreshColumnsFit`, `CompatibleKept`, `EvolvesTyped`, `FittingStaysUp`, `KeepsStoringData` | an event is what its mapping promises; a fresh column fits its value within the bounds of the encoding and only there; no column is lost or changes its type; records that fit each other are stored unchanged, refused only where their own comparison failed, stored for ever once the table is there, and end the daemon by no value, table or message |

Each violated property states what a comment, a message or the project's README
says; `PROJECT.json` quotes it under `findings`.

### Bounds

- *Watts* 0 to 6, and limits among them, suffice for each comparison of
  `processEvent` and `AnalyzeEnergyHistory` to go either way, for limits that
  cross (base above upper, as in `adapter.yaml.template`), and for exports
  below and beyond what is delivered.
- *Files*: a full one and partial ones that switch a controller on or off, give
  zero limits, or crossing ones; four in `power_control`, one in `grid_loop`, whose
  reloads are of that file. The counterexamples that partial files could
  give need two of them in a row; any number of reloads is explored.
- *Waits* up to 2 ticks; *readings* up to 2 a second, so that one of them can be
  older than a request.
- *Devices*: two, so that the round can fail for one of them; *answers* with and
  without a parameter that needs a new column. *Writers* are the two there are.
- *Mappings*: eight, with both orders of entries that meet in one destination,
  flips into another name and into the same, an entry that misses, and types
  that `processEvent` does not take; *messages* with positive, negative and
  textual numbers; one mapping also with a missing key and a path below a number.
- *Records*: thirteen sets of answers, one for each edge of the encoding (texts
  of 255 and 256, nested values at 1024, 63487 and beyond, whole numbers and
  fractions, a null, a shared column, a number past `MaxInt64`, a time stamp of
  the device's own), in any order. `MaxInt64` is 1000 tenths instead of 2^63: the
  proofs hold for any.
- *Homes* of `message_data` pair meters with devices: every meter beside records
  that fit and records that do not, and every set of records beside a meter that
  keeps the process up and one that ends it. The two meet only in the end of the
  process, so other pairs show nothing new.
- *MaxDisturbances* 1 to 3: failures, crashes, changes of the load, signals.
  It counts what the environment does wrong, never a step of the program. Two
  let a failure strike while the effects of another last (a comparison that
  fails, then the insert's connection, or the end of the process), and let a
  changed load meet a failed request.
- *Lifecycle*: two dials instead of 120, since a dial only differs from the last
  one. A process gets one signal; later ones find handlers that have already
  taken theirs.

`power_control` has no bound besides the values: its state is finite.

### Fairness

Weak fairness only, of steps that nothing but the scheduler holds back:
goroutines run on; timers fire; the container is started again after a failure,
with no limit (the script has `on-failure:10`). Calls of the API, the
database and `ecoflow.InitMqtt` return, with an error or without. `GridLoop`
adds that the meter keeps publishing, the converter follows and the API answers
faster than the meter repeats itself (`Second` waits for the loop to be idle:
a reading is taken within its second). `DeviceStore` requires nothing of the
Ecoflow callback: its messages may stay out. In `DataPaths` the writer runs on
and the container is restarted; the meter may be silent and so may the device's
messages to the callback, so `KeepsStoringData` has it as a premise that they
keep coming. Both liveness properties of the store presume the table: without it
the http store never stores anything (`store_startup`). `Lifecycle` requires neither the
end of a round of a loop nor the return of the broker; `ComesUp` and
`ListensAgain` say so in their premise.

## Proofs

Checked by `tlapm`; no step is left out. They hold for all values of the
constants that satisfy the named assumptions of the modules (`ConfigAssumption`,
`RealtimeAssumption`, `DynamicAssumption`, `StoreAssumption`,
`GridAssumption`, `EncodingAssumption`, `DataAssumption`, `LifecycleAssumption`): files give
integers for the limits and naturals for the wait and the dead zone, the API
reports naturals, readings are integers, a mapping is a sequence of entries as
`type Mapping` declares them.

- `AdapterConfigProofs`: lemmas that reading a file, and normalising, keep the
  record's type.
- `RealtimeControlProofs`: `TypeCorrect`, `UnblockedRaises` and `Refinement`.
  `IInv` is `TypeOK` and `RaisesAreUnblocked`; together they are inductive:
  while a decision is under way `currentRequested` does not change (only the
  loop's goroutine writes it), `blockLeft` only falls, and from `Window` to
  `Raise` no step makes the wish rise, whatever the configuration has become
  (`NarrowedBound`, `CappedBound`). `StepRefines` maps each action to a step or a
  stutter of the discipline, which is bounded, lifted and followed by a wait in
  steps of its own, each with the limits of its moment.
- `PowerControlProofs`: `ExclusiveControllers` from `CInv`, the property
  with the types of `adapter` and `watcher`; `DynamicAlone` from it and the second test
  of `DynamicRequest`. `SharedRaises` and `SharedRefinement` carry the realtime
  controller's results over: a step of the dynamic controller is a stutter for
  it, or, where `StartFlow` fills in the dead zone, a change of limits.
  `HistoryIgnored` proves what `power_needed` shows on an instance: while no
  power is exported, `AnalyzeEnergyHistory` computes the upper limit whatever
  drawn power the history shows, or, if a reload raised the limit between its
  two reads, something between the two. `PowerTypeCorrect` and `DynamicLimited`
  need more: `IInv`, which the dynamic controller does not disturb; that the
  limits in force lie within the recorded extremes (`SinceInv`); and, step by
  step, what is known of the history and of the computed power (`CourseInv`: the
  history is not empty, so that it has a record of least drawn power,
  `LeastNatural`; the power is above the least base request from `BaseFlow` on
  and below the highest upper limit from `CapFlow` on).
- `GridLoopProofs`: `GridTypeCorrect` reuses the realtime controller's lemmas
  per action. `DemandLimited` carries the limits from `Cap` to the converter, with
  "the configuration is one the daemon came up with". `StaleReadingsHarmless`
  rests on `Calm`: outside the API calls the program knows the output; and
  whenever the wait is over, nothing of the last request is pending and every
  queued reading was measured at the present output. The wait only runs while
  the queue is empty and the output has been read back (`Second`), which is what
  carries this from the request to the end of the wait. `DecisionsBalance`, what
  `Settles` rests on, uses the same invariant, and that `wanted` still is what
  was computed from the reading (`Fresh`): `RequestBalances` then says that the
  request covers the load up to the dead zone and exports nothing but the base
  request, whatever the powers, the dead zone and the limits are.
- `DeviceStoreProofs`: `CacheIsSound`, `ColumnsAreThere`, `AloneNeverCollides`
  from `SInv`. Lists of tables only age, and tables are never dropped, so any
  list is sound however late it replaces the cache. The columns a record needs
  are there from the creation, or from a comparison that did not fail
  (`unadapted`), to the insert because the two
  writers never work on the same table: quota is the http writer's. With one
  writer the cache equals the database except between the creation and the
  assignment, and a crash in between is mended by the next start.
  `CollidesOnce` bounds what finding `store_race` can do: from the moment a table
  is in the database of a daemon that is down, every process has it in its cache,
  in each list that will replace the cache, and is not about to create it
  (`Known`). So the race ends the daemon at most once for each table.
  `StoreTypeCorrect` adds that a round's list is an end of the list of devices.
  `SchemaRefinement` maps each step to one of `SchemaEvolution` or a stutter:
  a creation succeeds only if the table is absent, and a comparison only adds,
  the whole of what a record offers or a part (`SomeWidens`).
- `DataPathsProofs`: `LengthFits` is the 16-bit arithmetic of
  `createValueColumn`; `FreshFits` extends it to every kind of value.
  `CompatibleIsKept` follows from "each column was made for a value some record
  of this device has", whichever record came first and whatever failed or crashed, and from
  "a comparison that did not fail leaves no column missing".
  `DataTypeCorrect` is proved in parts, one per group of variables.
  `FittingIsUp`, what `KeepsStoringData` rests on, needs the two invariants: the
  daemon would end at a message only if the mapping does not take it, at a table
  only if it exists or two columns share a name, at a column only if it is nil,
  and none of these can come of records that fit each other.
  `TypedRefinement` maps `CreateTable` and `AdaptTable` to the steps of
  `SchemaEvolution`: what is added has new names only, so that the columns there
  are keep their types, and a nil column is never among them.
  `EventIsMapped` says of every message what `CreateEntryMapped` says of
  `createEntry`: by induction on the entries, the event after the first `m` of
  them is the one that the first `m` promise (`MappedStep`, which compares the
  writes of the next entry with the entry that has decided so far).
- `NaturalOrder`: induction over the naturals for a set instead of a predicate
  (`NaturalsFrom0`) and the least member of a set (`LeastNatural`), both from the
  well-founded order of finite sets. The library's own induction theorems take
  an operator, which no prover here can instantiate.
- `LifecycleProofs`: `LifeTypeCorrect`, from the books of `httpDone` (`LInv`:
  "main ahead of `setup` has no handler", so that the handler sends its value
  once). `SignalNeverLost`, what `ShutdownCompletes` rests on, adds that
  nobody works on a signal that has not come, that the handler of `InitEcoflow`
  is registered only when main is on its way to read `done`, and that
  filling `done` is the last thing it does.

Only model-checked: every liveness property (`Settles`, `KeepsStoring`,
`KeepsStoringData`, `ShutdownCompletes`, `ComesUp`), since the prover has neither
liveness under fairness nor ENABLED. Of all but `ComesUp` the safety part is
proved: `DecisionsBalance`, `CollidesOnce`, `FittingIsUp` and `SignalNeverLost`
say that nothing can go wrong on the way, and TLC that the way is gone. Of
`createEntry` the walk along a path (`Lookup`) stays a fold that no proof looks
into: `EventIsMapped` holds for whatever it finds.

## Not modelled

- The text of names, strings and times; what a driver does with a value it
  cannot store is the database's choice (`Bends`).
- `storeDatabase` (`database.go:87-125`): nothing sends to its channel.
- The commands `-p`, `-c`, `-l`, `-r` and `-a` of `main`: one call, or one loop
  without handlers.
- `statusChange`: it words log lines, and has the client refresh its list of
  devices (external; the loop holds on to the list it got at `http.go:56`).
- `mapStatDatabase`: its counters are printed only; that it is used without a
  lock is listed as a hazard.
- Memory and time are not limited; a database connection that
  `ReadCurrentFlow` leaves open each round (`compute.go:163`) is listed as a
  hazard.
- `restPlugins/` apart from the PUT call: its GET calls read from the API and
  format for another server. (`CallExtendGet` switches on a lower-cased path, so
  its case `deviceData`, `greeter.go:96`, is never taken.)
- `byte_formatter.go`: formatting of sizes, used by no other file.
- `mqtt_logger.go`, `version.go`, scripts and dashboards: no state of the daemon.

The default of `ECOFLOW2DB_WAIT_SECONDS` is 30 in the project's README and 60 in
`http.go:33`; no model depends on it.

## Plan

Done, in this order: configuration and realtime controller with its discipline;
the closed loop; the dynamic controller and both together; the store; the life
cycle; the mapping of messages and the encoding of values, joined in the data
paths; the abstract store and its refinement; proofs of every safety property,
`createEntry`'s induction included, and of what the liveness
properties rest on.

What could follow in the proofs: the safety part of `ComesUp`; that `DataPaths`,
its values forgotten, implements `DeviceStore` with one writer (both implement
`SchemaEvolution`).

What could follow in the models: the values of `DataPaths` in both writers of `DeviceStore` at
once (the state space is then the product of the two), and the statistics map as
a third party of the writers.
