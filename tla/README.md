# iot-device-mgmt: models and proofs

TLA+ modules for the device management service in `src/`: what its components
promise, model-checked with TLC on small instances and, in every safety property
the runs check, proved with TLAPS for instances of any size.

## The system

One Go process (several replicas may run) over one PostgreSQL database. HTTP
handlers (`internal/presentation/api`) call application services
(`internal/application/...`), which call `internal/infrastructure/storage`.
Status messages of devices arrive on the topic `device-status`; a watchdog
goroutine checks for silent devices; at start a CSV file is seeded through the
same services. No lock is held across storage calls: every storage call is one
transaction, and what protects the data between two of them is only what the
database enforces (primary and foreign keys, the partial unique index
`uq_devices_sensor_not_deleted`, `ON CONFLICT`, `RowsAffected`).

| Component | State | Operations | Where it is hard | What makes it correct |
|---|---|---|---|---|
| Device registry (`application/devices`, `storage/devices.go`, `device_sensors.go`) | tables `devices`, `device_sensor_profile_types`, tags, metadata | Create, Update, Merge, AttachSensor, DetachSensor | check-then-write over several transactions; second transaction for the types; lost acknowledgements | a sensor is on one device; it has a profile; nobody's sensor is stolen; acknowledged results hold |
| Sensor registry (`application/sensors`, `storage/sensors.go`) | table `sensors` | Create, Update | races of creates; profile checks of device calls in between | one creator; a profile is never lost |
| Status and alarms (`devices/handler.go`, `application/alarms`, `storage/alarms.go`, `storage/watchdog.go`) | `device_state`, `sensor_status`, `device_alarms` | two handlers of one topic, the check of the watchdog | messages handled twice, in any order, half; list read before the alarms are written | alarms of devices stay; only silent devices are alarmed; silent devices are alarmed eventually |
| Watchdog lifecycle (`application/watchdog`) | `running`, `cancel`, `done`, one goroutine per Start | Start, Stop | atomic flag and mutex-protected fields change at different moments; Stop may give up | one watcher; a running watcher can be stopped |
| Seeding (`application/app.go`, `devices/seed.go`, `main.go`) | none of its own | loop over registry calls | aborts half-way, restarts, replicas, moved sensors | what is up is complete; restarts converge; without the flag existing rows are left alone |
| Queries and pagination (`storage/conditions.go` and the queries of `storage`, `api/helpers.go`) | none; offset, limit and links travel with the client | the lists of devices, sensors and alarms, lookups of one device, statuses | nothing is kept between two pages, and others write; NULLs in filters and orders; limits of zero, offsets at the edges | a walk misses a record only when others move; a filter and its negation cover all records; two ways to ask agree |
| Client library (`pkg/client`) | queue, `keepRunning`, a WaitGroup | the methods that write, run, Close | lost and late answers, calls given up and still served; conflicts that are answers of one's own earlier call; a second Close | what an answer says is so; Close returns after run |
| Patch parsing, authentication, formatting, configuration, mocks | none or read-only | | | not modelled |

Components interact by calls into the storage layer (the tables are the shared
state), by the topic (two independent subscriptions), and by the watchdog
calling the alarm service. The hazards are listed with their lines in
`PROJECT.json`.

## The modules

### SensorAssignment (abstract)

What clients may rely on: which sensor each device carries (`sensorOf`) and
which sensors may be assigned (`usable`). Three actions: a sensor becomes usable
and stays so; a device takes a usable sensor no other device carries; a device
releases its sensor.

### DeviceRegistry

The detailed specification of the command side. `devices` and `sensors` are the
tables (a row with its types; the profile of a sensor, `Null` for SQL NULL,
`NoRow` for no row). Every request runs one call at a time; `phase[r]` is the
storage call it makes next, `call[r]` its arguments, `reply[r]` its answer.

| Code | Actions |
|---|---|
| `devices.Create` | `CheckCreate`, then `GetSensor`, `GetHolder` if a sensor is named, `UpsertDevice`, `SetDeviceProfileTypes` if the embedded profile has types (its error is ignored) |
| `devices.Update` | `CheckUpdate`, `GetSensor`, `GetHolder`, `UpsertDevice` |
| `devices.Merge` | `CheckMerge`, `MergeColumns`, `SetDeviceProfileTypes` if types are named |
| `AttachSensor` | `CheckAttach`, `GetSensor`, `GetHolder`, `AssignSensor` |
| `DetachSensor` | `CheckDetach`, `UnassignSensor` |
| `ensureSensorCanBeAssigned` | `GetSensor`, `GetHolder` |
| `sensors.Create`, `sensors.Update` | `CheckSensorCall`, `InsertSensor` or `UpdateSensor` |
| an error of any storage call | `StorageFails`; `AnswerCommitted` for a commit whose acknowledgement is lost |

Constraints of the schema are guards: `SensorColumnAllowed` (foreign key and
unique index), `TypesAllowed`, `ProfileColumnAllowed`. The scalar columns are
represented by `tenant`, which is also what visibility depends on. A `Calls`
constant lists the calls clients make, so that runs choose small sets and proofs
hold for every set.

Abstracted: metadata (written in the same transaction as the row), soft-deleted
rows (nothing in the code sets `deleted`), the text of identifiers, the parsing
of patches. A transaction is one step here, the one in which it commits;
`DeviceTransactions` opens it, and has the tags. One thing it shows of
transactions that overlap is kept here: `SetDeviceProfileTypes` takes no lock on
the device, so its types may mix with those of another call. `late[r]` is what
others have committed while `r` may have been writing types of the same device,
and `TypesLeft` what the row may then be left with. A circle of waits is, for the
registry, one of the errors of `StorageFails`.

### DeviceTransactions

The transactions of `CreateOrUpdateDevice` and `SetDeviceProfileTypes`, statement
by statement. A row is a table and its key. `Statements(c)` is the list a call
executes: the upsert of the device (which locks its row and then enters its
sensor in the index `uq_devices_sensor_not_deleted`), the deletion of its
tags, for each tag in the order of the request an insert of the tag and of its
link, then its types; `SetDeviceProfileTypes` deletes and inserts types and locks
no device. An upsert is `pending` while it has its row and waits for the index:
whoever holds the entry of the same sensor, because it has written a row with it
(`Holds`), must be through first; if another device has the sensor then, the
index refuses it. `AttachSensor` and `DetachSensor` are transactions of one
statement and are left out; the first would wait for a sensor as an upsert does.

| Code or database | Actions |
|---|---|
| a statement that waits for nobody | `LockRow` and `IndexSensor`, `FindRows` and `DeleteRows`, `InsertRow` |
| the unique index refuses the sensor | `SensorRefused` |
| a foreign key is not there | `InsertRefused` |
| the end of the transaction | `Commit`; `StatementFails` with a rollback at any statement |
| a circle of waits | `BreakDeadlock`: one transaction of it is rolled back |

How PostgreSQL waits and what a statement sees (READ COMMITTED: what is committed
and its own writes, anew for each statement) is external. `latest`, the upsert of
a device that committed last, says which sensor its row has. `late` is history:
the types other calls committed for the device while this one was under way, where
one of the two has no lock.

### WatchdogLifecycle

`Start` is three steps (compare-and-swap of `running`, publication of
`cancel`/`done` under the mutex, `go`), the goroutine ends in two (it closes
`done`, then clears `running`, in the order the deferred calls run), `Stop` is
copy, cancel, wait or give up, forget. A generation is one successful `Start`.
The watchers are assumed to return once their context is cancelled, which
`StatusAlarms` shows of the only watcher there is (`WatchReturns`).

### StatusAlarms

`toDevices`, `toStatus`, `toAlarms` and `adding` are the messages at each stage
of the two handlers, kept as sets so that every order of handling occurs. `state`,
`lastStatus` and `alarms` are the tables, `watch` and `found` the watchdog and
the rest of its list. `devices.Handle` is `HandleState` then `HandleStatus`; the
alarm handler is `HandleAlarm` and one `AddText` per text; the watchdog is
`Tick`, `ReadStale`, `AlarmStale` per device. Each storage call may fail instead,
and then the message is lost (handlers return nothing to the messaging library).
Sensors move by the actions of `SensorAssignment`, which `DeviceRegistry` is
proved to implement: the module uses the promise instead of the registry.
External and modelled from its use: the delivery of the topic to both handlers,
and the clock of the database. Left out: redelivery by the broker, devices that
report `device_not_observed` as their own code, the state set through the API, and
the second way to find the device of a status, by the id of its sensor
(`storage/devices.go:499`): no sensor has the name of a device here.

### Seeding

`SeedSensorsAndDevices` over the calls of `DeviceRegistry`, which it extends. A
seeder is a request: a replica that starts, or an upload. `stage` and `pos` say
where it is in the loop over the records, `found` what the two lookups said.

| Code | Actions |
|---|---|
| start of the process, upload | `Start` |
| tenant not in `validTenants` | `Skip` |
| `existingSensor`, `existingDevice`, errors dropped | `LookSensor`, `LookDevice`, `LookSensorFails`, `LookDeviceFails` |
| `sensors.Create` or `Update`, its error returned | `SeedSensor`, `StorageStep` per storage call, `SensorSeeded` |
| `devices.Create` or `Update`, its error returned | `SeedDevice`, `StorageStep` per storage call, `DeviceSeeded` |
| the loop is through: topic handlers and watchdog start | `Finish` |
| the process dies or is shut down | `Crash` |

`present` is a history variable: was the device of the record there when its turn
began. The profiles and types of the configuration are seeded before the file, by
inserts that ignore conflicts; they are the constants `SeededProfiles` and
`SeededTypes`. Records are modelled after validation, all with a sensor: one with an
empty devEUI is accepted too, but see "Not modelled". `csv` parsing is left out.
External: the restart of a process that ended.

### PageWalk (abstract)

A list as its clients see it. Each record has a key (`Absent` when the query
does not select it), pages are cut out of a ranking by the keys, and ties are
ranked anew by every request unless the order ends with the identifier. A client
walks forward along `next`, or asks for a page, goes to its `last` and back along
`prev`; the links are those of `createLinks`. `Change` gives any records other
keys at any time. `due` is what a walk should show (selected all the while, never tied,
its own key unchanged) and `moved` how the other records have moved: both are
history.

### Listings

The same with the code in it: a request is a URL and the tenants of its caller.
`deviceQueryFromValues`, `sensorQueryFromValues` and `alarmQueryFromValues` make
the query of it (two keys of the URL may set one field, in the order of a Go map:
`Queries(r)` is the set of what may come out), `DeviceWhere`, `SensorWhere` and
`AlarmWhere` select, `OrderBy` ranks with NULLs where PostgreSQL has them,
`Collection` cuts and counts, and `LastOf`, `NextOf`, `PrevOf` are the links.
`WriteDevice`, `WriteSensor`, `SetDeviceState`, `WriteAlarm` and `AddStatus` are the
writes of the other components. `Key` is the refinement mapping: the place of a
row in the order of its query, as a number.

`WellFormed` is what the handlers answer 400 to, `Refused` what only the database
refuses: a filter by `bounds` names the column `location`, which is in two of
the joined tables (`storage/conditions.go:419`), and a filter by `urn` names a column `devices`
does not have. Both end every such request with an error; no text of the
repository says otherwise in a way a run could refute.

`DeviceBySensor`, `GetDeviceStatus` and `LatestStatus` are the reads of one device
that are statements of their own.

### ClientRun

`run` and `Close` of the client: the WaitGroup, the flag, the unbuffered queue.
It is small and proved in `ClientCallsProofs` for any number of calls; there is no
run of it.

### ClientCalls

The methods of the client that write, over `DeviceRegistry`, which it extends. An
exchange is a request of the registry plus a `wire`: it travels (`request`), is
refused or served (`Arrive`, `Serve`), its status travels back (`Respond`) and
becomes an error of the client (`Deliver`). A client may give up at any time
(`GiveUp`, its timeout) and call again while the exchange it left is still
served; requests and responses are lost (`Lose`). `StatusOf` is what the
handlers answer to each error of the services, `ErrorOf` what each method makes of
a status. `wrote` and `disturbed` are history: has the exchange changed a table,
and was another one, given up before, still under way when this one began.

`Refusals` has a case of its own: `UpdateSensor` of the client sends the field
`sensorProfile` (`pkg/client/sensors.go:205`), the handler reads
`sensorProfileID` (`api/sensors.go:185`), so that it answers 400 and nothing is
ever updated through this method.

Some modules also hold operators whose comment begins with `MUTANT`: changed forms
of a definition with which each property was seen to fail. They are no part of the
specifications.

## The runs

| Run | Instance | What it shows |
|---|---|---|
| `registry_assignment` | 2 requests, 2 devices, 2 sensors, one seeded profile and one that is not | every race of two calls about sensors: `SensorAssignedAtMostOnce`, `AttachedSensorHasProfile`, `CheckedSensorKeepsProfile`, `LookupNeverFails`, `SensorCreatedOnce`, `NoSensorStolen`, `AcknowledgedAssignmentHolds`, and `ImplementsAssignment` |
| `watchdog_lifecycle` | 3 callers, 3 generations | `AtMostOneWatcher`, `RunningIsTruthful`, `CancelStaysReachable`, and under fairness `StopEndsTheWatcher` |
| `watchdog_stop_flag` | 1 caller, 1 generation | a violation: `Stop` can return while `running` is set, contrary to the test of `Stop` |
| `status_alarms` | 2 devices, 1 sensor, 2 messages of 5 kinds, clock to 2, retention 1 | `ReportedAlarmsStay`, `HeardDevicesStayClean`, `LastHeardNeverGoesBack` |
| `stale_is_noticed` | 2 devices, 2 sensors, 2 messages, clock to 2 | under fairness, `StaleIsNoticed` |
| `observed_yet_stale` | 1 device, 1 sensor, 2 messages | a violation: a device whose state was just recorded is taken for stale, contrary to the README of the service |
| `seeding_clients` | 1 replica, 1 client, 2 records, 2 seeded types and one that is not, no update flag | `SeedTypeOK`, `PassedMeansSeeded`, `SeedingKeepsExisting`, with a client that creates the same rows, attaches the same sensors and patches columns and types, failing lookups and writes, crashes and restarts |
| `seeding_replicas` | 2 replicas, 2 records for one device, update flag, no clients | `TablesMatchFile` in every overlap of passes and crashes, and under fairness `ReplicasComeUp` |
| `page_walk` | 3 records, 2 keys, offsets 0 and 1, limits 1 and 2 | `MissedOnlyByMovement`, `RepeatedOnlyByMovement`, `LostOnlyWhenRecordsLeft` under any changes, and under fairness `WalkEnds` |
| `listings` | 3 devices, 3 sensors, 2 profiles, 16 walks with at most 1 write during a walk, 26 single requests | `FiltersPartition`, `LinksNeverDivideByZero`, `LookupsAgree`, `StatusesAgree`, and `ImplementsPageWalk` |
| `transactions` | 2 connections, 6 calls, 2 devices, 2 sensors, 2 tags, 3 types of which one is not seeded | `UpsertIsNeverRefused`, `TagsOfTheLatestUpsert`, `TypesMixOnlyOverlapping`, `OnlySwapsDeadlock`, and under fairness `EveryCallEnds` |
| `client_calls` | 1 client, 2 exchanges, 2 devices, 1 sensor, 2 tenants of which one is allowed | `SettledCreateIsThere`, `NilHoldsWhenUndisturbed`, `NamedErrorsChangedNothing` |

Bounds. A conflict in the registry is between two calls: the index, the foreign
keys and the checks relate one request to one other, and a third only repeats
what one of the two does; two devices and two sensors are the least for a sensor
to have a rival and a device to have an alternative. Three callers and three
generations let a late `Stop` of one generation meet the `Start` of the next and of
the one after. For alarms, two messages are the least for a reordering; the clock
goes just far enough for an interval and the retention to pass. Two records for
one device are the least for a seeder that is behind to overwrite one that is
ahead. Three records are the least for a page in the middle, with a link on both
sides, and one write during a walk of the real lists suffices for a step of
`PageWalk`, which itself is checked and proved with any number. Two transactions
make a circle, of tags or of sensors: two of the calls exchange the sensors of
their devices. Every upsert of the run names a sensor; that those without one, and
circles of any length, are no exception is proved.
Two exchanges of one client are the least for one that was given up to meet the
next. The proofs remove the bounds for all safety properties.

Symmetry is used in `registry_assignment` (requests, devices, sensors) and `client_calls` (exchanges, clients, devices) and never
where liveness is checked. Deadlock is checked except where the system may stop:
the watchdog (no more generations), the alarms (no more messages and a stopped
watchdog), walks (the client is through).

Fairness. Only liveness assumes it. `WatchdogLifecycle`: a goroutine that can
take a step takes it (the Go scheduler), not that anybody calls `Start` or `Stop`.
`StatusAlarms`: the loop of the watchdog goes on (its ticker), and the read of
the stale devices and the write of an alarm, which are tried again at every
check, do not fail every time; nothing is assumed of messages or handlers.
`Seeding`: processes run and are started again when they have ended (the
orchestrator); `ReplicasComeUp` moreover assumes that faults stop, as its
antecedent says, and the run has no clients: a client that attaches a sensor of
the file to another device makes every start with the update flag fail at that
record until it is detached. `PageWalk`: the client goes on to the next page.
`DeviceTransactions`: strong fairness of the statements of each connection, for
PostgreSQL queues those who wait for a row, and weak fairness of `BreakDeadlock`,
for it looks for circles after a second of waiting.

## The findings

`watchdog_stop_flag`: deferred calls run last to first, so `close(done)` comes
before `running.Store(false)`. `Stop` waits for `done` only. The test asserts that
the flag is clear when `Stop` has returned; a `Start` in the window does nothing.

`observed_yet_stale`: `device_state` is written for every message,
`sensor_status` only for messages with a battery or radio value, and the
watchdog looks at the second. A device that goes on reporting without such
values is alarmed as not observed.

## The proofs

Eight modules hold theorems. Each is proved for sets of any size, from the named
assumptions its module declares about its constants, which TLC evaluates on the
instances of the runs:

| Module | Assumed | Because |
|---|---|---|
| `DeviceRegistry`, `Seeding`, `ClientCalls` | seeded values are known values, calls are calls, seeders are requests; `Null`, `NoRow` are no values and `Null` no request | types of the constants |
| `DeviceTransactions` | the same, and finitely many tags | the tags of the calls there are; without it `InOneOrder` counts nothing |
| `StatusAlarms` | devices do not report `device_not_observed`; it is among the enabled types | the code is the watchdog's own; `assets/config/config.yaml` enables it |
| `PageWalk` | a list has finitely many records, keys are numbers, limits are positive | a table is finite; at a limit of zero nothing is found and nothing linked |
| `Listings` | rows, tables and URLs have the shape of their Go types; a key of a URL has a value; callers have a tenant | `url.Values` and the schema; a token without tenants is not modelled |
| `Listings` | what a client walks along is answered, is no export, has one meaning and a positive limit (`WalksHaveOneQuery`) | others have no links to follow, or are asked anew by every page: `Probes` ask for those once, and the four invariants hold of them |

Two theorems have hypotheses of their own. `FileWins` assumes that there is a
seeder and that no client writes the rows of the file (`Undisturbed`): what a
client writes after the last pass stays until the next one. `NilHolds` states its
own in the property: one client, and no exchange under way that it gave up.

### DeviceRegistryProofs

| Theorem | Statement |
|---|---|
| `TypeCorrect` | `Spec => []TypeOK` |
| `SensorAssignedOnce` | `Spec => []SensorAssignedAtMostOnce` |
| `AttachedHaveProfile` | `Spec => []AttachedSensorHasProfile` |
| `ChecksStayValid` | `Spec => []CheckedSensorKeepsProfile` |
| `NothingStolen` | `Spec => NoSensorStolen` |
| `LookupsSucceed` | `Spec => []LookupNeverFails` |
| `CreatedOnce` | `Spec => []SensorCreatedOnce` |
| `AcknowledgedHolds` | `Spec => AcknowledgedAssignmentHolds` |
| `Refinement` | `Spec => ImplementsAssignment` |

The inductive invariant `IInv` is the type invariant, uniqueness, "attached
sensors have a profile" and `CheckedSensorKeepsProfile`. The last one is the
strengthening: the transaction that writes a sensor into a device row checks that
the sensor exists and is free, but not that it has a profile. That was checked
two storage calls earlier, and the invariant says it is still so, because no
write takes a profile away.

The argument goes through one fact, `EveryStepIsTableStep`: a step leaves the
tables alone, or writes one device row whose sensor is unchanged, cleared, or
free and with a profile (`DeviceWrite`; of its types only that they are seeded), or writes
one sensor row without removing a profile (`SensorWrite`). One lemma per writing action shows it; uniqueness, the
profiles, the types of rows, `NoSensorStolen` and the refinement each follow from
it by cases. What requests carry with them is a second chain: `StepMovesRequest`
and `AdvanceTo` say where a step can move a request and what it has seen by then.
`LookupNeverFails` and `SensorCreatedOnce` need one more invariant over the
answers, `Answered`: who was told that it created a sensor finds the row, so
whoever finds no row afterwards does not exist. `AssignmentOk` says that the step which answers `ok` is the one that has
written the column.

### SeedingProofs

| Theorem | Statement |
|---|---|
| `SeedingIsRegistry` | `SeedSpec => Spec` |
| `SeedTypeCorrect` | `SeedSpec => []SeedTypeOK` |
| `SeedingIsComplete` | `SeedSpec => []PassedMeansSeeded` |
| `ExistingRowsAreKept` | `SeedSpec => SeedingKeepsExisting` |
| `FileWins` | `Seeders # {}, Undisturbed \|- SeedSpec => []TablesMatchFile` |

By the first every theorem about the registry holds of the seeded service. For
the third, `PassedMeansSeeded` alone is not inductive: `Held` adds what a seeder
knows while it works on a record. A lookup that said TRUE has seen a row, rows are
never removed (`RowsAreKept`), a call answered `ok` leaves its row behind
(`SensorCallOk`, `DeviceCallOk`); the call in progress is one for the record, and
it never reaches `setTypes`, whose errors `devices.Create` ignores, because a
seeded profile lists no types (`NoTypesToSet`). The fourth needs `Careful`:
without the flag the calls of a seeder are creates, whatever its lookups missed,
and a create that has got past its first check began with a device that was not
there.

The fifth is about what is still owed. `TablesMatchFile` speaks of the moment when
all seeders are through; before it, the row of a device is as its last record
says, or some seeder owes that record: it has not passed it, or works on it and
has not written (`OwesDevice`, `OwesSensor`, `FileInv`). A write of an earlier
record for the same device is by a seeder that still has the last one before it,
a crash makes a seeder owe the whole file again, and a call answered `ok` has
written exactly the row of its record (`RowOf`, `SeederWrites`): no types of
others mix with its own, for seeders write types in upserts only and nobody else
writes the device (`SeedersAlone`). Hence nobody pays with a row somebody else has
spoiled for good.

### ClientCallsProofs

| Theorem | Statement |
|---|---|
| `ClientsUseRegistry` | `ClientSpec => Spec` |
| `ClientTypeCorrect` | `ClientSpec => []ClientTypeOK` |
| `CreateSettles` | `ClientSpec => []SettledCreateIsThere` |
| `NamedErrorsAreClean` | `ClientSpec => NamedErrorsChangedNothing` |
| `NilHolds` | `ClientSpec => []NilHoldsWhenUndisturbed` |
| `RunTypeCorrect` | `RunSpec => []RunTypeOK` |
| `CloseWaits` | `RunSpec => []ClosedMeansEnded` |
| `OneIsHeard` | `RunSpec => []OneCloseIsHeard` |

What an answer means is carried from place to place: `Settled` for the reply of a
call of the registry, `Carried` for the status an exchange takes along, `Waiting`
for the client at the other end. Rows are never removed, so what held when the
answer was given holds when it arrives. That does not help `NilHolds`, for a sensor
that was attached may be detached again. Its invariant is `Kept`: as long as the
client has not begun a call while one it gave up was under way, its own exchange
is the only one that travels or is served (`Alone`), so what an answer `ok` says of
the device stays so, on the way back and after (`Achieved`). For `ClientRun` the
strengthening is `Places`: which values of the flag and of the WaitGroup go with each place of
`run`; that nobody has been heard before it receives makes early calls of
`Close` safe.

### DeviceTransactionsProofs

| Theorem | Statement |
|---|---|
| `Invariant` | `Spec => []Inv` |
| `NoUpsertIsRefused` | `Spec => []UpsertIsNeverRefused` |
| `TagsAreTheLatest` | `Spec => []TagsOfTheLatestUpsert` |
| `OverlappingTypes` | `Spec => TypesMixOnlyOverlapping` |
| `OnlySwapsAreEnded` | `Spec => []OnlySwapsDeadlock` |

The lemmas about `Plan` say which statement stands where; nothing after them looks
into the sequences. `Inv` says how a transaction has got where it is: what it holds
is of statements it has executed (`OfPast`), no two hold a row (`Exclusive`), and a
`DELETE` with the `INSERT`s behind it replaces its rows (`Replacing`). Links are
replaced under the lock of the device, so nobody else touches them in between, and
the tags are those of the upsert that committed last. Types are not: `Mixing` is
`Replacing` up to what is in `late`. A type another call commits stays if it came
after the `DELETE` had looked, and an `INSERT` of a type that is there adds nothing,
so that it is missing if a third call had already deleted it. Each is a type of a
call that overlapped, and nothing else of others gets in or lost.

For the circles: the row of its device is the first thing an upsert writes, so one
that is waited for has that row, and waits itself for a sensor or for a tag; nothing
else is shared between devices. Whoever withholds a tag has its sensor in the index
already, waits in turn for a tag, and, if all lists are in one order, for one that
comes later (`AddedBefore`). Of the tags waited for in a circle none could then be
the last, so nobody in it waits for a tag (`CircleIsPending`). All wait for sensors,
before they have written a tag, and the sensor each wants is that of the old row of
another in the circle (`CircleIsSwap`): a new one is in the index only of somebody
who no longer waits for it. Two upserts that
exchange the sensors of their devices do wait for each other so, and the database
ends one, whatever their tags: `ensureSensorCanBeAssigned` does not prevent it, for
each may have passed it at a time when its sensor was free.

### ListingsProofs

| Theorem | Statement |
|---|---|
| `Partition` | `Spec => []FiltersPartition` |
| `LimitsArePositive` | `Spec => []LinksNeverDivideByZero` |
| `SameDevice` | `Spec => []LookupsAgree` |
| `NewestIsFirst` | `Spec => []StatusesAgree` |
| `Implementation` | `Spec => ImplementsPageWalk` |
| `ListsMissOnlyByMovement` | `Spec => []Walk!MissedOnlyByMovement` |
| `ListsRepeatOnlyByMovement` | `Spec => []Walk!RepeatedOnlyByMovement` |
| `ListsLoseOnlyWhenRecordsLeft` | `Spec => []Walk!LostOnlyWhenRecordsLeft` |

The first four follow from the shape of the tables (`RowsInv`: rows are rows, and a
sensor that a device names has one).

The refinement needs `WalkInv`: the request of a client has one meaning (all
queries that may come of it ask the `Same` at the same offset), at an offset that is
a number and a limit that is positive, and no due record ties with another. Four facts carry it. `Key` orders rows as `ORDER BY`
does, NULLs included, for every column and both directions. What a query selects
and how it ranks does not depend on the offset. A link, which replaces the offset
in the URL, is parsed to the same query at that offset, whichever of two keys for
one field Go's map yields first. And a page of a list is a page of `PageWalk` with
that ranking. Then each read is the read of `PageWalk`, and each write of a table
is a `Change` of keys or a stutter, with `due` and `moved` as `PageWalk` has them.

The last three put `Implementation` and the theorems of `PageWalkProofs` together:
what is proved of the abstract walk holds of the lists of the service. The proof
module takes its own instance of `PageWalk` with the theorems, and `SameWalk`
shows that both instances say the same.

### PageWalkProofs

| Theorem | Statement |
|---|---|
| `TypeOKHolds` | `Spec => []TypeOK` |
| `MissedOnlyByMovementHolds` | `Spec => []MissedOnlyByMovement` |
| `RepeatedOnlyByMovementHolds` | `Spec => []RepeatedOnlyByMovement` |
| `LostOnlyWhenRecordsLeftHolds` | `Spec => []LostOnlyWhenRecordsLeft` |

A record that ties with no other has as many records before it as its place says,
whatever the database does with ties (`RankIsPlace`), and a change moves that
place only the way the changed records moved (`ChangeMovesOneWay`). The
invariant compares places with the offset of the client: a due record that was
shown is behind it (`Behind`), one that was not is before it (`Beyond`), and the
offset of a link is inside the list (`Inside`), each until records have moved the
wrong way. `TypeOK` is checked by no run: the three others rest on it.

### WatchdogLifecycleProofs and StatusAlarmsProofs

| Theorem | Statement |
|---|---|
| `WatchdogLifecycleProofs!TypeCorrect` | `Spec => []TypeOK` |
| `OneWatcher` | `Spec => []AtMostOneWatcher` |
| `FlagIsTruthful` | `Spec => []RunningIsTruthful` |
| `StaysStoppable` | `Spec => []CancelStaysReachable` |
| `StatusAlarmsProofs!TypeCorrect` | `Spec => []TypeOK` |
| `ReportedStay` | `Spec => ReportedAlarmsStay` |
| `LastHeardGrows` | `Spec => LastHeardNeverGoesBack` |
| `HeardStayClean` | `Spec => HeardDevicesStayClean` |

Lifecycle: all generations but the last have ended (`Past`), and the last one is
at rest, being started by exactly one caller, or watched (`Resting`,
`BeingStarted`, `Watched`); the flag says which. `CallersKnow` says that what
callers carry are generations already begun, which is why a late `Stop`, which
forgets only its own generation, cannot throw away the function of a newer one,
and `LastIsReachable` that somebody has cancelled it or can.

Alarms: a step changes the alarms of one device in one of three ways
(`EveryStepIsAlarmStep`). Beside types the invariant says only that the texts
still to be added do not name `device_not_observed` (`Adding`). Steps of the
status table and of the list of the watchdog are classified likewise
(`StatusStep`, `ListStep`).

### What is only model-checked

Liveness: `StopEndsTheWatcher`, `StaleIsNoticed`, `ReplicasComeUp`, `WalkEnds` and
`EveryCallEnds` stay with TLC, because the installed provers have no `ENABLED` and
fairness is stated with it. Every invariant and every action property of a passing
run is a theorem. The two violations are counterexamples and have nothing to prove.

## The plan

Done: all modules above with their proofs. What is left, in this order:

1. `StatusAlarms`: the state set through the API, a third writer of
   `device_state`, and what of `LastHeardGrows` and `HeardStayClean` it changes.
2. `Seeding`: the seeding of types and profiles as steps of their own.
3. `DeviceTransactions` as an implementation of the one step that
   `DeviceRegistry` takes for it, for a device at a time.

## Not modelled

- Measurements: their table is written by another service; this one only reads.
- Metadata: rows written in the transaction of the upsert after everything else.
- The catalogue of profiles, tags, tenants and types: reads without arguments.
- `UpdateState` through the API, and the reading methods of the client: one
  storage call or one decoded answer.
- Authentication: an embedded policy engine; its result, the set of allowed
  tenants, is an input of the models.
- Patch parsing, CSV, JSON and GeoJSON formats, the text of SQL, metrics and
  logging: conversions without state. Configuration: read once. The generated
  mocks: no behaviour.
- A seeder and a client about the same sensor with the update flag: `app.go:129`
  then fails at every start until the sensor is detached. No text says that a
  start must survive it, so no property does.
- A record of the seed file with an empty devEUI: `validateDeviceRecord` accepts it,
  `GetSensor` never finds an empty identifier (`storage/sensors.go:132`), and the
  `Create` of every start after the first fails with `ErrSensorAlreadyExists`.
  `ReplicasComeUp` and `TablesMatchFile` are about files without one.

## Running

    tlc -workers 2 -config MCDeviceRegistry_assign.cfg MCDeviceRegistry.tla
    tlc -workers 2 -config MCListings.cfg MCListings.tla
    tlapm DeviceRegistryProofs.tla

and likewise for every run of `PROJECT.json` and for `SeedingProofs`,
`ClientCallsProofs`, `DeviceTransactionsProofs`, `PageWalkProofs`,
`ListingsProofs`, `WatchdogLifecycleProofs` and `StatusAlarmsProofs`.
