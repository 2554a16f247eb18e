------------------------------ MODULE Seeding ------------------------------
(***************************************************************************)
(* SeedSensorsAndDevices: the file of devices that a replica writes into   *)
(* the registry when it starts, and that a client may upload.              *)
(*                                                                         *)
(* A seeder goes through the records one by one.  It looks up the sensor   *)
(* and the device of a record and then makes the calls of the registry for *)
(* them, each one a sequence of storage calls that interleaves with other  *)
(* seeders and with clients.  There is no transaction around a record and  *)
(* none around the file: the first error ends the loop and what has been   *)
(* written stays.  At start this ends the process, and it is started again *)
(* from the first record; in an upload it is the answer to the client.     *)
(***************************************************************************)
EXTENDS DeviceRegistry, Naturals, Sequences

CONSTANTS Seeders,       \* the requests that seed: replicas and uploads
          Records,       \* the file, after its rows have been validated
          ValidTenants,  \* ALLOWED_SEED_TENANTS, or the tenants of the caller
          ShouldUpdate,  \* SEED_EXISTING_DEVICES
          ClientCalls    \* what the other requests call

\* validateDeviceRecord lets an empty devEUI pass as well.  That sensor is not
\* found by GetSensor although it is inserted, so that only the first pass over
\* a file with such a record succeeds; no record here has one.
Record == [sensor : SensorIds, device : DeviceIds, tenant : Tenants,
           types : SUBSET Types, profile : Profiles]

\* mapToDevice: the calls for a record.  Its profile has a decoder, no types.
CreateSensorOf(rec) ==
    [op |-> "CreateSensor", sensor |-> rec.sensor, profile |-> rec.profile]

UpdateSensorOf(rec) == [CreateSensorOf(rec) EXCEPT !.op = "UpdateSensor"]

CreateDeviceOf(rec) ==
    [op |-> "CreateDevice", device |-> rec.device, sensor |-> rec.sensor,
     tenant |-> rec.tenant, types |-> rec.types, profileTypes |-> {}]

UpdateDeviceOf(rec) ==
    [op |-> "UpdateDevice", device |-> rec.device, sensor |-> rec.sensor,
     tenant |-> rec.tenant, types |-> rec.types]

SeedCalls ==
    UNION {{CreateSensorOf(rec), UpdateSensorOf(rec), CreateDeviceOf(rec),
            UpdateDeviceOf(rec)} : rec \in {Records[i] : i \in DOMAIN Records}}

ASSUME SeedersAreRequests == Seeders \subseteq Requests
ASSUME RecordsAreRecords == Records \in Seq(Record)
ASSUME TenantsAreTenants == ValidTenants \in [Seeders -> SUBSET Tenants]
ASSUME FlagIsBoolean == ShouldUpdate \in BOOLEAN
ASSUME CallsAreKnown == SeedCalls \cup ClientCalls \subseteq Calls

VARIABLES stage,   \* where a seeder is in the loop, or how it ended
          pos,     \* the record it works on
          found,   \* what existingSensor and existingDevice said
          present  \* history: was the device there when its turn began?

loop == <<stage, pos, found, present>>
seedVars == <<vars, loop>>

\* A call is made in the stages "sensorCall" and "deviceCall".
Stages == {"stopped", "crashed", "aborted", "lookSensor", "lookDevice",
           "sensor", "sensorCall", "device", "deviceCall", "up"}

Running(r) == stage[r] \notin {"stopped", "crashed", "aborted", "up"}

Rec(r) == Records[pos[r]]

Allowed(r, rec) == rec.tenant \in ValidTenants[r]

NothingFound == [sensor |-> FALSE, device |-> FALSE]

SeedInit ==
    /\ Init
    /\ stage = [r \in Seeders |-> "stopped"]
    /\ pos = [r \in Seeders |-> 1]
    /\ found = [r \in Seeders |-> NothingFound]
    /\ present = [r \in Seeders |-> FALSE]

Goto(r, s) ==
    /\ stage' = [stage EXCEPT ![r] = s]
    /\ UNCHANGED <<pos, found, present>>

\* Seeder r leaves the record it works on, and what it found with it.
Leave(r, s, p) ==
    /\ stage' = [stage EXCEPT ![r] = s]
    /\ pos' = [pos EXCEPT ![r] = p]
    /\ found' = [found EXCEPT ![r] = NothingFound]
    /\ present' = [present EXCEPT ![r] = FALSE]

NextRecord(r) == Leave(r, "lookSensor", pos[r] + 1)
Abort(r) == Leave(r, "aborted", 1)

\* A replica is started, or started again, or a client uploads the file.
Start(r) ==
    /\ stage[r] \in {"stopped", "crashed", "aborted"}
    /\ Goto(r, "lookSensor")
    /\ UNCHANGED vars

\* The record of a tenant that is not allowed is skipped.
Skip(r) ==
    /\ stage[r] = "lookSensor" /\ pos[r] \in DOMAIN Records
    /\ ~Allowed(r, Rec(r))
    /\ NextRecord(r)
    /\ UNCHANGED vars

\* After the last record messages are consumed and the watchdog starts.
Finish(r) ==
    /\ stage[r] = "lookSensor" /\ pos[r] \notin DOMAIN Records
    /\ Goto(r, "up")
    /\ UNCHANGED vars
-----------------------------------------------------------------------------
(***************************************************************************)
(* The two lookups.  Their errors are dropped: a failed read says FALSE.   *)
(***************************************************************************)
SensorLookup(r, answer) ==
    /\ stage[r] = "lookSensor" /\ pos[r] \in DOMAIN Records
    /\ Allowed(r, Rec(r))
    /\ found' = [found EXCEPT ![r] =
                    [sensor |-> answer, device |-> FALSE]]
    /\ present' = [present EXCEPT ![r] = HasDevice(Rec(r).device)]
    /\ stage' = [stage EXCEPT ![r] = "lookDevice"]
    /\ UNCHANGED pos
    /\ UNCHANGED vars

LookSensor(r) == SensorLookup(r, HasSensor(Rec(r).sensor))
LookSensorFails(r) == SensorLookup(r, FALSE)

DeviceLookup(r, answer) ==
    /\ stage[r] = "lookDevice"
    /\ found' = [found EXCEPT ![r] =
                    [sensor |-> found[r].sensor, device |-> answer]]
    /\ stage' = [stage EXCEPT ![r] = "sensor"]
    /\ UNCHANGED <<pos, present>>
    /\ UNCHANGED vars

LookDevice(r) == DeviceLookup(r, Visible(Rec(r).device, ValidTenants[r]))
LookDeviceFails(r) == DeviceLookup(r, FALSE)
-----------------------------------------------------------------------------
(***************************************************************************)
(* The calls of the registry.                                              *)
(***************************************************************************)
Begin(r, c) == BeginCall(r) /\ call'[r] = c

\* MUTANT: nobody looks whether the row is there.
CallsForCreating(isThere, create, update) == {create}

\* The call for a row, as a set: empty when there is nothing to do.
CallsFor(isThere, create, update) ==
    IF ~isThere THEN {create} ELSE IF ShouldUpdate THEN {update} ELSE {}

SensorCallsFor(r) ==
    CallsFor(found[r].sensor, CreateSensorOf(Rec(r)), UpdateSensorOf(Rec(r)))

DeviceCallsFor(r) ==
    CallsFor(found[r].device, CreateDeviceOf(Rec(r)), UpdateDeviceOf(Rec(r)))

SeedSensor(r) ==
    /\ stage[r] = "sensor"
    /\ \/ \E c \in SensorCallsFor(r) : Begin(r, c) /\ Goto(r, "sensorCall")
       \/ /\ SensorCallsFor(r) = {}
          /\ Goto(r, "device")
          /\ UNCHANGED vars

SeedDevice(r) ==
    /\ stage[r] = "device"
    /\ \/ \E c \in DeviceCallsFor(r) : Begin(r, c) /\ Goto(r, "deviceCall")
       \/ /\ DeviceCallsFor(r) = {}
          /\ NextRecord(r)
          /\ UNCHANGED vars

\* A storage step of the call in progress.
StorageStep(r) ==
    /\ Running(r)
    /\ Step(r)
    /\ UNCHANGED loop

\* MUTANT: the error of the sensor call is logged and the loop goes on.
SensorSeededAnyway(r) ==
    /\ stage[r] = "sensorCall" /\ phase[r] = "idle"
    /\ Goto(r, "device")
    /\ UNCHANGED vars

SensorSeeded(r) ==
    /\ stage[r] = "sensorCall" /\ phase[r] = "idle"
    /\ IF reply[r] = "ok" THEN Goto(r, "device") ELSE Abort(r)
    /\ UNCHANGED vars

\* MUTANT: the device call runs in a goroutine nobody waits for.
DeviceSeededUnawaited(r) ==
    /\ stage[r] = "deviceCall"
    /\ NextRecord(r)
    /\ UNCHANGED vars

\* MUTANT: a conflict of devices.Create is taken for success.
DeviceSeededOrThere(r) ==
    /\ stage[r] = "deviceCall" /\ phase[r] = "idle"
    /\ IF reply[r] \in {"ok", "deviceExists"} THEN NextRecord(r)
                                              ELSE Abort(r)
    /\ UNCHANGED vars

DeviceSeeded(r) ==
    /\ stage[r] = "deviceCall" /\ phase[r] = "idle"
    /\ IF reply[r] = "ok" THEN NextRecord(r) ELSE Abort(r)
    /\ UNCHANGED vars

\* The process dies or is shut down; a storage call under way has no effect.  One
\* that had its effect before has answered, and the answer is lost.
Crash(r) ==
    /\ stage[r] \notin {"stopped", "crashed", "aborted"}
    /\ Leave(r, "crashed", 1)
    /\ IF phase[r] = "idle" THEN UNCHANGED vars ELSE StorageFails(r)
-----------------------------------------------------------------------------
ReadFails(r) == LookSensorFails(r) \/ LookDeviceFails(r)

Seed(r) ==
    \/ Start(r) \/ Skip(r) \/ Finish(r)
    \/ LookSensor(r) \/ LookDevice(r) \/ ReadFails(r)
    \/ SeedSensor(r) \/ SensorSeeded(r)
    \/ SeedDevice(r) \/ DeviceSeeded(r)
    \/ StorageStep(r) \/ Crash(r)

Client(r) ==
    /\ \/ \E c \in ClientCalls : Begin(r, c)
       \/ Step(r)
    /\ UNCHANGED loop

SeedNext ==
    \/ \E r \in Seeders : Seed(r)
    \/ \E r \in Requests \ Seeders : Client(r)

SeedSpec == SeedInit /\ [][SeedNext]_seedVars

\* Reads and writes that fail, answers that are lost, processes that die.
Fault ==
    \E r \in Seeders :
        \/ LookSensorFails(r) \/ LookDeviceFails(r) \/ Crash(r)
        \/ phase[r] # "idle" /\ reply'[r] = "error"

\* What a seeder does next when nothing fails.
Proceed(r) ==
    \/ Start(r) \/ Skip(r) \/ Finish(r) \/ LookSensor(r) \/ LookDevice(r)
    \/ SeedSensor(r) \/ SensorSeeded(r) \/ SeedDevice(r) \/ DeviceSeeded(r)
    \/ StorageStep(r)

\* Processes run and are started again after they ended.
SeedFairSpec == SeedSpec /\ \A r \in Seeders : WF_seedVars(Proceed(r))
-----------------------------------------------------------------------------
(***************************************************************************)
(* Properties.                                                             *)
(***************************************************************************)
\* Seeders are well formed, and a seeder is in a call of the registry only in
\* the stages that make one.
SeedTypeOK ==
    /\ TypeOK
    /\ stage \in [Seeders -> Stages]
    /\ pos \in [Seeders -> 1..(Len(Records) + 1)]
    /\ found \in [Seeders -> [sensor : BOOLEAN, device : BOOLEAN]]
    /\ present \in [Seeders -> BOOLEAN]
    /\ \A r \in Seeders :
         phase[r] # "idle" => stage[r] \in {"sensorCall", "deviceCall"}

\* Is record i behind seeder r in its present or its finished pass?
Passed(r, i) ==
    /\ stage[r] \notin {"stopped", "crashed", "aborted"}
    /\ i \in DOMAIN Records /\ i < pos[r]
    /\ Allowed(r, Records[i])

\* A seeder leaves no allowed record behind without its sensor and its device
\* in the tables, whatever failed, raced or was there before: a service that
\* is up, and an upload that was answered 201, is complete.
PassedMeansSeeded ==
    \A r \in Seeders, i \in DOMAIN Records :
        Passed(r, i) =>
            HasSensor(Records[i].sensor) /\ HasDevice(Records[i].device)

\* Without SEED_EXISTING_DEVICES seeding changes no sensor that is there, and no
\* device that was there when its record came up: not one a lookup missed
\* because it failed, nor one hidden because another tenant owns it.
SeedingKeepsExisting ==
    [][~ShouldUpdate =>
        \A r \in Seeders : phase'[r] # phase[r] =>
            /\ \A s \in SensorIds : HasSensor(s) => sensors'[s] = sensors[s]
            /\ present[r] => devices'[Rec(r).device] = devices[Rec(r).device]
      ]_seedVars

\* The last record of the file for a device, or for a sensor.
LastFor(i, field) ==
    \A j \in DOMAIN Records : j > i => Records[j][field] # Records[i][field]

\* With SEED_EXISTING_DEVICES and no other writers the file wins: when every
\* seeder is through, each device and each sensor is as its last record says,
\* however the passes of the replicas overlapped and were interrupted.
TablesMatchFile ==
    ShouldUpdate /\ (\A r \in Seeders : stage[r] = "up") =>
        \A i \in DOMAIN Records :
            LET rec == Records[i] IN
            (\A r \in Seeders : Allowed(r, rec)) =>
                /\ LastFor(i, "device") =>
                     devices[rec.device] =
                         [sensor |-> rec.sensor, tenant |-> rec.tenant,
                          types |-> rec.types]
                /\ LastFor(i, "sensor") => sensors[rec.sensor] = rec.profile

\* Replicas that start together and run into each other's rows abort, but not
\* for ever: once faults stop, all of them come up and stay up.  (Not with a
\* record without a devEUI: see Record.)
ReplicasComeUp ==
    <>[][~Fault]_seedVars => <>[](\A r \in Seeders : stage[r] = "up")
=============================================================================
