--------------------------- MODULE DeviceRegistry ---------------------------
(***************************************************************************)
(* The device and sensor registry: the command side of the services        *)
(* internal/application/devices and internal/application/sensors over the  *)
(* tables devices, sensors and device_sensor_profile_types.                *)
(*                                                                         *)
(* A service call is a sequence of storage calls.  Each storage call is    *)
(* one database transaction, taken as one step here, the one in which it   *)
(* commits; between two of them any step of any other call may happen.     *)
(* What a check read may be out of date when the write that relies on it   *)
(* is executed; what protects the data then is the guard of the write      *)
(* itself: the partial unique index on devices(sensor_id), the foreign     *)
(* keys, ON CONFLICT and RowsAffected.  Module DeviceTransactions takes    *)
(* the transactions apart.  Of what it shows of transactions that overlap, *)
(* the mixing of a device's types is part of the steps here; a call that   *)
(* the database ends in a circle of waits is one of those that fail.       *)
(***************************************************************************)

CONSTANTS Requests,       \* goroutines serving API calls (or seeding)
          DeviceIds, SensorIds, Tenants,
          Types,          \* LwM2M object types callers may name ...
          SeededTypes,    \* ... and those in the table sensor_profile_types
          Profiles,       \* sensor profiles callers may name ...
          SeededProfiles, \* ... and those in the table sensor_profiles
          Calls,          \* the calls clients make
          Null,           \* SQL NULL, a nil pointer, an empty field
          NoRow           \* no row with this key

(***************************************************************************)
(* The calls.  types is the column set of Lwm2mTypes, profileTypes the     *)
(* types of an embedded SensorProfile, allowed the tenants of the caller.  *)
(* Scalar columns are represented by one of them, tenant.  In a merge Null *)
(* stands for a field the patch does not name; an empty list of types      *)
(* counts as not named, a list of empty strings clears the types.          *)
(***************************************************************************)
CreateDeviceCall ==
    [op : {"CreateDevice"}, device : DeviceIds, sensor : SensorIds \cup {Null},
     tenant : Tenants, types : SUBSET Types, profileTypes : SUBSET Types]

UpdateDeviceCall ==
    [op : {"UpdateDevice"}, device : DeviceIds, sensor : SensorIds \cup {Null},
     tenant : Tenants, types : SUBSET Types]

MergeDeviceCall ==
    [op : {"MergeDevice"}, device : DeviceIds, tenant : Tenants \cup {Null},
     types : SUBSET Types \cup {Null}, allowed : SUBSET Tenants]

AttachSensorCall ==
    [op : {"AttachSensor"}, device : DeviceIds, sensor : SensorIds,
     allowed : SUBSET Tenants]

DetachSensorCall ==
    [op : {"DetachSensor"}, device : DeviceIds, allowed : SUBSET Tenants]

CreateSensorCall ==
    [op : {"CreateSensor"}, sensor : SensorIds, profile : Profiles \cup {Null}]

UpdateSensorCall ==
    [op : {"UpdateSensor"}, sensor : SensorIds, profile : Profiles]

Call ==
    CreateDeviceCall \cup UpdateDeviceCall \cup MergeDeviceCall \cup
    AttachSensorCall \cup DetachSensorCall \cup CreateSensorCall \cup
    UpdateSensorCall

\* A row of the table devices with its rows of device_sensor_profile_types.
Device ==
    [sensor : SensorIds \cup {Null}, tenant : Tenants,
     types : SUBSET SeededTypes]

ASSUME SeededAreKnown ==
    SeededTypes \subseteq Types /\ SeededProfiles \subseteq Profiles
ASSUME CallsAreCalls == Calls \subseteq Call
ASSUME NullIsNoValue == Null \notin SensorIds \cup Tenants \cup Profiles
ASSUME NoRowIsNoRow == NoRow \notin Device \cup Profiles \cup {Null}

Phases == {"idle", "queryDevice", "getSensor", "getHolder", "write",
           "setTypes", "readSensor", "writeSensor"}

Replies == {"none", "ok", "deviceExists", "deviceNotFound", "sensorExists",
            "sensorNotFound", "profileRequired", "alreadyAssigned",
            "scanError", "error"}

VARIABLES devices,   \* table devices, with the types of each device
          sensors,   \* table sensors: the profile of each sensor
          phase,     \* the storage call a request makes next
          call,      \* the call a request serves
          reply,     \* what the last call of a request was answered
          late       \* types others committed for the device of a request
                     \* that may have been writing its own by then

tables == <<devices, sensors>>
vars == <<devices, sensors, phase, call, reply, late>>
-----------------------------------------------------------------------------
HasDevice(d) == devices[d] # NoRow
HasSensor(s) == sensors[s] # NoRow
HasProfile(s) == sensors[s] \in SeededProfiles

\* The sensor device d carries; Null when it has none or does not exist.
SensorOf(d) == IF HasDevice(d) THEN devices[d].sensor ELSE Null

TypesOf(d) == IF HasDevice(d) THEN devices[d].types ELSE {}

HolderOtherThan(d, s) ==
    \E other \in DeviceIds \ {d} : SensorOf(other) = s

\* The filter AllowedTenants of a query by device id; no tenants, no filter.
Visible(d, allowed) ==
    HasDevice(d) /\ (allowed = {} \/ devices[d].tenant \in allowed)

\* Next storage call, or the end of a call.
Advance(r, p) ==
    /\ phase' = [phase EXCEPT ![r] = p]
    /\ UNCHANGED <<call, reply>>

Answer(r, x) ==
    /\ phase' = [phase EXCEPT ![r] = "idle"]
    /\ reply' = [reply EXCEPT ![r] = x]
    /\ UNCHANGED call

\* A committed write whose acknowledgement may be lost with the connection.
AnswerCommitted(r) == \E x \in {"ok", "error"} : Answer(r, x)

At(r, p, ops) == phase[r] = p /\ call[r].op \in ops
-----------------------------------------------------------------------------
Init ==
    /\ devices = [d \in DeviceIds |-> NoRow]
    /\ sensors = [s \in SensorIds |-> NoRow]
    /\ phase = [r \in Requests |-> "idle"]
    /\ call = [r \in Requests |-> Null]
    /\ reply = [r \in Requests |-> "none"]
    /\ late = [r \in Requests |-> {}]

SensorOps == {"CreateSensor", "UpdateSensor"}

BeginCall(r) ==
    /\ phase[r] = "idle"
    /\ \E c \in Calls :
        /\ call' = [call EXCEPT ![r] = c]
        /\ phase' = [phase EXCEPT ![r] =
                        IF c.op \in SensorOps THEN "readSensor"
                                              ELSE "queryDevice"]
    /\ reply' = [reply EXCEPT ![r] = "none"]
    /\ UNCHANGED <<tables, late>>

\* A create or an update that names a sensor has the sensor checked first.
CheckSensorIfNamed(r) ==
    Advance(r, IF call[r].sensor = Null THEN "write" ELSE "getSensor")

\* MUTANT: devices.Create relies on the upsert and does not look first.
CheckCreateUnchecked(r) ==
    /\ At(r, "queryDevice", {"CreateDevice"})
    /\ CheckSensorIfNamed(r)
    /\ UNCHANGED <<tables, late>>

\* devices.Create: Query by device id, whatever the tenant.
CheckCreate(r) ==
    /\ At(r, "queryDevice", {"CreateDevice"})
    /\ \/ HasDevice(call[r].device) /\ Answer(r, "deviceExists")
       \/ ~HasDevice(call[r].device) /\ CheckSensorIfNamed(r)
    /\ UNCHANGED <<tables, late>>

\* devices.Update: Query by device id, whatever the tenant.
CheckUpdate(r) ==
    /\ At(r, "queryDevice", {"UpdateDevice"})
    /\ \/ ~HasDevice(call[r].device) /\ Answer(r, "deviceNotFound")
       \/ HasDevice(call[r].device) /\ CheckSensorIfNamed(r)
    /\ UNCHANGED <<tables, late>>

\* Merge, AttachSensor and DetachSensor query with the caller's tenants.
CheckVisible(r, op, next) ==
    /\ At(r, "queryDevice", {op})
    /\ \/ /\ ~Visible(call[r].device, call[r].allowed)
          /\ Answer(r, "deviceNotFound")
       \/ /\ Visible(call[r].device, call[r].allowed)
          /\ Advance(r, next)
    /\ UNCHANGED <<tables, late>>

CheckMerge(r) == CheckVisible(r, "MergeDevice", "write")
CheckAttach(r) == CheckVisible(r, "AttachSensor", "getSensor")
CheckDetach(r) == CheckVisible(r, "DetachSensor", "write")
-----------------------------------------------------------------------------
(***************************************************************************)
(* ensureSensorCanBeAssigned, two reads.                                   *)
(***************************************************************************)
\* MUTANT: the sensor only has to exist.
GetSensorAnyProfile(r) ==
    LET s == call[r].sensor IN
    /\ phase[r] = "getSensor"
    /\ \/ ~HasSensor(s) /\ Answer(r, "sensorNotFound")
       \/ HasSensor(s) /\ Advance(r, "getHolder")
    /\ UNCHANGED <<tables, late>>

GetSensor(r) ==
    LET s == call[r].sensor IN
    /\ phase[r] = "getSensor"
    /\ \/ ~HasSensor(s) /\ Answer(r, "sensorNotFound")
       \/ HasSensor(s) /\ ~HasProfile(s) /\ Answer(r, "profileRequired")
       \/ HasProfile(s) /\ Advance(r, "getHolder")
    /\ UNCHANGED <<tables, late>>

\* GetDeviceBySensorID scans the profile of the sensor into a Go string: a
\* NULL profile on an attached sensor is an error, not a result.
GetHolder(r) ==
    LET s == call[r].sensor
        assigned == \E d \in DeviceIds : SensorOf(d) = s
        unreadable == assigned /\ sensors[s] = Null IN
    /\ phase[r] = "getHolder"
    /\ \/ /\ unreadable \/ HolderOtherThan(call[r].device, s)
          /\ Answer(r, IF unreadable THEN "scanError" ELSE "alreadyAssigned")
       \/ /\ ~(unreadable \/ HolderOtherThan(call[r].device, s))
          /\ Advance(r, "write")
    /\ UNCHANGED <<tables, late>>
-----------------------------------------------------------------------------
(***************************************************************************)
(* The writes, one transaction each.                                       *)
(***************************************************************************)
\* MUTANT: the partial unique index is missing.
SensorColumnWithoutIndex(d, s) == s # Null => HasSensor(s)

\* Foreign key fk_devices_sensor and index uq_devices_sensor_not_deleted.
SensorColumnAllowed(d, s) ==
    s # Null => HasSensor(s) /\ ~HolderOtherThan(d, s)

\* Foreign key fk_device_sensor_profile_types_type.
TypesAllowed(ts) == ts \subseteq SeededTypes

(***************************************************************************)
(* A write of types is a DELETE of the rows it sees and one INSERT for     *)
(* each type, DO NOTHING on a row that is there.  Only the upsert holds    *)
(* the row of the device meanwhile, so a SetDeviceProfileTypes overlaps    *)
(* any other write of types.  What the other commits after the DELETE      *)
(* stays beside the types of r; a row it inserts and a third one deletes   *)
(* may be one that r found there and did not insert.                       *)
(***************************************************************************)
WritesTypes(r) ==
    \/ At(r, "write", {"CreateDevice", "UpdateDevice"})
    \/ phase[r] = "setTypes"

Overlap(q, r) ==
    /\ q # r /\ WritesTypes(q)
    /\ call[q].device = call[r].device
    /\ "setTypes" \in {phase[q], phase[r]}

\* What may be the types of device d once r has written new there.
TypesLeft(r, d, new) ==
    {ts \in SUBSET SeededTypes :
        /\ ts \ new \subseteq late[r] \cap TypesOf(d)
        /\ new \ ts \subseteq late[r] \ TypesOf(d)}

\* r has committed the types ts, those of its call and those it came upon.
Committed(r, ts) ==
    late' = [q \in Requests |->
                IF q = r THEN {}
                ELSE IF Overlap(q, r) THEN late[q] \cup ts ELSE late[q]]

RolledBack(r) == late' = [late EXCEPT ![r] = {}]

\* CreateOrUpdateDevice: upsert of the row, tags, types and metadata.  The
\* types of an embedded profile are written afterwards, by devices.Create only.
UpsertDevice(r) ==
    LET c == call[r]
        more == c.op = "CreateDevice" /\ c.profileTypes # {} IN
    /\ At(r, "write", {"CreateDevice", "UpdateDevice"})
    /\ \/ /\ SensorColumnAllowed(c.device, c.sensor)
          /\ TypesAllowed(c.types)
          /\ \E ts \in TypesLeft(r, c.device, c.types) :
              devices' = [devices EXCEPT ![c.device] =
                             [sensor |-> c.sensor, tenant |-> c.tenant,
                              types |-> ts]]
          /\ Committed(r, c.types)
          /\ \/ more /\ (Advance(r, "setTypes") \/ Answer(r, "error"))
             \/ ~more /\ AnswerCommitted(r)
       \/ /\ ~(/\ SensorColumnAllowed(c.device, c.sensor)
               /\ TypesAllowed(c.types))
          /\ Answer(r, "error")
          /\ RolledBack(r)
          /\ UNCHANGED devices
    /\ UNCHANGED sensors

\* Storage.UpdateDevice: only the columns the patch names, in place.  Without
\* any it does not touch the database.
MergeColumns(r) ==
    LET c == call[r] IN
    /\ At(r, "write", {"MergeDevice"})
    /\ devices' = IF c.tenant # Null /\ HasDevice(c.device)
                    THEN [devices EXCEPT ![c.device].tenant = c.tenant]
                    ELSE devices
    /\ \/ c.types # Null /\ (Advance(r, "setTypes") \/ Answer(r, "error"))
       \/ c.types = Null /\ AnswerCommitted(r)
    /\ UNCHANGED <<sensors, late>>

\* SetDeviceProfileTypes replaces the types of the device.  devices.Create
\* does not look at its error; Merge returns it, its columns stay written.
SetDeviceProfileTypes(r) ==
    LET c == call[r]
        new == IF c.op = "CreateDevice" THEN c.profileTypes ELSE c.types IN
    /\ phase[r] = "setTypes"
    /\ \/ /\ TypesAllowed(new) /\ HasDevice(c.device)
          /\ \E ts \in TypesLeft(r, c.device, new) :
              devices' = [devices EXCEPT ![c.device].types = ts]
          /\ Committed(r, new)
          /\ \/ Answer(r, "ok")
             \/ c.op = "MergeDevice" /\ Answer(r, "error")
       \/ /\ ~(TypesAllowed(new) /\ HasDevice(c.device))
          /\ Answer(r, IF c.op = "CreateDevice" THEN "ok" ELSE "error")
          /\ RolledBack(r)
          /\ UNCHANGED devices
    /\ UNCHANGED sensors

\* MUTANT: a unique violation is logged and not returned.
AssignSensorIgnoringConflict(r) ==
    LET d == call[r].device
        s == call[r].sensor IN
    /\ At(r, "write", {"AttachSensor"})
    /\ devices' = IF HasDevice(d) /\ SensorColumnAllowed(d, s)
                    THEN [devices EXCEPT ![d].sensor = s] ELSE devices
    /\ AnswerCommitted(r)
    /\ UNCHANGED <<sensors, late>>

\* MUTANT: the sensor is taken from the device that carries it.
AssignSensorTaking(r) ==
    LET d == call[r].device
        s == call[r].sensor IN
    /\ At(r, "write", {"AttachSensor"})
    /\ devices' = [x \in DeviceIds |->
                      IF x = d THEN [devices[x] EXCEPT !.sensor = s]
                      ELSE IF SensorOf(x) = s
                             THEN [devices[x] EXCEPT !.sensor = Null]
                             ELSE devices[x]]
    /\ AnswerCommitted(r)
    /\ UNCHANGED <<sensors, late>>

\* Storage.AssignSensor, by device id alone, with the SQL states it maps.
AssignSensor(r) ==
    LET d == call[r].device
        s == call[r].sensor IN
    /\ At(r, "write", {"AttachSensor"})
    /\ \/ /\ HasDevice(d) /\ SensorColumnAllowed(d, s)
          /\ devices' = [devices EXCEPT ![d].sensor = s]
          /\ AnswerCommitted(r)
       \/ /\ ~(HasDevice(d) /\ SensorColumnAllowed(d, s))
          /\ Answer(r, CASE ~HasDevice(d) -> "deviceNotFound"
                         [] HasDevice(d) /\ ~HasSensor(s) -> "sensorNotFound"
                         [] OTHER -> "alreadyAssigned")
          /\ UNCHANGED devices
    /\ UNCHANGED <<sensors, late>>

\* Storage.UnassignSensor clears the column, whichever sensor is there by now.
UnassignSensor(r) ==
    LET d == call[r].device IN
    /\ At(r, "write", {"DetachSensor"})
    /\ IF HasDevice(d)
         THEN /\ devices' = [devices EXCEPT ![d].sensor = Null]
              /\ AnswerCommitted(r)
         ELSE Answer(r, "deviceNotFound") /\ UNCHANGED devices
    /\ UNCHANGED <<sensors, late>>
-----------------------------------------------------------------------------
(***************************************************************************)
(* sensors.Create and sensors.Update.                                      *)
(***************************************************************************)
CheckSensorCall(r) ==
    LET c == call[r] IN
    /\ phase[r] = "readSensor"
    /\ \/ c.op = "CreateSensor" /\ HasSensor(c.sensor)
            /\ Answer(r, "sensorExists")
       \/ c.op = "UpdateSensor" /\ ~HasSensor(c.sensor)
            /\ Answer(r, "sensorNotFound")
       \/ (c.op = "CreateSensor") # HasSensor(c.sensor)
            /\ Advance(r, "writeSensor")
    /\ UNCHANGED <<tables, late>>

\* MUTANT: the profile of a sensor is free text.
ProfileColumnFree(p) == TRUE

\* Foreign key fk_sensors_sensor_profile.
ProfileColumnAllowed(p) == p \in SeededProfiles \cup {Null}

\* MUTANT: ON CONFLICT DO UPDATE, as in CreateOrUpdateDevice.
InsertOrUpdateSensor(r) ==
    LET c == call[r] IN
    /\ At(r, "writeSensor", {"CreateSensor"})
    /\ IF ProfileColumnAllowed(c.profile)
         THEN /\ sensors' = [sensors EXCEPT ![c.sensor] = c.profile]
              /\ AnswerCommitted(r)
         ELSE Answer(r, "error") /\ UNCHANGED sensors
    /\ UNCHANGED <<devices, late>>

\* INSERT ... ON CONFLICT DO NOTHING; no affected row means it exists.
InsertSensor(r) ==
    LET c == call[r] IN
    /\ At(r, "writeSensor", {"CreateSensor"})
    /\ \/ /\ ~HasSensor(c.sensor) /\ ProfileColumnAllowed(c.profile)
          /\ sensors' = [sensors EXCEPT ![c.sensor] = c.profile]
          /\ AnswerCommitted(r)
       \/ /\ HasSensor(c.sensor) \/ ~ProfileColumnAllowed(c.profile)
          /\ Answer(r, IF HasSensor(c.sensor) THEN "sensorExists" ELSE "error")
          /\ UNCHANGED sensors
    /\ UNCHANGED <<devices, late>>

\* MUTANT: an update without a profile stores NULL.
UpdateSensorDroppingProfile(r) ==
    LET c == call[r] IN
    /\ At(r, "writeSensor", {"UpdateSensor"})
    /\ sensors' = [sensors EXCEPT ![c.sensor] =
                      IF HasSensor(c.sensor) THEN Null ELSE NoRow]
    /\ AnswerCommitted(r)
    /\ UNCHANGED <<devices, late>>

\* The update handler has resolved the profile; seeding passes a validated one.
UpdateSensor(r) ==
    LET c == call[r] IN
    /\ At(r, "writeSensor", {"UpdateSensor"})
    /\ \/ /\ HasSensor(c.sensor) /\ ProfileColumnAllowed(c.profile)
          /\ sensors' = [sensors EXCEPT ![c.sensor] = c.profile]
          /\ AnswerCommitted(r)
       \/ /\ ~HasSensor(c.sensor) \/ ~ProfileColumnAllowed(c.profile)
          /\ Answer(r, IF HasSensor(c.sensor) THEN "error" ELSE "sensorNotFound")
          /\ UNCHANGED sensors
    /\ UNCHANGED <<devices, late>>

\* A storage call fails before it has any effect: no connection from the pool,
\* a cancelled context, a rolled back transaction.
StorageFails(r) ==
    /\ phase[r] # "idle"
    /\ Answer(r, IF At(r, "setTypes", {"CreateDevice"}) THEN "ok" ELSE "error")
    /\ RolledBack(r)
    /\ UNCHANGED tables
-----------------------------------------------------------------------------
Step(r) ==
    \/ CheckCreate(r) \/ CheckUpdate(r) \/ CheckMerge(r)
    \/ CheckAttach(r) \/ CheckDetach(r)
    \/ GetSensor(r) \/ GetHolder(r)
    \/ UpsertDevice(r) \/ MergeColumns(r) \/ SetDeviceProfileTypes(r)
    \/ AssignSensor(r) \/ UnassignSensor(r)
    \/ CheckSensorCall(r) \/ InsertSensor(r) \/ UpdateSensor(r)
    \/ StorageFails(r)

Next == \E r \in Requests : BeginCall(r) \/ Step(r)

Spec == Init /\ [][Next]_vars
-----------------------------------------------------------------------------
(***************************************************************************)
(* Properties.                                                             *)
(***************************************************************************)
\* The calls that put a sensor on a device.
SensorCalls == {"CreateDevice", "UpdateDevice", "AttachSensor"}

\* Every row and every request is well formed; what the foreign keys promise is
\* part of it: a sensor only has a seeded profile, a device only seeded types.
\* A request is only in phases its call goes through.
TypeOK ==
    /\ devices \in [DeviceIds -> Device \cup {NoRow}]
    /\ sensors \in [SensorIds -> SeededProfiles \cup {Null, NoRow}]
    /\ phase \in [Requests -> Phases]
    /\ call \in [Requests -> Calls \cup {Null}]
    /\ reply \in [Requests -> Replies]
    /\ late \in [Requests -> SUBSET SeededTypes]
    /\ \A r \in Requests :
        /\ phase[r] # "idle" => call[r] \in Calls
        /\ phase[r] \in {"getSensor", "getHolder"} =>
             call[r].op \in SensorCalls /\ call[r].sensor # Null
        /\ phase[r] = "setTypes" =>
             call[r].op \in {"CreateDevice", "MergeDevice"}

\* A sensor reports for at most one device, however many creates, updates and
\* attaches compete for it: GetDeviceBySensorID relies on a single row.
SensorAssignedAtMostOnce ==
    \A d1, d2 \in DeviceIds :
        SensorOf(d1) # Null /\ SensorOf(d1) = SensorOf(d2) => d1 = d2

\* A sensor that a device carries exists and has a profile, although the
\* profile is checked long before the device row is written.
AttachedSensorHasProfile ==
    \A d \in DeviceIds : SensorOf(d) # Null => HasProfile(SensorOf(d))

\* r has passed GetSensor and is about to put the sensor on a device.
PastSensorCheck(r) ==
    /\ phase[r] \in {"getHolder", "write"}
    /\ call[r].op \in SensorCalls
    /\ call[r].sensor # Null

\* What GetSensor read cannot go stale: until the write is made the sensor
\* keeps existing and keeps having a profile, whatever other calls do.
CheckedSensorKeepsProfile ==
    \A r \in Requests : PastSensorCheck(r) => HasProfile(call[r].sensor)

\* GetDeviceBySensorID never meets an attached sensor with a NULL profile,
\* which its Scan cannot read and which would fail every later call for it.
LookupNeverFails == \A r \in Requests : reply[r] # "scanError"

\* Of any number of POST /sensors for one id at most one is told it created
\* the sensor: the losers of the race get ErrSensorAlreadyExists.
SensorCreatedOnce ==
    \A r1, r2 \in Requests :
        /\ reply[r1] = "ok" /\ call[r1].op = "CreateSensor"
        /\ reply[r2] = "ok" /\ call[r2].op = "CreateSensor"
        /\ call[r1].sensor = call[r2].sensor
        => r1 = r2

\* No write takes a sensor from another device: a device obtains a sensor only
\* when, right before, no other device carried it.
NoSensorStolen ==
    [][\A d1, d2 \in DeviceIds :
          d1 # d2 /\ SensorOf(d1) # Null => SensorOf(d2)' # SensorOf(d1)]_vars

\* A caller who is told that an attach, a detach or an update succeeded finds,
\* at that moment, the device carrying what was asked for.
AcknowledgedAssignmentHolds ==
    [][\A r \in Requests :
          LET c == call[r] IN
          phase[r] # "idle" /\ reply'[r] = "ok" =>
            /\ c.op \in {"AttachSensor", "UpdateDevice"} =>
                 SensorOf(c.device)' = c.sensor
            /\ c.op = "DetachSensor" => SensorOf(c.device)' = Null]_vars

\* The registry implements the abstract assignment of sensors to devices.
Assignment == INSTANCE SensorAssignment WITH
    sensorOf <- [d \in DeviceIds |-> SensorOf(d)],
    usable <- {s \in SensorIds : HasProfile(s)}

\* Every storage step of every call is an Assign, a Release, a MakeUsable or
\* invisible at that level: checks and retries add nothing and lose nothing.
ImplementsAssignment == Assignment!Spec
=============================================================================
