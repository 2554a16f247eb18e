------------------------ MODULE DeviceRegistryProofs ------------------------
(***************************************************************************)
(* Proofs about DeviceRegistry for any number of requests, devices,        *)
(* sensors and tenants and any set of calls.                               *)
(*                                                                         *)
(* The argument: whatever the interleaving, a step either leaves the       *)
(* tables alone, or writes one device row whose sensor, if it is new       *)
(* there, is carried by no other device and has a profile (DeviceWrite),   *)
(* or writes one sensor row without removing a profile (SensorWrite).      *)
(* Everything else follows from this one fact about steps.                 *)
(***************************************************************************)
EXTENDS DeviceRegistry, TLAPS

\* The inductive invariant.  CheckedSensorKeepsProfile is the strengthening:
\* without it the write of a checked sensor could not be shown to respect
\* AttachedSensorHasProfile, since the write does not look at the profile.
IInv ==
    /\ TypeOK
    /\ SensorAssignedAtMostOnce
    /\ AttachedSensorHasProfile
    /\ CheckedSensorKeepsProfile

\* One device row is written.
DeviceWrite(d, row) ==
    /\ devices' = [devices EXCEPT ![d] = row]
    /\ sensors' = sensors
    /\ row.sensor = Null \/ row.sensor = SensorOf(d)
       \/ (HasProfile(row.sensor) /\ ~HolderOtherThan(d, row.sensor))

\* One sensor row is written, with p in the profile column.
SensorWrite(s, p) ==
    /\ sensors' = [sensors EXCEPT ![s] = p]
    /\ devices' = devices
    /\ HasProfile(s) => p \in SeededProfiles

TableStep ==
    \/ UNCHANGED tables
    \/ \E d \in DeviceIds, row \in Device : DeviceWrite(d, row)
    \/ \E s \in SensorIds, p \in SeededProfiles \cup {Null} : SensorWrite(s, p)

-----------------------------------------------------------------------------
\* The fields of a call are those of its operation.
LEMMA CallFields ==
    ASSUME NEW c \in Calls
    PROVE  /\ c.op \in {"CreateDevice", "UpdateDevice"} =>
                /\ c.device \in DeviceIds /\ c.tenant \in Tenants
                /\ c.sensor \in SensorIds \cup {Null}
           /\ c.op = "MergeDevice" =>
                c.device \in DeviceIds /\ c.tenant \in Tenants \cup {Null}
           /\ c.op = "AttachSensor" =>
                c.device \in DeviceIds /\ c.sensor \in SensorIds
           /\ c.op = "DetachSensor" => c.device \in DeviceIds
           /\ c.op = "CreateSensor" =>
                c.sensor \in SensorIds /\ c.profile \in Profiles \cup {Null}
           /\ c.op = "UpdateSensor" =>
                c.sensor \in SensorIds /\ c.profile \in Profiles
<1>1. c \in Call
  BY CallsAreCalls
<1>2. CASE c \in CreateDeviceCall
  BY <1>2 DEF CreateDeviceCall
<1>3. CASE c \in UpdateDeviceCall
  BY <1>3 DEF UpdateDeviceCall
<1>4. CASE c \in MergeDeviceCall
  BY <1>4 DEF MergeDeviceCall
<1>5. CASE c \in AttachSensorCall
  BY <1>5 DEF AttachSensorCall
<1>6. CASE c \in DetachSensorCall
  BY <1>6 DEF DetachSensorCall
<1>7. CASE c \in CreateSensorCall
  BY <1>7 DEF CreateSensorCall
<1>8. CASE c \in UpdateSensorCall
  BY <1>8 DEF UpdateSensorCall
<1> QED
  BY <1>1, <1>2, <1>3, <1>4, <1>5, <1>6, <1>7, <1>8 DEF Call

\* The sensor a device carries is a sensor or Null, and Null is not one.
LEMMA SensorOfType ==
    ASSUME TypeOK, NEW d \in DeviceIds
    PROVE  SensorOf(d) \in SensorIds \cup {Null}
  BY DEF TypeOK, Device, SensorOf, HasDevice

-----------------------------------------------------------------------------
\* Each storage write is a DeviceWrite or a SensorWrite.
LEMMA UpsertIsTableStep ==
    ASSUME IInv, NEW r \in Requests, UpsertDevice(r)
    PROVE  TableStep
<1> DEFINE c == call[r]
           row(ts) == [sensor |-> c.sensor, tenant |-> c.tenant, types |-> ts]
<1>1. c \in Calls /\ c.op \in {"CreateDevice", "UpdateDevice"}
  BY DEF UpsertDevice, At, IInv, TypeOK
<1>2. /\ c.device \in DeviceIds /\ c.tenant \in Tenants
      /\ c.sensor \in SensorIds \cup {Null}
  BY <1>1, CallFields
<1>3. CASE UNCHANGED devices
  BY <1>3 DEF UpsertDevice, TableStep, tables
<1>4. CASE /\ SensorColumnAllowed(c.device, c.sensor)
           /\ \E ts \in TypesLeft(r, c.device, c.types) :
                devices' = [devices EXCEPT ![c.device] = row(ts)]
  <2> PICK ts \in TypesLeft(r, c.device, c.types) :
        devices' = [devices EXCEPT ![c.device] = row(ts)]
    BY <1>4
  <2>1. row(ts) \in Device
    BY <1>2 DEF Device, TypesLeft
  <2>2. c.sensor # Null => HasProfile(c.sensor)
    BY <1>1 DEF IInv, CheckedSensorKeepsProfile, PastSensorCheck, At,
                UpsertDevice, SensorCalls
  <2>3. DeviceWrite(c.device, row(ts))
    BY <1>4, <2>2 DEF DeviceWrite, SensorColumnAllowed, UpsertDevice
  <2> QED
    BY <1>2, <2>1, <2>3 DEF TableStep
<1> QED
  BY <1>3, <1>4 DEF UpsertDevice

LEMMA MergeIsTableStep ==
    ASSUME IInv, NEW r \in Requests, MergeColumns(r)
    PROVE  TableStep
<1> DEFINE c == call[r]
           row == [devices[c.device] EXCEPT !.tenant = c.tenant]
<1>1. c \in Calls /\ c.op = "MergeDevice"
  BY DEF MergeColumns, At, IInv, TypeOK
<1>2. c.device \in DeviceIds /\ c.tenant \in Tenants \cup {Null}
  BY <1>1, CallFields
<1>3. CASE devices' = devices
  BY <1>3 DEF MergeColumns, TableStep, tables
<1>4. CASE /\ c.tenant # Null /\ HasDevice(c.device)
           /\ devices' = [devices EXCEPT ![c.device].tenant = c.tenant]
  <2>1. devices[c.device] \in Device
    BY <1>2, <1>4 DEF IInv, TypeOK, HasDevice
  <2>2. row \in Device /\ row.sensor = SensorOf(c.device)
    BY <1>2, <1>4, <2>1 DEF Device, SensorOf
  <2>3. DeviceWrite(c.device, row)
    BY <1>4, <2>2 DEF DeviceWrite, MergeColumns
  <2> QED
    BY <1>2, <2>2, <2>3 DEF TableStep
<1> QED
  BY <1>3, <1>4 DEF MergeColumns

LEMMA TypesIsTableStep ==
    ASSUME IInv, NEW r \in Requests, SetDeviceProfileTypes(r)
    PROVE  TableStep
<1> DEFINE c == call[r]
           new == IF c.op = "CreateDevice" THEN c.profileTypes ELSE c.types
           row(ts) == [devices[c.device] EXCEPT !.types = ts]
<1>1. CASE devices' = devices
  BY <1>1 DEF SetDeviceProfileTypes, TableStep, tables
<1>2. CASE /\ HasDevice(c.device)
           /\ \E ts \in TypesLeft(r, c.device, new) :
                devices' = [devices EXCEPT ![c.device].types = ts]
  <2> PICK ts \in TypesLeft(r, c.device, new) :
        devices' = [devices EXCEPT ![c.device].types = ts]
    BY <1>2
  <2>1. CASE c.device \notin DeviceIds
    BY <2>1 DEF IInv, TypeOK, SetDeviceProfileTypes, TableStep, tables
  <2>2. CASE c.device \in DeviceIds
    <3>1. devices[c.device] \in Device
      BY <1>2, <2>2 DEF IInv, TypeOK, HasDevice
    <3>2. ts \in SUBSET SeededTypes
      BY DEF TypesLeft
    <3>3. row(ts) \in Device /\ row(ts).sensor = SensorOf(c.device)
      BY <1>2, <3>1, <3>2 DEF Device, SensorOf
    <3>4. DeviceWrite(c.device, row(ts))
      BY <3>3 DEF DeviceWrite, SetDeviceProfileTypes
    <3> QED
      BY <2>2, <3>3, <3>4 DEF TableStep
  <2> QED
    BY <2>1, <2>2
<1> QED
  BY <1>1, <1>2 DEF SetDeviceProfileTypes

LEMMA AssignIsTableStep ==
    ASSUME IInv, NEW r \in Requests, AssignSensor(r)
    PROVE  TableStep
<1> DEFINE d == call[r].device
           s == call[r].sensor
           row == [devices[d] EXCEPT !.sensor = s]
<1>1. call[r] \in Calls /\ call[r].op = "AttachSensor"
  BY DEF AssignSensor, At, IInv, TypeOK
<1>2. d \in DeviceIds /\ s \in SensorIds
  BY <1>1, CallFields
<1>3. CASE devices' = devices
  BY <1>3 DEF AssignSensor, TableStep, tables
<1>4. CASE /\ HasDevice(d) /\ SensorColumnAllowed(d, s)
           /\ devices' = [devices EXCEPT ![d].sensor = s]
  <2>1. devices[d] \in Device
    BY <1>2, <1>4 DEF IInv, TypeOK, HasDevice
  <2>2. row \in Device /\ row.sensor = s
    BY <1>2, <2>1 DEF Device
  <2>3. s # Null
    BY <1>2, NullIsNoValue
  <2>4. HasProfile(s)
    BY <1>1, <2>3 DEF IInv, CheckedSensorKeepsProfile, PastSensorCheck, At,
                      AssignSensor, SensorCalls
  <2>5. DeviceWrite(d, row)
    BY <1>4, <2>2, <2>3, <2>4 DEF DeviceWrite, SensorColumnAllowed,
                                  AssignSensor
  <2> QED
    BY <1>2, <2>2, <2>5 DEF TableStep
<1> QED
  BY <1>3, <1>4 DEF AssignSensor

LEMMA UnassignIsTableStep ==
    ASSUME IInv, NEW r \in Requests, UnassignSensor(r)
    PROVE  TableStep
<1> DEFINE d == call[r].device
           row == [devices[d] EXCEPT !.sensor = Null]
<1>1. call[r] \in Calls /\ call[r].op = "DetachSensor"
  BY DEF UnassignSensor, At, IInv, TypeOK
<1>2. d \in DeviceIds
  BY <1>1, CallFields
<1>3. CASE devices' = devices
  BY <1>3 DEF UnassignSensor, TableStep, tables
<1>4. CASE HasDevice(d) /\ devices' = [devices EXCEPT ![d].sensor = Null]
  <2>1. devices[d] \in Device
    BY <1>2, <1>4 DEF IInv, TypeOK, HasDevice
  <2>2. row \in Device /\ row.sensor = Null
    BY <2>1 DEF Device
  <2>3. DeviceWrite(d, row)
    BY <1>4, <2>2 DEF DeviceWrite, UnassignSensor
  <2> QED
    BY <1>2, <2>2, <2>3 DEF TableStep
<1> QED
  BY <1>3, <1>4 DEF UnassignSensor

LEMMA InsertIsTableStep ==
    ASSUME IInv, NEW r \in Requests, InsertSensor(r)
    PROVE  TableStep
<1> DEFINE c == call[r]
<1>1. c \in Calls /\ c.op = "CreateSensor"
  BY DEF InsertSensor, At, IInv, TypeOK
<1>2. c.sensor \in SensorIds
  BY <1>1, CallFields
<1>3. CASE sensors' = sensors
  BY <1>3 DEF InsertSensor, TableStep, tables
<1>4. CASE /\ ~HasSensor(c.sensor) /\ ProfileColumnAllowed(c.profile)
           /\ sensors' = [sensors EXCEPT ![c.sensor] = c.profile]
  <2>1. ~HasProfile(c.sensor)
    BY <1>4, NoRowIsNoRow, SeededAreKnown DEF HasSensor, HasProfile
  <2>2. SensorWrite(c.sensor, c.profile)
    BY <1>4, <2>1 DEF SensorWrite, InsertSensor
  <2> QED
    BY <1>2, <1>4, <2>2 DEF TableStep, ProfileColumnAllowed
<1> QED
  BY <1>3, <1>4 DEF InsertSensor

LEMMA UpdateSensorIsTableStep ==
    ASSUME IInv, NEW r \in Requests, UpdateSensor(r)
    PROVE  TableStep
<1> DEFINE c == call[r]
<1>1. c \in Calls /\ c.op = "UpdateSensor"
  BY DEF UpdateSensor, At, IInv, TypeOK
<1>2. c.sensor \in SensorIds /\ c.profile \in Profiles
  BY <1>1, CallFields
<1>3. CASE sensors' = sensors
  BY <1>3 DEF UpdateSensor, TableStep, tables
<1>4. CASE /\ HasSensor(c.sensor) /\ ProfileColumnAllowed(c.profile)
           /\ sensors' = [sensors EXCEPT ![c.sensor] = c.profile]
  <2>1. c.profile \in SeededProfiles
    BY <1>2, <1>4, NullIsNoValue DEF ProfileColumnAllowed
  <2>2. SensorWrite(c.sensor, c.profile)
    BY <1>4, <2>1 DEF SensorWrite, UpdateSensor
  <2> QED
    BY <1>2, <2>1, <2>2 DEF TableStep
<1> QED
  BY <1>3, <1>4 DEF UpdateSensor

\* Every step of the system is a TableStep: the checks and the failing storage
\* calls leave the tables alone, the writes are covered by the lemmas above.
LEMMA EveryStepIsTableStep ==
    ASSUME IInv, [Next]_vars
    PROVE  TableStep
<1>1. CASE UNCHANGED vars
  BY <1>1 DEF vars, TableStep, tables
<1>2. ASSUME NEW r \in Requests, BeginCall(r)
      PROVE  TableStep
  BY <1>2 DEF BeginCall, TableStep
<1>3. ASSUME NEW r \in Requests, Step(r)
      PROVE  TableStep
  <2>1. CASE \/ CheckCreate(r) \/ CheckUpdate(r) \/ CheckMerge(r)
             \/ CheckAttach(r) \/ CheckDetach(r)
    BY <2>1 DEF CheckCreate, CheckUpdate, CheckMerge, CheckAttach,
                CheckDetach, CheckVisible, TableStep
  <2>2. CASE GetSensor(r) \/ GetHolder(r) \/ CheckSensorCall(r)
    BY <2>2 DEF GetSensor, GetHolder, CheckSensorCall, TableStep
  <2>3. CASE UpsertDevice(r)
    BY <2>3, UpsertIsTableStep
  <2>4. CASE MergeColumns(r)
    BY <2>4, MergeIsTableStep
  <2>5. CASE SetDeviceProfileTypes(r)
    BY <2>5, TypesIsTableStep
  <2>6. CASE AssignSensor(r)
    BY <2>6, AssignIsTableStep
  <2>7. CASE UnassignSensor(r)
    BY <2>7, UnassignIsTableStep
  <2>8. CASE InsertSensor(r)
    BY <2>8, InsertIsTableStep
  <2>9. CASE UpdateSensor(r)
    BY <2>9, UpdateSensorIsTableStep
  <2>10. CASE StorageFails(r)
    BY <2>10 DEF StorageFails, TableStep
  <2> QED
    BY <1>3, <2>1, <2>2, <2>3, <2>4, <2>5, <2>6, <2>7, <2>8, <2>9, <2>10
    DEF Step
<1> QED
  BY <1>1, <1>2, <1>3 DEF Next
-----------------------------------------------------------------------------
(***************************************************************************)
(* What a TableStep preserves.                                             *)
(***************************************************************************)
\* A profile, once there, stays.
LEMMA ProfilesStay ==
    ASSUME TypeOK, TableStep, NEW s \in SensorIds, HasProfile(s)
    PROVE  HasProfile(s)'
  BY DEF TypeOK, TableStep, DeviceWrite, SensorWrite, HasProfile, tables

\* What a device carries after its row is written, and that others keep theirs.
LEMMA SensorAfterWrite ==
    ASSUME TypeOK, NEW d \in DeviceIds, NEW row \in Device,
           DeviceWrite(d, row), NEW x \in DeviceIds
    PROVE  SensorOf(x)' = IF x = d THEN row.sensor ELSE SensorOf(x)
  BY NoRowIsNoRow DEF TypeOK, DeviceWrite, SensorOf, HasDevice

\* What devices carry does not depend on the table sensors.
LEMMA SensorsUnchanged ==
    ASSUME devices' = devices, NEW x
    PROVE  SensorOf(x)' = SensorOf(x)
  BY DEF SensorOf, HasDevice

LEMMA UniquePreserved ==
    ASSUME TypeOK, SensorAssignedAtMostOnce, TableStep
    PROVE  SensorAssignedAtMostOnce'
<1>1. CASE devices' = devices
  BY <1>1, SensorsUnchanged DEF SensorAssignedAtMostOnce
<1>2. ASSUME NEW d \in DeviceIds, NEW row \in Device, DeviceWrite(d, row)
      PROVE  SensorAssignedAtMostOnce'
  <2> SUFFICES ASSUME NEW d1 \in DeviceIds, NEW d2 \in DeviceIds,
                      SensorOf(d1)' # Null, SensorOf(d1)' = SensorOf(d2)',
                      d1 # d2
               PROVE  FALSE
    BY DEF SensorAssignedAtMostOnce
  <2>1. /\ SensorOf(d1)' = IF d1 = d THEN row.sensor ELSE SensorOf(d1)
        /\ SensorOf(d2)' = IF d2 = d THEN row.sensor ELSE SensorOf(d2)
    BY <1>2, SensorAfterWrite
  <2>2. CASE row.sensor = Null \/ row.sensor = SensorOf(d)
    BY <2>1, <2>2 DEF SensorAssignedAtMostOnce
  <2>3. CASE ~HolderOtherThan(d, row.sensor)
    BY <2>1, <2>3 DEF SensorAssignedAtMostOnce, HolderOtherThan
  <2> QED
    BY <1>2, <2>2, <2>3 DEF DeviceWrite
<1> QED
  BY <1>1, <1>2 DEF TableStep, tables, SensorWrite

LEMMA AttachedPreserved ==
    ASSUME TypeOK, AttachedSensorHasProfile, TableStep
    PROVE  AttachedSensorHasProfile'
<1> SUFFICES ASSUME NEW d \in DeviceIds, SensorOf(d)' # Null
             PROVE  (HasProfile(SensorOf(d)))'
  BY DEF AttachedSensorHasProfile
<1>1. CASE devices' = devices
  <2>1. SensorOf(d)' = SensorOf(d) /\ HasProfile(SensorOf(d))
    BY <1>1, SensorsUnchanged DEF AttachedSensorHasProfile
  <2>2. SensorOf(d) \in SensorIds
    BY <2>1, SensorOfType
  <2> QED
    BY <2>1, <2>2, ProfilesStay DEF HasProfile
<1>2. ASSUME NEW x \in DeviceIds, NEW row \in Device, DeviceWrite(x, row)
      PROVE  (HasProfile(SensorOf(d)))'
  <2>1. SensorOf(d)' = IF d = x THEN row.sensor ELSE SensorOf(d)
    BY <1>2, SensorAfterWrite
  <2>2. HasProfile(SensorOf(d)')
    BY <1>2, <2>1 DEF AttachedSensorHasProfile, DeviceWrite
  <2> QED
    BY <1>2, <2>2 DEF HasProfile, DeviceWrite
<1> QED
  BY <1>1, <1>2 DEF TableStep, tables, SensorWrite
-----------------------------------------------------------------------------
(***************************************************************************)
(* The requests.                                                           *)
(***************************************************************************)
\* A step of a request moves it to another phase or answers it, and touches no
\* other request.
LEMMA StepMovesRequest ==
    ASSUME NEW r \in Requests, Step(r)
    PROVE  \/ \E p \in Phases : Advance(r, p)
           \/ \E x \in Replies : Answer(r, x)
<1> USE DEF Phases, Replies
<1>1. CASE CheckCreate(r) \/ CheckUpdate(r)
  BY <1>1 DEF CheckCreate, CheckUpdate, CheckSensorIfNamed
<1>2. CASE CheckMerge(r) \/ CheckAttach(r) \/ CheckDetach(r)
  BY <1>2 DEF CheckMerge, CheckAttach, CheckDetach, CheckVisible
<1>3. CASE GetSensor(r) \/ GetHolder(r) \/ CheckSensorCall(r)
  BY <1>3 DEF GetSensor, GetHolder, CheckSensorCall
<1>4. CASE UpsertDevice(r)
  BY <1>4 DEF UpsertDevice, AnswerCommitted
<1>5. CASE MergeColumns(r)
  BY <1>5 DEF MergeColumns, AnswerCommitted
<1>6. CASE SetDeviceProfileTypes(r)
  BY <1>6 DEF SetDeviceProfileTypes
<1>7. CASE AssignSensor(r) \/ UnassignSensor(r)
  BY <1>7 DEF AssignSensor, UnassignSensor, AnswerCommitted
<1>8. CASE InsertSensor(r) \/ UpdateSensor(r)
  BY <1>8 DEF InsertSensor, UpdateSensor, AnswerCommitted
<1>9. CASE StorageFails(r)
  BY <1>9 DEF StorageFails
<1> QED
  BY <1>1, <1>2, <1>3, <1>4, <1>5, <1>6, <1>7, <1>8, <1>9 DEF Step

\* Which phases a step can move a request to, and what it has seen then.
LEMMA AdvanceTo ==
    ASSUME TypeOK, NEW r \in Requests, Step(r), phase'[r] # "idle"
    PROVE  /\ phase[r] # "idle"
           /\ phase'[r] \in {"getSensor", "getHolder"} =>
                call[r].op \in SensorCalls /\ call[r].sensor # Null
           /\ phase'[r] = "setTypes" =>
                call[r].op \in {"CreateDevice", "MergeDevice"}
           /\ phase'[r] = "getHolder" => HasProfile(call[r].sensor)
           /\ phase'[r] = "write" /\ call[r].op \in SensorCalls =>
                phase[r] = "getHolder" \/ call[r].sensor = Null
           /\ UNCHANGED tables \/ phase'[r] = "setTypes"
<1> USE DEF SensorCalls, Phases, TypeOK, At, Advance, Answer
<1>0. r \in DOMAIN phase
  OBVIOUS
<1>1. CASE CheckCreate(r) \/ CheckUpdate(r)
  <2>1. call[r] \in Calls
    BY <1>1 DEF CheckCreate, CheckUpdate
  <2> QED
    BY <1>1, <2>1 DEF CheckCreate, CheckUpdate, CheckSensorIfNamed
<1>2. CASE CheckMerge(r) \/ CheckAttach(r) \/ CheckDetach(r)
  <2>1. call[r] \in Calls
    BY <1>2 DEF CheckMerge, CheckAttach, CheckDetach, CheckVisible
  <2>2. call[r].op = "AttachSensor" => call[r].sensor # Null
    BY <2>1, CallFields, NullIsNoValue
  <2> QED
    BY <1>2, <2>2 DEF CheckMerge, CheckAttach, CheckDetach, CheckVisible
<1>3. CASE GetSensor(r)
  BY <1>3 DEF GetSensor
<1>4. CASE GetHolder(r)
  BY <1>4 DEF GetHolder
<1>5. CASE CheckSensorCall(r)
  BY <1>5 DEF CheckSensorCall
<1>6. CASE UpsertDevice(r)
  BY <1>6 DEF UpsertDevice, AnswerCommitted
<1>7. CASE MergeColumns(r)
  BY <1>7 DEF MergeColumns, AnswerCommitted
<1>8. CASE SetDeviceProfileTypes(r) \/ StorageFails(r)
  BY <1>8 DEF SetDeviceProfileTypes, StorageFails
<1>9. CASE AssignSensor(r) \/ UnassignSensor(r)
  BY <1>9 DEF AssignSensor, UnassignSensor, AnswerCommitted
<1>10. CASE InsertSensor(r) \/ UpdateSensor(r)
  BY <1>10 DEF InsertSensor, UpdateSensor, AnswerCommitted
<1> QED
  BY <1>1, <1>2, <1>3, <1>4, <1>5, <1>6, <1>7, <1>8, <1>9, <1>10 DEF Step

\* A request that is not idle serves a call, and is in a phase of that call.
LEMMA RequestsPreserved ==
    ASSUME TypeOK, [Next]_vars
    PROVE  /\ phase' \in [Requests -> Phases]
           /\ call' \in [Requests -> Calls \cup {Null}]
           /\ reply' \in [Requests -> Replies]
           /\ \A q \in Requests :
                /\ phase'[q] # "idle" => call'[q] \in Calls
                /\ phase'[q] \in {"getSensor", "getHolder"} =>
                     call'[q].op \in SensorCalls /\ call'[q].sensor # Null
                /\ phase'[q] = "setTypes" =>
                     call'[q].op \in {"CreateDevice", "MergeDevice"}
<1>1. CASE UNCHANGED vars
  BY <1>1 DEF vars, TypeOK
<1>2. ASSUME NEW r \in Requests, BeginCall(r)
      PROVE  /\ phase' \in [Requests -> Phases]
             /\ call' \in [Requests -> Calls \cup {Null}]
             /\ reply' \in [Requests -> Replies]
             /\ phase'[r] \in {"readSensor", "queryDevice"}
             /\ call'[r] \in Calls
             /\ \A q \in Requests \ {r} :
                  phase'[q] = phase[q] /\ call'[q] = call[q]
  BY <1>2 DEF BeginCall, TypeOK, Phases, Replies
<1>3. ASSUME NEW r \in Requests, Step(r)
      PROVE  /\ phase' \in [Requests -> Phases]
             /\ reply' \in [Requests -> Replies]
             /\ call' = call
             /\ \A q \in Requests \ {r} : phase'[q] = phase[q]
  <2>1. ASSUME NEW p \in Phases, Advance(r, p)
        PROVE  /\ phase' = [phase EXCEPT ![r] = p]
               /\ reply' = reply /\ call' = call
    BY <2>1 DEF Advance
  <2>2. ASSUME NEW x \in Replies, Answer(r, x)
        PROVE  /\ phase' = [phase EXCEPT ![r] = "idle"]
               /\ reply' = [reply EXCEPT ![r] = x] /\ call' = call
    BY <2>2 DEF Answer
  <2> QED
    BY <1>3, <2>1, <2>2, StepMovesRequest DEF TypeOK, Phases
<1>4. ASSUME NEW r \in Requests, Step(r)
      PROVE  /\ phase'[r] # "idle" => call[r] \in Calls
             /\ phase'[r] \in {"getSensor", "getHolder"} =>
                  call[r].op \in SensorCalls /\ call[r].sensor # Null
             /\ phase'[r] = "setTypes" =>
                  call[r].op \in {"CreateDevice", "MergeDevice"}
  BY <1>4, AdvanceTo DEF TypeOK
<1>5. CASE \E r \in Requests : BeginCall(r)
  BY <1>2, <1>5 DEF TypeOK
<1>6. CASE \E r \in Requests : Step(r)
  BY <1>3, <1>4, <1>6 DEF TypeOK
<1> QED
  BY <1>1, <1>5, <1>6 DEF Next

\* What a request may come upon are seeded types, for only those are written.
LEMMA LatePreserved ==
    ASSUME TypeOK, [Next]_vars
    PROVE  late' \in [Requests -> SUBSET SeededTypes]
<1> USE DEF TypeOK
<1>1. CASE UNCHANGED late
  BY <1>1
<1>2. ASSUME NEW r \in Requests, RolledBack(r)
      PROVE  late' \in [Requests -> SUBSET SeededTypes]
  BY <1>2 DEF RolledBack
<1>3. ASSUME NEW r \in Requests, NEW ts, TypesAllowed(ts), Committed(r, ts)
      PROVE  late' \in [Requests -> SUBSET SeededTypes]
  BY <1>3 DEF Committed, TypesAllowed
<1>4. ASSUME NEW r \in Requests, Step(r)
      PROVE  late' \in [Requests -> SUBSET SeededTypes]
  <2>1. CASE \/ CheckCreate(r) \/ CheckUpdate(r) \/ CheckMerge(r)
             \/ CheckAttach(r) \/ CheckDetach(r)
    BY <1>1, <2>1 DEF CheckCreate, CheckUpdate, CheckMerge, CheckAttach,
                      CheckDetach, CheckVisible
  <2>2. CASE GetSensor(r) \/ GetHolder(r) \/ CheckSensorCall(r)
    BY <1>1, <2>2 DEF GetSensor, GetHolder, CheckSensorCall
  <2>3. CASE UpsertDevice(r)
    BY <1>2, <1>3, <2>3 DEF UpsertDevice
  <2>4. CASE SetDeviceProfileTypes(r)
    BY <1>2, <1>3, <2>4 DEF SetDeviceProfileTypes
  <2>5. CASE MergeColumns(r) \/ AssignSensor(r) \/ UnassignSensor(r)
    BY <1>1, <2>5 DEF MergeColumns, AssignSensor, UnassignSensor
  <2>6. CASE InsertSensor(r) \/ UpdateSensor(r)
    BY <1>1, <2>6 DEF InsertSensor, UpdateSensor
  <2>7. CASE StorageFails(r)
    BY <1>2, <2>7 DEF StorageFails
  <2> QED
    BY <1>4, <2>1, <2>2, <2>3, <2>4, <2>5, <2>6, <2>7 DEF Step
<1> QED
  BY <1>1, <1>4 DEF Next, BeginCall, vars

\* Rows keep their type.
LEMMA TablesPreserved ==
    ASSUME TypeOK, TableStep
    PROVE  /\ devices' \in [DeviceIds -> Device \cup {NoRow}]
           /\ sensors' \in [SensorIds -> SeededProfiles \cup {Null, NoRow}]
<1>1. CASE UNCHANGED tables
  BY <1>1 DEF TypeOK, tables
<1>2. ASSUME NEW d \in DeviceIds, NEW row \in Device, DeviceWrite(d, row)
      PROVE  /\ devices' \in [DeviceIds -> Device \cup {NoRow}]
             /\ sensors' \in [SensorIds -> SeededProfiles \cup {Null, NoRow}]
  BY <1>2 DEF TypeOK, DeviceWrite
<1>3. ASSUME NEW s \in SensorIds, NEW p \in SeededProfiles \cup {Null},
             SensorWrite(s, p)
      PROVE  /\ devices' \in [DeviceIds -> Device \cup {NoRow}]
             /\ sensors' \in [SensorIds -> SeededProfiles \cup {Null, NoRow}]
  BY <1>3 DEF TypeOK, SensorWrite
<1> QED
  BY <1>1, <1>2, <1>3 DEF TableStep

\* What a request has checked about a sensor stays true while it is on its way
\* to the write: its own steps leave the tables alone, and no step of another
\* request takes a profile away.
LEMMA CheckedPreserved ==
    ASSUME TypeOK, CheckedSensorKeepsProfile, TableStep, [Next]_vars
    PROVE  CheckedSensorKeepsProfile'
<1> SUFFICES ASSUME NEW q \in Requests, PastSensorCheck(q)'
             PROVE  HasProfile(call[q].sensor)' /\ call'[q] = call[q]
  BY DEF CheckedSensorKeepsProfile, HasProfile
<1>1. ASSUME PastSensorCheck(q), call'[q] = call[q]
      PROVE  HasProfile(call[q].sensor)' /\ call'[q] = call[q]
  <2>1. call[q] \in Calls
    BY <1>1 DEF PastSensorCheck, TypeOK
  <2>2. call[q].sensor \in SensorIds
    BY <1>1, <2>1, CallFields DEF PastSensorCheck, SensorCalls
  <2>3. HasProfile(call[q].sensor)
    BY <1>1 DEF CheckedSensorKeepsProfile
  <2>4. sensors'[call[q].sensor] \in SeededProfiles
    BY <2>2, <2>3, ProfilesStay DEF HasProfile
  <2> QED
    BY <1>1, <2>4 DEF HasProfile
<1>2. CASE UNCHANGED vars
  BY <1>1, <1>2 DEF vars, PastSensorCheck
<1>3. ASSUME NEW r \in Requests, BeginCall(r)
      PROVE  HasProfile(call[q].sensor)' /\ call'[q] = call[q]
  <2>1. r # q
    BY <1>3 DEF BeginCall, PastSensorCheck, TypeOK
  <2>2. phase'[q] = phase[q] /\ call'[q] = call[q]
    BY <1>3, <2>1 DEF BeginCall, TypeOK
  <2> QED
    BY <1>1, <2>2 DEF PastSensorCheck
<1>4. ASSUME NEW r \in Requests, Step(r)
      PROVE  HasProfile(call[q].sensor)' /\ call'[q] = call[q]
  <2>1. call' = call
    BY <1>4, StepMovesRequest DEF Advance, Answer
  <2>2. CASE r # q
    <3>1. phase'[q] = phase[q]
      BY <1>4, <2>2, StepMovesRequest DEF Advance, Answer, TypeOK
    <3> QED
      BY <1>1, <2>1, <3>1 DEF PastSensorCheck
  <2>3. CASE r = q
    <3>1. /\ phase'[q] \in {"getHolder", "write"}
          /\ call[q].op \in SensorCalls /\ call[q].sensor # Null
      BY <2>1 DEF PastSensorCheck
    <3>2. CASE phase'[q] = "getHolder"
      <4>1. HasProfile(call[q].sensor) /\ UNCHANGED tables
        BY <1>4, <2>3, <3>2, AdvanceTo
      <4> QED
        BY <2>1, <4>1 DEF HasProfile, tables
    <3>3. CASE phase'[q] = "write"
      <4>1. phase[q] = "getHolder"
        BY <1>4, <2>3, <3>1, <3>3, AdvanceTo
      <4>2. PastSensorCheck(q)
        BY <3>1, <4>1 DEF PastSensorCheck
      <4> QED
        BY <1>1, <2>1, <4>2
    <3> QED
      BY <3>1, <3>2, <3>3
  <2> QED
    BY <2>2, <2>3
<1> QED
  BY <1>2, <1>3, <1>4 DEF Next
-----------------------------------------------------------------------------
(***************************************************************************)
(* The theorems.                                                           *)
(***************************************************************************)
\* The empty tables of a fresh database satisfy the invariant.
LEMMA InitInvariant ==
    ASSUME Init
    PROVE  IInv
<1>1. TypeOK
  BY DEF Init, TypeOK, Phases, Replies
<1>2. \A d \in DeviceIds : SensorOf(d) = Null
  BY DEF Init, SensorOf, HasDevice
<1>3. SensorAssignedAtMostOnce /\ AttachedSensorHasProfile
  BY <1>2 DEF SensorAssignedAtMostOnce, AttachedSensorHasProfile
<1>4. CheckedSensorKeepsProfile
  BY DEF Init, CheckedSensorKeepsProfile, PastSensorCheck
<1> QED
  BY <1>1, <1>3, <1>4 DEF IInv

\* Every step of every call preserves the invariant.
LEMMA NextInvariant ==
    ASSUME IInv, [Next]_vars
    PROVE  IInv'
<1>1. TableStep
  BY EveryStepIsTableStep
<1>2. TypeOK /\ SensorAssignedAtMostOnce /\ AttachedSensorHasProfile
      /\ CheckedSensorKeepsProfile
  BY DEF IInv
<1>3. TypeOK'
  BY <1>1, <1>2, TablesPreserved, RequestsPreserved, LatePreserved
  DEF TypeOK
<1>4. SensorAssignedAtMostOnce'
  BY <1>1, <1>2, UniquePreserved
<1>5. AttachedSensorHasProfile'
  BY <1>1, <1>2, AttachedPreserved
<1>6. CheckedSensorKeepsProfile'
  BY <1>1, <1>2, CheckedPreserved
<1> QED
  BY <1>3, <1>4, <1>5, <1>6 DEF IInv

\* The inductive invariant holds in every reachable state.
LEMMA Invariance == Spec => []IInv
  BY InitInvariant, NextInvariant, PTL DEF Spec

\* Rows and requests are well formed, for any set of calls: no interleaving
\* stores an unseeded profile or type, or sends a request astray.
THEOREM TypeCorrect == Spec => []TypeOK
<1>1. IInv => TypeOK
  BY DEF IInv
<1> QED
  BY <1>1, Invariance, PTL

\* No interleaving of creates, updates, attaches, detaches and merges puts one
\* sensor on two devices.
THEOREM SensorAssignedOnce == Spec => []SensorAssignedAtMostOnce
<1>1. IInv => SensorAssignedAtMostOnce
  BY DEF IInv
<1> QED
  BY <1>1, Invariance, PTL

\* No interleaving leaves a device with a sensor that has no profile.
THEOREM AttachedHaveProfile == Spec => []AttachedSensorHasProfile
<1>1. IInv => AttachedSensorHasProfile
  BY DEF IInv
<1> QED
  BY <1>1, Invariance, PTL

\* What ensureSensorCanBeAssigned found out about the profile of a sensor is
\* still true when the sensor is written to a device.
THEOREM ChecksStayValid == Spec => []CheckedSensorKeepsProfile
<1>1. IInv => CheckedSensorKeepsProfile
  BY DEF IInv
<1> QED
  BY <1>1, Invariance, PTL

\* No step of any call takes a sensor from a device that carries it.
THEOREM NothingStolen == Spec => NoSensorStolen
<1>1. ASSUME IInv, [Next]_vars
      PROVE  \A d1, d2 \in DeviceIds :
               d1 # d2 /\ SensorOf(d1) # Null => SensorOf(d2)' # SensorOf(d1)
  <2> SUFFICES ASSUME NEW d1 \in DeviceIds, NEW d2 \in DeviceIds,
                      d1 # d2, SensorOf(d1) # Null
               PROVE  SensorOf(d2)' # SensorOf(d1)
    OBVIOUS
  <2>1. TableStep /\ TypeOK /\ SensorOf(d2) # SensorOf(d1)
    BY <1>1, EveryStepIsTableStep DEF IInv, SensorAssignedAtMostOnce
  <2>2. CASE devices' = devices
    BY <2>1, <2>2, SensorsUnchanged
  <2>3. ASSUME NEW d \in DeviceIds, NEW row \in Device, DeviceWrite(d, row)
        PROVE  SensorOf(d2)' # SensorOf(d1)
    <3>1. SensorOf(d2)' = IF d2 = d THEN row.sensor ELSE SensorOf(d2)
      BY <2>1, <2>3, SensorAfterWrite
    <3> QED
      BY <2>1, <2>3, <3>1 DEF DeviceWrite, HolderOtherThan
  <2> QED
    BY <2>1, <2>2, <2>3 DEF TableStep, tables, SensorWrite
<1> QED
  BY <1>1, Invariance, PTL DEF Spec, NoSensorStolen
-----------------------------------------------------------------------------
(***************************************************************************)
(* The answers.                                                            *)
(***************************************************************************)
\* A request is answered when it is idle again, never with a scan error; who
\* was told that it created a sensor finds the sensor.
Answered ==
    /\ \A r \in Requests :
        /\ phase[r] # "idle" => reply[r] = "none"
        /\ reply[r] # "none" => call[r] \in Calls
        /\ reply[r] # "scanError"
        /\ reply[r] = "ok" /\ call[r].op = "CreateSensor" =>
             HasSensor(call[r].sensor)
    /\ SensorCreatedOnce

\* Which answers a step can give: a scan error never, because the sensor that
\* is looked up has a profile, and success to a create only when the row of the
\* sensor was not there before.
LEMMA AnswerGiven ==
    ASSUME IInv, NEW r \in Requests, Step(r)
    PROVE  /\ phase[r] # "idle"
           /\ reply'[r] = "scanError" => reply[r] = "scanError"
           /\ reply'[r] = "ok" /\ call[r].op = "CreateSensor" =>
                \/ reply[r] = "ok"
                \/ ~HasSensor(call[r].sensor) /\ HasSensor(call[r].sensor)'
<1> USE DEF At, Advance, Answer, AnswerCommitted
<1>0. TypeOK /\ r \in DOMAIN reply
  BY DEF IInv, TypeOK
<1>1. CASE CheckCreate(r) \/ CheckUpdate(r)
  BY <1>0, <1>1 DEF CheckCreate, CheckUpdate, CheckSensorIfNamed, TypeOK
<1>2. CASE CheckMerge(r) \/ CheckAttach(r) \/ CheckDetach(r)
  BY <1>0, <1>2 DEF CheckMerge, CheckAttach, CheckDetach, CheckVisible, TypeOK
<1>3. CASE GetSensor(r) \/ CheckSensorCall(r)
  BY <1>0, <1>3 DEF GetSensor, CheckSensorCall, TypeOK
<1>4. CASE GetHolder(r)
  <2>1. phase[r] = "getHolder" /\ PastSensorCheck(r)
    BY <1>0, <1>4 DEF GetHolder, TypeOK, PastSensorCheck
  <2>2. HasProfile(call[r].sensor)
    BY <2>1 DEF IInv, CheckedSensorKeepsProfile
  <2>3. sensors[call[r].sensor] # Null
    BY <2>2, SeededAreKnown, NullIsNoValue DEF HasProfile
  <2> QED
    BY <1>0, <1>4, <2>1, <2>3 DEF GetHolder, TypeOK
<1>5. CASE UpsertDevice(r) \/ MergeColumns(r)
  BY <1>0, <1>5 DEF UpsertDevice, MergeColumns, TypeOK
<1>6. CASE SetDeviceProfileTypes(r)
  BY <1>0, <1>6 DEF SetDeviceProfileTypes, TypeOK
<1>7. CASE AssignSensor(r) \/ UnassignSensor(r)
  BY <1>0, <1>7 DEF AssignSensor, UnassignSensor, TypeOK
<1>8. CASE InsertSensor(r)
  <2>1. call[r].sensor \in SensorIds
    BY <1>0, <1>8, CallFields DEF InsertSensor, TypeOK
  <2>2. ProfileColumnAllowed(call[r].profile) => call[r].profile # NoRow
    BY SeededAreKnown, NoRowIsNoRow DEF ProfileColumnAllowed
  <2> QED
    BY <1>0, <1>8, <2>1, <2>2 DEF InsertSensor, TypeOK, HasSensor
<1>9. CASE UpdateSensor(r)
  BY <1>0, <1>9 DEF UpdateSensor, TypeOK
<1>10. CASE StorageFails(r)
  BY <1>0, <1>10 DEF StorageFails, TypeOK
<1> QED
  BY <1>1, <1>2, <1>3, <1>4, <1>5, <1>6, <1>7, <1>8, <1>9, <1>10 DEF Step

\* A row of the table sensors stays.
LEMMA SensorsStay ==
    ASSUME TypeOK, TableStep, NEW s \in SensorIds, HasSensor(s)
    PROVE  HasSensor(s)'
  BY NoRowIsNoRow, SeededAreKnown
  DEF TypeOK, TableStep, DeviceWrite, SensorWrite, HasSensor, tables

\* The answers already given stay right, and a new success of a create is for a
\* sensor nobody was told to have created.
LEMMA AnsweredPreserved ==
    ASSUME IInv, Answered, [Next]_vars
    PROVE  Answered'
<1> DEFINE Created(q) == reply[q] = "ok" /\ call[q].op = "CreateSensor"
<1>1. TypeOK /\ TableStep
  BY EveryStepIsTableStep DEF IInv
<1>2. ASSUME NEW q \in Requests, Created(q)
      PROVE  HasSensor(call[q].sensor) /\ sensors'[call[q].sensor] # NoRow
  <2>1. HasSensor(call[q].sensor) /\ call[q].sensor \in SensorIds
    BY <1>2, CallFields DEF Answered
  <2>2. \A s \in SensorIds : HasSensor(s) => sensors'[s] # NoRow
    BY <1>1, SensorsStay DEF HasSensor
  <2> QED
    BY <2>1, <2>2
<1>3. CASE UNCHANGED vars
  BY <1>3 DEF vars, Answered, SensorCreatedOnce, HasSensor
<1>4. ASSUME NEW r \in Requests, BeginCall(r)
      PROVE  Answered'
  <2>1. /\ reply'[r] = "none" /\ call'[r] \in Calls
        /\ \A q \in Requests \ {r} : /\ reply'[q] = reply[q]
                                     /\ call'[q] = call[q]
                                     /\ phase'[q] = phase[q]
        /\ sensors' = sensors
    BY <1>1, <1>4 DEF BeginCall, TypeOK, tables
  <2> QED
    BY <2>1 DEF Answered, SensorCreatedOnce, HasSensor
<1>5. ASSUME NEW r \in Requests, Step(r)
      PROVE  Answered'
  <2>1. /\ call' = call
        /\ \A q \in Requests \ {r} : reply'[q] = reply[q] /\ phase'[q] = phase[q]
        /\ phase'[r] # "idle" => reply'[r] = reply[r]
    BY <1>1, <1>5, StepMovesRequest DEF Advance, Answer, TypeOK
  <2>2. /\ phase[r] # "idle"
        /\ reply'[r] # "scanError"
        /\ reply'[r] = "ok" /\ call[r].op = "CreateSensor" =>
             \/ reply[r] = "ok"
             \/ ~HasSensor(call[r].sensor) /\ sensors'[call[r].sensor] # NoRow
    BY <1>5, <2>1, AnswerGiven DEF Answered, HasSensor
  <2>3. reply[r] = "none" /\ call[r] \in Calls
    BY <1>1, <2>2 DEF Answered, TypeOK
  <2>4. /\ \A q \in Requests : reply'[q] # "scanError"
        /\ \A q \in Requests : phase'[q] # "idle" => reply'[q] = "none"
        /\ \A q \in Requests : reply'[q] # "none" => call'[q] \in Calls
    BY <2>1, <2>2, <2>3 DEF Answered
  <2>5. \A q \in Requests :
          reply'[q] = "ok" /\ call'[q].op = "CreateSensor" =>
            sensors'[call'[q].sensor] # NoRow
    BY <1>2, <2>1, <2>2, <2>3
  <2>6. ASSUME NEW q \in Requests, q # r,
               reply'[q] = "ok", call[q].op = "CreateSensor",
               reply'[r] = "ok", call[r].op = "CreateSensor"
        PROVE  call[q].sensor # call[r].sensor
    <3>1. HasSensor(call[q].sensor)
      BY <1>2, <2>1, <2>6
    <3>2. ~HasSensor(call[r].sensor)
      BY <2>2, <2>3, <2>6
    <3> QED
      BY <3>1, <3>2
  <2>7. SensorCreatedOnce'
    BY <2>1, <2>6 DEF SensorCreatedOnce, Answered
  <2> QED
    BY <2>4, <2>5, <2>7 DEF Answered, HasSensor
<1> QED
  BY <1>3, <1>4, <1>5 DEF Next

LEMMA AnsweredAlways == Spec => []Answered
<1>1. Init => Answered
  BY DEF Init, Answered, SensorCreatedOnce
<1> QED
  BY <1>1, Invariance, AnsweredPreserved, PTL DEF Spec

\* GetDeviceBySensorID can always read the row it finds.
THEOREM LookupsSucceed == Spec => []LookupNeverFails
<1>1. Answered => LookupNeverFails
  BY DEF Answered, LookupNeverFails
<1> QED
  BY <1>1, AnsweredAlways, PTL

\* However many creates of one sensor compete, one of them is told it did it.
THEOREM CreatedOnce == Spec => []SensorCreatedOnce
<1>1. Answered => SensorCreatedOnce
  BY DEF Answered
<1> QED
  BY <1>1, AnsweredAlways, PTL
-----------------------------------------------------------------------------
(***************************************************************************)
(* What registry steps do to rows, and what a successful call means.       *)
(***************************************************************************)
\* A row of the table devices stays.
LEMMA DevicesStay ==
    ASSUME TypeOK, TableStep, NEW d \in DeviceIds, HasDevice(d)
    PROVE  HasDevice(d)'
  BY NoRowIsNoRow DEF TypeOK, TableStep, DeviceWrite, SensorWrite, HasDevice,
                      tables

RowsStay ==
    /\ \A s \in SensorIds : HasSensor(s) => HasSensor(s)'
    /\ \A d \in DeviceIds : HasDevice(d) => HasDevice(d)'

\* Registry steps remove no row.
LEMMA RowsAreKept ==
    ASSUME IInv, [Next]_vars
    PROVE  RowsStay
<1>1. TypeOK /\ TableStep
  BY EveryStepIsTableStep DEF IInv
<1> QED
  BY <1>1, SensorsStay, DevicesStay DEF RowsStay

\* A step of one request leaves the others where they are.
LEMMA OthersStay ==
    ASSUME NEW q \in Requests, NEW r \in Requests \ {q}, TypeOK,
           Step(q) \/ BeginCall(q)
    PROVE  phase'[r] = phase[r] /\ call'[r] = call[r] /\ reply'[r] = reply[r]
  BY StepMovesRequest DEF BeginCall, Advance, Answer, TypeOK

\* When a sensor call is answered ok the sensor is there.
LEMMA SensorCallOk ==
    ASSUME IInv, NEW r \in Requests, Step(r),
           call[r].op \in {"CreateSensor", "UpdateSensor"},
           phase'[r] = "idle", reply'[r] = "ok",
           call[r].sensor \in SensorIds
    PROVE  HasSensor(call[r].sensor)'
<1> USE DEF At, Advance, Answer, AnswerCommitted
<1>0. TypeOK /\ r \in DOMAIN reply /\ r \in DOMAIN phase
  BY DEF IInv, TypeOK
<1>1. CASE CheckCreate(r) \/ CheckUpdate(r)
  BY <1>1 DEF CheckCreate, CheckUpdate
<1>2. CASE CheckMerge(r) \/ CheckAttach(r) \/ CheckDetach(r)
  BY <1>2 DEF CheckMerge, CheckAttach, CheckDetach, CheckVisible
<1>3. CASE GetSensor(r) \/ GetHolder(r)
  BY <1>0, <1>3 DEF GetSensor, GetHolder, TypeOK, SensorCalls
<1>4. CASE CheckSensorCall(r)
  BY <1>0, <1>4 DEF CheckSensorCall
<1>5. CASE UpsertDevice(r) \/ MergeColumns(r)
  BY <1>5 DEF UpsertDevice, MergeColumns
<1>6. CASE SetDeviceProfileTypes(r)
  BY <1>0, <1>6 DEF SetDeviceProfileTypes, TypeOK
<1>7. CASE AssignSensor(r) \/ UnassignSensor(r)
  BY <1>7 DEF AssignSensor, UnassignSensor
<1>8. CASE InsertSensor(r) \/ UpdateSensor(r)
  <2>1. ProfileColumnAllowed(call[r].profile) => call[r].profile # NoRow
    BY SeededAreKnown, NoRowIsNoRow DEF ProfileColumnAllowed
  <2> QED
    BY <1>0, <1>8, <2>1 DEF InsertSensor, UpdateSensor, TypeOK, HasSensor
<1>9. CASE StorageFails(r)
  BY <1>0, <1>9 DEF StorageFails
<1> QED
  BY <1>1, <1>2, <1>3, <1>4, <1>5, <1>6, <1>7, <1>8, <1>9 DEF Step

\* When the write of a create or an update is answered ok the device is there.
LEMMA DeviceCallOk ==
    ASSUME IInv, NEW r \in Requests, Step(r), phase[r] # "setTypes",
           call[r].op \in {"CreateDevice", "UpdateDevice"},
           phase'[r] = "idle", reply'[r] = "ok",
           call[r].device \in DeviceIds
    PROVE  HasDevice(call[r].device)'
<1> USE DEF At, Advance, Answer, AnswerCommitted
<1>0. TypeOK /\ r \in DOMAIN reply /\ r \in DOMAIN phase
  BY DEF IInv, TypeOK
<1>1. CASE CheckCreate(r) \/ CheckUpdate(r)
  BY <1>0, <1>1 DEF CheckCreate, CheckUpdate, CheckSensorIfNamed
<1>2. CASE CheckMerge(r) \/ CheckAttach(r) \/ CheckDetach(r)
  BY <1>2 DEF CheckMerge, CheckAttach, CheckDetach, CheckVisible
<1>3. CASE GetSensor(r) \/ GetHolder(r)
  BY <1>0, <1>3 DEF GetSensor, GetHolder
<1>4. CASE CheckSensorCall(r)
  BY <1>0, <1>4 DEF CheckSensorCall
<1>5. CASE UpsertDevice(r)
  <2>1. DEFINE row(ts) == [sensor |-> call[r].sensor, tenant |-> call[r].tenant,
                           types |-> ts]
  <2>2. call[r] \in Calls
    BY <1>0, <1>5 DEF UpsertDevice, TypeOK
  <2>3. PICK ts \in TypesLeft(r, call[r].device, call[r].types) :
          devices' = [devices EXCEPT ![call[r].device] = row(ts)]
    BY <1>0, <1>5 DEF UpsertDevice
  <2>4. row(ts) \in Device
    BY <2>2, CallFields DEF TypesLeft, Device, UpsertDevice
  <2>5. row(ts) # NoRow /\ call' = call
    BY <1>5, <2>4, NoRowIsNoRow DEF UpsertDevice
  <2> HIDE DEF row
  <2>6. devices'[call[r].device] = row(ts)
    BY <1>0, <2>3 DEF TypeOK
  <2> QED
    BY <2>5, <2>6 DEF HasDevice
<1>6. CASE MergeColumns(r) \/ SetDeviceProfileTypes(r)
  BY <1>6 DEF MergeColumns, SetDeviceProfileTypes
<1>7. CASE AssignSensor(r) \/ UnassignSensor(r)
  BY <1>7 DEF AssignSensor, UnassignSensor
<1>8. CASE InsertSensor(r) \/ UpdateSensor(r)
  BY <1>8 DEF InsertSensor, UpdateSensor
<1>9. CASE StorageFails(r)
  BY <1>0, <1>9 DEF StorageFails
<1> QED
  BY <1>1, <1>2, <1>3, <1>4, <1>5, <1>6, <1>7, <1>8, <1>9 DEF Step
-----------------------------------------------------------------------------
(***************************************************************************)
(* What a successful assignment means.                                     *)
(***************************************************************************)
\* When a step answers ok to an attach, a detach or an update, it is the write
\* itself, and the device carries what was asked for.
LEMMA AssignmentOk ==
    ASSUME IInv, NEW r \in Requests, Step(r), reply[r] = "none",
           reply'[r] = "ok",
           call[r].op \in {"AttachSensor", "UpdateDevice", "DetachSensor"}
    PROVE  /\ call[r].op \in {"AttachSensor", "UpdateDevice"} =>
                SensorOf(call[r].device)' = call[r].sensor
           /\ call[r].op = "DetachSensor" => SensorOf(call[r].device)' = Null
<1> DEFINE c == call[r]
<1> USE DEF At, Advance, Answer, AnswerCommitted
<1>0. /\ TypeOK /\ r \in DOMAIN reply /\ (phase[r] # "idle" => c \in Calls)
      /\ (phase[r] = "setTypes" => c.op \in {"CreateDevice", "MergeDevice"})
      /\ (phase[r] \in {"getSensor", "getHolder"} => c.op \in SensorCalls)
  BY DEF IInv, TypeOK
<1>1. CASE \/ CheckCreate(r) \/ CheckUpdate(r) \/ CheckMerge(r)
           \/ CheckAttach(r) \/ CheckDetach(r)
  BY <1>0, <1>1 DEF CheckCreate, CheckUpdate, CheckMerge, CheckAttach,
                    CheckDetach, CheckVisible, CheckSensorIfNamed
<1>2. CASE GetSensor(r) \/ GetHolder(r) \/ CheckSensorCall(r)
  BY <1>0, <1>2 DEF GetSensor, GetHolder, CheckSensorCall
<1>3. CASE MergeColumns(r) \/ SetDeviceProfileTypes(r) \/ InsertSensor(r)
           \/ UpdateSensor(r) \/ StorageFails(r)
  BY <1>0, <1>3 DEF MergeColumns, SetDeviceProfileTypes, InsertSensor,
                    UpdateSensor, StorageFails
<1>4. CASE UpsertDevice(r)
  <2>1. DEFINE row(ts) == [sensor |-> c.sensor, tenant |-> c.tenant, types |-> ts]
  <2>2. c.op = "UpdateDevice"
    BY <1>0, <1>4 DEF UpsertDevice
  <2> PICK ts \in TypesLeft(r, c.device, c.types) :
        devices' = [devices EXCEPT ![c.device] = row(ts)]
    BY <1>0, <1>4 DEF UpsertDevice
  <2>3. /\ c.device \in DeviceIds /\ c.tenant \in Tenants
        /\ c.sensor \in SensorIds \cup {Null}
    BY <1>0, <1>4, CallFields DEF UpsertDevice
  <2>4. row(ts) \in Device /\ row(ts).sensor = c.sensor
    BY <2>3 DEF TypesLeft, Device
  <2> HIDE DEF row
  <2>5. devices'[c.device] = row(ts) /\ row(ts) # NoRow
    BY <1>0, <2>3, <2>4, NoRowIsNoRow DEF TypeOK
  <2> QED
    BY <1>4, <2>2, <2>4, <2>5 DEF SensorOf, HasDevice, UpsertDevice
<1>5. CASE AssignSensor(r)
  <2>1. /\ c.op = "AttachSensor" /\ HasDevice(c.device) /\ call' = call
        /\ devices' = [devices EXCEPT ![c.device].sensor = c.sensor]
    BY <1>0, <1>5 DEF AssignSensor
  <2>2. c.device \in DeviceIds /\ c.sensor \in SensorIds
    BY <1>0, <1>5, CallFields DEF AssignSensor
  <2>3. devices[c.device] \in Device
    BY <1>0, <2>1, <2>2 DEF TypeOK, HasDevice
  <2>4. DEFINE row == [devices[c.device] EXCEPT !.sensor = c.sensor]
  <2>5. row \in Device /\ row.sensor = c.sensor
    BY <2>2, <2>3 DEF Device
  <2>6. devices'[c.device] = row
    BY <1>0, <2>1, <2>2 DEF TypeOK
  <2> HIDE DEF row
  <2>7. row # NoRow
    BY <2>5, NoRowIsNoRow
  <2> QED
    BY <2>1, <2>5, <2>6, <2>7 DEF SensorOf, HasDevice
<1>6. CASE UnassignSensor(r)
  <2>1. /\ c.op = "DetachSensor" /\ HasDevice(c.device) /\ call' = call
        /\ devices' = [devices EXCEPT ![c.device].sensor = Null]
    BY <1>0, <1>6 DEF UnassignSensor
  <2>2. c.device \in DeviceIds
    BY <1>0, <1>6, CallFields DEF UnassignSensor
  <2>3. devices[c.device] \in Device
    BY <1>0, <2>1, <2>2 DEF TypeOK, HasDevice
  <2>4. devices'[c.device] = [devices[c.device] EXCEPT !.sensor = Null]
    BY <1>0, <2>1, <2>2 DEF TypeOK
  <2>5. devices'[c.device].sensor = Null
    BY <2>3, <2>4 DEF Device
  <2> QED
    BY <2>1, <2>5 DEF SensorOf, HasDevice
<1> QED
  BY <1>1, <1>2, <1>3, <1>4, <1>5, <1>6 DEF Step

\* Whoever is told that an attach, a detach or an update succeeded finds the
\* device carrying what was asked for, whatever else goes on.
THEOREM AcknowledgedHolds == Spec => AcknowledgedAssignmentHolds
<1>1. ASSUME IInv, Answered, [Next]_vars, NEW r \in Requests,
             phase[r] # "idle", reply'[r] = "ok"
      PROVE  LET c == call[r] IN
             /\ c.op \in {"AttachSensor", "UpdateDevice"} =>
                  SensorOf(c.device)' = c.sensor
             /\ c.op = "DetachSensor" => SensorOf(c.device)' = Null
  <2>1. reply[r] = "none" /\ TypeOK
    BY <1>1 DEF Answered, IInv
  <2>2. Step(r)
    <3>1. PICK q \in Requests : BeginCall(q) \/ Step(q)
      BY <1>1, <2>1 DEF Next, vars
    <3>2. q = r
      BY <1>1, <2>1, <3>1, OthersStay
    <3> QED
      BY <1>1, <3>1, <3>2 DEF BeginCall
  <2>3. call'[r] = call[r]
    BY <2>1, <2>2, StepMovesRequest DEF Advance, Answer
  <2>4. (call[r].op \in {"AttachSensor", "UpdateDevice", "DetachSensor"}) =>
          /\ call[r].op \in {"AttachSensor", "UpdateDevice"} =>
               SensorOf(call[r].device)' = call[r].sensor
          /\ call[r].op = "DetachSensor" => SensorOf(call[r].device)' = Null
    BY <1>1, <2>1, <2>2, AssignmentOk
  <2> QED
    BY <2>4
<1>2. ASSUME IInv, Answered, [Next]_vars
      PROVE  [\A r \in Requests :
                LET c == call[r] IN
                phase[r] # "idle" /\ reply'[r] = "ok" =>
                  /\ c.op \in {"AttachSensor", "UpdateDevice"} =>
                       SensorOf(c.device)' = c.sensor
                  /\ c.op = "DetachSensor" => SensorOf(c.device)' = Null]_vars
  BY <1>1, <1>2
<1> QED
  BY <1>2, Invariance, AnsweredAlways, PTL DEF Spec, AcknowledgedAssignmentHolds
-----------------------------------------------------------------------------
(***************************************************************************)
(* The refinement: a TableStep is a step or a stutter of SensorAssignment. *)
(***************************************************************************)
\* The refinement mapping, by name.
CarriedSensors == [d \in DeviceIds |-> SensorOf(d)]
UsableSensors == {s \in SensorIds : HasProfile(s)}

\* A write of a device row that changes its sensor is an Assign or a Release.
LEMMA DeviceWriteRefines ==
    ASSUME TypeOK, NEW d \in DeviceIds, NEW row \in Device, DeviceWrite(d, row)
    PROVE  [Assignment!Next]_(Assignment!vars)
<1>1. CarriedSensors' = [CarriedSensors EXCEPT ![d] = row.sensor]
  BY SensorAfterWrite DEF CarriedSensors
<1>2. UsableSensors' = UsableSensors
  BY DEF DeviceWrite, UsableSensors, HasProfile
<1>3. CASE row.sensor = Null
  <2>1. Assignment!Release(d)
    BY <1>1, <1>2, <1>3
    DEF Assignment!Release, CarriedSensors, UsableSensors
  <2> QED
    BY <2>1 DEF Assignment!Next
<1>4. CASE row.sensor = SensorOf(d)
  <2>1. CarriedSensors' = CarriedSensors
    BY <1>1, <1>4 DEF CarriedSensors
  <2> QED
    BY <1>2, <2>1 DEF Assignment!vars, CarriedSensors, UsableSensors
<1>5. CASE row.sensor # Null /\ HasProfile(row.sensor)
           /\ ~HolderOtherThan(d, row.sensor)
  <2>1. row.sensor \in SensorIds
    BY <1>5 DEF Device
  <2>2. row.sensor \in UsableSensors
    BY <1>5, <2>1 DEF UsableSensors
  <2>3. \A other \in DeviceIds \ {d} : CarriedSensors[other] # row.sensor
    BY <1>5 DEF HolderOtherThan, CarriedSensors
  <2>4. Assignment!Assign(d, row.sensor)
    BY <1>1, <1>2, <2>2, <2>3
    DEF Assignment!Assign, CarriedSensors, UsableSensors
  <2> QED
    BY <2>1, <2>4 DEF Assignment!Next
<1> QED
  BY <1>3, <1>4, <1>5 DEF DeviceWrite

\* A write of a sensor row makes the sensor usable or is not visible.
LEMMA SensorWriteRefines ==
    ASSUME TypeOK, NEW s \in SensorIds,
           NEW p \in SeededProfiles \cup {Null}, SensorWrite(s, p)
    PROVE  [Assignment!Next]_(Assignment!vars)
<1>1. CarriedSensors' = CarriedSensors
  BY SensorsUnchanged DEF SensorWrite, CarriedSensors
<1>2. \A x \in SensorIds : sensors'[x] = IF x = s THEN p ELSE sensors[x]
  BY DEF SensorWrite, TypeOK
<1>3. UsableSensors' = {x \in SensorIds : sensors'[x] \in SeededProfiles}
  BY DEF UsableSensors, HasProfile
<1>4. CASE p \in SeededProfiles
  <2>1. UsableSensors' = UsableSensors \cup {s}
    BY <1>2, <1>3, <1>4 DEF UsableSensors, HasProfile
  <2>2. Assignment!MakeUsable(s)
    BY <1>1, <2>1 DEF Assignment!MakeUsable, CarriedSensors, UsableSensors
  <2> QED
    BY <2>2 DEF Assignment!Next
<1>5. CASE p \notin SeededProfiles
  <2>1. UsableSensors' = UsableSensors
    BY <1>2, <1>3, <1>5 DEF UsableSensors, HasProfile, SensorWrite
  <2> QED
    BY <1>1, <2>1 DEF Assignment!vars, CarriedSensors, UsableSensors
<1> QED
  BY <1>4, <1>5

\* The registry implements SensorAssignment: what clients see of sensors on
\* devices is only ever a sensor becoming usable, being assigned while free or
\* being released.
THEOREM Refinement == Spec => ImplementsAssignment
<1>1. Init => Assignment!Init
  <2> SUFFICES ASSUME Init
               PROVE  Assignment!Init
    OBVIOUS
  <2>1. CarriedSensors = [d \in DeviceIds |-> Null]
    BY DEF Init, CarriedSensors, SensorOf, HasDevice
  <2>2. UsableSensors = {}
    BY SeededAreKnown, NoRowIsNoRow DEF Init, UsableSensors, HasProfile
  <2> QED
    BY <2>1, <2>2 DEF Assignment!Init, CarriedSensors, UsableSensors
<1>2. ASSUME IInv, [Next]_vars
      PROVE  [Assignment!Next]_(Assignment!vars)
  <2>1. TypeOK /\ TableStep
    BY <1>2, EveryStepIsTableStep DEF IInv
  <2>2. CASE UNCHANGED tables
    <3>1. CarriedSensors' = CarriedSensors /\ UsableSensors' = UsableSensors
      BY <2>2 DEF CarriedSensors, UsableSensors, SensorOf, HasDevice,
                  HasProfile, tables
    <3> QED
      BY <3>1 DEF Assignment!vars, CarriedSensors, UsableSensors
  <2> QED
    BY <2>1, <2>2, DeviceWriteRefines, SensorWriteRefines DEF TableStep
<1> QED
  BY <1>1, <1>2, Invariance, PTL
  DEF Spec, ImplementsAssignment, Assignment!Spec
=============================================================================
