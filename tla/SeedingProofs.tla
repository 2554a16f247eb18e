--------------------------- MODULE SeedingProofs ---------------------------
(***************************************************************************)
(* Proofs about Seeding for any file, any number of replicas, uploads and  *)
(* clients, with and without the update flag.                              *)
(*                                                                         *)
(* Seeding only makes calls of the registry, so what is proved of the      *)
(* registry holds (SeedingIsRegistry).  Rows are never removed, a          *)
(* successful call leaves its row behind, and a lookup that says TRUE has  *)
(* seen the row: Held collects what a seeder knows about the record it     *)
(* works on, and about those behind it.  Without the update flag its calls *)
(* are creates, and a create stops at a device that is there (Careful).    *)
(* With the flag a row is as its last record says or some seeder owes it   *)
(* that record (FileInv), and no write of types overlaps those of a seeder *)
(* (SeedersAlone).                                                         *)
(***************************************************************************)
EXTENDS Seeding, DeviceRegistryProofs

-----------------------------------------------------------------------------
(***************************************************************************)
(* Seeding is a registry with particular clients.                          *)
(***************************************************************************)
LEMMA SeederStepIsRegistryStep ==
    ASSUME NEW r \in Seeders, Seed(r)
    PROVE  [Next]_vars
<1>1. r \in Requests
  BY SeedersAreRequests
<1>2. CASE Start(r) \/ Skip(r) \/ Finish(r)
  BY <1>2 DEF Start, Skip, Finish
<1>3. CASE LookSensor(r) \/ LookDevice(r) \/ ReadFails(r)
  BY <1>3 DEF LookSensor, LookDevice, ReadFails, LookSensorFails,
              LookDeviceFails, SensorLookup, DeviceLookup
<1>4. CASE SeedSensor(r) \/ SeedDevice(r)
  BY <1>1, <1>4 DEF SeedSensor, SeedDevice, Begin, Next
<1>5. CASE SensorSeeded(r) \/ DeviceSeeded(r)
  BY <1>5 DEF SensorSeeded, DeviceSeeded
<1>6. CASE StorageStep(r)
  BY <1>1, <1>6 DEF StorageStep, Next
<1>7. CASE Crash(r)
  BY <1>1, <1>7 DEF Crash, Next, Step
<1> QED
  BY <1>2, <1>3, <1>4, <1>5, <1>6, <1>7 DEF Seed

LEMMA SeedStepIsRegistryStep ==
    ASSUME [SeedNext]_seedVars
    PROVE  [Next]_vars
<1>1. CASE UNCHANGED seedVars
  BY <1>1 DEF seedVars
<1>2. CASE \E r \in Seeders : Seed(r)
  BY <1>2, SeederStepIsRegistryStep
<1>3. CASE \E r \in Requests \ Seeders : Client(r)
  BY <1>3 DEF Client, Begin, Next
<1> QED
  BY <1>1, <1>2, <1>3 DEF SeedNext

\* Whatever seeders and clients do, crashes included, is a behaviour of the
\* registry: every theorem about Spec is one about the running service.
THEOREM SeedingIsRegistry == SeedSpec => Spec
<1>1. SeedInit => Init
  BY DEF SeedInit
<1>2. [SeedNext]_seedVars => [Next]_vars
  BY SeedStepIsRegistryStep
<1> QED
  BY <1>1, <1>2, PTL DEF SeedSpec, Spec

\* The invariant of the registry, for the seeded system.
LEMMA RegistryInvariance == SeedSpec => []IInv
  BY SeedingIsRegistry, Invariance, PTL
-----------------------------------------------------------------------------
\* A call without an embedded profile does not go through setTypes.
LEMMA NoTypesToSet ==
    ASSUME TypeOK, NEW r \in Requests, Step(r), phase[r] # "setTypes",
           \/ call[r].op = "CreateDevice" /\ call[r].profileTypes = {}
           \/ call[r].op = "UpdateDevice"
    PROVE  phase'[r] # "setTypes"
<1> USE DEF At, Advance, Answer, AnswerCommitted
<1>0. r \in DOMAIN phase
  BY DEF TypeOK
<1>1. CASE CheckCreate(r) \/ CheckUpdate(r)
  BY <1>0, <1>1 DEF CheckCreate, CheckUpdate, CheckSensorIfNamed
<1>2. CASE CheckMerge(r) \/ CheckAttach(r) \/ CheckDetach(r)
  BY <1>2 DEF CheckMerge, CheckAttach, CheckDetach, CheckVisible
<1>3. CASE GetSensor(r) \/ GetHolder(r) \/ CheckSensorCall(r)
  BY <1>0, <1>3 DEF GetSensor, GetHolder, CheckSensorCall
<1>4. CASE UpsertDevice(r)
  BY <1>0, <1>4 DEF UpsertDevice
<1>5. CASE MergeColumns(r) \/ SetDeviceProfileTypes(r)
  BY <1>5 DEF MergeColumns, SetDeviceProfileTypes
<1>6. CASE AssignSensor(r) \/ UnassignSensor(r)
  BY <1>6 DEF AssignSensor, UnassignSensor
<1>7. CASE InsertSensor(r) \/ UpdateSensor(r)
  BY <1>7 DEF InsertSensor, UpdateSensor
<1>8. CASE StorageFails(r)
  BY <1>0, <1>8 DEF StorageFails
<1> QED
  BY <1>1, <1>2, <1>3, <1>4, <1>5, <1>6, <1>7, <1>8 DEF Step

-----------------------------------------------------------------------------
(***************************************************************************)
(* What a seeder knows.                                                    *)
(***************************************************************************)
AtRecord == {"lookDevice", "sensor", "sensorCall", "device", "deviceCall"}

\* Of the record it works on: what a lookup has seen is there, and behind the
\* sensor call is the sensor.
Known(r) ==
    /\ stage[r] \in AtRecord => pos[r] \in DOMAIN Records
    /\ stage[r] \notin AtRecord => found[r] = NothingFound
    /\ stage[r] \in {"stopped", "crashed", "aborted"} => pos[r] = 1
    /\ found[r].sensor => HasSensor(Rec(r).sensor)
    /\ found[r].device => HasDevice(Rec(r).device)
    /\ stage[r] \in {"device", "deviceCall"} => HasSensor(Rec(r).sensor)

\* Of the call it makes: it is one for the record, and when it was answered ok
\* its row is there.
Calling(r) ==
    /\ phase[r] # "idle" => stage[r] \in {"sensorCall", "deviceCall"}
    /\ stage[r] = "sensorCall" =>
         /\ call[r] \in {CreateSensorOf(Rec(r)), UpdateSensorOf(Rec(r))}
         /\ phase[r] = "idle" /\ reply[r] = "ok" => HasSensor(Rec(r).sensor)
    /\ stage[r] = "deviceCall" =>
         /\ call[r] \in {CreateDeviceOf(Rec(r)), UpdateDeviceOf(Rec(r))}
         /\ phase[r] # "setTypes"
         /\ phase[r] = "idle" /\ reply[r] = "ok" => HasDevice(Rec(r).device)

\* Of the records behind it.
Behind(r) ==
    \A i \in DOMAIN Records :
        Passed(r, i) => HasSensor(Records[i].sensor)
                        /\ HasDevice(Records[i].device)

LoopTypeOK ==
    /\ stage \in [Seeders -> Stages]
    /\ pos \in [Seeders -> 1..(Len(Records) + 1)]
    /\ found \in [Seeders -> [sensor : BOOLEAN, device : BOOLEAN]]
    /\ present \in [Seeders -> BOOLEAN]

Held(r) == Known(r) /\ Calling(r) /\ Behind(r)

SeedInv == LoopTypeOK /\ \A r \in Seeders : Held(r)

\* The records of the file name sensors and devices.
LEMMA RecordFields ==
    ASSUME NEW i \in DOMAIN Records
    PROVE  /\ Records[i].sensor \in SensorIds
           /\ Records[i].device \in DeviceIds
<1>1. Records[i] \in Record
  BY RecordsAreRecords
<1> QED
  BY <1>1 DEF Record

\* A seeder that is not moved still knows what it knew.
LEMMA UnmovedHolds ==
    ASSUME NEW r \in Seeders, Held(r), RowsStay, LoopTypeOK,
           stage'[r] = stage[r], pos'[r] = pos[r], found'[r] = found[r],
           phase'[r] = phase[r], call'[r] = call[r], reply'[r] = reply[r]
    PROVE  Held(r)'
<1>1. Rec(r)' = Rec(r)
  BY DEF Rec
<1>2. stage[r] \in AtRecord => Rec(r).sensor \in SensorIds
                               /\ Rec(r).device \in DeviceIds
  BY RecordFields DEF Held, Known, Rec
<1>3. Known(r)'
  BY <1>1, <1>2 DEF Held, Known, RowsStay, NothingFound, AtRecord
<1>4. Calling(r)'
  BY <1>1, <1>2 DEF Held, Calling, RowsStay, AtRecord, CreateSensorOf,
                    UpdateSensorOf, CreateDeviceOf, UpdateDeviceOf
<1>5. Behind(r)'
  BY RecordFields DEF Held, Behind, RowsStay, Passed, Allowed
<1> QED
  BY <1>3, <1>4, <1>5 DEF Held

\* The step of one seeder does not move another.
LEMMA SeedMovesOne ==
    ASSUME LoopTypeOK, TypeOK, NEW q \in Seeders, Seed(q),
           NEW r \in Seeders \ {q}
    PROVE  /\ stage'[r] = stage[r] /\ pos'[r] = pos[r]
           /\ found'[r] = found[r]
           /\ phase'[r] = phase[r] /\ call'[r] = call[r]
           /\ reply'[r] = reply[r]
<1> USE DEF Goto, Leave, LoopTypeOK
<1>1. q \in Requests /\ r \in Requests \ {q}
  BY SeedersAreRequests
<1>2. UNCHANGED vars \/ Step(q) \/ BeginCall(q) =>
        phase'[r] = phase[r] /\ call'[r] = call[r] /\ reply'[r] = reply[r]
  BY <1>1, OthersStay DEF vars
<1>3. CASE Start(q) \/ Skip(q) \/ Finish(q)
  BY <1>2, <1>3 DEF Start, Skip, Finish, NextRecord
<1>4. CASE LookSensor(q) \/ LookDevice(q) \/ ReadFails(q)
  BY <1>2, <1>4 DEF LookSensor, LookDevice, ReadFails, LookSensorFails,
                    LookDeviceFails, SensorLookup, DeviceLookup
<1>5. CASE SeedSensor(q) \/ SeedDevice(q)
  BY <1>2, <1>5 DEF SeedSensor, SeedDevice, Begin, NextRecord
<1>6. CASE SensorSeeded(q) \/ DeviceSeeded(q)
  BY <1>2, <1>6 DEF SensorSeeded, DeviceSeeded, NextRecord, Abort
<1>7. CASE StorageStep(q)
  BY <1>2, <1>7 DEF StorageStep, loop
<1>8. CASE Crash(q)
  BY <1>2, <1>8 DEF Crash, Step
<1> QED
  BY <1>3, <1>4, <1>5, <1>6, <1>7, <1>8 DEF Seed

\* The loop variables stay well formed.
LEMMA LoopTypePreserved ==
    ASSUME LoopTypeOK, NEW r \in Seeders, Held(r), Seed(r)
    PROVE  LoopTypeOK'
<1> USE DEF Stages
<1>1. Len(Records) \in Nat /\ DOMAIN Records = 1..Len(Records)
  BY RecordsAreRecords
<1>2. ASSUME NEW s \in Stages, Goto(r, s)
      PROVE  LoopTypeOK'
  BY <1>2 DEF Goto, LoopTypeOK
<1>3. ASSUME NEW s \in Stages, NEW p \in 1..(Len(Records) + 1), Leave(r, s, p)
      PROVE  LoopTypeOK'
  <2>1. NothingFound \in [sensor : BOOLEAN, device : BOOLEAN]
    BY DEF NothingFound
  <2> QED
    BY <1>3, <2>1 DEF Leave, LoopTypeOK
<1>4. pos[r] \in DOMAIN Records => pos[r] + 1 \in 1..(Len(Records) + 1)
  BY <1>1
<1>5. pos[r] \in DOMAIN Records /\ NextRecord(r) => LoopTypeOK'
  BY <1>3, <1>4 DEF NextRecord
<1>6. Abort(r) => LoopTypeOK'
  BY <1>1, <1>3 DEF Abort
<1>7. stage[r] \in AtRecord => pos[r] \in DOMAIN Records
  BY DEF Held, Known
<1>8. CASE Start(r) \/ Skip(r) \/ Finish(r)
  BY <1>2, <1>5, <1>8 DEF Start, Skip, Finish
<1>9. ASSUME NEW x \in BOOLEAN, SensorLookup(r, x)
      PROVE  LoopTypeOK'
  <2>1. [sensor |-> x, device |-> FALSE] \in
          [sensor : BOOLEAN, device : BOOLEAN]
    OBVIOUS
  <2>2. HasDevice(Rec(r).device) \in BOOLEAN
    BY DEF HasDevice
  <2>3. found' \in [Seeders -> [sensor : BOOLEAN, device : BOOLEAN]]
    BY <1>9, <2>1, Zenon DEF SensorLookup, LoopTypeOK
  <2>4. present' \in [Seeders -> BOOLEAN]
    BY <1>9, <2>2, Zenon DEF SensorLookup, LoopTypeOK
  <2> QED
    BY <1>9, <2>3, <2>4 DEF SensorLookup, LoopTypeOK
<1>10. ASSUME NEW x \in BOOLEAN, DeviceLookup(r, x)
       PROVE  LoopTypeOK'
  <2>1. [sensor |-> found[r].sensor, device |-> x] \in
          [sensor : BOOLEAN, device : BOOLEAN]
    BY DEF LoopTypeOK
  <2>2. found' \in [Seeders -> [sensor : BOOLEAN, device : BOOLEAN]]
    BY <1>10, <2>1, Zenon DEF DeviceLookup, LoopTypeOK
  <2> QED
    BY <1>10, <2>2 DEF DeviceLookup, LoopTypeOK
<1>11. CASE LookSensor(r) \/ LookDevice(r) \/ ReadFails(r)
  <2>1. /\ HasSensor(Rec(r).sensor) \in BOOLEAN
        /\ Visible(Rec(r).device, ValidTenants[r]) \in BOOLEAN
    BY DEF HasSensor, Visible, HasDevice
  <2> QED
    BY <1>9, <1>10, <1>11, <2>1, Zenon
    DEF LookSensor, LookDevice, ReadFails, LookSensorFails, LookDeviceFails
<1>12. CASE SeedSensor(r) \/ SeedDevice(r)
  BY <1>2, <1>5, <1>7, <1>12 DEF SeedSensor, SeedDevice, AtRecord
<1>13. CASE SensorSeeded(r) \/ DeviceSeeded(r)
  BY <1>2, <1>5, <1>6, <1>7, <1>13 DEF SensorSeeded, DeviceSeeded, AtRecord
<1>14. CASE StorageStep(r)
  BY <1>14 DEF StorageStep, loop, LoopTypeOK
<1>15. CASE Crash(r)
  BY <1>1, <1>3, <1>15 DEF Crash
<1> QED
  BY <1>8, <1>11, <1>12, <1>13, <1>14, <1>15 DEF Seed

\* When a seeder goes to the next record, what it knows of the present one is
\* what has to be known of those behind it.
LEMMA NextRecordHolds ==
    ASSUME LoopTypeOK, NEW r \in Seeders, Held(r), UNCHANGED vars,
           NextRecord(r), stage[r] \in AtRecord \cup {"lookSensor"},
           pos[r] \in DOMAIN Records, phase[r] = "idle",
           Allowed(r, Rec(r)) =>
               HasSensor(Rec(r).sensor) /\ HasDevice(Rec(r).device)
    PROVE  Held(r)'
<1> USE DEF Leave, NextRecord, LoopTypeOK
<1>1. /\ stage'[r] = "lookSensor" /\ pos'[r] = pos[r] + 1
      /\ found'[r] = NothingFound /\ phase'[r] = "idle"
  BY DEF vars
<1>2. Known(r)'
  BY <1>1 DEF Known, AtRecord, NothingFound
<1>3. Calling(r)'
  BY <1>1 DEF Calling
<1>4. Behind(r)'
  <2> SUFFICES ASSUME NEW i \in DOMAIN Records, Passed(r, i)'
               PROVE  HasSensor(Records[i].sensor)'
                      /\ HasDevice(Records[i].device)'
    BY DEF Behind
  <2>1. i < pos[r] + 1 /\ Allowed(r, Records[i])
    BY <1>1 DEF Passed, Allowed
  <2>2. i \in Nat /\ pos[r] \in Nat
    BY RecordsAreRecords
  <2>3. CASE i < pos[r]
    <3>1. Passed(r, i)
      BY <2>1, <2>3 DEF Passed, AtRecord
    <3> QED
      BY <3>1 DEF Held, Behind, HasSensor, HasDevice, vars
  <2>4. CASE i = pos[r]
    BY <2>1, <2>4 DEF Rec, HasSensor, HasDevice, vars
  <2> QED
    BY <2>1, <2>2, <2>3, <2>4
<1> QED
  BY <1>2, <1>3, <1>4 DEF Held

\* A seeder that ends knows nothing any more.
LEMMA EndedHolds ==
    ASSUME LoopTypeOK, NEW r \in Seeders, NEW s \in {"aborted", "crashed"},
           Leave(r, s, 1), phase'[r] = "idle"
    PROVE  Held(r)'
<1>1. stage'[r] = s /\ found'[r] = NothingFound
  BY DEF Leave, LoopTypeOK
<1>2. pos'[r] = 1
  BY DEF Leave, LoopTypeOK
<1> QED
  BY <1>1, <1>2 DEF Held, Known, Calling, Behind, Passed, AtRecord,
                    NothingFound

\* A storage step of the call in progress.
LEMMA StorageStepHolds ==
    ASSUME IInv, LoopTypeOK, NEW r \in Seeders, Held(r), RowsStay,
           StorageStep(r)
    PROVE  Held(r)'
<1> USE DEF AtRecord
<1>1. /\ stage'[r] = stage[r] /\ pos'[r] = pos[r] /\ found'[r] = found[r]
      /\ Step(r) /\ r \in Requests /\ Rec(r)' = Rec(r)
  BY SeedersAreRequests DEF StorageStep, loop, Rec
<1>2. phase[r] # "idle" /\ call'[r] = call[r]
  BY <1>1, AnswerGiven, StepMovesRequest DEF Advance, Answer
<1>3. stage[r] \in {"sensorCall", "deviceCall"} /\ pos[r] \in DOMAIN Records
  BY <1>2 DEF Held, Calling, Known
<1>4. Rec(r).sensor \in SensorIds /\ Rec(r).device \in DeviceIds
  BY <1>3, RecordFields DEF Rec
<1>5. Known(r)'
  BY <1>1, <1>3, <1>4 DEF Held, Known, RowsStay
<1>6. Behind(r)'
  BY <1>1, RecordFields DEF Held, Behind, RowsStay, Passed, Allowed
<1>7. Calling(r)'
  <2>1. CASE stage[r] = "sensorCall"
    <3>1. /\ call[r] \in {CreateSensorOf(Rec(r)), UpdateSensorOf(Rec(r))}
          /\ call[r].op \in {"CreateSensor", "UpdateSensor"}
          /\ call[r].sensor = Rec(r).sensor
      BY <2>1 DEF Held, Calling, CreateSensorOf, UpdateSensorOf
    <3>2. phase'[r] = "idle" /\ reply'[r] = "ok" => HasSensor(Rec(r).sensor)'
      BY <1>1, <1>2, <1>4, <3>1, SensorCallOk DEF HasSensor
    <3> QED
      BY <1>1, <1>2, <2>1, <3>1, <3>2
      DEF Calling, CreateSensorOf, UpdateSensorOf
  <2>2. CASE stage[r] = "deviceCall"
    <3>1. /\ call[r] \in {CreateDeviceOf(Rec(r)), UpdateDeviceOf(Rec(r))}
          /\ phase[r] # "setTypes"
          /\ \/ call[r].op = "CreateDevice" /\ call[r].profileTypes = {}
             \/ call[r].op = "UpdateDevice"
          /\ call[r].device = Rec(r).device
      BY <2>2 DEF Held, Calling, CreateDeviceOf, UpdateDeviceOf
    <3>2. phase'[r] = "idle" /\ reply'[r] = "ok" => HasDevice(Rec(r).device)'
      BY <1>1, <1>2, <1>4, <3>1, DeviceCallOk DEF HasDevice
    <3>3. phase'[r] # "setTypes"
      BY <1>1, <3>1, NoTypesToSet DEF IInv
    <3> QED
      BY <1>1, <1>2, <2>2, <3>1, <3>2, <3>3
      DEF Calling, CreateDeviceOf, UpdateDeviceOf
  <2> QED
    BY <1>3, <2>1, <2>2
<1> QED
  BY <1>5, <1>6, <1>7 DEF Held

\* The beginning of a call, which changes no row.
LEMMA BeginHolds ==
    ASSUME TypeOK, LoopTypeOK, NEW r \in Seeders, Held(r), RowsStay,
           \/ /\ stage[r] = "sensor" /\ Goto(r, "sensorCall")
              /\ \E c \in SensorCallsFor(r) : Begin(r, c)
           \/ /\ stage[r] = "device" /\ Goto(r, "deviceCall")
              /\ \E c \in DeviceCallsFor(r) : Begin(r, c)
    PROVE  Held(r)'
<1> USE DEF AtRecord
<1>1. /\ stage[r] = "sensor" => stage'[r] = "sensorCall"
      /\ stage[r] = "device" => stage'[r] = "deviceCall"
      /\ stage[r] \in {"sensor", "device"}
      /\ pos'[r] = pos[r] /\ found'[r] = found[r] /\ Rec(r)' = Rec(r)
  BY DEF Goto, LoopTypeOK, Rec
<1>2. phase'[r] \in {"readSensor", "queryDevice"} /\ UNCHANGED tables
  BY SeedersAreRequests DEF Begin, BeginCall, TypeOK
<1>3. Known(r)'
  BY <1>1, <1>2 DEF Held, Known, HasSensor, HasDevice, tables
<1>4. Behind(r)'
  BY <1>1, <1>2, RecordFields DEF Held, Behind, RowsStay, Passed, Allowed
<1>5. Calling(r)'
  BY <1>1, <1>2 DEF Calling, Begin, SensorCallsFor, DeviceCallsFor, CallsFor,
                    CreateSensorOf, UpdateSensorOf, CreateDeviceOf,
                    UpdateDeviceOf
<1> QED
  BY <1>3, <1>4, <1>5 DEF Held

\* Every other step to a next stage, which touches neither rows nor the call.
LEMMA GotoHolds ==
    ASSUME LoopTypeOK, NEW r \in Seeders, Held(r), UNCHANGED vars,
           NEW s \in Stages \ {"sensorCall", "deviceCall"}, stage'[r] = s,
           pos'[r] = pos[r], phase[r] = "idle",
           s \in AtRecord => pos[r] \in DOMAIN Records,
           s \notin AtRecord => found'[r] = NothingFound,
           found'[r].sensor => HasSensor(Rec(r).sensor),
           found'[r].device => HasDevice(Rec(r).device),
           s = "device" => HasSensor(Rec(r).sensor),
           s \in {"lookSensor", "stopped", "crashed", "aborted"} => pos[r] = 1,
           stage[r] \in AtRecord \cup {"lookSensor"} \/ pos[r] = 1
    PROVE  Held(r)'
<1>1. Rec(r)' = Rec(r) /\ phase'[r] = "idle" /\ UNCHANGED tables
  BY DEF Rec, vars, tables
<1>2. Known(r)'
  BY <1>1 DEF Known, HasSensor, HasDevice, tables
<1>3. Calling(r)'
  BY <1>1 DEF Calling
<1>4. Behind(r)'
  <2> SUFFICES ASSUME NEW i \in DOMAIN Records, Passed(r, i)'
               PROVE  HasSensor(Records[i].sensor)'
                      /\ HasDevice(Records[i].device)'
    BY DEF Behind
  <2>1. i \in Nat /\ i >= 1
    BY RecordsAreRecords
  <2>2. Passed(r, i)
    BY <2>1 DEF Passed, Allowed, AtRecord
  <2> QED
    BY <1>1, <2>2 DEF Held, Behind, HasSensor, HasDevice, tables
<1> QED
  BY <1>2, <1>3, <1>4 DEF Held

\* Every step of a seeder keeps what it knows.
LEMMA SeedHolds ==
    ASSUME IInv, LoopTypeOK, NEW r \in Seeders, Held(r), RowsStay, Seed(r)
    PROVE  Held(r)'
<1> USE DEF AtRecord
<1>1. stage[r] \notin {"sensorCall", "deviceCall"} => phase[r] = "idle"
  BY DEF Held, Calling
<1>2. CASE Start(r)
  BY <1>1, <1>2, GotoHolds
  DEF Start, Goto, LoopTypeOK, Stages, Held, Known, NothingFound
<1>3. CASE Skip(r)
  BY <1>1, <1>3, NextRecordHolds DEF Skip
<1>4. CASE Finish(r)
  BY <1>1, <1>4, GotoHolds
  DEF Finish, Goto, LoopTypeOK, Stages, Held, Known, NothingFound
<1>5. CASE LookSensor(r) \/ LookSensorFails(r)
  <2>1. /\ stage[r] = "lookSensor" /\ pos[r] \in DOMAIN Records
        /\ stage'[r] = "lookDevice" /\ pos'[r] = pos[r] /\ UNCHANGED vars
    BY <1>5 DEF LookSensor, LookSensorFails, SensorLookup, LoopTypeOK
  <2>2. \/ found'[r] = [sensor |-> HasSensor(Rec(r).sensor), device |-> FALSE]
        \/ found'[r] = [sensor |-> FALSE, device |-> FALSE]
    BY <1>5, Zenon DEF LookSensor, LookSensorFails, SensorLookup, LoopTypeOK
  <2>3. found'[r].sensor => HasSensor(Rec(r).sensor)
    BY <2>2
  <2>4. ~found'[r].device
    BY <2>2
  <2> QED
    BY <1>1, <2>1, <2>3, <2>4, GotoHolds DEF Stages
<1>6. CASE LookDevice(r) \/ LookDeviceFails(r)
  BY <1>1, <1>6, GotoHolds
  DEF LookDevice, LookDeviceFails, DeviceLookup, LoopTypeOK, Stages, Held,
      Known, Visible
<1>7. CASE SeedSensor(r)
  <2>1. CASE SensorCallsFor(r) = {} /\ Goto(r, "device") /\ UNCHANGED vars
    <3>1. found[r].sensor
      BY <2>1 DEF SensorCallsFor, CallsFor
    <3> QED
      BY <1>1, <1>7, <2>1, <3>1, GotoHolds
      DEF SeedSensor, Goto, LoopTypeOK, Stages, Held, Known
  <2> QED
    BY <1>7, <2>1, BeginHolds DEF SeedSensor, IInv
<1>8. CASE SeedDevice(r)
  <2>1. CASE DeviceCallsFor(r) = {} /\ NextRecord(r) /\ UNCHANGED vars
    <3>1. found[r].device
      BY <2>1 DEF DeviceCallsFor, CallsFor
    <3> QED
      BY <1>1, <1>8, <2>1, <3>1, NextRecordHolds DEF SeedDevice, Held, Known
  <2> QED
    BY <1>8, <2>1, BeginHolds DEF SeedDevice, IInv
<1>9. CASE SensorSeeded(r)
  <2>1. CASE reply[r] = "ok"
    BY <1>9, <2>1, GotoHolds
    DEF SensorSeeded, Goto, LoopTypeOK, Stages, Held, Known, Calling
  <2>2. CASE reply[r] # "ok"
    BY <1>9, <2>2, EndedHolds DEF SensorSeeded, Abort, vars
  <2> QED
    BY <2>1, <2>2
<1>10. CASE DeviceSeeded(r)
  <2>1. CASE reply[r] = "ok"
    BY <1>10, <2>1, NextRecordHolds DEF DeviceSeeded, Held, Known, Calling
  <2>2. CASE reply[r] # "ok"
    BY <1>10, <2>2, EndedHolds DEF DeviceSeeded, Abort, vars
  <2> QED
    BY <2>1, <2>2
<1>11. CASE StorageStep(r)
  BY <1>11, StorageStepHolds
<1>12. CASE Crash(r)
  <2>1. phase'[r] = "idle"
    BY <1>12, SeedersAreRequests DEF Crash, StorageFails, Answer, vars, IInv,
                                     TypeOK
  <2> QED
    BY <1>12, <2>1, EndedHolds DEF Crash
<1> QED
  BY <1>2, <1>3, <1>4, <1>5, <1>6, <1>7, <1>8, <1>9, <1>10, <1>11, <1>12
  DEF Seed, ReadFails

-----------------------------------------------------------------------------
(***************************************************************************)
(* The theorems.                                                           *)
(***************************************************************************)
LEMMA SeedInitInvariant ==
    ASSUME SeedInit
    PROVE  SeedInv
<1>1. Len(Records) \in Nat /\ DOMAIN Records = 1..Len(Records)
  BY RecordsAreRecords
<1>2. NothingFound \in [sensor : BOOLEAN, device : BOOLEAN]
  BY DEF NothingFound
<1>3. LoopTypeOK
  BY <1>1, <1>2 DEF SeedInit, LoopTypeOK, Stages
<1>4. ASSUME NEW r \in Seeders
      PROVE  Held(r)
  <2>1. stage[r] = "stopped" /\ found[r] = NothingFound /\ phase[r] = "idle"
        /\ pos[r] = 1
    BY SeedersAreRequests DEF SeedInit, Init
  <2> QED
    BY <2>1 DEF Held, Known, Calling, Behind, Passed, AtRecord, NothingFound
<1> QED
  BY <1>3, <1>4 DEF SeedInv

LEMMA SeedNextInvariant ==
    ASSUME IInv, SeedInv, [SeedNext]_seedVars
    PROVE  SeedInv'
<1>1. RowsStay
  BY SeedStepIsRegistryStep, RowsAreKept
<1>2. LoopTypeOK /\ TypeOK /\ \A r \in Seeders : Held(r)
  BY DEF SeedInv, IInv
<1>3. CASE UNCHANGED seedVars
  <2>1. UNCHANGED vars /\ UNCHANGED loop
    BY <1>3 DEF seedVars
  <2>2. LoopTypeOK'
    BY <1>2, <2>1 DEF LoopTypeOK, loop
  <2>3. ASSUME NEW r \in Seeders
        PROVE  Held(r)'
    BY <1>1, <1>2, <2>1, UnmovedHolds DEF vars, loop
  <2> QED
    BY <2>2, <2>3 DEF SeedInv
<1>4. ASSUME NEW q \in Seeders, Seed(q)
      PROVE  SeedInv'
  <2>1. LoopTypeOK'
    BY <1>2, <1>4, LoopTypePreserved
  <2>2. Held(q)'
    BY <1>1, <1>2, <1>4, SeedHolds
  <2>3. ASSUME NEW r \in Seeders \ {q}
        PROVE  Held(r)'
    BY <1>1, <1>2, <1>4, SeedMovesOne, UnmovedHolds
  <2> QED
    BY <2>1, <2>2, <2>3 DEF SeedInv
<1>5. ASSUME NEW q \in Requests \ Seeders, Client(q)
      PROVE  SeedInv'
  <2>1. UNCHANGED loop /\ (Step(q) \/ BeginCall(q))
    BY <1>5 DEF Client, Begin
  <2>2. LoopTypeOK'
    BY <1>2, <2>1 DEF LoopTypeOK, loop
  <2>3. ASSUME NEW r \in Seeders
        PROVE  Held(r)'
    <3>1. phase'[r] = phase[r] /\ call'[r] = call[r] /\ reply'[r] = reply[r]
      BY <1>2, <2>1, OthersStay, SeedersAreRequests
    <3> QED
      BY <1>1, <1>2, <2>1, <3>1, UnmovedHolds DEF loop
  <2> QED
    BY <2>2, <2>3 DEF SeedInv
<1> QED
  BY <1>3, <1>4, <1>5 DEF SeedNext

LEMMA SeedInvariance == SeedSpec => []SeedInv
<1>1. SeedInit => SeedInv
  BY SeedInitInvariant
<1>2. IInv /\ SeedInv /\ [SeedNext]_seedVars => SeedInv'
  BY SeedNextInvariant
<1> QED
  BY <1>1, <1>2, RegistryInvariance, PTL DEF SeedSpec

\* Seeders are well formed and only in a call where the loop makes one, for any
\* file and any number of seeders and clients.
THEOREM SeedTypeCorrect == SeedSpec => []SeedTypeOK
<1>1. IInv /\ SeedInv => SeedTypeOK
  BY DEF IInv, SeedInv, SeedTypeOK, LoopTypeOK, Held, Calling
<1> QED
  BY <1>1, RegistryInvariance, SeedInvariance, PTL

\* A seeder that is through with an allowed record leaves its sensor and its
\* device behind, whatever fails, crashes or races with it.
THEOREM SeedingIsComplete == SeedSpec => []PassedMeansSeeded
<1>1. SeedInv => PassedMeansSeeded
  BY DEF SeedInv, Held, Behind, PassedMeansSeeded
<1> QED
  BY <1>1, SeedInvariance, PTL
-----------------------------------------------------------------------------
(***************************************************************************)
(* Seeding without SEED_EXISTING_DEVICES.                                  *)
(***************************************************************************)
\* What keeps a device that was there when its record came up: it still is, the
\* calls of the seeder are creates, and they do not get past their check.
Careful(r) ==
    /\ present[r] => stage[r] \in AtRecord /\ HasDevice(Rec(r).device)
    /\ stage[r] = "sensorCall" => call[r] = CreateSensorOf(Rec(r))
    /\ stage[r] = "deviceCall" =>
         /\ call[r] = CreateDeviceOf(Rec(r))
         /\ present[r] => phase[r] \in {"idle", "queryDevice"}

KeepInv == ~ShouldUpdate => \A r \in Seeders : Careful(r)

LEMMA UnmovedCareful ==
    ASSUME NEW r \in Seeders, Known(r), Careful(r), RowsStay,
           stage'[r] = stage[r], pos'[r] = pos[r], present'[r] = present[r],
           phase'[r] = phase[r], call'[r] = call[r]
    PROVE  Careful(r)'
<1>1. Rec(r)' = Rec(r)
  BY DEF Rec
<1>2. stage[r] \in AtRecord => Rec(r).device \in DeviceIds
  BY RecordFields DEF Known, Rec
<1> QED
  BY <1>1, <1>2 DEF Careful, RowsStay, AtRecord, CreateSensorOf, CreateDeviceOf

\* A create asks for the device first, and stops there when it finds it.
LEMMA CreateStops ==
    ASSUME TypeOK, NEW r \in Requests, Step(r), call[r].op = "CreateDevice",
           phase[r] = "queryDevice", HasDevice(call[r].device)
    PROVE  UNCHANGED tables /\ phase'[r] = "idle"
<1> USE DEF At, Advance, Answer, AnswerCommitted
<1>0. r \in DOMAIN phase
  BY DEF TypeOK
<1>1. CASE CheckCreate(r)
  BY <1>0, <1>1 DEF CheckCreate
<1>2. CASE CheckUpdate(r) \/ CheckMerge(r) \/ CheckAttach(r) \/ CheckDetach(r)
  BY <1>2 DEF CheckUpdate, CheckMerge, CheckAttach, CheckDetach, CheckVisible
<1>3. CASE GetSensor(r) \/ GetHolder(r) \/ CheckSensorCall(r)
  BY <1>3 DEF GetSensor, GetHolder, CheckSensorCall
<1>4. CASE UpsertDevice(r) \/ MergeColumns(r) \/ SetDeviceProfileTypes(r)
  BY <1>4 DEF UpsertDevice, MergeColumns, SetDeviceProfileTypes
<1>5. CASE \/ AssignSensor(r) \/ UnassignSensor(r) \/ InsertSensor(r)
           \/ UpdateSensor(r)
  BY <1>5 DEF AssignSensor, UnassignSensor, InsertSensor, UpdateSensor
<1>6. CASE StorageFails(r)
  BY <1>0, <1>6 DEF StorageFails
<1> QED
  BY <1>1, <1>2, <1>3, <1>4, <1>5, <1>6 DEF Step

\* The create of a sensor writes no device, and no sensor that is there; the
\* create of a device writes no sensor.
LEMMA CreatesKeepSensors ==
    ASSUME TypeOK, NEW r \in Requests, Step(r)
    PROVE  /\ call[r].op = "CreateSensor" =>
                /\ devices' = devices \/ phase[r] = "setTypes"
                /\ \A s \in SensorIds : HasSensor(s) => sensors'[s] = sensors[s]
           /\ call[r].op = "CreateDevice" => sensors' = sensors
<1> USE DEF At
<1>1. CASE \/ CheckCreate(r) \/ CheckUpdate(r) \/ CheckMerge(r)
           \/ CheckAttach(r) \/ CheckDetach(r)
  BY <1>1 DEF CheckCreate, CheckUpdate, CheckMerge, CheckAttach, CheckDetach,
              CheckVisible, tables
<1>2. CASE GetSensor(r) \/ GetHolder(r) \/ CheckSensorCall(r) \/ StorageFails(r)
  BY <1>2 DEF GetSensor, GetHolder, CheckSensorCall, StorageFails, tables
<1>3. CASE UpsertDevice(r) \/ MergeColumns(r) \/ SetDeviceProfileTypes(r)
  BY <1>3 DEF UpsertDevice, MergeColumns, SetDeviceProfileTypes
<1>4. CASE AssignSensor(r) \/ UnassignSensor(r) \/ UpdateSensor(r)
  BY <1>4 DEF AssignSensor, UnassignSensor, UpdateSensor
<1>5. CASE InsertSensor(r)
  BY <1>5 DEF InsertSensor, TypeOK, HasSensor
<1> QED
  BY <1>1, <1>2, <1>3, <1>4, <1>5 DEF Step

\* A storage step of a seeder.
LEMMA StorageStepCareful ==
    ASSUME IInv, SeedInv, RowsStay, NEW r \in Seeders, Careful(r), StorageStep(r)
    PROVE  /\ Careful(r)'
           /\ \A s \in SensorIds : HasSensor(s) => sensors'[s] = sensors[s]
           /\ present[r] => devices'[Rec(r).device] = devices[Rec(r).device]
<1>1. /\ stage'[r] = stage[r] /\ pos'[r] = pos[r] /\ present'[r] = present[r]
      /\ Step(r) /\ r \in Requests /\ Rec(r)' = Rec(r)
      /\ TypeOK /\ LoopTypeOK /\ Known(r) /\ Calling(r)
  BY SeedersAreRequests DEF StorageStep, loop, Rec, IInv, SeedInv, Held
<1>2. phase[r] # "idle" /\ call'[r] = call[r]
  BY <1>1, AnswerGiven, StepMovesRequest DEF Advance, Answer
<1>3. stage[r] \in {"sensorCall", "deviceCall"} /\ pos[r] \in DOMAIN Records
  BY <1>1, <1>2 DEF Calling, Known, AtRecord
<1>4. Rec(r).sensor \in SensorIds /\ Rec(r).device \in DeviceIds
  BY <1>3, RecordFields DEF Rec
<1>5. CASE stage[r] = "sensorCall"
  <2>1. call[r] = CreateSensorOf(Rec(r)) /\ call[r].op = "CreateSensor"
    BY <1>5 DEF Careful, CreateSensorOf
  <2>2. phase[r] # "setTypes"
    BY <1>1, <2>1 DEF TypeOK
  <2>3. /\ devices' = devices
        /\ \A s \in SensorIds : HasSensor(s) => sensors'[s] = sensors[s]
    BY <1>1, <2>1, <2>2, CreatesKeepSensors
  <2> QED
    BY <1>1, <1>2, <1>4, <1>5, <2>1, <2>3
    DEF Careful, RowsStay, HasDevice, AtRecord, CreateSensorOf
<1>6. CASE stage[r] = "deviceCall"
  <2>1. /\ call[r] = CreateDeviceOf(Rec(r)) /\ call[r].op = "CreateDevice"
        /\ call[r].device = Rec(r).device
    BY <1>6 DEF Careful, CreateDeviceOf
  <2>2. sensors' = sensors
    BY <1>1, <2>1, CreatesKeepSensors
  <2>3. present[r] => UNCHANGED tables /\ phase'[r] = "idle"
    BY <1>1, <1>2, <1>6, <2>1, CreateStops DEF Careful
  <2>4. Careful(r)'
    BY <1>1, <1>2, <1>4, <1>6, <2>1, <2>3
    DEF Careful, RowsStay, AtRecord, CreateDeviceOf
  <2> QED
    BY <2>2, <2>3, <2>4 DEF tables
<1> QED
  BY <1>3, <1>5, <1>6

\* The other steps of a seeder write no row.
LEMMA OtherSeedStepCareful ==
    ASSUME IInv, SeedInv, RowsStay, ~ShouldUpdate, NEW r \in Seeders, Careful(r),
           Seed(r), ~StorageStep(r)
    PROVE  Careful(r)' /\ UNCHANGED tables
<1> USE DEF AtRecord
<1>0. TypeOK /\ LoopTypeOK /\ Known(r) /\ Calling(r) /\ r \in Requests
  BY SeedersAreRequests DEF IInv, SeedInv, Held
<1>1. ASSUME NEW s, NEW p, Leave(r, s, p), s \notin AtRecord
      PROVE  Careful(r)'
  BY <1>0, <1>1 DEF Leave, LoopTypeOK, Careful
<1>2. ASSUME NEW s \in Stages \ {"sensorCall", "deviceCall"}, Goto(r, s),
             stage[r] \in AtRecord => s \in AtRecord, UNCHANGED tables
      PROVE  Careful(r)'
  <2>1. stage'[r] = s /\ present'[r] = present[r] /\ Rec(r)' = Rec(r)
    BY <1>0, <1>2 DEF Goto, LoopTypeOK, Rec
  <2> QED
    BY <1>2, <2>1 DEF Careful, HasDevice, tables
<1>3. CASE Start(r) \/ Finish(r)
  BY <1>2, <1>3 DEF Start, Finish, vars, tables, Stages
<1>4. CASE Skip(r)
  BY <1>1, <1>4 DEF Skip, NextRecord, vars, tables
<1>5. CASE LookSensor(r) \/ LookSensorFails(r)
  <2>1. /\ stage'[r] = "lookDevice" /\ present'[r] = HasDevice(Rec(r).device)
        /\ pos' = pos /\ UNCHANGED vars
    BY <1>0, <1>5 DEF LookSensor, LookSensorFails, SensorLookup, LoopTypeOK
  <2>2. Rec(r)' = Rec(r) /\ UNCHANGED tables
    BY <2>1 DEF Rec, vars, tables
  <2> QED
    BY <2>1, <2>2 DEF Careful, HasDevice, tables
<1>6. CASE LookDevice(r) \/ LookDeviceFails(r)
  <2>1. /\ stage[r] = "lookDevice" /\ stage'[r] = "sensor" /\ present' = present
        /\ pos' = pos /\ UNCHANGED vars
    BY <1>0, <1>6 DEF LookDevice, LookDeviceFails, DeviceLookup, LoopTypeOK
  <2>2. Rec(r)' = Rec(r) /\ UNCHANGED tables
    BY <2>1 DEF Rec, vars, tables
  <2> QED
    BY <2>1, <2>2 DEF Careful, HasDevice, tables
<1>7. ASSUME NEW c, NEW s \in {"sensorCall", "deviceCall"}, Begin(r, c), Goto(r, s),
             s = "sensorCall" => c = CreateSensorOf(Rec(r)),
             s = "deviceCall" => c = CreateDeviceOf(Rec(r))
      PROVE  Careful(r)' /\ UNCHANGED tables
  <2>1. /\ stage'[r] = s /\ present'[r] = present[r] /\ Rec(r)' = Rec(r)
        /\ call'[r] = c /\ UNCHANGED tables
    BY <1>0, <1>7 DEF Goto, LoopTypeOK, Rec, Begin, BeginCall
  <2>2. c.op = "CreateDevice" => phase'[r] = "queryDevice"
    BY <1>0, <1>7 DEF Begin, BeginCall, SensorOps, TypeOK
  <2> QED
    BY <1>7, <2>1, <2>2
    DEF Careful, HasDevice, tables, CreateSensorOf, CreateDeviceOf
<1>8. CASE SeedSensor(r)
  <2>1. CASE SensorCallsFor(r) = {} /\ Goto(r, "device") /\ UNCHANGED vars
    BY <1>2, <2>1 DEF vars, tables, Stages
  <2>2. ASSUME NEW c \in SensorCallsFor(r), Begin(r, c), Goto(r, "sensorCall")
        PROVE  Careful(r)' /\ UNCHANGED tables
    <3>1. c = CreateSensorOf(Rec(r))
      BY <2>2 DEF SensorCallsFor, CallsFor
    <3> QED
      BY <1>7, <2>2, <3>1
  <2> QED
    BY <1>8, <2>1, <2>2 DEF SeedSensor
<1>9. CASE SeedDevice(r)
  <2>1. CASE NextRecord(r) /\ UNCHANGED vars
    BY <1>1, <2>1 DEF NextRecord, vars, tables
  <2>2. ASSUME NEW c \in DeviceCallsFor(r), Begin(r, c), Goto(r, "deviceCall")
        PROVE  Careful(r)' /\ UNCHANGED tables
    <3>1. c = CreateDeviceOf(Rec(r))
      BY <2>2 DEF DeviceCallsFor, CallsFor
    <3> QED
      BY <1>7, <2>2, <3>1
  <2> QED
    BY <1>9, <2>1, <2>2 DEF SeedDevice
<1>10. CASE SensorSeeded(r)
  <2>1. UNCHANGED tables /\ (Goto(r, "device") \/ Abort(r))
    BY <1>10 DEF SensorSeeded, vars, tables
  <2> QED
    BY <1>1, <1>2, <2>1 DEF Abort, Stages
<1>11. CASE DeviceSeeded(r)
  <2>1. UNCHANGED tables /\ (NextRecord(r) \/ Abort(r))
    BY <1>11 DEF DeviceSeeded, vars, tables
  <2> QED
    BY <1>1, <2>1 DEF NextRecord, Abort
<1>12. CASE Crash(r)
  BY <1>1, <1>12 DEF Crash, StorageFails, vars, tables
<1> QED
  BY <1>3, <1>4, <1>5, <1>6, <1>8, <1>9, <1>10, <1>11, <1>12 DEF Seed, ReadFails

\* One seeder's step leaves what another has noted of its record.
LEMMA PresentOfOthers ==
    ASSUME LoopTypeOK, NEW q \in Seeders, Seed(q), NEW r \in Seeders \ {q}
    PROVE  present'[r] = present[r]
<1> USE DEF Goto, Leave, LoopTypeOK, NextRecord, Abort
<1>1. CASE Start(q) \/ Skip(q) \/ Finish(q)
  BY <1>1 DEF Start, Skip, Finish
<1>2. CASE LookSensor(q) \/ LookDevice(q) \/ ReadFails(q)
  BY <1>2 DEF LookSensor, LookDevice, ReadFails, LookSensorFails,
              LookDeviceFails, SensorLookup, DeviceLookup
<1>3. CASE SeedSensor(q) \/ SeedDevice(q)
  BY <1>3 DEF SeedSensor, SeedDevice
<1>4. CASE SensorSeeded(q) \/ DeviceSeeded(q)
  BY <1>4 DEF SensorSeeded, DeviceSeeded
<1>5. CASE StorageStep(q) \/ Crash(q)
  BY <1>5 DEF StorageStep, loop, Crash
<1> QED
  BY <1>1, <1>2, <1>3, <1>4, <1>5 DEF Seed

LEMMA KeepNext ==
    ASSUME IInv, SeedInv, KeepInv, [SeedNext]_seedVars
    PROVE  KeepInv'
<1> SUFFICES ASSUME ~ShouldUpdate, NEW r \in Seeders
             PROVE  Careful(r)'
  BY DEF KeepInv
<1>1. /\ RowsStay /\ Careful(r) /\ Known(r) /\ TypeOK /\ LoopTypeOK
      /\ r \in Requests
  BY SeedStepIsRegistryStep, RowsAreKept, SeedersAreRequests
  DEF KeepInv, SeedInv, Held, IInv
<1>2. CASE UNCHANGED seedVars
  BY <1>1, <1>2, UnmovedCareful DEF seedVars, vars, loop
<1>3. CASE Seed(r)
  BY <1>1, <1>3, StorageStepCareful, OtherSeedStepCareful
<1>4. ASSUME NEW q \in Seeders \ {r}, Seed(q)
      PROVE  Careful(r)'
  BY <1>1, <1>4, SeedMovesOne, PresentOfOthers, UnmovedCareful
<1>5. ASSUME NEW q \in Requests \ Seeders, Client(q)
      PROVE  Careful(r)'
  <2>1. UNCHANGED loop /\ (Step(q) \/ BeginCall(q))
    BY <1>5 DEF Client, Begin
  <2>2. phase'[r] = phase[r] /\ call'[r] = call[r]
    BY <1>1, <2>1, OthersStay
  <2> QED
    BY <1>1, <2>1, <2>2, UnmovedCareful DEF loop
<1> QED
  BY <1>2, <1>3, <1>4, <1>5 DEF SeedNext

LEMMA KeepInvariance == SeedSpec => []KeepInv
<1>1. SeedInit => KeepInv
  BY DEF SeedInit, KeepInv, Careful
<1>2. IInv /\ SeedInv /\ KeepInv /\ [SeedNext]_seedVars => KeepInv'
  BY KeepNext
<1> QED
  BY <1>1, <1>2, RegistryInvariance, SeedInvariance, PTL DEF SeedSpec

\* Without the flag a seeder changes no sensor that is there and no device that
\* was there when its record came up, for any file, whatever its lookups miss.
THEOREM ExistingRowsAreKept == SeedSpec => SeedingKeepsExisting
<1>1. ASSUME IInv, SeedInv, KeepInv, [SeedNext]_seedVars, ~ShouldUpdate,
             NEW r \in Seeders, phase'[r] # phase[r]
      PROVE  /\ \A s \in SensorIds : HasSensor(s) => sensors'[s] = sensors[s]
             /\ present[r] => devices'[Rec(r).device] = devices[Rec(r).device]
  <2>1. RowsStay /\ Careful(r) /\ TypeOK /\ LoopTypeOK /\ r \in Requests
    BY <1>1, SeedStepIsRegistryStep, RowsAreKept, SeedersAreRequests
    DEF KeepInv, SeedInv, IInv
  <2>2. Seed(r)
    <3>1. ASSUME NEW q \in Seeders \ {r}, Seed(q)
          PROVE  FALSE
      BY <1>1, <2>1, <3>1, SeedMovesOne
    <3>2. ASSUME NEW q \in Requests \ Seeders, Client(q)
          PROVE  FALSE
      BY <1>1, <2>1, <3>2, OthersStay DEF Client, Begin
    <3>3. ~UNCHANGED seedVars
      BY <1>1 DEF seedVars, vars
    <3> QED
      BY <1>1, <3>1, <3>2, <3>3 DEF SeedNext
  <2>3. CASE StorageStep(r)
    BY <1>1, <2>1, <2>3, StorageStepCareful
  <2>4. CASE ~StorageStep(r)
    BY <1>1, <2>1, <2>2, <2>4, OtherSeedStepCareful DEF tables
  <2> QED
    BY <2>3, <2>4
<1>2. ASSUME IInv, SeedInv, KeepInv, [SeedNext]_seedVars
      PROVE  [~ShouldUpdate =>
                \A r \in Seeders : phase'[r] # phase[r] =>
                    /\ \A s \in SensorIds : HasSensor(s) => sensors'[s] = sensors[s]
                    /\ present[r] =>
                         devices'[Rec(r).device] = devices[Rec(r).device]]_seedVars
  BY <1>1, <1>2
<1> QED
  BY <1>2, RegistryInvariance, SeedInvariance, KeepInvariance, PTL
  DEF SeedSpec, SeedingKeepsExisting
-----------------------------------------------------------------------------
(***************************************************************************)
(* Seeding with SEED_EXISTING_DEVICES, with several replicas.              *)
(*                                                                         *)
(* A row that is not as the last record for it says has a seeder that owes *)
(* it: one that has still to write that record.  Whoever writes another    *)
(* record for the row is before the last one in the file, so that it owes  *)
(* it afterwards; and a seeder stops owing it by writing it.               *)
(***************************************************************************)
RowOf(rec) ==
    [sensor |-> rec.sensor, tenant |-> rec.tenant, types |-> rec.types]

OwesDevice(r, i) ==
    ~(\/ Passed(r, i)
      \/ /\ pos[r] = i /\ stage[r] = "deviceCall"
         /\ phase[r] = "idle" /\ reply[r] = "ok")

OwesSensor(r, i) ==
    ~(\/ Passed(r, i)
      \/ /\ pos[r] = i
         /\ \/ stage[r] \in {"device", "deviceCall"}
            \/ stage[r] = "sensorCall" /\ phase[r] = "idle" /\ reply[r] = "ok")

AllowedByAll(i) == \A r \in Seeders : Allowed(r, Records[i])

DeviceIsDue(i) ==
    \/ devices[Records[i].device] = RowOf(Records[i])
    \/ \E r \in Seeders : OwesDevice(r, i)

SensorIsDue(i) ==
    \/ sensors[Records[i].sensor] = Records[i].profile
    \/ \E r \in Seeders : OwesSensor(r, i)

\* A seeder that is through has gone through the whole file.
ThroughIsThrough ==
    \A r \in Seeders : stage[r] = "up" => pos[r] \notin DOMAIN Records

\* What the clients call stays what it was when the call began.
ClientsCall ==
    \A r \in Requests \ Seeders : phase[r] # "idle" => call[r] \in ClientCalls

\* No seeder comes upon types that another write left beside its own: seeders
\* write types with the row only, and clients write other devices.
SeedersAlone == \A r \in Seeders : late[r] = {}

FileInv ==
    /\ ClientsCall /\ ThroughIsThrough /\ SeedersAlone
    /\ \A i \in DOMAIN Records :
         AllowedByAll(i) =>
           /\ LastFor(i, "device") => DeviceIsDue(i)
           /\ LastFor(i, "sensor") => SensorIsDue(i)

\* No client writes a row that the file states.
Undisturbed ==
    \A c \in ClientCalls, i \in DOMAIN Records :
        IF c.op \in SensorOps THEN c.sensor # Records[i].sensor
                              ELSE c.device # Records[i].device

\* What the two calls that write the row of a device do to the tables.
LEMMA DeviceWritten ==
    ASSUME TypeOK, NEW r \in Requests, Step(r), phase[r] # "setTypes",
           late[r] = {},
           \/ call[r].op = "CreateDevice" /\ call[r].profileTypes = {}
           \/ call[r].op = "UpdateDevice",
           NEW row, row = RowOf(call[r])
    PROVE  /\ sensors' = sensors
           /\ \/ devices' = devices
              \/ devices' = [devices EXCEPT ![call[r].device] = row]
           /\ phase'[r] = "idle" /\ reply'[r] = "ok" =>
                devices' = [devices EXCEPT ![call[r].device] = row]
<1> USE DEF At, Advance, Answer, AnswerCommitted, tables
<1>0. r \in DOMAIN phase /\ r \in DOMAIN reply
  BY DEF TypeOK
<1>1. CASE CheckCreate(r) \/ CheckUpdate(r)
  BY <1>0, <1>1 DEF CheckCreate, CheckUpdate, CheckSensorIfNamed
<1>2. CASE CheckMerge(r) \/ CheckAttach(r) \/ CheckDetach(r)
  BY <1>2 DEF CheckMerge, CheckAttach, CheckDetach, CheckVisible
<1>3. CASE GetSensor(r) \/ GetHolder(r)
  BY <1>0, <1>3 DEF GetSensor, GetHolder
<1>4. CASE CheckSensorCall(r)
  BY <1>0, <1>4 DEF CheckSensorCall
<1>5. CASE UpsertDevice(r)
  <2>1. TypesAllowed(call[r].types) =>
          TypesLeft(r, call[r].device, call[r].types) = {call[r].types}
    BY DEF TypesLeft, TypesAllowed
  <2> QED
    BY <1>0, <1>5, <2>1 DEF UpsertDevice, RowOf
<1>6. CASE MergeColumns(r) \/ SetDeviceProfileTypes(r)
  BY <1>6 DEF MergeColumns, SetDeviceProfileTypes
<1>7. CASE AssignSensor(r) \/ UnassignSensor(r)
  BY <1>7 DEF AssignSensor, UnassignSensor
<1>8. CASE InsertSensor(r) \/ UpdateSensor(r)
  BY <1>8 DEF InsertSensor, UpdateSensor
<1>9. CASE StorageFails(r)
  BY <1>0, <1>9 DEF StorageFails
<1> QED
  BY <1>1, <1>2, <1>3, <1>4, <1>5, <1>6, <1>7, <1>8, <1>9 DEF Step

\* The same for the two calls that write a sensor.
LEMMA SensorWritten ==
    ASSUME TypeOK, NEW r \in Requests, Step(r), call[r].op \in SensorOps
    PROVE  /\ devices' = devices
           /\ \/ sensors' = sensors
              \/ sensors' = [sensors EXCEPT ![call[r].sensor] = call[r].profile]
           /\ phase'[r] = "idle" /\ reply'[r] = "ok" =>
                sensors' = [sensors EXCEPT ![call[r].sensor] = call[r].profile]
<1> USE DEF At, Advance, Answer, AnswerCommitted, tables, SensorOps
<1>0. /\ r \in DOMAIN phase /\ r \in DOMAIN reply
      /\ phase[r] # "setTypes" /\ phase[r] \notin {"getSensor", "getHolder"}
  BY DEF TypeOK, SensorCalls
<1>1. CASE \/ CheckCreate(r) \/ CheckUpdate(r) \/ CheckMerge(r)
           \/ CheckAttach(r) \/ CheckDetach(r)
  BY <1>1 DEF CheckCreate, CheckUpdate, CheckMerge, CheckAttach, CheckDetach,
              CheckVisible
<1>2. CASE GetSensor(r) \/ GetHolder(r)
  BY <1>0, <1>2 DEF GetSensor, GetHolder
<1>3. CASE CheckSensorCall(r)
  BY <1>0, <1>3 DEF CheckSensorCall
<1>4. CASE UpsertDevice(r) \/ MergeColumns(r) \/ SetDeviceProfileTypes(r)
  BY <1>0, <1>4 DEF UpsertDevice, MergeColumns, SetDeviceProfileTypes
<1>5. CASE AssignSensor(r) \/ UnassignSensor(r)
  BY <1>5 DEF AssignSensor, UnassignSensor
<1>6. CASE InsertSensor(r)
  BY <1>0, <1>6 DEF InsertSensor
<1>7. CASE UpdateSensor(r)
  BY <1>0, <1>7 DEF UpdateSensor
<1>8. CASE StorageFails(r)
  BY <1>0, <1>8 DEF StorageFails
<1> QED
  BY <1>1, <1>2, <1>3, <1>4, <1>5, <1>6, <1>7, <1>8 DEF Step

\* Any call writes at most the row it names.
LEMMA WritesItsRow ==
    ASSUME TypeOK, NEW r \in Requests, Step(r)
    PROVE  /\ \A d \in DeviceIds : devices'[d] # devices[d] =>
                call[r].op \notin SensorOps /\ call[r].device = d
           /\ \A s \in SensorIds : sensors'[s] # sensors[s] =>
                call[r].op \in SensorOps /\ call[r].sensor = s
<1> USE DEF At, tables, SensorOps
<1>1. CASE \/ CheckCreate(r) \/ CheckUpdate(r) \/ CheckMerge(r)
           \/ CheckAttach(r) \/ CheckDetach(r)
  BY <1>1 DEF CheckCreate, CheckUpdate, CheckMerge, CheckAttach, CheckDetach,
              CheckVisible
<1>2. CASE GetSensor(r) \/ GetHolder(r) \/ CheckSensorCall(r) \/ StorageFails(r)
  BY <1>2 DEF GetSensor, GetHolder, CheckSensorCall, StorageFails
<1>3. CASE UpsertDevice(r)
  BY <1>3 DEF UpsertDevice, TypeOK
<1>4. CASE MergeColumns(r)
  BY <1>4 DEF MergeColumns, TypeOK
<1>5. CASE SetDeviceProfileTypes(r)
  <2>1. call[r].op \in {"CreateDevice", "MergeDevice"}
    BY <1>5 DEF SetDeviceProfileTypes, TypeOK
  <2> QED
    BY <1>5, <2>1 DEF SetDeviceProfileTypes, TypeOK
<1>6. CASE AssignSensor(r) \/ UnassignSensor(r)
  BY <1>6 DEF AssignSensor, UnassignSensor, TypeOK
<1>7. CASE InsertSensor(r) \/ UpdateSensor(r)
  BY <1>7 DEF InsertSensor, UpdateSensor, TypeOK
<1> QED
  BY <1>1, <1>2, <1>3, <1>4, <1>5, <1>6, <1>7 DEF Step

\* A seeder's storage step on the record it works on.
LEMMA SeederWrites ==
    ASSUME IInv, SeedInv, NEW r \in Seeders, StorageStep(r), late[r] = {}
    PROVE  /\ pos[r] \in DOMAIN Records
           /\ stage[r] = "sensorCall" =>
                /\ devices' = devices
                /\ \/ sensors' = sensors
                   \/ sensors' =
                        [sensors EXCEPT ![Rec(r).sensor] = Rec(r).profile]
                /\ phase'[r] = "idle" /\ reply'[r] = "ok" =>
                     sensors' =
                       [sensors EXCEPT ![Rec(r).sensor] = Rec(r).profile]
           /\ stage[r] = "deviceCall" =>
                /\ sensors' = sensors
                /\ \/ devices' = devices
                   \/ devices' =
                        [devices EXCEPT ![Rec(r).device] = RowOf(Rec(r))]
                /\ phase'[r] = "idle" /\ reply'[r] = "ok" =>
                     devices' = [devices EXCEPT ![Rec(r).device] = RowOf(Rec(r))]
           /\ stage[r] \in {"sensorCall", "deviceCall"} /\ phase[r] # "idle"
           /\ UNCHANGED loop
<1>1. /\ r \in Requests /\ TypeOK /\ Step(r) /\ phase[r] # "idle"
      /\ Known(r) /\ Calling(r) /\ UNCHANGED loop
  BY SeedersAreRequests, AnswerGiven DEF IInv, SeedInv, Held, StorageStep
<1>2. stage[r] \in {"sensorCall", "deviceCall"} /\ pos[r] \in DOMAIN Records
  BY <1>1 DEF Calling, Known, AtRecord
<1>3. CASE stage[r] = "sensorCall"
  <2>1. /\ call[r].op \in SensorOps
        /\ call[r].sensor = Rec(r).sensor /\ call[r].profile = Rec(r).profile
    BY <1>1, <1>3 DEF Calling, CreateSensorOf, UpdateSensorOf, SensorOps
  <2> QED
    BY <1>1, <1>2, <1>3, <2>1, SensorWritten
<1>4. CASE stage[r] = "deviceCall"
  <2>1. /\ \/ call[r].op = "CreateDevice" /\ call[r].profileTypes = {}
           \/ call[r].op = "UpdateDevice"
        /\ call[r].device = Rec(r).device /\ RowOf(call[r]) = RowOf(Rec(r))
        /\ phase[r] # "setTypes"
    BY <1>1, <1>4 DEF Calling, CreateDeviceOf, UpdateDeviceOf, RowOf
  <2>2. /\ sensors' = sensors
        /\ \/ devices' = devices
           \/ devices' = [devices EXCEPT ![Rec(r).device] = RowOf(Rec(r))]
        /\ phase'[r] = "idle" /\ reply'[r] = "ok" =>
             devices' = [devices EXCEPT ![Rec(r).device] = RowOf(Rec(r))]
    BY <1>1, <2>1, DeviceWritten
  <2> QED
    BY <1>1, <1>2, <1>4, <2>2
<1> QED
  BY <1>2, <1>3, <1>4

\* The other steps of a seeder write nothing.
LEMMA OtherStepsWriteNothing ==
    ASSUME NEW r \in Seeders, Seed(r), ~StorageStep(r)
    PROVE  UNCHANGED tables
<1> USE DEF vars, tables
<1>1. CASE Start(r) \/ Skip(r) \/ Finish(r)
  BY <1>1 DEF Start, Skip, Finish
<1>2. CASE LookSensor(r) \/ LookDevice(r) \/ ReadFails(r)
  BY <1>2 DEF LookSensor, LookDevice, ReadFails, LookSensorFails,
              LookDeviceFails, SensorLookup, DeviceLookup
<1>3. CASE SeedSensor(r) \/ SeedDevice(r)
  BY <1>3 DEF SeedSensor, SeedDevice, Begin, BeginCall
<1>4. CASE SensorSeeded(r) \/ DeviceSeeded(r)
  BY <1>4 DEF SensorSeeded, DeviceSeeded
<1>5. CASE Crash(r)
  BY <1>5 DEF Crash, StorageFails
<1> QED
  BY <1>1, <1>2, <1>3, <1>4, <1>5 DEF Seed

\* Where a seeder that is not in a call can go, when every row is due.
LEMMA SeederMoves ==
    ASSUME IInv, SeedInv, ShouldUpdate, NEW r \in Seeders, Seed(r),
           ~StorageStep(r)
    PROVE  \/ stage'[r] \in {"stopped", "crashed", "aborted"}
           \/ pos'[r] = 1 /\ stage'[r] = "lookSensor"
           \/ /\ pos'[r] = pos[r]
              /\ stage[r] \notin {"stopped", "crashed", "aborted"}
              /\ stage'[r] = "deviceCall" => phase'[r] # "idle"
              /\ stage'[r] = "sensorCall" => phase'[r] # "idle"
              /\ stage'[r] = "device" =>
                   stage[r] = "sensorCall" /\ phase[r] = "idle" /\ reply[r] = "ok"
              /\ stage'[r] = "deviceCall" => stage[r] = "device"
              /\ stage'[r] = "up" => pos[r] \notin DOMAIN Records
           \/ /\ pos'[r] = pos[r] + 1 /\ pos[r] \in DOMAIN Records
              /\ stage'[r] = "lookSensor"
              /\ \/ stage[r] = "lookSensor" /\ ~Allowed(r, Rec(r))
                 \/ /\ stage[r] = "deviceCall"
                    /\ phase[r] = "idle" /\ reply[r] = "ok"
<1> USE DEF Goto, Leave, NextRecord, Abort
<1>0. /\ TypeOK /\ LoopTypeOK /\ r \in DOMAIN stage /\ r \in DOMAIN pos
      /\ Known(r) /\ r \in DOMAIN phase
  BY SeedersAreRequests DEF IInv, SeedInv, Held, LoopTypeOK, TypeOK
<1>1. CASE Start(r)
  BY <1>0, <1>1 DEF Start, Known
<1>2. CASE Skip(r) \/ Finish(r)
  BY <1>0, <1>2 DEF Skip, Finish
<1>3. CASE LookSensor(r) \/ LookDevice(r) \/ ReadFails(r)
  BY <1>0, <1>3 DEF LookSensor, LookDevice, ReadFails, LookSensorFails,
                    LookDeviceFails, SensorLookup, DeviceLookup
<1>4. CASE SeedSensor(r) \/ SeedDevice(r)
  <2>1. SensorCallsFor(r) # {} /\ DeviceCallsFor(r) # {}
    BY DEF SensorCallsFor, DeviceCallsFor, CallsFor
  <2>2. \/ stage[r] = "sensor" /\ Goto(r, "sensorCall")
        \/ stage[r] = "device" /\ Goto(r, "deviceCall")
    BY <1>4, <2>1 DEF SeedSensor, SeedDevice
  <2>3. \E c : Begin(r, c)
    BY <1>4, <2>1 DEF SeedSensor, SeedDevice
  <2>4. phase'[r] # "idle"
    BY <1>0, <2>3 DEF Begin, BeginCall
  <2> QED
    BY <1>0, <2>2, <2>4
<1>5. CASE SensorSeeded(r)
  BY <1>0, <1>5 DEF SensorSeeded
<1>6. CASE DeviceSeeded(r)
  BY <1>0, <1>6 DEF DeviceSeeded, Known, AtRecord
<1>7. CASE Crash(r)
  BY <1>0, <1>7 DEF Crash
<1> QED
  BY <1>1, <1>2, <1>3, <1>4, <1>5, <1>6, <1>7 DEF Seed

\* A seeder stops owing a device by writing it, and whoever writes another row
\* for the device still owes it.
LEMMA DevicePaid ==
    ASSUME IInv, SeedInv, ShouldUpdate, NEW r \in Seeders, Seed(r),
           late[r] = {}, NEW i \in DOMAIN Records, Allowed(r, Records[i]),
           LastFor(i, "device"),
           NEW d, d = Records[i].device, NEW row, row = RowOf(Records[i])
    PROVE  /\ OwesDevice(r, i) => OwesDevice(r, i)' \/ devices'[d] = row
           /\ devices'[d] = devices[d] \/ devices'[d] = row \/ OwesDevice(r, i)'
<1>1. /\ LoopTypeOK /\ DOMAIN Records \subseteq Nat \ {0} /\ d \in DeviceIds
      /\ d \in DOMAIN devices /\ pos[r] \in Nat
  BY RecordsAreRecords, RecordFields DEF SeedInv, LoopTypeOK, IInv, TypeOK
<1>2. CASE StorageStep(r)
  <2>1. /\ pos[r] \in DOMAIN Records /\ stage'[r] = stage[r] /\ pos'[r] = pos[r]
        /\ stage[r] \in {"sensorCall", "deviceCall"} /\ phase[r] # "idle"
    BY <1>2, SeederWrites DEF loop
  <2>2. Passed(r, i)' <=> Passed(r, i)
    BY <2>1 DEF Passed, Allowed
  <2>3. CASE stage[r] = "sensorCall"
    <3>1. devices' = devices
      BY <1>2, <2>3, SeederWrites
    <3> QED
      BY <2>1, <2>2, <2>3, <3>1 DEF OwesDevice
  <2>4. CASE stage[r] = "deviceCall"
    <3>1. /\ \/ devices' = devices
             \/ devices' = [devices EXCEPT ![Rec(r).device] = RowOf(Rec(r))]
          /\ phase'[r] = "idle" /\ reply'[r] = "ok" =>
               devices' = [devices EXCEPT ![Rec(r).device] = RowOf(Rec(r))]
      BY <1>2, <2>4, SeederWrites
    <3>2. CASE pos[r] = i
      BY <1>1, <2>1, <2>2, <3>1, <3>2 DEF Rec, OwesDevice
    <3>3. CASE pos[r] > i
      <4>1. Rec(r).device # d
        BY <2>1, <3>3 DEF LastFor, Rec
      <4>2. devices'[d] = devices[d] /\ Passed(r, i)
        BY <1>1, <2>4, <3>1, <3>3, <4>1 DEF Passed
      <4> QED
        BY <4>2 DEF OwesDevice
    <3>4. CASE pos[r] < i
      <4>1. ~Passed(r, i)
        BY <1>1, <3>4 DEF Passed
      <4> QED
        BY <1>1, <2>1, <2>2, <3>4, <4>1 DEF OwesDevice
    <3> QED
      BY <1>1, <3>2, <3>3, <3>4
  <2> QED
    BY <2>1, <2>3, <2>4
<1>3. CASE ~StorageStep(r)
  <2>1. devices' = devices
    BY <1>3, OtherStepsWriteNothing DEF tables
  <2>2. ASSUME ~OwesDevice(r, i)'
        PROVE  ~OwesDevice(r, i)
    BY <1>1, <1>3, <2>2, SeederMoves DEF OwesDevice, Passed, Allowed, Rec
  <2> QED
    BY <2>1, <2>2
<1> QED
  BY <1>2, <1>3

\* The same for sensors.
LEMMA SensorPaid ==
    ASSUME IInv, SeedInv, ShouldUpdate, NEW r \in Seeders, Seed(r),
           late[r] = {}, NEW i \in DOMAIN Records, Allowed(r, Records[i]),
           LastFor(i, "sensor"),
           NEW s, s = Records[i].sensor, NEW p, p = Records[i].profile
    PROVE  /\ OwesSensor(r, i) => OwesSensor(r, i)' \/ sensors'[s] = p
           /\ sensors'[s] = sensors[s] \/ sensors'[s] = p \/ OwesSensor(r, i)'
<1>1. /\ LoopTypeOK /\ DOMAIN Records \subseteq Nat \ {0} /\ s \in SensorIds
      /\ s \in DOMAIN sensors /\ pos[r] \in Nat
  BY RecordsAreRecords, RecordFields DEF SeedInv, LoopTypeOK, IInv, TypeOK
<1>2. CASE StorageStep(r)
  <2>1. /\ pos[r] \in DOMAIN Records /\ stage'[r] = stage[r] /\ pos'[r] = pos[r]
        /\ stage[r] \in {"sensorCall", "deviceCall"} /\ phase[r] # "idle"
    BY <1>2, SeederWrites DEF loop
  <2>2. Passed(r, i)' <=> Passed(r, i)
    BY <2>1 DEF Passed, Allowed
  <2>3. CASE stage[r] = "deviceCall"
    <3>1. sensors' = sensors
      BY <1>2, <2>3, SeederWrites
    <3> QED
      BY <2>1, <2>2, <2>3, <3>1 DEF OwesSensor
  <2>4. CASE stage[r] = "sensorCall"
    <3>1. /\ \/ sensors' = sensors
             \/ sensors' = [sensors EXCEPT ![Rec(r).sensor] = Rec(r).profile]
          /\ phase'[r] = "idle" /\ reply'[r] = "ok" =>
               sensors' = [sensors EXCEPT ![Rec(r).sensor] = Rec(r).profile]
      BY <1>2, <2>4, SeederWrites
    <3>2. CASE pos[r] = i
      BY <1>1, <2>1, <2>2, <2>4, <3>1, <3>2 DEF Rec, OwesSensor
    <3>3. CASE pos[r] > i
      <4>1. Rec(r).sensor # s
        BY <2>1, <3>3 DEF LastFor, Rec
      <4>2. sensors'[s] = sensors[s] /\ Passed(r, i)
        BY <1>1, <2>4, <3>1, <3>3, <4>1 DEF Passed
      <4> QED
        BY <4>2 DEF OwesSensor
    <3>4. CASE pos[r] < i
      <4>1. ~Passed(r, i)
        BY <1>1, <3>4 DEF Passed
      <4> QED
        BY <1>1, <2>1, <2>2, <3>4, <4>1 DEF OwesSensor
    <3> QED
      BY <1>1, <3>2, <3>3, <3>4
  <2> QED
    BY <2>1, <2>3, <2>4
<1>3. CASE ~StorageStep(r)
  <2>1. sensors' = sensors
    BY <1>3, OtherStepsWriteNothing DEF tables
  <2>2. ASSUME ~OwesSensor(r, i)'
        PROVE  ~OwesSensor(r, i)
    BY <1>1, <1>3, <2>2, SeederMoves DEF OwesSensor, Passed, Allowed, Rec
  <2> QED
    BY <2>1, <2>2
<1> QED
  BY <1>2, <1>3

\* A seeder that is not moved owes what it owed.
LEMMA UnmovedOwes ==
    ASSUME NEW r \in Seeders, NEW i \in DOMAIN Records,
           stage'[r] = stage[r], pos'[r] = pos[r],
           phase'[r] = phase[r], reply'[r] = reply[r]
    PROVE  /\ OwesDevice(r, i)' <=> OwesDevice(r, i)
           /\ OwesSensor(r, i)' <=> OwesSensor(r, i)
  BY DEF OwesDevice, OwesSensor, Passed, Allowed

\* A client's step keeps to its call and leaves the seeders alone.
LEMMA ClientKeepsSeeders ==
    ASSUME IInv, ClientsCall, NEW q \in Requests \ Seeders, Client(q)
    PROVE  /\ ClientsCall'
           /\ UNCHANGED tables \/ (Step(q) /\ call[q] \in ClientCalls)
           /\ \A r \in Seeders :
                /\ stage'[r] = stage[r] /\ pos'[r] = pos[r]
                /\ phase'[r] = phase[r] /\ reply'[r] = reply[r]
<1>1. TypeOK /\ UNCHANGED loop /\ (Step(q) \/ BeginCall(q))
  BY DEF Client, Begin, IInv
<1>2. \A r \in Requests \ {q} :
        phase'[r] = phase[r] /\ call'[r] = call[r] /\ reply'[r] = reply[r]
  BY <1>1, OthersStay
<1>3. CASE Step(q)
  <2>1. phase[q] # "idle" /\ call'[q] = call[q]
    BY <1>3, AnswerGiven, StepMovesRequest DEF Advance, Answer
  <2>2. call[q] \in ClientCalls
    BY <2>1 DEF ClientsCall
  <2>3. ClientsCall'
    BY <1>2, <2>1, <2>2 DEF ClientsCall
  <2> QED
    BY <1>1, <1>2, <1>3, <2>2, <2>3, SeedersAreRequests DEF loop
<1>4. CASE \E c \in ClientCalls : Begin(q, c)
  <2>1. call'[q] \in ClientCalls /\ UNCHANGED tables
    BY <1>4 DEF Begin, BeginCall
  <2>2. ClientsCall'
    BY <1>2, <2>1 DEF ClientsCall
  <2> QED
    BY <1>1, <1>2, <2>1, <2>2, SeedersAreRequests DEF loop
<1> QED
  BY <1>3, <1>4 DEF Client

\* The rows of the file are not the clients' to write.
LEMMA ClientKeepsFile ==
    ASSUME IInv, ClientsCall, Undisturbed, NEW q \in Requests \ Seeders,
           Client(q), NEW i \in DOMAIN Records
    PROVE  /\ devices'[Records[i].device] = devices[Records[i].device]
           /\ sensors'[Records[i].sensor] = sensors[Records[i].sensor]
<1>1. /\ TypeOK
      /\ Records[i].device \in DeviceIds /\ Records[i].sensor \in SensorIds
  BY RecordFields DEF IInv
<1>2. CASE UNCHANGED tables
  BY <1>2 DEF tables
<1>3. CASE Step(q) /\ call[q] \in ClientCalls
  BY <1>1, <1>3, WritesItsRow DEF Undisturbed
<1> QED
  BY <1>2, <1>3, ClientKeepsSeeders

\* A step of a seeder is none of the registry, one of a call or its beginning.
LEMMA SeedStepKinds ==
    ASSUME NEW q \in Seeders, Seed(q)
    PROVE  UNCHANGED vars \/ Step(q) \/ BeginCall(q)
<1>1. CASE Start(q) \/ Skip(q) \/ Finish(q)
  BY <1>1 DEF Start, Skip, Finish
<1>2. CASE LookSensor(q) \/ LookDevice(q) \/ ReadFails(q)
  BY <1>2 DEF LookSensor, LookDevice, ReadFails, LookSensorFails,
              LookDeviceFails, SensorLookup, DeviceLookup
<1>3. CASE SeedSensor(q) \/ SeedDevice(q)
  BY <1>3 DEF SeedSensor, SeedDevice, Begin
<1>4. CASE SensorSeeded(q) \/ DeviceSeeded(q)
  BY <1>4 DEF SensorSeeded, DeviceSeeded
<1>5. CASE StorageStep(q) \/ Crash(q)
  BY <1>5 DEF StorageStep, Crash, Step
<1> QED
  BY <1>1, <1>2, <1>3, <1>4, <1>5 DEF Seed

\* A seeder's step leaves what the clients call alone.
LEMMA SeedKeepsClientsCall ==
    ASSUME TypeOK, ClientsCall, NEW q \in Seeders, Seed(q)
    PROVE  ClientsCall'
<1>1. \A r \in Requests \ {q} : phase'[r] = phase[r] /\ call'[r] = call[r]
  BY SeedStepKinds, SeedersAreRequests, OthersStay DEF vars
<1> QED
  BY <1>1 DEF ClientsCall

\* A request comes upon the types of a step only while both write types of one
\* device, and its own step ends that.
LEMMA LateOverlaps ==
    ASSUME TypeOK, NEW q \in Requests, Step(q), NEW r \in Requests,
           late[r] = {}
    PROVE  late'[r] = {} \/ Overlap(r, q)
<1> USE DEF TypeOK
<1>1. CASE UNCHANGED late
  BY <1>1
<1>2. CASE RolledBack(q) \/ \E ts : Committed(q, ts)
  BY <1>2 DEF RolledBack, Committed
<1>3. CASE \/ CheckCreate(q) \/ CheckUpdate(q) \/ CheckMerge(q)
           \/ CheckAttach(q) \/ CheckDetach(q)
  BY <1>1, <1>3 DEF CheckCreate, CheckUpdate, CheckMerge, CheckAttach,
                    CheckDetach, CheckVisible
<1>4. CASE GetSensor(q) \/ GetHolder(q) \/ CheckSensorCall(q)
  BY <1>1, <1>4 DEF GetSensor, GetHolder, CheckSensorCall
<1>5. CASE UpsertDevice(q) \/ SetDeviceProfileTypes(q) \/ StorageFails(q)
  BY <1>2, <1>5 DEF UpsertDevice, SetDeviceProfileTypes, StorageFails
<1>6. CASE \/ MergeColumns(q) \/ AssignSensor(q) \/ UnassignSensor(q)
           \/ InsertSensor(q) \/ UpdateSensor(q)
  BY <1>1, <1>6 DEF MergeColumns, AssignSensor, UnassignSensor, InsertSensor,
                    UpdateSensor
<1> QED
  BY <1>3, <1>4, <1>5, <1>6 DEF Step

\* A seeder writes types only with the row of the device its record names.
LEMMA SeederWritesRecord ==
    ASSUME IInv, SeedInv, NEW r \in Seeders, WritesTypes(r)
    PROVE  /\ phase[r] # "setTypes" /\ pos[r] \in DOMAIN Records
           /\ call[r].device = Records[pos[r]].device
<1>1. Known(r) /\ Calling(r) /\ r \in Requests /\ phase[r] # "idle"
  BY SeedersAreRequests DEF SeedInv, Held, WritesTypes, At
<1>2. CASE stage[r] = "sensorCall"
  <2>1. call[r].op \in SensorOps
    BY <1>1, <1>2 DEF Calling, CreateSensorOf, UpdateSensorOf, SensorOps
  <2> QED
    BY <1>1, <2>1 DEF WritesTypes, At, SensorOps, IInv, TypeOK
<1>3. CASE stage[r] = "deviceCall"
  BY <1>1, <1>3 DEF Calling, Known, AtRecord, Rec, CreateDeviceOf,
                    UpdateDeviceOf
<1> QED
  BY <1>1, <1>2, <1>3 DEF Calling

LEMMA AloneNext ==
    ASSUME IInv, SeedInv, ClientsCall, SeedersAlone, Undisturbed,
           [SeedNext]_seedVars
    PROVE  SeedersAlone'
<1> SUFFICES ASSUME NEW r \in Seeders
             PROVE  late'[r] = {}
  BY DEF SeedersAlone
<1>0. TypeOK /\ r \in Requests /\ late[r] = {}
  BY SeedersAreRequests DEF IInv, SeedersAlone
<1>1. CASE UNCHANGED late
  BY <1>0, <1>1
<1>2. ASSUME NEW q \in Seeders, Seed(q)
      PROVE  late'[r] = {}
  <2>1. CASE Step(q)
    <3>1. q \in Requests /\ ~Overlap(r, q)
      BY <2>1, SeedersAreRequests, SeederWritesRecord
      DEF Overlap, WritesTypes
    <3> QED
      BY <1>0, <2>1, <3>1, LateOverlaps
  <2> QED
    BY <1>1, <1>2, <2>1, SeedStepKinds DEF BeginCall, vars
<1>3. ASSUME NEW q \in Requests \ Seeders, Client(q)
      PROVE  late'[r] = {}
  <2>1. CASE Step(q)
    <3>1. ASSUME Overlap(r, q)
          PROVE  FALSE
      <4>1. /\ phase[r] # "setTypes" /\ pos[r] \in DOMAIN Records
            /\ call[r].device = Records[pos[r]].device
            /\ phase[q] = "setTypes" /\ call[r].device = call[q].device
        BY <3>1, SeederWritesRecord DEF Overlap
      <4>2. call[q] \in ClientCalls /\ call[q].op \notin SensorOps
        BY <1>0, <4>1 DEF ClientsCall, TypeOK, SensorOps
      <4> QED
        BY <4>1, <4>2 DEF Undisturbed
    <3> QED
      BY <1>0, <2>1, <3>1, LateOverlaps
  <2> QED
    BY <1>1, <1>3, <2>1 DEF Client, Begin, BeginCall
<1> QED
  BY <1>1, <1>2, <1>3 DEF SeedNext, seedVars, vars

LEMMA FileNext ==
    ASSUME IInv, SeedInv, FileInv, ShouldUpdate, Undisturbed,
           [SeedNext]_seedVars
    PROVE  FileInv'
<1>0. TypeOK /\ LoopTypeOK /\ ClientsCall /\ ThroughIsThrough /\ SeedersAlone
  BY DEF IInv, SeedInv, FileInv
<1>1. SeedersAlone'
  BY <1>0, AloneNext
<1>2. CASE UNCHANGED seedVars
  BY <1>2 DEF seedVars, vars, loop, FileInv, ClientsCall, ThroughIsThrough,
              SeedersAlone, AllowedByAll, Allowed,
              DeviceIsDue, SensorIsDue, OwesDevice, OwesSensor, Passed, LastFor,
              RowOf
<1>3. ASSUME NEW q \in Seeders, Seed(q)
      PROVE  FileInv'
  <2>1. ASSUME NEW i \in DOMAIN Records, AllowedByAll(i), LastFor(i, "device"),
               DeviceIsDue(i)
        PROVE  DeviceIsDue(i)'
    <3> DEFINE d == Records[i].device
               row == RowOf(Records[i])
    <3>1. /\ OwesDevice(q, i) => OwesDevice(q, i)' \/ devices'[d] = row
          /\ devices'[d] = devices[d] \/ devices'[d] = row \/ OwesDevice(q, i)'
      BY <1>3, <2>1, DevicePaid DEF AllowedByAll, FileInv, SeedersAlone
    <3>2. CASE devices[d] = row
      BY <3>1, <3>2 DEF DeviceIsDue, RowOf
    <3>3. ASSUME NEW r \in Seeders, OwesDevice(r, i)
          PROVE  DeviceIsDue(i)'
      <4>1. CASE r = q
        BY <3>1, <3>3, <4>1 DEF DeviceIsDue, RowOf
      <4>2. CASE r # q
        <5>1. OwesDevice(r, i)'
          BY <1>0, <1>3, <3>3, <4>2, SeedMovesOne, UnmovedOwes
        <5> QED
          BY <5>1 DEF DeviceIsDue
      <4> QED
        BY <4>1, <4>2
    <3> QED
      BY <2>1, <3>2, <3>3 DEF DeviceIsDue
  <2>2. ASSUME NEW i \in DOMAIN Records, AllowedByAll(i), LastFor(i, "sensor"),
               SensorIsDue(i)
        PROVE  SensorIsDue(i)'
    <3> DEFINE s == Records[i].sensor
               p == Records[i].profile
    <3>1. /\ OwesSensor(q, i) => OwesSensor(q, i)' \/ sensors'[s] = p
          /\ sensors'[s] = sensors[s] \/ sensors'[s] = p \/ OwesSensor(q, i)'
      BY <1>3, <2>2, SensorPaid DEF AllowedByAll, FileInv, SeedersAlone
    <3>2. CASE sensors[s] = p
      BY <3>1, <3>2 DEF SensorIsDue
    <3>3. ASSUME NEW r \in Seeders, OwesSensor(r, i)
          PROVE  SensorIsDue(i)'
      <4>1. CASE r = q
        BY <3>1, <3>3, <4>1 DEF SensorIsDue
      <4>2. CASE r # q
        <5>1. OwesSensor(r, i)'
          BY <1>0, <1>3, <3>3, <4>2, SeedMovesOne, UnmovedOwes
        <5> QED
          BY <5>1 DEF SensorIsDue
      <4> QED
        BY <4>1, <4>2
    <3> QED
      BY <2>2, <3>2, <3>3 DEF SensorIsDue
  <2>3. ClientsCall'
    BY <1>0, <1>3, SeedKeepsClientsCall
  <2>4. ThroughIsThrough'
    <3>1. stage'[q] = "up" => pos'[q] \notin DOMAIN Records
      BY <1>0, <1>3, SeederMoves, SeederWrites
      DEF ThroughIsThrough, SeedersAlone, loop
    <3> QED
      BY <1>0, <1>3, <3>1, SeedMovesOne DEF ThroughIsThrough
  <2> QED
    BY <1>1, <2>1, <2>2, <2>3, <2>4 DEF FileInv, AllowedByAll, Allowed, LastFor
<1>4. ASSUME NEW q \in Requests \ Seeders, Client(q)
      PROVE  FileInv'
  <2>1. ASSUME NEW i \in DOMAIN Records
        PROVE  /\ DeviceIsDue(i) => DeviceIsDue(i)'
               /\ SensorIsDue(i) => SensorIsDue(i)'
    <3>1. /\ devices'[Records[i].device] = devices[Records[i].device]
          /\ sensors'[Records[i].sensor] = sensors[Records[i].sensor]
          /\ \A r \in Seeders : /\ OwesDevice(r, i)' <=> OwesDevice(r, i)
                                /\ OwesSensor(r, i)' <=> OwesSensor(r, i)
      BY <1>0, <1>4, ClientKeepsFile, ClientKeepsSeeders, UnmovedOwes
    <3> QED
      BY <3>1 DEF DeviceIsDue, SensorIsDue, RowOf
  <2>2. ClientsCall' /\ ThroughIsThrough'
    BY <1>0, <1>4, ClientKeepsSeeders DEF ThroughIsThrough
  <2> QED
    BY <1>1, <2>1, <2>2 DEF FileInv, AllowedByAll, Allowed, LastFor
<1> QED
  BY <1>2, <1>3, <1>4 DEF SeedNext

\* With the flag the file wins, however many replicas and uploads overlap, fail
\* and are started again, for any file, when no client writes the rows it states:
\* after the last of them is through each row is as its last record says.
THEOREM FileWins ==
    ASSUME Seeders # {}, Undisturbed
    PROVE  SeedSpec => []TablesMatchFile
<1>1. CASE ShouldUpdate
  <2>1. SeedInit => FileInv
    <3> SUFFICES ASSUME SeedInit
                 PROVE  FileInv
      OBVIOUS
    <3>1. \A r \in Seeders : stage[r] = "stopped" /\ phase[r] = "idle"
      BY SeedersAreRequests DEF SeedInit, Init
    <3>2. ASSUME NEW i \in DOMAIN Records
          PROVE  DeviceIsDue(i) /\ SensorIsDue(i)
      BY <3>1 DEF DeviceIsDue, SensorIsDue, OwesDevice, OwesSensor, Passed
    <3>3. ClientsCall
      BY DEF SeedInit, Init, ClientsCall
    <3>4. ThroughIsThrough /\ SeedersAlone
      BY <3>1, SeedersAreRequests
      DEF ThroughIsThrough, SeedersAlone, SeedInit, Init
    <3> QED
      BY <3>2, <3>3, <3>4 DEF FileInv
  <2>2. IInv /\ SeedInv /\ FileInv /\ [SeedNext]_seedVars => FileInv'
    BY <1>1, FileNext
  <2>3. SeedInv /\ FileInv => TablesMatchFile
    <3> SUFFICES ASSUME SeedInv, FileInv, \A r \in Seeders : stage[r] = "up",
                        NEW i \in DOMAIN Records, AllowedByAll(i)
                 PROVE  /\ LastFor(i, "device") =>
                             devices[Records[i].device] = RowOf(Records[i])
                        /\ LastFor(i, "sensor") =>
                             sensors[Records[i].sensor] = Records[i].profile
      BY DEF TablesMatchFile, AllowedByAll, RowOf
    <3>1. ASSUME NEW r \in Seeders
          PROVE  ~OwesDevice(r, i) /\ ~OwesSensor(r, i)
      <4>1. pos[r] \in 1..(Len(Records) + 1) /\ pos[r] \notin DOMAIN Records
        BY DEF SeedInv, LoopTypeOK, FileInv, ThroughIsThrough
      <4>2. DOMAIN Records = 1..Len(Records) /\ Len(Records) \in Nat
        BY RecordsAreRecords
      <4>3. i < pos[r]
        BY <4>1, <4>2
      <4> QED
        BY <4>3 DEF OwesDevice, OwesSensor, Passed, AllowedByAll
    <3> QED
      BY <3>1 DEF FileInv, DeviceIsDue, SensorIsDue
  <2> QED
    BY <2>1, <2>2, <2>3, RegistryInvariance, SeedInvariance, PTL DEF SeedSpec
<1>2. CASE ~ShouldUpdate
  <2>1. TablesMatchFile
    BY <1>2 DEF TablesMatchFile
  <2> QED
    BY <2>1, PTL
<1> QED
  BY <1>1, <1>2
=============================================================================
