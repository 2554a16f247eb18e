---------------------------- MODULE StatusAlarms ----------------------------
(***************************************************************************)
(* What status messages and the watchdog write about devices: the tables   *)
(* device_state, sensor_status and device_alarms.                          *)
(*                                                                         *)
(* Two handlers subscribe to the topic device-status, independently of     *)
(* each other: devices.Handle records the state and the radio values,      *)
(* the handler of package alarms adds and removes alarms.  The watchdog    *)
(* reads the devices whose sensor was not heard of for an interval and     *)
(* adds device_not_observed to one after the other.  Sensors move between  *)
(* devices meanwhile, as SensorAssignment allows.                          *)
(*                                                                         *)
(* Each storage call is one transaction and one step.  A message whose     *)
(* storage call fails is lost: the handlers have no way to ask for it      *)
(* again.  An unknown device is a storage call that fails on its foreign   *)
(* key.                                                                    *)
(***************************************************************************)
EXTENDS Integers, Sequences

CONSTANTS DeviceIds, SensorIds,
          Interval,         \* interval of each device in time units; 0: unset
          ProfileInterval,  \* interval of the profile of each sensor
          Retention,        \* how long a status is kept ("3 weeks")
          Kinds,            \* the contents of messages
          AlarmTypes,       \* alarm types after normalisation ...
          Enabled,          \* ... and those configured and enabled
          NotObserved,      \* device_not_observed
          Null,
          MaxTime,          \* bound on the clock
          MaxMessages       \* bound on the messages sent

(***************************************************************************)
(* A message has a code or not (Null), which may be empty, texts, and      *)
(* perhaps one of the radio values that make a row of sensor_status.       *)
(***************************************************************************)
Kind == [code : AlarmTypes \cup {Null, "empty"}, texts : Seq(AlarmTypes),
         radio : BOOLEAN]

ASSUME IntervalsAreNat ==
    /\ Interval \in [DeviceIds -> Nat]
    /\ ProfileInterval \in [SensorIds -> Nat]
    /\ Retention \in Nat
ASSUME KindsAreKinds == Kinds \subseteq Kind
ASSUME DevicesDoNotReportAbsence ==
    \A k \in Kinds :
        /\ k.code # NotObserved
        /\ \A i \in DOMAIN k.texts : k.texts[i] # NotObserved
ASSUME NotObservedIsEnabled == NotObserved \in Enabled /\ Enabled \subseteq AlarmTypes
ASSUME BoundsAreNat == MaxTime \in Nat /\ MaxMessages \in Nat

Times == 0 .. MaxTime
Never == -1                     \* SQL NULL in a time column
Message == [device : DeviceIds, at : Times, kind : Kinds]

VARIABLES now,        \* NOW()
          sent,       \* messages sent so far
          sensorOf,   \* devices.sensor_id
          toDevices,  \* messages on their way to devices.Handle
          toStatus,   \* messages devices.Handle has half handled
          toAlarms,   \* messages on their way to the handler of alarms
          adding,     \* the texts this handler has still to add, per message
          state,      \* table device_state
          lastStatus, \* MAX(observed_at) in sensor_status, per sensor
          alarms,     \* table device_alarms
          watch,      \* what the watchdog does
          found,      \* stale devices its check has not come to yet
          stopped     \* the context of the watchdog is cancelled

world == <<now, sent, sensorOf>>
handlers == <<toDevices, toStatus, toAlarms, adding>>
watchdog == <<watch, found, stopped>>
vars == <<world, handlers, state, lastStatus, alarms, watchdog>>

Registry == INSTANCE SensorAssignment WITH usable <- SensorIds
-----------------------------------------------------------------------------
Init ==
    /\ now = 0 /\ sent = 0
    /\ sensorOf = [d \in DeviceIds |-> Null]
    /\ toDevices = {} /\ toStatus = {} /\ toAlarms = {} /\ adding = {}
    /\ state = [d \in DeviceIds |-> [state |-> "unknown", at |-> Never]]
    /\ lastStatus = [s \in SensorIds |-> Never]
    /\ alarms = [d \in DeviceIds |-> {}]
    /\ watch = "waiting" /\ found = {} /\ stopped = FALSE

Clock ==
    /\ now < MaxTime
    /\ now' = now + 1
    /\ UNCHANGED <<sent, sensorOf, handlers, state, lastStatus, alarms, watchdog>>

\* The topic delivers a message to both subscribers, each in its own time.
Send ==
    /\ sent < MaxMessages
    /\ \E d \in DeviceIds, k \in Kinds :
        LET m == [device |-> d, at |-> now, kind |-> k] IN
        /\ toDevices' = toDevices \cup {m}
        /\ toAlarms' = toAlarms \cup {m}
    /\ sent' = sent + 1
    /\ UNCHANGED <<now, sensorOf, toStatus, adding, state, lastStatus, alarms,
                   watchdog>>

\* A sensor is put on a device or taken off it.
MoveSensor ==
    /\ \/ \E d \in DeviceIds, s \in SensorIds : Registry!Assign(d, s)
       \/ \E d \in DeviceIds : Registry!Release(d)
    /\ UNCHANGED <<now, sent, handlers, state, lastStatus, alarms, watchdog>>
-----------------------------------------------------------------------------
(***************************************************************************)
(* devices.Handle: SetDeviceState, then AddDeviceStatus when the message   *)
(* has a radio value.  The second is not called when the first failed.     *)
(***************************************************************************)
StateOf(m) ==
    [state |-> IF m.kind.code = Null THEN "ok" ELSE "warning", at |-> m.at]

\* The row is overwritten whatever it holds, with an older observation too.
SetDeviceState(m) == state' = [state EXCEPT ![m.device] = StateOf(m)]

HandleState(m) ==
    /\ m \in toDevices
    /\ toDevices' = toDevices \ {m}
    /\ \/ /\ SetDeviceState(m)
          /\ toStatus' = IF m.kind.radio THEN toStatus \cup {m} ELSE toStatus
       \/ UNCHANGED <<state, toStatus>>
    /\ UNCHANGED <<world, toAlarms, adding, lastStatus, alarms, watchdog>>

Later(t1, t2) == IF t1 < t2 THEN t2 ELSE t1

\* The rows older than the retention are deleted with every insert.
Kept(t) == IF t < now - Retention THEN Never ELSE t

\* MUTANT: one row per sensor, overwritten as in device_state.
HandleStatusOverwriting(m) ==
    LET s == sensorOf[m.device] IN
    /\ m \in toStatus
    /\ toStatus' = toStatus \ {m}
    /\ \/ /\ s # Null
          /\ lastStatus' = [lastStatus EXCEPT ![s] = Kept(m.at)]
       \/ UNCHANGED lastStatus
    /\ UNCHANGED <<world, toDevices, toAlarms, adding, state, alarms, watchdog>>

\* The status belongs to the sensor the device carries by now; without one it
\* is an error, like a failing transaction.  The lookup also takes the device
\* that carries a sensor named as the message says; no sensor has the name of a
\* device here.
HandleStatus(m) ==
    LET s == sensorOf[m.device] IN
    /\ m \in toStatus
    /\ toStatus' = toStatus \ {m}
    /\ \/ /\ s # Null
          /\ lastStatus' = [lastStatus EXCEPT ![s] = Kept(Later(@, m.at))]
       \/ UNCHANGED lastStatus
    /\ UNCHANGED <<world, toDevices, toAlarms, adding, state, alarms, watchdog>>
-----------------------------------------------------------------------------
(***************************************************************************)
(* The handler of package alarms.                                          *)
(***************************************************************************)
\* svc.Add ignores types that are unknown or disabled.
Admitted(t) == t \in Enabled

AddAlarm(d, t) ==
    alarms' = IF Admitted(t) THEN [alarms EXCEPT ![d] = @ \cup {t}] ELSE alarms

\* MUTANT: DELETE without the type.
RemoveAllAlarms(d, t) == alarms' = [alarms EXCEPT ![d] = {}]

RemoveAlarm(d, t) == alarms' = [alarms EXCEPT ![d] = @ \ {t}]

HandleAlarm(m) ==
    LET code == m.kind.code
        texts == m.kind.texts IN
    /\ m \in toAlarms
    /\ toAlarms' = toAlarms \ {m}
    /\ \/ /\ code = Null /\ texts = <<>>
          /\ RemoveAlarm(m.device, NotObserved) \/ UNCHANGED alarms
          /\ UNCHANGED adding
       \/ /\ code \notin {Null, "empty"}
          /\ AddAlarm(m.device, code) \/ UNCHANGED alarms
          /\ UNCHANGED adding
       \/ /\ code \in {Null, "empty"} /\ texts # <<>>
          /\ adding' = adding \cup {[device |-> m.device, texts |-> texts]}
          /\ UNCHANGED alarms
       \/ /\ code = "empty" /\ texts = <<>>
          /\ UNCHANGED <<adding, alarms>>
    /\ UNCHANGED <<world, toDevices, toStatus, state, lastStatus, watchdog>>

\* The texts are added one by one; a failure does not end the loop.
AddText(a) ==
    LET rest == [a EXCEPT !.texts = Tail(@)] IN
    /\ a \in adding
    /\ AddAlarm(a.device, Head(a.texts)) \/ UNCHANGED alarms
    /\ adding' = (adding \ {a}) \cup (IF rest.texts = <<>> THEN {} ELSE {rest})
    /\ UNCHANGED <<world, toDevices, toStatus, toAlarms, state, lastStatus,
                   watchdog>>
-----------------------------------------------------------------------------
(***************************************************************************)
(* The watchdog: Watch and checkLastObserved.                              *)
(***************************************************************************)
\* COALESCE(NULLIF(d.interval, 0), sp.interval)
Limit(d, s) == IF Interval[d] # 0 THEN Interval[d] ELSE ProfileInterval[s]

Stale(d) ==
    LET s == sensorOf[d] IN
    /\ s # Null
    /\ lastStatus[s] # Never
    /\ lastStatus[s] < now - Limit(d, s)

\* The ticker fires; select may still choose it when the context has ended.
Tick ==
    /\ watch = "waiting"
    /\ watch' = "reading"
    /\ UNCHANGED <<world, handlers, state, lastStatus, alarms, found, stopped>>

\* MUTANT: the WHERE only asks for a status.
ReadAllWithStatus ==
    /\ watch = "reading"
    /\ found' = {d \in DeviceIds :
                    sensorOf[d] # Null /\ lastStatus[sensorOf[d]] # Never}
    /\ watch' = "checking"
    /\ UNCHANGED <<world, handlers, state, lastStatus, alarms, stopped>>

ReadStale ==
    /\ watch = "reading"
    /\ found' = {d \in DeviceIds : Stale(d)}
    /\ watch' = "checking"
    /\ UNCHANGED <<world, handlers, state, lastStatus, alarms, stopped>>

\* MUTANT: the early return does not reset lastObservedWatcher.running.
ReadFailsStillRunning ==
    /\ watch = "reading"
    /\ watch' = "running"
    /\ UNCHANGED <<world, handlers, state, lastStatus, alarms, found, stopped>>

ReadFails ==
    /\ watch = "reading"
    /\ watch' = "waiting"
    /\ UNCHANGED <<world, handlers, state, lastStatus, alarms, found, stopped>>

\* The next device of the list; nobody looks at the error of Add.
AlarmStale(d) ==
    /\ watch = "checking" /\ ~stopped
    /\ d \in found
    /\ AddAlarm(d, NotObserved)
    /\ found' = found \ {d}
    /\ UNCHANGED <<world, handlers, state, lastStatus, watch, stopped>>

AlarmStaleFails(d) ==
    /\ watch = "checking" /\ ~stopped
    /\ d \in found
    /\ found' = found \ {d}
    /\ UNCHANGED <<world, handlers, state, lastStatus, alarms, watch, stopped>>

CheckEnds ==
    /\ watch = "checking"
    /\ stopped \/ found = {}
    /\ watch' = "waiting" /\ found' = {}
    /\ UNCHANGED <<world, handlers, state, lastStatus, alarms, stopped>>

\* The context is cancelled by watchdog.Stop ...
Cancel ==
    /\ ~stopped /\ stopped' = TRUE
    /\ UNCHANGED <<world, handlers, state, lastStatus, alarms, watch, found>>

\* ... and Watch returns when it waits.
WatchReturns ==
    /\ watch = "waiting" /\ stopped
    /\ watch' = "ended"
    /\ UNCHANGED <<world, handlers, state, lastStatus, alarms, found, stopped>>
-----------------------------------------------------------------------------
Handle ==
    \/ \E m \in toDevices : HandleState(m)
    \/ \E m \in toStatus : HandleStatus(m)
    \/ \E m \in toAlarms : HandleAlarm(m)
    \/ \E a \in adding : AddText(a)

Watch ==
    \/ Tick \/ ReadStale \/ ReadFails
    \/ \E d \in DeviceIds : AlarmStale(d) \/ AlarmStaleFails(d)
    \/ CheckEnds \/ WatchReturns

Next == Clock \/ Send \/ MoveSensor \/ Cancel \/ Handle \/ Watch

Spec == Init /\ [][Next]_vars

\* The watchdog keeps running, and the database does not fail it for ever: a
\* storage call tried at every check succeeds some time.
WatchdogFairness ==
    /\ WF_vars(Watch)
    /\ SF_vars(ReadStale)
    /\ \A d \in DeviceIds : SF_vars(AlarmStale(d))

FairSpec == Spec /\ WatchdogFairness
-----------------------------------------------------------------------------
(***************************************************************************)
(* Properties.                                                             *)
(***************************************************************************)
\* Rows, messages and the list of the watchdog are well formed; alarms are only
\* ever of a type that is configured and enabled, whoever added them.
TypeOK ==
    /\ now \in Times /\ sent \in 0 .. MaxMessages
    /\ sensorOf \in [DeviceIds -> SensorIds \cup {Null}]
    /\ toDevices \subseteq Message /\ toStatus \subseteq Message
    /\ toAlarms \subseteq Message
    /\ \A a \in adding :
        a.device \in DeviceIds /\ a.texts # <<>> /\ a.texts \in Seq(AlarmTypes)
    /\ state \in [DeviceIds -> [state : {"unknown", "ok", "warning"},
                                at : Times \cup {Never}]]
    /\ lastStatus \in [SensorIds -> Times \cup {Never}]
    /\ alarms \in [DeviceIds -> SUBSET Enabled]
    /\ watch \in {"waiting", "reading", "checking", "ended"}
    /\ found \subseteq DeviceIds /\ (found # {} => watch = "checking")
    /\ stopped \in BOOLEAN

\* The alarms devices report are kept whatever comes later: a message without a
\* code takes back the alarm of the watchdog and nothing else.
ReportedAlarmsStay ==
    [][\A d \in DeviceIds : alarms[d] \ {NotObserved} \subseteq alarms'[d]]_vars

\* What the watchdog compares with the clock never goes back, in whatever order
\* messages are handled and whichever devices the sensor was on; only what has
\* passed the retention is forgotten.
LastHeardNeverGoesBack ==
    [][\A s \in SensorIds :
         lastStatus'[s] < lastStatus[s] =>
            lastStatus[s] < now - Retention /\ lastStatus'[s] = Never]_vars

\* Neither alarmed nor about to be.
Clean(d) == NotObserved \notin alarms[d] /\ d \notin found

\* A device that is heard of within its interval and is clean stays clean: an
\* alarm comes only of a check that read the device while it was stale.
HeardDevicesStayClean ==
    [][\A d \in DeviceIds : Clean(d) /\ ~Stale(d) => Clean(d)']_vars

\* A device that stays stale is alarmed, although checks fail half-way, other
\* devices come first and statuses take the alarm back.
StaleIsNoticed ==
    \A d \in DeviceIds :
        Stale(d) ~> (NotObserved \in alarms[d] \/ ~Stale(d) \/ stopped)

\* What the README says of the watchdog: it verifies the last observed time.  A
\* device whose recorded state is within its interval is not taken for stale.
OnlyUnobservedDevicesAreFound ==
    [][\A d \in found' \ found :
          (\A m \in toStatus : m.device # d) =>
            state[d].at < now - Limit(d, sensorOf[d])]_vars
=============================================================================
