------------------------- MODULE StatusAlarmsProofs -------------------------
(***************************************************************************)
(* Proofs about StatusAlarms for any devices, sensors, intervals, kinds of *)
(* messages and retention, and any bounds.                                 *)
(*                                                                         *)
(* Whatever is handled when, a step changes the alarms of one device, and  *)
(* in one of three ways (EveryStepIsAlarmStep): a type other than          *)
(* device_not_observed is added, that one is taken back, or it is added to *)
(* a device on the list of the watchdog.  For the second handler it is     *)
(* needed that the texts it has still to add do not name it (Adding).      *)
(***************************************************************************)
EXTENDS StatusAlarms, TLAPS

Adding ==
    {a \in [device : DeviceIds, texts : Seq(AlarmTypes)] :
        a.texts # <<>> /\ \A i \in DOMAIN a.texts : a.texts[i] # NotObserved}

IInv == TypeOK /\ adding \subseteq Adding

AlarmStep ==
    \/ UNCHANGED alarms
    \/ \E d \in DeviceIds, t \in AlarmTypes \ {NotObserved} : AddAlarm(d, t)
    \/ \E d \in DeviceIds : RemoveAlarm(d, NotObserved)
    \/ \E d \in found : AddAlarm(d, NotObserved)
-----------------------------------------------------------------------------
(***************************************************************************)
(* Messages and texts.                                                     *)
(***************************************************************************)
LEMMA MessageFields ==
    ASSUME NEW m \in Message
    PROVE  /\ m.device \in DeviceIds /\ m.at \in Times
           /\ m.kind.code \notin {Null, "empty"} =>
                m.kind.code \in AlarmTypes \ {NotObserved}
           /\ m.kind.texts # <<>> =>
                [device |-> m.device, texts |-> m.kind.texts] \in Adding
<1>1. m.device \in DeviceIds /\ m.at \in Times /\ m.kind \in Kinds
  BY DEF Message
<1>2. m.kind \in Kind
  BY <1>1, KindsAreKinds
<1>3. /\ m.kind.code # NotObserved
      /\ \A i \in DOMAIN m.kind.texts : m.kind.texts[i] # NotObserved
  BY <1>1, DevicesDoNotReportAbsence
<1> QED
  BY <1>1, <1>2, <1>3 DEF Kind, Adding

\* What is left of the texts after the first.
LEMMA RestIsAdding ==
    ASSUME NEW a \in Adding
    PROVE  /\ a.device \in DeviceIds /\ Head(a.texts) \in AlarmTypes \ {NotObserved}
           /\ LET rest == [a EXCEPT !.texts = Tail(@)]
              IN rest.texts = <<>> \/ rest \in Adding
<1>1. /\ a \in [device : DeviceIds, texts : Seq(AlarmTypes)]
      /\ a.device \in DeviceIds /\ a.texts \in Seq(AlarmTypes) /\ a.texts # <<>>
      /\ \A i \in DOMAIN a.texts : a.texts[i] # NotObserved
  BY DEF Adding
<1>2. /\ Head(a.texts) \in AlarmTypes /\ Head(a.texts) = a.texts[1]
      /\ 1 \in DOMAIN a.texts
  BY <1>1
<1>3. /\ Tail(a.texts) \in Seq(AlarmTypes)
      /\ \A i \in DOMAIN Tail(a.texts) :
           i + 1 \in DOMAIN a.texts /\ Tail(a.texts)[i] = a.texts[i + 1]
  BY <1>1
<1>4. DEFINE rest == [a EXCEPT !.texts = Tail(@)]
<1>5. /\ rest \in [device : DeviceIds, texts : Seq(AlarmTypes)]
      /\ rest.texts = Tail(a.texts)
  BY <1>1, <1>3
<1> QED
  BY <1>1, <1>2, <1>3, <1>5 DEF Adding
-----------------------------------------------------------------------------
(***************************************************************************)
(* What steps do to the alarms.                                            *)
(***************************************************************************)
LEMMA HandleIsAlarmStep ==
    ASSUME IInv, Handle
    PROVE  AlarmStep
<1>1. ASSUME NEW m \in toDevices, HandleState(m)
      PROVE  AlarmStep
  BY <1>1 DEF HandleState, AlarmStep
<1>2. ASSUME NEW m \in toStatus, HandleStatus(m)
      PROVE  AlarmStep
  BY <1>2 DEF HandleStatus, AlarmStep
<1>3. ASSUME NEW m \in toAlarms, HandleAlarm(m)
      PROVE  AlarmStep
  <2>1. /\ m.device \in DeviceIds
        /\ m.kind.code \notin {Null, "empty"} =>
             m.kind.code \in AlarmTypes \ {NotObserved}
    BY MessageFields DEF IInv, TypeOK
  <2>2. \/ RemoveAlarm(m.device, NotObserved)
        \/ m.kind.code \notin {Null, "empty"} /\ AddAlarm(m.device, m.kind.code)
        \/ UNCHANGED alarms
    BY <1>3 DEF HandleAlarm
  <2> QED
    BY <2>1, <2>2 DEF AlarmStep
<1>4. ASSUME NEW a \in adding, AddText(a)
      PROVE  AlarmStep
  <2>1. a.device \in DeviceIds /\ Head(a.texts) \in AlarmTypes \ {NotObserved}
    BY RestIsAdding DEF IInv
  <2>2. AddAlarm(a.device, Head(a.texts)) \/ UNCHANGED alarms
    BY <1>4 DEF AddText
  <2> QED
    BY <2>1, <2>2 DEF AlarmStep
<1> QED
  BY <1>1, <1>2, <1>3, <1>4 DEF Handle

LEMMA EveryStepIsAlarmStep ==
    ASSUME IInv, [Next]_vars
    PROVE  AlarmStep
<1>1. CASE UNCHANGED vars
  BY <1>1 DEF vars, AlarmStep
<1>2. CASE Clock \/ Send \/ MoveSensor \/ Cancel
  BY <1>2 DEF Clock, Send, MoveSensor, Cancel, AlarmStep
<1>3. CASE Handle
  BY <1>3, HandleIsAlarmStep
<1>4. CASE Watch
  <2>1. CASE Tick \/ ReadStale \/ ReadFails \/ CheckEnds \/ WatchReturns
    BY <2>1 DEF Tick, ReadStale, ReadFails, CheckEnds, WatchReturns, AlarmStep
  <2>2. ASSUME NEW d \in DeviceIds, AlarmStale(d) \/ AlarmStaleFails(d)
        PROVE  AlarmStep
    BY <2>2 DEF AlarmStale, AlarmStaleFails, AlarmStep
  <2> QED
    BY <1>4, <2>1, <2>2 DEF Watch
<1> QED
  BY <1>1, <1>2, <1>3, <1>4 DEF Next

\* Only enabled types, all but one are kept, and that one comes only of the list.
LEMMA AlarmsAfterStep ==
    ASSUME TypeOK, AlarmStep
    PROVE  /\ alarms' \in [DeviceIds -> SUBSET Enabled]
           /\ \A d \in DeviceIds :
                /\ alarms[d] \ {NotObserved} \subseteq alarms'[d]
                /\ NotObserved \in alarms'[d] => NotObserved \in alarms[d] \/ d \in found
<1> USE DEF TypeOK
<1>1. CASE UNCHANGED alarms
  BY <1>1
<1>2. ASSUME NEW d \in DeviceIds, NEW t \in AlarmTypes \ {NotObserved}, AddAlarm(d, t)
      PROVE  /\ alarms' \in [DeviceIds -> SUBSET Enabled]
             /\ \A e \in DeviceIds :
                  /\ alarms[e] \ {NotObserved} \subseteq alarms'[e]
                  /\ NotObserved \in alarms'[e] => NotObserved \in alarms[e]
  BY <1>2 DEF AddAlarm, Admitted
<1>3. ASSUME NEW d \in DeviceIds, RemoveAlarm(d, NotObserved)
      PROVE  /\ alarms' \in [DeviceIds -> SUBSET Enabled]
             /\ \A e \in DeviceIds :
                  /\ alarms[e] \ {NotObserved} \subseteq alarms'[e]
                  /\ NotObserved \in alarms'[e] => NotObserved \in alarms[e]
  BY <1>3 DEF RemoveAlarm
<1>4. ASSUME NEW d \in found, AddAlarm(d, NotObserved)
      PROVE  /\ alarms' \in [DeviceIds -> SUBSET Enabled]
             /\ \A e \in DeviceIds :
                  /\ alarms[e] \ {NotObserved} \subseteq alarms'[e]
                  /\ NotObserved \in alarms'[e] => NotObserved \in alarms[e] \/ e \in found
  BY <1>4 DEF AddAlarm, Admitted
<1> QED
  BY <1>1, <1>2, <1>3, <1>4 DEF AlarmStep
-----------------------------------------------------------------------------
(***************************************************************************)
(* What steps do to the statuses and to the list of the watchdog.          *)
(***************************************************************************)
StatusStep ==
    \/ UNCHANGED lastStatus
    \/ \E s \in SensorIds, at \in Times :
          lastStatus' = [lastStatus EXCEPT ![s] = Kept(Later(@, at))]

ListStep ==
    \/ found' \subseteq found
    \/ found' = {d \in DeviceIds : Stale(d)} /\ watch' = "checking"

LEMMA EveryStepIsStatusStep ==
    ASSUME TypeOK, [Next]_vars
    PROVE  StatusStep /\ ListStep
<1> USE DEF StatusStep, ListStep
<1>1. CASE UNCHANGED vars
  BY <1>1 DEF vars, watchdog
<1>2. CASE Clock \/ Send \/ MoveSensor \/ Cancel
  BY <1>2 DEF Clock, Send, MoveSensor, Cancel, watchdog
<1>3. CASE Handle
  <2>1. ASSUME NEW m \in toStatus, HandleStatus(m)
        PROVE  StatusStep /\ ListStep
    <3>1. m.at \in Times /\ m.device \in DeviceIds
      BY MessageFields DEF TypeOK
    <3>2. sensorOf[m.device] # Null => sensorOf[m.device] \in SensorIds
      BY <3>1 DEF TypeOK
    <3> QED
      BY <2>1, <3>1, <3>2 DEF HandleStatus, watchdog
  <2>2. ASSUME NEW m \in toDevices, HandleState(m)
        PROVE  StatusStep /\ ListStep
    BY <2>2 DEF HandleState, watchdog
  <2>3. ASSUME NEW m \in toAlarms, HandleAlarm(m)
        PROVE  StatusStep /\ ListStep
    BY <2>3 DEF HandleAlarm, watchdog
  <2>4. ASSUME NEW a \in adding, AddText(a)
        PROVE  StatusStep /\ ListStep
    BY <2>4 DEF AddText, watchdog
  <2> QED
    BY <1>3, <2>1, <2>2, <2>3, <2>4 DEF Handle
<1>4. CASE Watch
  <2>1. CASE Tick \/ ReadStale \/ ReadFails \/ CheckEnds \/ WatchReturns
    BY <2>1 DEF Tick, ReadStale, ReadFails, CheckEnds, WatchReturns
  <2>2. ASSUME NEW d \in DeviceIds, AlarmStale(d) \/ AlarmStaleFails(d)
        PROVE  StatusStep /\ ListStep
    BY <2>2 DEF AlarmStale, AlarmStaleFails
  <2> QED
    BY <1>4, <2>1, <2>2 DEF Watch
<1> QED
  BY <1>1, <1>2, <1>3, <1>4 DEF Next

\* A status is a time or never, and goes back only out of the retention.
LEMMA StatusAfterStep ==
    ASSUME TypeOK, StatusStep
    PROVE  /\ lastStatus' \in [SensorIds -> Times \cup {Never}]
           /\ \A s \in SensorIds :
                lastStatus'[s] < lastStatus[s] =>
                  lastStatus[s] < now - Retention /\ lastStatus'[s] = Never
<1>1. CASE UNCHANGED lastStatus
  <2>1. \A s \in SensorIds : lastStatus[s] \in Int
    BY BoundsAreNat DEF TypeOK, Times, Never
  <2> QED
    BY <1>1, <2>1 DEF TypeOK
<1>2. ASSUME NEW s \in SensorIds, NEW at \in Times,
             lastStatus' = [lastStatus EXCEPT ![s] = Kept(Later(@, at))]
      PROVE  /\ lastStatus' \in [SensorIds -> Times \cup {Never}]
             /\ \A q \in SensorIds :
                  lastStatus'[q] < lastStatus[q] =>
                    lastStatus[q] < now - Retention /\ lastStatus'[q] = Never
  <2>1. /\ lastStatus[s] \in Times \cup {Never} /\ now \in Times /\ Retention \in Nat
        /\ \A q \in SensorIds : lastStatus[q] \in Int
        /\ lastStatus \in [SensorIds -> Times \cup {Never}]
    BY BoundsAreNat, IntervalsAreNat DEF TypeOK, Times, Never
  <2>2. DEFINE new == Kept(Later(lastStatus[s], at))
  <2>3. /\ new \in Times \cup {Never}
        /\ new < lastStatus[s] => lastStatus[s] < now - Retention /\ new = Never
    BY <2>1, BoundsAreNat DEF Kept, Later, Times, Never
  <2> HIDE DEF new
  <2>4. lastStatus' = [lastStatus EXCEPT ![s] = new]
    BY <1>2 DEF new
  <2>5. \A q \in SensorIds : lastStatus'[q] = IF q = s THEN new ELSE lastStatus[q]
    BY <2>1, <2>4
  <2>6. lastStatus' \in [SensorIds -> Times \cup {Never}]
    BY <2>1, <2>3, <2>4
  <2> QED
    BY <2>1, <2>3, <2>5, <2>6
<1> QED
  BY <1>1, <1>2 DEF StatusStep
-----------------------------------------------------------------------------
(***************************************************************************)
(* The messages and the watchdog stay well formed.                         *)
(***************************************************************************)
LEMMA InitInvariant == Init => IInv
<1> SUFFICES ASSUME Init
             PROVE  IInv
  OBVIOUS
<1>1. now \in Times /\ sent \in 0 .. MaxMessages
  BY BoundsAreNat DEF Init, Times
<1>2. sensorOf \in [DeviceIds -> SensorIds \cup {Null}]
  BY DEF Init
<1>3. /\ toDevices \subseteq Message /\ toStatus \subseteq Message
      /\ toAlarms \subseteq Message /\ adding \subseteq Adding
      /\ \A a \in adding :
           a.device \in DeviceIds /\ a.texts # <<>> /\ a.texts \in Seq(AlarmTypes)
  BY DEF Init
<1>4. state \in [DeviceIds -> [state : {"unknown", "ok", "warning"},
                              at : Times \cup {Never}]]
  BY DEF Init
<1>5. lastStatus \in [SensorIds -> Times \cup {Never}]
  BY DEF Init
<1>6. alarms \in [DeviceIds -> SUBSET Enabled]
  BY DEF Init
<1>7. /\ watch \in {"waiting", "reading", "checking", "ended"}
      /\ found \subseteq DeviceIds /\ (found # {} => watch = "checking")
      /\ stopped \in BOOLEAN
  BY DEF Init
<1> QED
  BY <1>1, <1>2, <1>3, <1>4, <1>5, <1>6, <1>7 DEF IInv, TypeOK

\* What is left of the invariant when alarms and statuses are taken care of.
Shape ==
    /\ now \in Times /\ sent \in 0 .. MaxMessages
    /\ sensorOf \in [DeviceIds -> SensorIds \cup {Null}]
    /\ toDevices \subseteq Message /\ toStatus \subseteq Message
    /\ toAlarms \subseteq Message /\ adding \subseteq Adding
    /\ state \in [DeviceIds -> [state : {"unknown", "ok", "warning"},
                                at : Times \cup {Never}]]
    /\ watch \in {"waiting", "reading", "checking", "ended"}
    /\ found \subseteq DeviceIds /\ (found # {} => watch = "checking")
    /\ stopped \in BOOLEAN

LEMMA ShapePreserved ==
    ASSUME Shape, [Next]_vars
    PROVE  Shape'
<1>1. CASE UNCHANGED vars
  BY <1>1 DEF vars, world, handlers, watchdog, Shape
<1>2. CASE Clock
  BY <1>2, BoundsAreNat DEF Clock, handlers, watchdog, Shape, Times
<1>3. CASE Send
  <2>1. PICK d \in DeviceIds, k \in Kinds :
          LET m == [device |-> d, at |-> now, kind |-> k] IN
          toDevices' = toDevices \cup {m} /\ toAlarms' = toAlarms \cup {m}
    BY <1>3 DEF Send
  <2>2. [device |-> d, at |-> now, kind |-> k] \in Message
    BY DEF Message, Shape
  <2>3. sent' \in 0 .. MaxMessages
    BY <1>3, BoundsAreNat DEF Send, Shape
  <2> QED
    BY <1>3, <2>1, <2>2, <2>3 DEF Send, watchdog, Shape
<1>4. CASE MoveSensor
  <2>1. sensorOf' \in [DeviceIds -> SensorIds \cup {Null}]
    BY <1>4 DEF MoveSensor, Registry!Assign, Registry!Release, Shape
  <2> QED
    BY <1>4, <2>1 DEF MoveSensor, handlers, watchdog, Shape
<1>5. CASE Cancel
  BY <1>5 DEF Cancel, world, handlers, Shape
<1>6. ASSUME NEW m \in toDevices, HandleState(m)
      PROVE  Shape'
  <2>1. m \in Message /\ m.device \in DeviceIds /\ m.at \in Times
    BY MessageFields DEF Shape
  <2>2. StateOf(m) \in [state : {"unknown", "ok", "warning"}, at : Times \cup {Never}]
    BY <2>1 DEF StateOf
  <2>3. state' \in [DeviceIds -> [state : {"unknown", "ok", "warning"},
                                  at : Times \cup {Never}]]
    BY <1>6, <2>2 DEF HandleState, SetDeviceState, Shape
  <2> QED
    BY <1>6, <2>1, <2>3 DEF HandleState, world, watchdog, Shape
<1>7. ASSUME NEW m \in toStatus, HandleStatus(m)
      PROVE  Shape'
  BY <1>7 DEF HandleStatus, world, watchdog, Shape
<1>8. ASSUME NEW m \in toAlarms, HandleAlarm(m)
      PROVE  Shape'
  <2>1. m.kind.texts # <<>> => [device |-> m.device, texts |-> m.kind.texts] \in Adding
    BY MessageFields DEF Shape
  <2>2. adding' \subseteq Adding
    BY <1>8, <2>1 DEF HandleAlarm, Shape
  <2> QED
    BY <1>8, <2>2 DEF HandleAlarm, world, watchdog, Shape
<1>9. ASSUME NEW a \in adding, AddText(a)
      PROVE  Shape'
  <2>1. DEFINE rest == [a EXCEPT !.texts = Tail(@)]
  <2>2. rest.texts = <<>> \/ rest \in Adding
    BY RestIsAdding DEF Shape
  <2> HIDE DEF rest
  <2>3. adding' = (adding \ {a}) \cup (IF rest.texts = <<>> THEN {} ELSE {rest})
    BY <1>9 DEF AddText, rest
  <2>4. adding' \subseteq Adding
    BY <2>2, <2>3 DEF Shape
  <2> QED
    BY <1>9, <2>4 DEF AddText, world, watchdog, Shape
<1>10. CASE Watch
  <2>1. CASE Tick \/ ReadStale \/ ReadFails \/ CheckEnds \/ WatchReturns
    BY <2>1 DEF Tick, ReadStale, ReadFails, CheckEnds, WatchReturns, world,
                handlers, Shape
  <2>2. ASSUME NEW d \in DeviceIds, AlarmStale(d) \/ AlarmStaleFails(d)
        PROVE  Shape'
    BY <2>2 DEF AlarmStale, AlarmStaleFails, world, handlers, Shape
  <2> QED
    BY <1>10, <2>1, <2>2 DEF Watch
<1> QED
  BY <1>1, <1>2, <1>3, <1>4, <1>5, <1>6, <1>7, <1>8, <1>9, <1>10
  DEF Next, Handle

LEMMA NextInvariant ==
    ASSUME IInv, [Next]_vars
    PROVE  IInv'
<1>1. Shape /\ TypeOK
  BY DEF IInv, TypeOK, Shape
<1>2. Shape'
  BY <1>1, ShapePreserved
<1>3. alarms' \in [DeviceIds -> SUBSET Enabled]
  BY <1>1, EveryStepIsAlarmStep, AlarmsAfterStep
<1>4. lastStatus' \in [SensorIds -> Times \cup {Never}]
  BY <1>1, EveryStepIsStatusStep, StatusAfterStep
<1>5. \A a \in adding' :
        a.device \in DeviceIds /\ a.texts # <<>> /\ a.texts \in Seq(AlarmTypes)
  BY <1>2 DEF Shape, Adding
<1> QED
  BY <1>2, <1>3, <1>4, <1>5 DEF Shape, IInv, TypeOK

LEMMA Invariance == Spec => []IInv
  BY InitInvariant, NextInvariant, PTL DEF Spec
-----------------------------------------------------------------------------
(***************************************************************************)
(* The theorems.                                                           *)
(***************************************************************************)
\* Alarms are only ever of types that are configured and enabled, whoever adds
\* them and whatever devices send, and all else is well formed.
THEOREM TypeCorrect == Spec => []TypeOK
<1>1. IInv => TypeOK
  BY DEF IInv
<1> QED
  BY <1>1, Invariance, PTL

\* No step of a handler or of the watchdog takes back what a device reported.
THEOREM ReportedStay == Spec => ReportedAlarmsStay
<1>1. ASSUME IInv, [Next]_vars
      PROVE  \A d \in DeviceIds : alarms[d] \ {NotObserved} \subseteq alarms'[d]
  BY <1>1, EveryStepIsAlarmStep, AlarmsAfterStep DEF IInv
<1> QED
  BY <1>1, Invariance, PTL DEF Spec, ReportedAlarmsStay

\* However late messages are and however sensors move, the last time a sensor
\* was heard of does not go back.
THEOREM LastHeardGrows == Spec => LastHeardNeverGoesBack
<1>1. ASSUME IInv, [Next]_vars
      PROVE  \A s \in SensorIds :
               lastStatus'[s] < lastStatus[s] =>
                 lastStatus[s] < now - Retention /\ lastStatus'[s] = Never
  BY <1>1, EveryStepIsStatusStep, StatusAfterStep DEF IInv
<1> QED
  BY <1>1, Invariance, PTL DEF Spec, LastHeardNeverGoesBack

\* For any intervals and any number of devices, an alarm of the watchdog comes
\* of a check that read the device while it was stale.
THEOREM HeardStayClean == Spec => HeardDevicesStayClean
<1>1. ASSUME IInv, [Next]_vars
      PROVE  \A d \in DeviceIds : Clean(d) /\ ~Stale(d) => Clean(d)'
  <2> SUFFICES ASSUME NEW d \in DeviceIds, Clean(d), ~Stale(d)
               PROVE  NotObserved \notin alarms'[d] /\ d \notin found'
    BY DEF Clean
  <2>1. NotObserved \notin alarms'[d]
    BY <1>1, EveryStepIsAlarmStep, AlarmsAfterStep DEF IInv, Clean
  <2>2. d \notin found'
    BY <1>1, EveryStepIsStatusStep DEF IInv, Clean, ListStep
  <2> QED
    BY <2>1, <2>2
<1> QED
  BY <1>1, Invariance, PTL DEF Spec, HeardDevicesStayClean
=============================================================================
