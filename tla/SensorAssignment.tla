-------------------------- MODULE SensorAssignment --------------------------
(***************************************************************************)
(* What the device registry promises about sensors, with the requests, the *)
(* rows and the storage calls left out: a device carries at most one       *)
(* sensor, a sensor that has a profile can be put on a device that no      *)
(* other device competes for, and a sensor changes hands only by being     *)
(* released first.  DeviceRegistry implements this specification.          *)
(***************************************************************************)
CONSTANTS DeviceIds,    \* identifiers of devices
          SensorIds,    \* identifiers of sensors
          Null          \* "carries no sensor"

VARIABLES sensorOf,     \* the sensor each device carries, or Null
          usable        \* the sensors that have a profile

vars == <<sensorOf, usable>>

TypeOK ==
    /\ sensorOf \in [DeviceIds -> SensorIds \cup {Null}]
    /\ usable \subseteq SensorIds

Init ==
    /\ sensorOf = [d \in DeviceIds |-> Null]
    /\ usable = {}

\* A sensor is given a profile; it never loses it again.
MakeUsable(s) ==
    /\ usable' = usable \cup {s}
    /\ UNCHANGED sensorOf

\* A device takes a usable sensor that no other device carries; the sensor it
\* carried before, if any, becomes free.
Assign(d, s) ==
    /\ s \in usable
    /\ \A other \in DeviceIds \ {d} : sensorOf[other] # s
    /\ sensorOf' = [sensorOf EXCEPT ![d] = s]
    /\ usable' = usable

Release(d) ==
    /\ sensorOf' = [sensorOf EXCEPT ![d] = Null]
    /\ usable' = usable

Next ==
    \/ \E s \in SensorIds : MakeUsable(s)
    \/ \E d \in DeviceIds, s \in SensorIds : Assign(d, s)
    \/ \E d \in DeviceIds : Release(d)

Spec == Init /\ [][Next]_vars
=============================================================================
