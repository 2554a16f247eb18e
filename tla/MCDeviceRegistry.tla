-------------------------- MODULE MCDeviceRegistry --------------------------
(***************************************************************************)
(* Instances of DeviceRegistry for TLC: the calls clients make and the     *)
(* symmetry of the sets of model values.                                   *)
(***************************************************************************)
EXTENDS DeviceRegistry, TLC

\* Calls that move sensors between devices, those that create sensors with and
\* without a profile, and merges among them.  One tenant, no types.
AssignmentCalls ==
    [op : {"CreateDevice"}, device : DeviceIds, sensor : SensorIds \cup {Null},
     tenant : Tenants, types : {{}}, profileTypes : {{}}]
    \cup [op : {"UpdateDevice"}, device : DeviceIds,
          sensor : SensorIds \cup {Null}, tenant : Tenants, types : {{}}]
    \cup [op : {"AttachSensor"}, device : DeviceIds, sensor : SensorIds,
          allowed : {Tenants}]
    \cup [op : {"MergeDevice"}, device : DeviceIds, tenant : Tenants,
          types : {{}}, allowed : {Tenants}]
    \cup [op : {"DetachSensor"}, device : DeviceIds, allowed : {Tenants}]
    \cup CreateSensorCall \cup UpdateSensorCall

AssignmentSymmetry ==
    Permutations(Requests) \cup Permutations(DeviceIds)
    \cup Permutations(SensorIds)
=============================================================================
