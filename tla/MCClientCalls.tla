--------------------------- MODULE MCClientCalls ---------------------------
(***************************************************************************)
(* Instances of ClientCalls for TLC: which methods the clients use.        *)
(***************************************************************************)
EXTENDS ClientCalls, TLC

CreateDevice(s, t) ==
    [op : {"CreateDevice"}, device : DeviceIds, sensor : {s}, tenant : {t},
     types : {{}}, profileTypes : {{}}]
CreateSensor == [op : {"CreateSensor"}, sensor : SensorIds, profile : Profiles]
Attach == [op : {"AttachSensor"}, device : DeviceIds, sensor : SensorIds,
           allowed : {AllowedTenants}]
Detach == [op : {"DetachSensor"}, device : DeviceIds, allowed : {AllowedTenants}]
UpdateSensorCalls == [op : {"UpdateSensor"}, sensor : SensorIds, profile : Profiles]

\* Devices are created with the sensor, and some for a tenant that is not
\* allowed; then the sensor is moved between them.
MCMethods ==
    CreateSensor \cup Attach \cup Detach \cup UpdateSensorCalls
    \cup UNION {CreateDevice(s, t) : s \in SensorIds, t \in AllowedTenants}
    \cup UNION {CreateDevice(Null, t) : t \in Tenants \ AllowedTenants}

ClientSymmetry ==
    Permutations(Requests) \cup Permutations(Clients) \cup Permutations(DeviceIds)
=============================================================================
