----------------------------- MODULE MCListings -----------------------------
(***************************************************************************)
(* Instances of Listings for TLC.                                          *)
(***************************************************************************)
EXTENDS Listings, TLC

CONSTANTS t1, t2, u1, u2, x, cold

MCDevice(tenant, active, name, sensor) ==
    [tenant |-> tenant, active |-> active, name |-> name, sensor |-> sensor,
     labels |-> {x}, urns |-> {u1}]

MCState(online, at) == [online |-> online, at |-> at]

MCProfileName == 1 :> x @@ 2 :> x
MCTypesOf == 1 :> {u1} @@ 2 :> {u1, u2}

MCNoAlarms == [t \in AlarmTypes |-> Null]

\* Three devices: one never heard of, one that is not active, two with sensors.
MCTables ==
    {[devices |-> << MCDevice(t1, TRUE, 2, 1), MCDevice(t1, TRUE, 1, Null),
                     MCDevice(t2, FALSE, 1, 2) >>,
      states |-> << MCState(FALSE, 1), Null, MCState(TRUE, 2) >>,
      sensors |-> << 1, Null, NoRow >>,
      alarms |-> << [t \in AlarmTypes |-> 1], [t \in AlarmTypes |-> 2], MCNoAlarms >>,
      statuses |-> << {1, 2}, {}, {} >>]}

MCNoDevices ==
    {[t EXCEPT !.devices = [d \in DeviceIDs |-> Null],
               !.states = [d \in DeviceIDs |-> Null],
               !.alarms = [d \in DeviceIDs |-> MCNoAlarms]] : t \in MCTables}

MCAllTables == MCTables \cup MCNoDevices

\* Rows that calls write: another tenant, another name, a sensor or none.
MCDeviceRows ==
    {MCDevice(t, a, n, s) :
        t \in {t1, t2}, a \in BOOLEAN, n \in {1, 2}, s \in {1, 2, Null}}

MCRequest(list, values) == [list |-> list, tenants |-> {t1}, values |-> values]
MCWide(list, values) == [list |-> list, tenants |-> {t1, t2}, values |-> values]

MCOne == [limit |-> <<1>>]

\* Walks over devices in each order, filtered, from another offset.
MCDeviceWalks ==
    {MCWide("devices", v @@ MCOne) : v \in
        {<<>>, [limit |-> <<2>>], [online |-> <<FALSE>>], [offset |-> <<1>>, limit |-> <<2>>],
         [sortby |-> <<"name">>], [sortby |-> <<"deveui">>, sortorder |-> <<"desc">>],
         [sortby |-> <<"decoder">>], [sortby |-> <<"device_id">>, sortorder |-> <<"desc">>],
         [sortby |-> <<"location">>, active |-> <<TRUE>>]}}
    \cup {MCRequest("devices", MCOne @@ [tenant |-> <<t2>>])}

\* Walks over sensors and over devices with alarms as well.
MCWalks ==
    MCDeviceWalks \cup {MCRequest("sensors", v @@ MCOne) : v \in
        {<<>>, [assigned |-> <<FALSE>>], [type |-> <<u1>>], [hasprofile |-> <<TRUE>>]}}
    \cup {MCWide("alarms", v @@ MCOne) : v \in {<<>>, [alarmtype |-> <<cold>>]}}

\* Single requests: every filter, two keys for one field, odd limits, exports,
\* malformed values.
MCSingleRequests ==
    {MCRequest("devices", v) : v \in
        {<<>>, [limit |-> <<0>>], [limit |-> <<Malformed>>], [offset |-> <<-1>>],
         [export |-> <<"true">>, limit |-> <<0>>], [export |-> <<"true">>, offset |-> <<2>>],
         [type |-> <<1>>, types |-> <<1, 2>>], [types |-> <<Blank>>],
         [deveui |-> <<1>>, sensor_id |-> <<2>>], [urns |-> <<u1, u2>>], [urns |-> <<Blank>>],
         [tenant |-> <<t2>>], [profilename |-> <<x>>], [lastseen |-> <<1>>],
         [search |-> <<x>>], [bounds |-> <<u2>>], [urn |-> <<Blank>>],
         [export |-> <<"true">>, limit |-> <<-1>>], [device_id |-> <<2>>]}}
    \cup {MCRequest("sensors", v) : v \in
        {<<>>, [limit |-> <<0>>], [sensortype |-> <<1>>, profilename |-> <<2>>],
         [type |-> <<u2>>], [types |-> <<Blank>>]}}
    \cup {MCWide("alarms", v) : v \in {[limit |-> <<0>>], [alarmtype |-> <<cold>>]}}
=============================================================================
