------------------------------ MODULE Listings ------------------------------
(***************************************************************************)
(* The lists of devices, of sensors and of devices with alarms: what the   *)
(* URL of a request asks for, which rows it selects and in which order,    *)
(* and what the links of a page lead to.  A client walks one list along    *)
(* the links while the rest of the service writes the tables; that this    *)
(* implements PageWalk is checked.                                         *)
(*                                                                         *)
(* A URL is a function from its keys to the values given for each.  Text   *)
(* that filters compare with a column (search terms, names, metadata) is   *)
(* a label a device has or has not.                                        *)
(***************************************************************************)
EXTENDS Integers, Sequences, FiniteSets, Functions, FiniteSetsExt

CONSTANTS DeviceIDs, SensorIDs,  \* rows of the tables, numbers in text order
          Profiles,              \* sensor profiles, numbers in text order
          ProfileName,           \* name of each profile
          TypesOf,               \* types of each profile
          Times,                 \* times of observations
          Top,                   \* no number above is bigger
          Null,                  \* NULL, a pointer that is nil, no device
          NoRow,                 \* no sensor
          Blank,                 \* the empty string
          Malformed,             \* a value that strconv refuses
          DeviceRows,            \* what may be written to devices
          AlarmTypes,
          Requests,              \* the walks of clients ...
          Probes,                \* ... and what they ask for once, at any time
          Tables,                \* the tables a run begins with
          MaxWrites              \* bound on the writes during a walk

Numbers == DeviceIDs \cup SensorIDs \cup Profiles \cup Times

ASSUME TopIsTop == Top \in Nat /\ Numbers \subseteq 0 .. Top
ASSUME ProfilesAreKnown ==
    DOMAIN ProfileName = Profiles /\ DOMAIN TypesOf = Profiles
ASSUME NullIsNoValue == Null \notin Int /\ Null \notin BOOLEAN
ASSUME BlankIsNoSensor == Blank \notin SensorIDs
ASSUME CallersHaveTenants == \A r \in Requests \cup Probes : r.tenants # {}

\* A key that a URL has comes with a value at least.
ASSUME RequestsAreURLs ==
    \A r \in Requests \cup Probes :
        /\ r = [list |-> r.list, tenants |-> r.tenants, values |-> r.values]
        /\ r.list \in {"devices", "sensors", "alarms"}
        /\ \A k \in DOMAIN r.values : r.values[k] # <<>>
        /\ \A k \in {"limit", "offset"} \cap DOMAIN r.values :
              r.values[k][1] \in Int \cup {Malformed}
ASSUME RowsHaveColumns ==
    \A row \in DeviceRows :
        /\ row.active \in BOOLEAN /\ row.name \in 0 .. Top
        /\ row.sensor \in SensorIDs \cup {Null}
ASSUME TablesHaveRows ==
    \A t \in Tables :
        /\ t.devices \in [DeviceIDs -> DeviceRows \cup {Null}]
        /\ t.states \in [DeviceIDs -> [online : BOOLEAN, at : Times] \cup {Null}]
        /\ t.sensors \in [SensorIDs -> Profiles \cup {Null, NoRow}]
        /\ t.alarms \in [DeviceIDs -> [AlarmTypes -> Times \cup {Null}]]
        /\ t.statuses \in [SensorIDs -> SUBSET Times]
        /\ \A d \in DeviceIDs :
              t.devices[d] # Null /\ t.devices[d].sensor # Null
              => t.sensors[t.devices[d].sensor] # NoRow

VARIABLES devices,   \* [DeviceIDs -> row or Null]
          states,    \* device_state: [online, at] or Null
          sensors,   \* profile of a sensor, Null or NoRow
          alarms,    \* device_alarms: times by device and type
          statuses,  \* sensor_status: times by sensor
          writes,    \* how many writes there were
          request,   \* the walk: the list, the caller's tenants, the URL
          mode,      \* see PageWalk, and so for
          seen, twice, due, moved

tables == <<devices, states, sensors, alarms, statuses>>
vars == <<tables, writes, request, mode, seen, twice, due, moved>>

-----------------------------------------------------------------------------
(***************************************************************************)
(* From the URL to a query.  Go walks a map in an order of its own: when   *)
(* two keys fill one field, either may be the last.                        *)
(***************************************************************************)
Whole(values, keys) ==
    LET given == keys \cap DOMAIN values
    IN IF given = {} THEN {<<>>} ELSE {values[k] : k \in given}

First(values, keys, none) ==
    {IF v = <<>> THEN none ELSE v[1] : v \in Whole(values, keys)}

Parsed == [devices |-> {"active", "online", "limit", "offset", "bounds", "lastseen"},
           sensors |-> {"limit", "offset", "assigned", "hasprofile"},
           alarms |-> {"limit", "offset"}]

\* Otherwise the answer is 400.
WellFormed(r) ==
    \A k \in Parsed[r.list] \cap DOMAIN r.values : r.values[k][1] # Malformed

Has(r, key, value) == key \in DOMAIN r.values /\ r.values[key][1] = value

\* What only the database refuses: then the answer is 500.  The filter bounds
\* names a column location, and two of the tables joined have one; the filter
\* urn names a column that devices has not.
Refused(r) ==
    \/ /\ ~(r.list = "devices" /\ Has(r, "export", "true"))
       /\ \E k \in {"limit", "offset"} \cap DOMAIN r.values : r.values[k][1] < 0
    \/ r.list = "devices" /\ "bounds" \in DOMAIN r.values
    \/ /\ r.list = "devices"
       /\ "urn" \in DOMAIN r.values /\ ~Has(r, "urn", Blank)

deviceQueryFromValues(r) ==
    LET values == r.values IN
    [list : {"devices"}, AllowedTenants : {r.tenants},
     Tenant : First(values, {"tenant"}, Blank),
     SensorID : First(values, {"deveui", "sensor_id"}, Blank),
     DeviceID : First(values, {"device_id"}, Blank),
     Types : Whole(values, {"type", "types"}),
     Active : First(values, {"active"}, Null),
     Online : First(values, {"online"}, Null),
     ProfileNames : Whole(values, {"profilename"}),
     LastSeen : First(values, {"lastseen"}, Null),
     Labels : {{values[k][1] : k \in DOMAIN values \cap
                    {"search", "name", "metadata"}} \ {Blank}},
     Urns : Whole(values, {"urns"}),
     SortBy : First(values, {"sortby"}, Blank),
     SortDesc : {v = "desc" : v \in First(values, {"sortorder"}, Blank)},
     Export : {v = "true" : v \in First(values, {"export"}, Blank)},
     Offset : First(values, {"offset"}, Null),
     Limit : First(values, {"limit"}, Null)]

sensorQueryFromValues(r) ==
    LET values == r.values IN
    [list : {"sensors"},
     Assigned : First(values, {"assigned"}, Null),
     HasProfile : First(values, {"hasprofile"}, Null),
     ProfileName : First(values, {"profilename", "sensortype"}, Blank),
     Types : Whole(values, {"type", "types"}),
     Export : {FALSE},
     Offset : First(values, {"offset"}, Null),
     Limit : First(values, {"limit"}, Null)]

alarmQueryFromValues(r) ==
    [list : {"alarms"}, AllowedTenants : {r.tenants},
     AlarmType : First(r.values, {"alarmtype"}, Blank),
     Export : {FALSE},
     Offset : First(r.values, {"offset"}, Null),
     Limit : First(r.values, {"limit"}, Null)]

Queries(r) ==
    CASE r.list = "devices" -> deviceQueryFromValues(r)
      [] r.list = "sensors" -> sensorQueryFromValues(r)
      [] r.list = "alarms" -> alarmQueryFromValues(r)

DefaultLimit == [devices |-> 10, sensors |-> 10, alarms |-> 5]

Offset(q) == IF q.Offset = Null THEN 0 ELSE q.Offset
Limit(q) == IF q.Limit = Null THEN DefaultLimit[q.list] ELSE q.Limit

\* What a client that follows links asks for has one meaning, and pages.
ASSUME WalksHaveOneQuery ==
    \A r \in {r \in Requests : WellFormed(r)} :
        /\ ~Refused(r)
        /\ \E q \in Queries(r) :
              /\ Queries(r) = {q} /\ ~q.Export
              /\ Limit(q) \in 1 .. Top /\ Offset(q) \in 0 .. Top
-----------------------------------------------------------------------------
(***************************************************************************)
(* From a query to rows: the joins, WHERE and ORDER BY.                    *)
(***************************************************************************)
Carries(d, s) == devices[d] # Null /\ devices[d].sensor = s

ProfileOf(d) ==
    IF devices[d].sensor = Null THEN Null ELSE sensors[devices[d].sensor]

AllowedTenant(q, d) ==
    IF q.AllowedTenants # {} THEN devices[d].tenant \in q.AllowedTenants
    ELSE q.Tenant # Blank => devices[d].tenant = q.Tenant

\* MUTANT: NULL is not FALSE.
OnlineIsEqual(online, d) == states[d] # Null /\ states[d].online = online

\* A device that has not been heard of is not online.
OnlineIs(online, d) ==
    IF online THEN states[d] # Null /\ states[d].online
    ELSE states[d] = Null \/ ~states[d].online

DeviceTypeUrnWhere(q, d) ==
    CASE Len(q.Urns) = 1 /\ q.Urns[1] # Blank -> q.Urns[1] \in devices[d].urns
      [] Len(q.Urns) > 1 -> Range(q.Urns) \cap devices[d].urns # {}
      [] OTHER -> TRUE

DeviceWhere(q, d) ==
    /\ devices[d] # Null
    /\ q.DeviceID # Blank => d = q.DeviceID
    /\ q.SensorID # Blank => devices[d].sensor = q.SensorID
    /\ AllowedTenant(q, d)
    /\ q.Active # Null => devices[d].active = q.Active
    /\ q.Online # Null => OnlineIs(q.Online, d)
    /\ q.Types # <<>> => ProfileOf(d) \in Range(q.Types)
    /\ q.ProfileNames # <<>> =>
          ProfileOf(d) # Null /\ ProfileName[ProfileOf(d)] \in Range(q.ProfileNames)
    /\ q.LastSeen # Null => states[d] # Null /\ states[d].at >= q.LastSeen
    /\ q.Labels \subseteq devices[d].labels
    /\ DeviceTypeUrnWhere(q, d)

SensorWhere(q, s) ==
    /\ sensors[s] # NoRow
    /\ q.Assigned # Null => q.Assigned = (\E d \in DeviceIDs : Carries(d, s))
    /\ q.HasProfile # Null => q.HasProfile = (sensors[s] # Null)
    /\ q.ProfileName # Blank => sensors[s] = q.ProfileName
    /\ LET asked == Range(q.Types) \ {Blank}
       IN asked # {} => sensors[s] # Null /\ TypesOf[sensors[s]] \cap asked # {}

\* Alarms of one device are one record of the list.
Listed(q, d) ==
    {t \in AlarmTypes : alarms[d][t] # Null /\ (q.AlarmType # Blank => t = q.AlarmType)}

AlarmWhere(q, d) ==
    /\ devices[d] # Null /\ devices[d].tenant \in q.AllowedTenants
    /\ devices[d].active
    /\ Listed(q, d) # {}

Matching(q) ==
    CASE q.list = "devices" -> {d \in DeviceIDs : DeviceWhere(q, d)}
      [] q.list = "sensors" -> {s \in SensorIDs : SensorWhere(q, s)}
      [] q.list = "alarms" -> {d \in DeviceIDs : AlarmWhere(q, d)}

\* WithSortBy knows some columns; any other name leaves the usual order.
SortColumn(q, d) ==
    CASE q.SortBy = "device_id" -> d
      [] q.SortBy \in {"deveui", "sensor_id"} -> devices[d].sensor
      [] q.SortBy = "name" -> devices[d].name
      [] q.SortBy \in {"decoder", "profile", "device_profile_id",
                       "sensor_profile_id"} -> ProfileOf(d)

Sorted(q) == q.SortBy \in {"device_id", "deveui", "sensor_id", "name", "decoder",
                           "profile", "device_profile_id", "sensor_profile_id"}

\* NULL is the largest value to PostgreSQL.
SqlLess(v, w) == v # Null /\ (w = Null \/ v < w)

LatestAlarm(q, d) == Max({alarms[d][t] : t \in Listed(q, d)})

\* MUTANT: without NULLS LAST, NULL comes first.
HeardNullsFirst(d) == IF states[d] = Null THEN Top + 1 ELSE states[d].at

Heard(d) == IF states[d] = Null THEN -1 ELSE states[d].at

\* active DESC, state_observed_at DESC NULLS LAST, device_id ASC
UsualOrder(d, e) ==
    \/ devices[d].active /\ ~devices[e].active
    \/ /\ devices[d].active = devices[e].active
       /\ Heard(d) > Heard(e) \/ (Heard(d) = Heard(e) /\ d < e)

OrderBy(q, r, s) ==
    CASE q.list = "devices" /\ ~Sorted(q) -> UsualOrder(r, s)
      [] q.list = "devices" /\ Sorted(q) ->
             IF q.SortDesc THEN SqlLess(SortColumn(q, s), SortColumn(q, r))
             ELSE SqlLess(SortColumn(q, r), SortColumn(q, s))
      [] q.list = "sensors" -> r < s
      [] q.list = "alarms" -> LatestAlarm(q, r) > LatestAlarm(q, s)

Rankings(q) ==
    LET matching == Matching(q)
    IN {rank \in Bijection(matching, 0 .. Cardinality(matching) - 1) :
           \A r, s \in matching : OrderBy(q, r, s) => rank[r] < rank[s]}
-----------------------------------------------------------------------------
(***************************************************************************)
(* From rows to a page and its links.                                      *)
(***************************************************************************)
\* MUTANT: a second statement counts.
CountedApart(q, data) == Cardinality(Matching(q))

\* What a page counts in all comes with its rows.
TotalCount(q, data) == IF data = {} THEN 0 ELSE Cardinality(Matching(q))

Collection(q, rank) ==
    LET data == IF q.Export THEN Matching(q)
                ELSE {r \in Matching(q) : /\ Offset(q) <= rank[r]
                                          /\ rank[r] < Offset(q) + Limit(q)}
    IN [Data |-> data, TotalCount |-> TotalCount(q, data),
        Offset |-> IF q.Export THEN 0 ELSE Offset(q),
        Limit |-> IF q.Export THEN Cardinality(data) ELSE Limit(q)]

\* The pages a request may be answered with, now.
Pages(r) ==
    IF Refused(r) THEN {}
    ELSE UNION {{Collection(q, rank) : rank \in Rankings(q)} : q \in Queries(r)}

LastOf(page) == ((page.TotalCount - 1) \div page.Limit) * page.Limit
NextOf(page) == page.Offset + page.Limit
PrevOf(page) == page.Offset - page.Limit

\* Links keep the URL but for its offset.
Follow(offset) ==
    request' = [request EXCEPT !.values =
                   [k \in DOMAIN @ \cup {"offset"} |->
                       IF k = "offset" THEN <<offset>> ELSE @[k]]]

See(page) ==
    /\ seen' = seen \cup page.Data
    /\ twice' = twice \cup (seen \cap page.Data)

ReadForward ==
    /\ mode = "forward"
    /\ \E page \in Pages(request) :
        /\ See(page)
        /\ IF page.TotalCount = 0
           THEN /\ mode' = IF seen = {} THEN "lost first" ELSE "lost"
                /\ UNCHANGED request
           ELSE IF NextOf(page) < page.TotalCount
                THEN Follow(NextOf(page)) /\ UNCHANGED mode
                ELSE mode' = "done forward" /\ UNCHANGED request
    /\ UNCHANGED <<tables, writes, due, moved>>

ReadFirst ==
    /\ mode = "first"
    /\ \E page \in Pages(request) :
        IF page.TotalCount = 0 THEN mode' = "lost first" /\ UNCHANGED request
        ELSE mode' = "last" /\ Follow(LastOf(page))
    /\ UNCHANGED <<tables, writes, seen, twice, due, moved>>

ReadBackward ==
    /\ mode \in {"last", "backward"}
    /\ \E page \in Pages(request) :
        /\ See(page)
        /\ IF page.TotalCount = 0 THEN mode' = "lost" /\ UNCHANGED request
           ELSE IF PrevOf(page) >= 0
                THEN Follow(PrevOf(page)) /\ mode' = "backward"
                ELSE mode' = "done backward" /\ UNCHANGED request
    /\ UNCHANGED <<tables, writes, due, moved>>

Read == ReadForward \/ ReadFirst \/ ReadBackward
-----------------------------------------------------------------------------
(***************************************************************************)
(* The keys of PageWalk: the higher, the earlier.                          *)
(***************************************************************************)
SortKey(v, desc) ==
    IF desc THEN IF v = Null THEN Top + 2 ELSE v + 1
    ELSE IF v = Null THEN 0 ELSE Top + 1 - v

UsualKey(d) ==
    (IF devices[d].active THEN Top + 2 ELSE 0)
        + (IF states[d] = Null THEN 0 ELSE states[d].at + 1)

Key(q, r) ==
    CASE q.list = "devices" /\ ~Sorted(q) -> UsualKey(r)
      [] q.list = "devices" /\ Sorted(q) -> SortKey(SortColumn(q, r), q.SortDesc)
      [] q.list = "sensors" -> SortKey(r, FALSE)
      [] q.list = "alarms" -> SortKey(LatestAlarm(q, r), TRUE)

query == CHOOSE q \in Queries(request) : TRUE
Rows == DeviceIDs \cup SensorIDs
Table ==
    LET q == query
        matching == Matching(q)
    IN [r \in Rows |-> IF r \in matching THEN Key(q, r) ELSE -1]

Walk == INSTANCE PageWalk WITH
    Keys <- 0 .. 2 * Top + 3, Offsets <- 0 .. Top, Limits <- 1 .. Top,
    table <- Table, at <- Offset(query), limit <- Limit(query),
    tieBreak <- query.list = "devices" /\ ~Sorted(query)
-----------------------------------------------------------------------------
(***************************************************************************)
(* What the rest of the service writes.                                    *)
(***************************************************************************)
History ==
    LET old == Table
        new == Table'
    IN /\ moved' = moved \cup UNION {Walk!Movement(old[r], new[r]) : r \in Rows}
       /\ due' = {r \in due : new[r] = old[r] /\ ~Walk!Tied(r)'}

Write ==
    /\ writes < MaxWrites /\ writes' = writes + 1
    /\ tables' # tables
    /\ UNCHANGED <<request, mode, seen, twice>>
    /\ History

\* A device is created or changed, or its sensor is: the foreign key and the
\* unique index decide whether it may be.
WriteDevice(d, row) ==
    /\ row.sensor # Null =>
          /\ sensors[row.sensor] # NoRow
          /\ \A e \in DeviceIDs \ {d} : ~Carries(e, row.sensor)
    /\ devices' = [devices EXCEPT ![d] = row]
    /\ UNCHANGED <<states, sensors, alarms, statuses>>
    /\ Write

WriteSensor(s, profile) ==
    /\ sensors' = [sensors EXCEPT ![s] = profile]
    /\ UNCHANGED <<devices, states, alarms, statuses>>
    /\ Write

SetDeviceState(d, online, at) ==
    /\ devices[d] # Null
    /\ states' = [states EXCEPT ![d] = [online |-> online, at |-> at]]
    /\ UNCHANGED <<devices, sensors, alarms, statuses>>
    /\ Write

\* Add and Remove.
WriteAlarm(d, type, at) ==
    /\ devices[d] # Null
    /\ alarms' = [alarms EXCEPT ![d][type] = at]
    /\ UNCHANGED <<devices, states, sensors, statuses>>
    /\ Write

AddStatus(s, at) ==
    /\ sensors[s] # NoRow
    /\ statuses' = [statuses EXCEPT ![s] = @ \cup {at}]
    /\ UNCHANGED <<devices, states, sensors, alarms>>
    /\ Write

Init ==
    /\ \E t \in Tables :
        /\ devices = t.devices /\ states = t.states /\ sensors = t.sensors
        /\ alarms = t.alarms /\ statuses = t.statuses
    /\ request \in {r \in Requests : WellFormed(r)}
    /\ mode \in {"forward", "first"}
    /\ due = {r \in Matching(query) :
                 ~Walk!Tied(r) /\ (mode = "forward" => Walk!Place(r) >= Offset(query))}
    /\ seen = {} /\ twice = {} /\ moved = {} /\ writes = 0

Next ==
    \/ Read
    \/ \E d \in DeviceIDs, row \in DeviceRows : WriteDevice(d, row)
    \/ \E s \in SensorIDs, p \in Profiles \cup {Null} : WriteSensor(s, p)
    \/ \E d \in DeviceIDs, online \in BOOLEAN, at \in Times : SetDeviceState(d, online, at)
    \/ \E d \in DeviceIDs, t \in AlarmTypes, at \in Times \cup {Null} : WriteAlarm(d, t, at)
    \/ \E s \in SensorIDs, at \in Times : AddStatus(s, at)

Spec == Init /\ [][Next]_vars
-----------------------------------------------------------------------------
(***************************************************************************)
(* Reading one device.                                                     *)
(***************************************************************************)
\* A row whose profile is NULL cannot be scanned.
Unscannable(found, s) == found # {} /\ sensors[s] = Null

\* MUTANT: the tenants are not looked at.
AnyDeviceBySensor(s, tenants) ==
    LET found == {d \in DeviceIDs : Carries(d, s)}
    IN IF Unscannable(found, s) THEN [status |-> 500, devices |-> {}]
       ELSE [status |-> 200, devices |-> found]

DeviceBySensor(s, tenants) ==
    LET found == {d \in DeviceIDs : Carries(d, s)}
    IN IF Unscannable(found, s) THEN [status |-> 500, devices |-> {}]
       ELSE [status |-> 200, devices |-> {d \in found : devices[d].tenant \in tenants}]

StatusesOf(d) ==
    IF devices[d].sensor = Null THEN {} ELSE statuses[devices[d].sensor]

\* MUTANT: ORDER BY observed_at ASC also decides what LIMIT cuts.
GetOldestStatus(d, tenants, limit) ==
    IF devices[d] = Null \/ devices[d].tenant \notin tenants THEN {}
    ELSE {t \in StatusesOf(d) : Cardinality({u \in StatusesOf(d) : u < t}) < limit}

\* The newest statuses, as many as the limit says.
GetDeviceStatus(d, tenants, limit) ==
    IF devices[d] = Null \/ devices[d].tenant \notin tenants THEN {}
    ELSE {t \in StatusesOf(d) : Cardinality({u \in StatusesOf(d) : u > t}) < limit}

\* latest_status of the list of devices.
LatestStatus(d) == IF StatusesOf(d) = {} THEN Null ELSE Max(StatusesOf(d))
-----------------------------------------------------------------------------
(***************************************************************************)
(* Properties.                                                             *)
(***************************************************************************)
\* The lists, ordered and cut by the SQL of each and linked by createLinks, are
\* walked as PageWalk says, so that what it promises of missed and repeated
\* records holds of devices, sensors and alarms.
ImplementsPageWalk == Walk!Spec

\* A record without the value a filter asks about is not lost between its two
\* answers: what a query selects is split in two by online, by assigned and by
\* hasProfile.
FiltersPartition ==
    \A r \in {r \in Probes : WellFormed(r) /\ ~Refused(r)} : \A q \in Queries(r) :
        LET Split(yes, no, all) ==
                /\ Matching(yes) \cap Matching(no) = {}
                /\ Matching(yes) \cup Matching(no) = Matching(all)
        IN CASE q.list = "devices" ->
                  Split([q EXCEPT !.Online = TRUE], [q EXCEPT !.Online = FALSE],
                        [q EXCEPT !.Online = Null])
             [] q.list = "sensors" ->
                  /\ Split([q EXCEPT !.Assigned = TRUE], [q EXCEPT !.Assigned = FALSE],
                           [q EXCEPT !.Assigned = Null])
                  /\ Split([q EXCEPT !.HasProfile = TRUE], [q EXCEPT !.HasProfile = FALSE],
                           [q EXCEPT !.HasProfile = Null])
             [] OTHER -> TRUE

\* createLinks divides by the limit, which clients choose: it never comes to a
\* page that has records to count and a limit of zero.
LinksNeverDivideByZero ==
    \A r \in {r \in Probes : WellFormed(r)} : \A page \in Pages(r) :
        page.TotalCount > 0 => page.Limit > 0

\* The two ways to ask for the device of a sensor, devEUI, which is answered from
\* a statement of its own, and the filter of the list, find the same device.
LookupsAgree ==
    \A tenants \in {r.tenants : r \in Probes}, s \in SensorIDs :
        LET r == [list |-> "devices", tenants |-> tenants,
                  values |-> [sensor_id |-> <<s>>]]
            listed == UNION {Matching(q) : q \in Queries(r)}
            answer == DeviceBySensor(s, tenants)
        IN answer.devices = listed \/ answer.status = 500

\* The status a device has in the list is the newest on the first page of its
\* statuses.
StatusesAgree ==
    \A d \in DeviceIDs, limit \in 1 .. Top :
        devices[d] # Null =>
            LET page == GetDeviceStatus(d, {devices[d].tenant}, limit)
            IN LatestStatus(d) = IF page = {} THEN Null ELSE Max(page)
=============================================================================
