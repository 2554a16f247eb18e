--------------------------- MODULE ListingsProofs ---------------------------
(***************************************************************************)
(* Proofs about Listings for any tables, any requests and any writes.      *)
(*                                                                         *)
(* Four invariants say something of every request at every moment and follow *)
(* from the shape of the tables alone (RowsInv): a filter and its negation *)
(* part the records, a page with records has a limit, the two lookups of a *)
(* device agree, and so do the two ways to its newest status.              *)
(*                                                                         *)
(* The rest shows that a client who follows links walks as PageWalk says.  *)
(* WalkInv: the client asks one question all the way, at offsets of its own, *)
(* and no record that is due ties with another.  Keys are numbers that order *)
(* rows as ORDER BY does, NULLs included; what a query selects and how it  *)
(* orders does not depend on its offset; each link asks the same question  *)
(* again.  So every page of a list is a page of PageWalk, every write a    *)
(* change of keys or a stutter, and PageWalkProofs applies to the lists.   *)
(***************************************************************************)
EXTENDS Listings, FiniteSetTheorems, TLAPS

-----------------------------------------------------------------------------
(***************************************************************************)
(* Types: the rows of the tables, and that a device names a sensor that    *)
(* has a row.                                                              *)
(***************************************************************************)
TablesOK ==
    /\ devices \in [DeviceIDs -> DeviceRows \cup {Null}]
    /\ states \in [DeviceIDs -> [online : BOOLEAN, at : Times] \cup {Null}]
    /\ sensors \in [SensorIDs -> Profiles \cup {Null, NoRow}]
    /\ alarms \in [DeviceIDs -> [AlarmTypes -> Times \cup {Null}]]
    /\ statuses \in [SensorIDs -> SUBSET Times]

SensorsHaveRows ==
    \A d \in DeviceIDs :
        devices[d] # Null /\ devices[d].sensor # Null
        => sensors[devices[d].sensor] \in Profiles \cup {Null}

RowsInv == TablesOK /\ SensorsHaveRows

LEMMA RowsHold == Spec => []RowsInv
<1>1. Init => RowsInv
  <2> SUFFICES ASSUME Init PROVE RowsInv
    OBVIOUS
  <2>1. PICK t \in Tables :
            /\ devices = t.devices /\ states = t.states /\ sensors = t.sensors
            /\ alarms = t.alarms /\ statuses = t.statuses
    BY DEF Init
  <2>2. TablesOK
    BY <2>1, TablesHaveRows DEF TablesOK
  <2>3. ASSUME NEW d \in DeviceIDs, devices[d] # Null, devices[d].sensor # Null
        PROVE  sensors[devices[d].sensor] \in Profiles \cup {Null}
    <3>1. devices[d].sensor \in SensorIDs
      BY <2>2, <2>3, RowsHaveColumns DEF TablesOK
    <3>2. sensors[devices[d].sensor] # NoRow
      BY <2>1, <2>3, TablesHaveRows
    <3> QED
      BY <2>2, <3>1, <3>2 DEF TablesOK
  <2> QED
    BY <2>2, <2>3 DEF RowsInv, SensorsHaveRows
<1>2. RowsInv /\ [Next]_vars => RowsInv'
  <2> SUFFICES ASSUME RowsInv, [Next]_vars PROVE RowsInv'
    OBVIOUS
  <2> USE DEF RowsInv
  <2>1. CASE UNCHANGED tables
    BY <2>1 DEF tables, TablesOK, SensorsHaveRows
  <2>2. ASSUME NEW d \in DeviceIDs, NEW row \in DeviceRows, WriteDevice(d, row)
        PROVE  RowsInv'
    <3>1. TablesOK'
      BY <2>2 DEF WriteDevice, TablesOK
    <3>2. ASSUME NEW e \in DeviceIDs, devices'[e] # Null, devices'[e].sensor # Null
          PROVE  sensors'[devices'[e].sensor] \in Profiles \cup {Null}
      <4>1. CASE e = d
        <5>1. devices'[e] = row /\ sensors' = sensors
          BY <2>2, <4>1 DEF WriteDevice, TablesOK
        <5>2. row.sensor \in SensorIDs /\ sensors[row.sensor] # NoRow
          BY <2>2, <3>2, <5>1, RowsHaveColumns DEF WriteDevice
        <5> QED
          BY <5>1, <5>2 DEF TablesOK
      <4>2. CASE e # d
        BY <2>2, <3>2, <4>2 DEF WriteDevice, TablesOK, SensorsHaveRows
      <4> QED
        BY <4>1, <4>2
    <3> QED
      BY <3>1, <3>2 DEF SensorsHaveRows
  <2>3. ASSUME NEW s \in SensorIDs, NEW p \in Profiles \cup {Null}, WriteSensor(s, p)
        PROVE  RowsInv'
    <3>1. TablesOK'
      BY <2>3 DEF WriteSensor, TablesOK
    <3>2. ASSUME NEW e \in DeviceIDs, devices[e] # Null, devices[e].sensor # Null
          PROVE  sensors'[devices[e].sensor] \in Profiles \cup {Null}
      <4>1. devices[e].sensor \in SensorIDs
        BY <3>2, RowsHaveColumns DEF TablesOK
      <4> QED
        BY <2>3, <3>2, <4>1 DEF WriteSensor, TablesOK, SensorsHaveRows
    <3> QED
      BY <2>3, <3>1, <3>2 DEF SensorsHaveRows, WriteSensor
  <2>4. ASSUME NEW d \in DeviceIDs, NEW online \in BOOLEAN, NEW at \in Times,
               SetDeviceState(d, online, at)
        PROVE  RowsInv'
    BY <2>4 DEF SetDeviceState, TablesOK, SensorsHaveRows
  <2>5. ASSUME NEW d \in DeviceIDs, NEW t \in AlarmTypes, NEW at \in Times \cup {Null},
               WriteAlarm(d, t, at)
        PROVE  RowsInv'
    <3>1. alarms' \in [DeviceIDs -> [AlarmTypes -> Times \cup {Null}]]
      BY <2>5 DEF WriteAlarm, TablesOK
    <3> QED
      BY <2>5, <3>1 DEF WriteAlarm, TablesOK, SensorsHaveRows
  <2>6. ASSUME NEW s \in SensorIDs, NEW at \in Times, AddStatus(s, at)
        PROVE  RowsInv'
    <3>1. statuses' \in [SensorIDs -> SUBSET Times]
      BY <2>6 DEF AddStatus, TablesOK
    <3> QED
      BY <2>6, <3>1 DEF AddStatus, TablesOK, SensorsHaveRows
  <2>7. Read => UNCHANGED tables
    BY DEF Read, ReadForward, ReadFirst, ReadBackward
  <2> QED
    BY <2>1, <2>2, <2>3, <2>4, <2>5, <2>6, <2>7 DEF Next, vars
<1> QED
  BY <1>1, <1>2, PTL DEF Spec

-----------------------------------------------------------------------------
(***************************************************************************)
(* From the URL to a query.                                                *)
(***************************************************************************)
LEMMA QueryIsOfItsList ==
    ASSUME NEW r \in Requests \cup Probes
    PROVE  /\ r.list = "devices" => Queries(r) = deviceQueryFromValues(r)
           /\ r.list = "sensors" => Queries(r) = sensorQueryFromValues(r)
           /\ r.list = "alarms" => Queries(r) = alarmQueryFromValues(r)
           /\ r.list \in {"devices", "sensors", "alarms"}
           /\ \A q \in Queries(r) : q.list = r.list
<1>1. r.list \in {"devices", "sensors", "alarms"}
  BY RequestsAreURLs
<1>2. /\ r.list = "devices" => Queries(r) = deviceQueryFromValues(r)
      /\ r.list = "sensors" => Queries(r) = sensorQueryFromValues(r)
      /\ r.list = "alarms" => Queries(r) = alarmQueryFromValues(r)
  BY DEF Queries
<1>3. /\ \A q \in deviceQueryFromValues(r) : q.list = "devices"
      /\ \A q \in sensorQueryFromValues(r) : q.list = "sensors"
      /\ \A q \in alarmQueryFromValues(r) : q.list = "alarms"
  BY DEF deviceQueryFromValues, sensorQueryFromValues, alarmQueryFromValues
<1> QED
  BY <1>1, <1>2, <1>3

\* What the fields of a query come from.
LEMMA DeviceQuery ==
    ASSUME NEW r, NEW q \in deviceQueryFromValues(r)
    PROVE  /\ q.list = "devices" /\ q.AllowedTenants = r.tenants
           /\ q.Tenant \in First(r.values, {"tenant"}, Blank)
           /\ q.SensorID \in First(r.values, {"deveui", "sensor_id"}, Blank)
           /\ q.DeviceID \in First(r.values, {"device_id"}, Blank)
           /\ q.Types \in Whole(r.values, {"type", "types"})
           /\ q.Active \in First(r.values, {"active"}, Null)
           /\ q.Online \in First(r.values, {"online"}, Null)
           /\ q.ProfileNames \in Whole(r.values, {"profilename"})
           /\ q.LastSeen \in First(r.values, {"lastseen"}, Null)
           /\ q.Labels = {r.values[k][1] : k \in DOMAIN r.values \cap
                             {"search", "name", "metadata"}} \ {Blank}
           /\ q.Urns \in Whole(r.values, {"urns"})
           /\ q.Offset \in First(r.values, {"offset"}, Null)
           /\ q.Limit \in First(r.values, {"limit"}, Null)
<1> DEFINE
      labels == {r.values[k][1] : k \in DOMAIN r.values \cap
                    {"search", "name", "metadata"}} \ {Blank}
      descending == {v = "desc" : v \in First(r.values, {"sortorder"}, Blank)}
      export == {v = "true" : v \in First(r.values, {"export"}, Blank)}
<1>1. q \in [list : {"devices"}, AllowedTenants : {r.tenants},
             Tenant : First(r.values, {"tenant"}, Blank),
             SensorID : First(r.values, {"deveui", "sensor_id"}, Blank),
             DeviceID : First(r.values, {"device_id"}, Blank),
             Types : Whole(r.values, {"type", "types"}),
             Active : First(r.values, {"active"}, Null),
             Online : First(r.values, {"online"}, Null),
             ProfileNames : Whole(r.values, {"profilename"}),
             LastSeen : First(r.values, {"lastseen"}, Null),
             Labels : {labels},
             Urns : Whole(r.values, {"urns"}),
             SortBy : First(r.values, {"sortby"}, Blank),
             SortDesc : descending,
             Export : export,
             Offset : First(r.values, {"offset"}, Null),
             Limit : First(r.values, {"limit"}, Null)]
  BY DEF deviceQueryFromValues
<1> HIDE DEF labels, descending, export
<1>2. q.Labels = labels
  BY <1>1
<1>3. /\ q.list = "devices" /\ q.AllowedTenants = r.tenants
      /\ q.Tenant \in First(r.values, {"tenant"}, Blank)
      /\ q.SensorID \in First(r.values, {"deveui", "sensor_id"}, Blank)
      /\ q.DeviceID \in First(r.values, {"device_id"}, Blank)
      /\ q.Types \in Whole(r.values, {"type", "types"})
      /\ q.Active \in First(r.values, {"active"}, Null)
      /\ q.Online \in First(r.values, {"online"}, Null)
      /\ q.ProfileNames \in Whole(r.values, {"profilename"})
      /\ q.LastSeen \in First(r.values, {"lastseen"}, Null)
      /\ q.Urns \in Whole(r.values, {"urns"})
      /\ q.Offset \in First(r.values, {"offset"}, Null)
      /\ q.Limit \in First(r.values, {"limit"}, Null)
  BY <1>1
<1> QED
  BY <1>2, <1>3 DEF labels

LEMMA DeviceFilter ==
    ASSUME NEW r, NEW q \in deviceQueryFromValues(r), NEW online,
           NEW p, p = [q EXCEPT !.Online = online]
    PROVE  /\ p.list = q.list /\ p.Online = online
           /\ p.AllowedTenants = q.AllowedTenants /\ p.Tenant = q.Tenant
           /\ p.SensorID = q.SensorID /\ p.DeviceID = q.DeviceID
           /\ p.Types = q.Types /\ p.Active = q.Active
           /\ p.ProfileNames = q.ProfileNames /\ p.LastSeen = q.LastSeen
           /\ p.Labels = q.Labels /\ p.Urns = q.Urns
<1> DEFINE
      labels == {r.values[k][1] : k \in DOMAIN r.values \cap
                    {"search", "name", "metadata"}} \ {Blank}
      descending == {v = "desc" : v \in First(r.values, {"sortorder"}, Blank)}
      export == {v = "true" : v \in First(r.values, {"export"}, Blank)}
<1>1. q \in [list : {"devices"}, AllowedTenants : {r.tenants},
             Tenant : First(r.values, {"tenant"}, Blank),
             SensorID : First(r.values, {"deveui", "sensor_id"}, Blank),
             DeviceID : First(r.values, {"device_id"}, Blank),
             Types : Whole(r.values, {"type", "types"}),
             Active : First(r.values, {"active"}, Null),
             Online : First(r.values, {"online"}, Null),
             ProfileNames : Whole(r.values, {"profilename"}),
             LastSeen : First(r.values, {"lastseen"}, Null),
             Labels : {labels},
             Urns : Whole(r.values, {"urns"}),
             SortBy : First(r.values, {"sortby"}, Blank),
             SortDesc : descending,
             Export : export,
             Offset : First(r.values, {"offset"}, Null),
             Limit : First(r.values, {"limit"}, Null)]
  BY DEF deviceQueryFromValues
<1> HIDE DEF labels, descending, export
<1> QED
  BY <1>1

LEMMA SensorQuery ==
    ASSUME NEW r, NEW q \in sensorQueryFromValues(r)
    PROVE  /\ q.list = "sensors"
           /\ q.Offset \in First(r.values, {"offset"}, Null)
           /\ q.Limit \in First(r.values, {"limit"}, Null)
           /\ \A v : LET p == [q EXCEPT !.Assigned = v]
                     IN /\ p.list = q.list /\ p.Assigned = v
                        /\ p.HasProfile = q.HasProfile
                        /\ p.ProfileName = q.ProfileName /\ p.Types = q.Types
           /\ \A v : LET p == [q EXCEPT !.HasProfile = v]
                     IN /\ p.list = q.list /\ p.HasProfile = v
                        /\ p.Assigned = q.Assigned
                        /\ p.ProfileName = q.ProfileName /\ p.Types = q.Types
  BY DEF sensorQueryFromValues

LEMMA AlarmQuery ==
    ASSUME NEW r, NEW q \in alarmQueryFromValues(r)
    PROVE  /\ q.list = "alarms"
           /\ q.Offset \in First(r.values, {"offset"}, Null)
           /\ q.Limit \in First(r.values, {"limit"}, Null)
  BY DEF alarmQueryFromValues

\* The limit of a query is a number.
LEMMA LimitIsANumber ==
    ASSUME NEW r \in Requests \cup Probes, WellFormed(r), NEW q \in Queries(r)
    PROVE  Limit(q) \in Int /\ Offset(q) \in Int
<1>1. /\ q.Limit \in First(r.values, {"limit"}, Null)
      /\ q.Offset \in First(r.values, {"offset"}, Null)
  BY QueryIsOfItsList, DeviceQuery, SensorQuery, AlarmQuery
<1>2. ASSUME NEW k \in {"limit", "offset"}
      PROVE  First(r.values, {k}, Null) \subseteq Int \cup {Null}
  <2>1. CASE k \notin DOMAIN r.values
    BY <2>1 DEF First, Whole
  <2>2. CASE k \in DOMAIN r.values
    <3>1. r.values[k][1] \in Int
      BY <2>2, RequestsAreURLs, QueryIsOfItsList DEF WellFormed, Parsed
    <3>2. First(r.values, {k}, Null) = {r.values[k][1]}
      BY <2>2, RequestsAreURLs DEF First, Whole
    <3> QED
      BY <3>1, <3>2
  <2> QED
    BY <2>1, <2>2
<1>3. DefaultLimit[q.list] \in Int
  BY QueryIsOfItsList DEF DefaultLimit
<1> QED
  BY <1>1, <1>2, <1>3 DEF Limit, Offset

-----------------------------------------------------------------------------
(***************************************************************************)
(* A record is on one side of a filter.                                    *)
(***************************************************************************)
Splits(yes, no, all) ==
    /\ Matching(yes) \cap Matching(no) = {}
    /\ Matching(yes) \cup Matching(no) = Matching(all)

\* Whatever else a request asks for, online=true and online=false part the devices
\* it selects, assigned and hasProfile the sensors: a record with a NULL where a
\* filter looks is on one side, and none is on both.
THEOREM Partition == Spec => []FiltersPartition
<1>1. FiltersPartition
  <2>1. ASSUME NEW r \in Requests \cup Probes, NEW q \in deviceQueryFromValues(r),
               NEW on, NEW off, NEW all, on = [q EXCEPT !.Online = TRUE],
               off = [q EXCEPT !.Online = FALSE], all = [q EXCEPT !.Online = Null]
        PROVE  Splits(on, off, all)
    <3>1. ASSUME NEW v, NEW p, p = [q EXCEPT !.Online = v]
          PROVE  /\ p.list = "devices" /\ p.Online = v
                 /\ p.AllowedTenants = q.AllowedTenants /\ p.Tenant = q.Tenant
                 /\ p.SensorID = q.SensorID /\ p.DeviceID = q.DeviceID
                 /\ p.Types = q.Types /\ p.Active = q.Active
                 /\ p.ProfileNames = q.ProfileNames /\ p.LastSeen = q.LastSeen
                 /\ p.Labels = q.Labels /\ p.Urns = q.Urns
      BY <3>1, DeviceQuery, DeviceFilter
    <3>2. ASSUME NEW v, NEW p, p = [q EXCEPT !.Online = v], NEW d \in DeviceIDs
          PROVE  DeviceWhere(p, d) <=>
                   DeviceWhere(all, d) /\ (v # Null => OnlineIs(v, d))
      <4>1. /\ p.AllowedTenants = all.AllowedTenants /\ p.Tenant = all.Tenant
            /\ p.SensorID = all.SensorID /\ p.DeviceID = all.DeviceID
            /\ p.Types = all.Types /\ p.Active = all.Active
            /\ p.ProfileNames = all.ProfileNames /\ p.LastSeen = all.LastSeen
            /\ p.Labels = all.Labels /\ p.Urns = all.Urns
            /\ p.Online = v /\ all.Online = Null
        BY <2>1, <3>1, <3>2
      <4>2. AllowedTenant(p, d) <=> AllowedTenant(all, d)
        BY <4>1 DEF AllowedTenant
      <4>3. DeviceTypeUrnWhere(p, d) <=> DeviceTypeUrnWhere(all, d)
        BY <4>1 DEF DeviceTypeUrnWhere
      <4> QED
        BY <4>1, <4>2, <4>3 DEF DeviceWhere
    <3>3. \A d \in DeviceIDs : OnlineIs(TRUE, d) <=> ~OnlineIs(FALSE, d)
      BY DEF OnlineIs
    <3>4. \A p \in {on, off, all} : Matching(p) = {d \in DeviceIDs : DeviceWhere(p, d)}
      BY <2>1, <3>1 DEF Matching
    <3>5. \A d \in DeviceIDs :
            /\ DeviceWhere(on, d) <=> DeviceWhere(all, d) /\ OnlineIs(TRUE, d)
            /\ DeviceWhere(off, d) <=> DeviceWhere(all, d) /\ OnlineIs(FALSE, d)
      BY <2>1, <3>2, NullIsNoValue
    <3> QED
      BY <3>3, <3>4, <3>5 DEF Splits
  <2>2. ASSUME NEW yes, NEW no, NEW all,
               yes.list = "sensors", yes.ProfileName = all.ProfileName,
               yes.Types = all.Types,
               no.list = "sensors", no.ProfileName = all.ProfileName,
               no.Types = all.Types, all.list = "sensors",
               \/ /\ yes.Assigned = TRUE /\ no.Assigned = FALSE
                  /\ all.Assigned = Null
                  /\ yes.HasProfile = all.HasProfile /\ no.HasProfile = all.HasProfile
               \/ /\ yes.HasProfile = TRUE /\ no.HasProfile = FALSE
                  /\ all.HasProfile = Null
                  /\ yes.Assigned = all.Assigned /\ no.Assigned = all.Assigned
        PROVE  Splits(yes, no, all)
    <3> DEFINE name == all.ProfileName
               types == all.Types
    <3>1. \A p \in {yes, no, all} : Matching(p) = {s \in SensorIDs : SensorWhere(p, s)}
      BY <2>2 DEF Matching
    <3>2. ASSUME NEW s \in SensorIDs
          PROVE  /\ ~(SensorWhere(yes, s) /\ SensorWhere(no, s))
                 /\ SensorWhere(yes, s) \/ SensorWhere(no, s) <=> SensorWhere(all, s)
      <4> DEFINE assigned == \E d \in DeviceIDs : Carries(d, s)
                 profiled == sensors[s] # Null
                 rest == /\ sensors[s] # NoRow
                         /\ name # Blank => sensors[s] = name
                         /\ LET asked == Range(types) \ {Blank}
                            IN asked # {} => /\ sensors[s] # Null
                                             /\ TypesOf[sensors[s]] \cap asked # {}
      <4>1. assigned \in BOOLEAN /\ profiled \in BOOLEAN
        OBVIOUS
      <4>2. ASSUME NEW p \in {yes, no, all}
            PROVE  SensorWhere(p, s) <=>
                     /\ rest
                     /\ p.Assigned # Null => p.Assigned = assigned
                     /\ p.HasProfile # Null => p.HasProfile = profiled
        <5>1. p.ProfileName = name /\ p.Types = types
          BY <2>2
        <5> QED
          BY <5>1 DEF SensorWhere
      <4> HIDE DEF assigned, profiled, rest
      <4> QED
        BY <2>2, <4>1, <4>2, NullIsNoValue
    <3> QED
      BY <3>1, <3>2 DEF Splits
  <2>3. ASSUME NEW r \in Probes, NEW q \in Queries(r), q.list = "devices"
        PROVE  Splits([q EXCEPT !.Online = TRUE], [q EXCEPT !.Online = FALSE],
                      [q EXCEPT !.Online = Null])
    BY <2>1, <2>3, QueryIsOfItsList DEF Splits
  <2>4. ASSUME NEW r \in Probes, NEW q \in Queries(r), q.list = "sensors"
        PROVE  /\ Splits([q EXCEPT !.Assigned = TRUE], [q EXCEPT !.Assigned = FALSE],
                         [q EXCEPT !.Assigned = Null])
               /\ Splits([q EXCEPT !.HasProfile = TRUE], [q EXCEPT !.HasProfile = FALSE],
                         [q EXCEPT !.HasProfile = Null])
    <3>1. q \in sensorQueryFromValues(r)
      BY <2>4, QueryIsOfItsList
    <3> DEFINE A(v) == [q EXCEPT !.Assigned = v]
               H(v) == [q EXCEPT !.HasProfile = v]
    <3>2. ASSUME NEW v
          PROVE  /\ A(v).list = "sensors" /\ A(v).ProfileName = q.ProfileName
                 /\ A(v).Types = q.Types /\ A(v).Assigned = v
                 /\ A(v).HasProfile = q.HasProfile
                 /\ H(v).list = "sensors" /\ H(v).ProfileName = q.ProfileName
                 /\ H(v).Types = q.Types /\ H(v).HasProfile = v
                 /\ H(v).Assigned = q.Assigned
      BY <3>1, SensorQuery
    <3> HIDE DEF A, H
    <3>3. Splits(A(TRUE), A(FALSE), A(Null))
      BY <2>2, <3>2
    <3>4. Splits(H(TRUE), H(FALSE), H(Null))
      BY <2>2, <3>2
    <3> QED
      BY <3>3, <3>4 DEF A, H
  <2> QED
    BY <2>3, <2>4 DEF FiltersPartition, Splits
<1> QED
  BY <1>1, PTL

-----------------------------------------------------------------------------
(***************************************************************************)
(* A page with records has a limit.                                        *)
(***************************************************************************)
LEMMA RowsAreNumbers ==
    /\ Top \in Nat
    /\ DeviceIDs \subseteq 0 .. Top /\ SensorIDs \subseteq 0 .. Top
    /\ Profiles \subseteq 0 .. Top /\ Times \subseteq 0 .. Top
    /\ IsFiniteSet(DeviceIDs) /\ IsFiniteSet(SensorIDs) /\ IsFiniteSet(Times)
<1>1. Top \in Nat /\ Numbers \subseteq 0 .. Top
  BY TopIsTop
<1>2. IsFiniteSet(0 .. Top)
  BY <1>1, FS_Interval
<1> QED
  BY <1>1, <1>2, FS_Subset DEF Numbers

LEMMA MatchingRows ==
    ASSUME NEW q, q.list \in {"devices", "sensors", "alarms"}
    PROVE  /\ q.list # "sensors" => Matching(q) \subseteq DeviceIDs
           /\ q.list = "sensors" => Matching(q) \subseteq SensorIDs
           /\ IsFiniteSet(Matching(q)) /\ Cardinality(Matching(q)) \in Nat
           /\ Matching(q) # {} => Cardinality(Matching(q)) > 0
<1>1. /\ q.list # "sensors" => Matching(q) \subseteq DeviceIDs
      /\ q.list = "sensors" => Matching(q) \subseteq SensorIDs
  BY DEF Matching
<1>2. IsFiniteSet(Matching(q))
  BY <1>1, RowsAreNumbers, FS_Subset
<1>3. Cardinality(Matching(q)) \in Nat
  BY <1>2, FS_CardinalityType
<1>4. Matching(q) # {} => Cardinality(Matching(q)) # 0
  BY <1>2, FS_EmptySet
<1> QED
  BY <1>1, <1>2, <1>3, <1>4

LEMMA RanksAreNumbers ==
    ASSUME NEW q, q.list \in {"devices", "sensors", "alarms"},
           NEW rank \in Rankings(q), NEW r \in Matching(q)
    PROVE  rank[r] \in 0 .. Cardinality(Matching(q)) - 1
  BY DEF Rankings, Bijection, Injection, Surjection

\* createLinks divides by the limit it is given where records were counted: for
\* any URL that is answered, that limit is not zero.
THEOREM LimitsArePositive == Spec => []LinksNeverDivideByZero
<1>1. ASSUME NEW r \in Requests \cup Probes, WellFormed(r), NEW q \in Queries(r),
             NEW rank \in Rankings(q), Collection(q, rank).TotalCount > 0
      PROVE  Collection(q, rank).Limit > 0
  <2> DEFINE data == IF q.Export THEN Matching(q)
                     ELSE {u \in Matching(q) : /\ Offset(q) <= rank[u]
                                               /\ rank[u] < Offset(q) + Limit(q)}
  <2>1. /\ Collection(q, rank).TotalCount = TotalCount(q, data)
        /\ Collection(q, rank).Limit =
              IF q.Export THEN Cardinality(data) ELSE Limit(q)
    BY DEF Collection
  <2>2. data # {} /\ Cardinality(Matching(q)) > 0
    BY <1>1, <2>1 DEF TotalCount
  <2>3. CASE q.Export
    BY <2>1, <2>2, <2>3
  <2>4. CASE ~q.Export
    <3>1. PICK u \in Matching(q) :
              Offset(q) <= rank[u] /\ rank[u] < Offset(q) + Limit(q)
      BY <2>2, <2>4
    <3>2. /\ rank[u] \in Int /\ Offset(q) \in Int /\ Limit(q) \in Int
      BY <1>1, RanksAreNumbers, LimitIsANumber, QueryIsOfItsList, MatchingRows
    <3> QED
      BY <2>1, <2>4, <3>1, <3>2
  <2> QED
    BY <2>3, <2>4
<1>2. LinksNeverDivideByZero
  BY <1>1 DEF LinksNeverDivideByZero, Pages
<1> QED
  BY <1>2, PTL

-----------------------------------------------------------------------------
(***************************************************************************)
(* The two ways to find the device of a sensor.                            *)
(***************************************************************************)
\* A query by devEUI, which is answered from GetDeviceBySensorID, and the filter
\* sensor_id of the list find the same device for every tenant, unless the first
\* ends with an error.
THEOREM SameDevice == Spec => []LookupsAgree
<1>1. ASSUME NEW p \in Probes, NEW s \in SensorIDs
      PROVE  LET r == [list |-> "devices", tenants |-> p.tenants,
                       values |-> [sensor_id |-> <<s>>]]
                 listed == UNION {Matching(q) : q \in Queries(r)}
                 answer == DeviceBySensor(s, p.tenants)
             IN answer.devices = listed \/ answer.status = 500
  <2> DEFINE r == [list |-> "devices", tenants |-> p.tenants,
                   values |-> [sensor_id |-> <<s>>]]
             found == {d \in DeviceIDs :
                          Carries(d, s) /\ devices[d].tenant \in p.tenants}
  <2>1. Queries(r) = deviceQueryFromValues(r)
    BY DEF Queries
  <2>2. /\ DOMAIN r.values = {"sensor_id"} /\ r.values["sensor_id"] = <<s>>
        /\ r.tenants = p.tenants /\ <<s>>[1] = s /\ <<s>> # <<>>
    OBVIOUS
  <2> HIDE DEF r
  <2>3. /\ Whole(r.values, {"type", "types"}) = {<<>>}
        /\ Whole(r.values, {"profilename"}) = {<<>>}
        /\ Whole(r.values, {"urns"}) = {<<>>}
    BY <2>2 DEF Whole
  <2>4. /\ First(r.values, {"deveui", "sensor_id"}, Blank) = {s}
        /\ First(r.values, {"tenant"}, Blank) = {Blank}
        /\ First(r.values, {"device_id"}, Blank) = {Blank}
        /\ First(r.values, {"sortby"}, Blank) = {Blank}
        /\ First(r.values, {"sortorder"}, Blank) = {Blank}
        /\ First(r.values, {"export"}, Blank) = {Blank}
        /\ First(r.values, {"active"}, Null) = {Null}
        /\ First(r.values, {"online"}, Null) = {Null}
        /\ First(r.values, {"lastseen"}, Null) = {Null}
        /\ First(r.values, {"offset"}, Null) = {Null}
        /\ First(r.values, {"limit"}, Null) = {Null}
    <3>1. {"deveui", "sensor_id"} \cap DOMAIN r.values = {"sensor_id"}
      BY <2>2
    <3>2. Whole(r.values, {"deveui", "sensor_id"}) = {<<s>>}
      BY <2>2, <3>1 DEF Whole
    <3>3. First(r.values, {"deveui", "sensor_id"}, Blank) = {s}
      BY <2>2, <3>2 DEF First
    <3>4. ASSUME NEW keys, "sensor_id" \notin keys, NEW none
          PROVE  First(r.values, keys, none) = {none}
      <4>1. keys \cap DOMAIN r.values = {}
        BY <2>2, <3>4
      <4>2. Whole(r.values, keys) = {<<>>}
        BY <4>1 DEF Whole
      <4> QED
        BY <4>2 DEF First
    <3> QED
      BY <3>3, <3>4
  <2>5. {r.values[k][1] : k \in DOMAIN r.values \cap
            {"search", "name", "metadata"}} \ {Blank} = {}
    BY <2>2
  <2>6. ASSUME NEW q \in Queries(r) PROVE Matching(q) = found
    <3>1. /\ q.list = "devices" /\ q.AllowedTenants = p.tenants
          /\ q.SensorID = s /\ q.DeviceID = Blank
          /\ q.Types = <<>> /\ q.Active = Null /\ q.Online = Null
          /\ q.ProfileNames = <<>> /\ q.LastSeen = Null /\ q.Labels = {}
          /\ q.Urns = <<>>
      <4>1. q \in deviceQueryFromValues(r)
        BY <2>1
      <4>2. /\ q.list = "devices" /\ q.AllowedTenants = r.tenants
            /\ q.SensorID \in First(r.values, {"deveui", "sensor_id"}, Blank)
            /\ q.DeviceID \in First(r.values, {"device_id"}, Blank)
            /\ q.Types \in Whole(r.values, {"type", "types"})
            /\ q.Active \in First(r.values, {"active"}, Null)
            /\ q.Online \in First(r.values, {"online"}, Null)
            /\ q.ProfileNames \in Whole(r.values, {"profilename"})
            /\ q.LastSeen \in First(r.values, {"lastseen"}, Null)
            /\ q.Urns \in Whole(r.values, {"urns"})
            /\ q.Labels = {r.values[k][1] : k \in DOMAIN r.values \cap
                              {"search", "name", "metadata"}} \ {Blank}
        BY <4>1, DeviceQuery
      <4> QED
        BY <2>2, <2>3, <2>4, <2>5, <4>2
    <3>2. Matching(q) = {d \in DeviceIDs : DeviceWhere(q, d)}
      BY <3>1 DEF Matching
    <3>3. ASSUME NEW d \in DeviceIDs
          PROVE  DeviceWhere(q, d) <=> Carries(d, s) /\ devices[d].tenant \in p.tenants
      <4>1. AllowedTenant(q, d) <=> devices[d].tenant \in p.tenants
        BY <3>1, CallersHaveTenants DEF AllowedTenant
      <4>2. DeviceTypeUrnWhere(q, d)
        BY <3>1 DEF DeviceTypeUrnWhere
      <4> QED
        BY <3>1, <4>1, <4>2, BlankIsNoSensor DEF DeviceWhere, Carries
    <3> QED
      BY <3>2, <3>3
  <2>7. Queries(r) # {}
    <3> DEFINE q == [list |-> "devices", AllowedTenants |-> p.tenants,
                     Tenant |-> Blank, SensorID |-> s, DeviceID |-> Blank,
                     Types |-> <<>>, Active |-> Null, Online |-> Null,
                     ProfileNames |-> <<>>, LastSeen |-> Null, Labels |-> {},
                     Urns |-> <<>>, SortBy |-> Blank, SortDesc |-> (Blank = "desc"),
                     Export |-> (Blank = "true"), Offset |-> Null, Limit |-> Null]
               labels == {r.values[k][1] : k \in DOMAIN r.values \cap
                             {"search", "name", "metadata"}} \ {Blank}
               descending == {v = "desc" : v \in First(r.values, {"sortorder"}, Blank)}
               export == {v = "true" : v \in First(r.values, {"export"}, Blank)}
    <3>1. /\ labels = {}
          /\ descending = {Blank = "desc"} /\ export = {Blank = "true"}
      BY <2>4, <2>5
    <3>2. deviceQueryFromValues(r) =
            [list : {"devices"}, AllowedTenants : {r.tenants},
             Tenant : First(r.values, {"tenant"}, Blank),
             SensorID : First(r.values, {"deveui", "sensor_id"}, Blank),
             DeviceID : First(r.values, {"device_id"}, Blank),
             Types : Whole(r.values, {"type", "types"}),
             Active : First(r.values, {"active"}, Null),
             Online : First(r.values, {"online"}, Null),
             ProfileNames : Whole(r.values, {"profilename"}),
             LastSeen : First(r.values, {"lastseen"}, Null),
             Labels : {labels},
             Urns : Whole(r.values, {"urns"}),
             SortBy : First(r.values, {"sortby"}, Blank),
             SortDesc : descending,
             Export : export,
             Offset : First(r.values, {"offset"}, Null),
             Limit : First(r.values, {"limit"}, Null)]
      BY DEF deviceQueryFromValues
    <3> HIDE DEF labels, descending, export
    <3>3. q \in deviceQueryFromValues(r)
      BY <2>2, <2>3, <2>4, <3>1, <3>2
    <3> QED
      BY <2>1, <3>3
  <2>8. UNION {Matching(q) : q \in Queries(r)} = found
    BY <2>6, <2>7
  <2>9. \/ DeviceBySensor(s, p.tenants).status = 500
        \/ DeviceBySensor(s, p.tenants).devices = found
    BY DEF DeviceBySensor
  <2> QED
    BY <2>8, <2>9 DEF r
<1>2. LookupsAgree
  BY <1>1 DEF LookupsAgree
<1> QED
  BY <1>2, PTL

-----------------------------------------------------------------------------
(***************************************************************************)
(* The newest status is on the first page.                                 *)
(***************************************************************************)
LEMMA MaxIsTheOnly ==
    ASSUME NEW S \in SUBSET Int, NEW m \in S, \A n \in S : m >= n
    PROVE  Max(S) = m
<1>1. Max(S) \in S /\ \A n \in S : Max(S) >= n
  BY DEF Max
<1>2. m \in Int /\ Max(S) \in Int /\ m >= Max(S) /\ Max(S) >= m
  BY <1>1
<1> QED
  BY <1>2

\* A set of natural numbers that is not empty has a least element.
LEMMA Least ==
    ASSUME NEW T \in SUBSET Nat, T # {}
    PROVE  \E x \in T : \A y \in T : x <= y
<1> DEFINE R == OpToRel(<, Nat)
<1>1. IsWellFoundedOn(R, Nat)
  BY NatLessThanWellFounded, Zenon
<1>2. \A x, y \in Nat : x < y => <<x, y>> \in R
  BY DEF OpToRel
<1> HIDE DEF R
<1>3. PICK x \in T : \A y \in T : <<y, x>> \notin R
  BY <1>1, WFMin
<1>4. \A y \in T : ~(y < x)
  BY <1>2, <1>3
<1> QED
  BY <1>4

LEMMA SetsOfTimesHaveAMax ==
    ASSUME NEW S \in SUBSET (0 .. Top), S # {}
    PROVE  Max(S) \in S /\ \A n \in S : Max(S) >= n
<1> DEFINE bounds == {n \in Nat : \A k \in S : n >= k}
<1>1. bounds \subseteq Nat /\ Top \in bounds
  BY RowsAreNumbers
<1> HIDE DEF bounds
<1>2. PICK least \in bounds : \A n \in bounds : least <= n
  BY <1>1, Least
<1>3. least \in Nat /\ \A k \in S : k \in Nat /\ least >= k
  BY <1>2, RowsAreNumbers DEF bounds
<1>4. least \in S
  <2> SUFFICES ASSUME least \notin S PROVE FALSE
    OBVIOUS
  <2>1. \A k \in S : least - 1 >= k
    BY <1>3
  <2>2. least - 1 \in Nat
    <3>1. PICK k \in S : k \in Nat /\ least - 1 >= k
      BY <1>3, <2>1
    <3> QED
      BY <1>3, <3>1
  <2>3. least - 1 \in bounds
    BY <2>1, <2>2 DEF bounds
  <2> QED
    BY <1>2, <1>3, <2>3
<1> QED
  BY <1>3, <1>4 DEF Max

\* The status the list shows of a device is the newest of the first page of its
\* statuses, whatever the limit and wherever its sensor has moved from or to.
THEOREM NewestIsFirst == Spec => []StatusesAgree
<1>1. RowsInv => StatusesAgree
  <2> SUFFICES ASSUME RowsInv, NEW d \in DeviceIDs, NEW limit \in 1 .. Top,
                      devices[d] # Null
               PROVE  LET page == GetDeviceStatus(d, {devices[d].tenant}, limit)
                      IN LatestStatus(d) = IF page = {} THEN Null ELSE Max(page)
    BY DEF StatusesAgree
  <2> DEFINE S == StatusesOf(d)
             page == {t \in S : Cardinality({u \in S : u > t}) < limit}
  <2>1. S \subseteq Times
    BY RowsHaveColumns DEF RowsInv, TablesOK, StatusesOf
  <2>2. GetDeviceStatus(d, {devices[d].tenant}, limit) = page
    BY DEF GetDeviceStatus
  <2> HIDE DEF S
  <2>3. CASE S = {}
    BY <2>2, <2>3 DEF LatestStatus, S
  <2>4. CASE S # {}
    <3>1. S \subseteq 0 .. Top /\ S \subseteq Int
      BY <2>1, RowsAreNumbers
    <3>2. Max(S) \in S /\ \A n \in S : Max(S) >= n
      BY <2>4, <3>1, SetsOfTimesHaveAMax
    <3>3. {u \in S : u > Max(S)} = {}
      <4>1. \A u \in S : u \in Int /\ Max(S) \in Int /\ Max(S) >= u
        BY <3>1, <3>2
      <4> QED
        BY <4>1
    <3>4. Max(S) \in page
      BY <3>2, <3>3, FS_EmptySet, RowsAreNumbers
    <3>5. Max(page) = Max(S)
      BY <3>1, <3>2, <3>4, MaxIsTheOnly
    <3> QED
      BY <2>2, <2>4, <3>4, <3>5 DEF LatestStatus, S
  <2> QED
    BY <2>3, <2>4
<1> QED
  BY <1>1, RowsHold, PTL

-----------------------------------------------------------------------------
(***************************************************************************)
(* A walk along the links is a walk of PageWalk.                           *)
(***************************************************************************)
Lists == {"devices", "sensors", "alarms"}

\* Two queries that differ in their offsets at most.
Same(p, q) ==
    /\ p.list = q.list /\ p.list \in Lists
    /\ p.Limit = q.Limit /\ p.Export = q.Export
    /\ p.list = "devices" =>
          /\ p.AllowedTenants = q.AllowedTenants /\ p.Tenant = q.Tenant
          /\ p.SensorID = q.SensorID /\ p.DeviceID = q.DeviceID
          /\ p.Types = q.Types /\ p.Active = q.Active /\ p.Online = q.Online
          /\ p.ProfileNames = q.ProfileNames /\ p.LastSeen = q.LastSeen
          /\ p.Labels = q.Labels /\ p.Urns = q.Urns
          /\ p.SortBy = q.SortBy /\ p.SortDesc = q.SortDesc
    /\ p.list = "sensors" =>
          /\ p.Assigned = q.Assigned /\ p.HasProfile = q.HasProfile
          /\ p.ProfileName = q.ProfileName /\ p.Types = q.Types
    /\ p.list = "alarms" =>
          p.AllowedTenants = q.AllowedTenants /\ p.AlarmType = q.AlarmType

\* The client asks the same question all the way, and no record that is due ties
\* with another one.
WalkInv ==
    /\ request = [list |-> request.list, tenants |-> request.tenants,
                  values |-> request.values]
    /\ request.list \in Lists
    /\ ~Refused(request)
    /\ Queries(request) # {}
    /\ \A p, q \in Queries(request) : Same(p, q) /\ Offset(p) = Offset(q)
    /\ \A q \in Queries(request) :
          ~q.Export /\ Limit(q) \in 1 .. Top /\ Offset(q) \in Nat
    /\ \A r \in due : ~Walk!Tied(r)

-----------------------------------------------------------------------------
(***************************************************************************)
(* Keys are numbers, and order rows as ORDER BY does.                      *)
(***************************************************************************)
LEMMA MatchingDevices ==
    ASSUME NEW q, NEW d \in Matching(q), q.list \in {"devices", "alarms"}
    PROVE  d \in DeviceIDs /\ devices[d] # Null
  BY DEF Matching, DeviceWhere, AlarmWhere

LEMMA MatchingSensors ==
    ASSUME NEW q, NEW s \in Matching(q), q.list = "sensors"
    PROVE  s \in SensorIDs /\ s \in 0 .. Top
<1>1. s \in SensorIDs
  BY DEF Matching
<1> QED
  BY <1>1, RowsAreNumbers

LEMMA SortColumns ==
    ASSUME RowsInv, NEW q, q.list = "devices", Sorted(q), NEW d \in Matching(q)
    PROVE  SortColumn(q, d) \in (0 .. Top) \cup {Null}
<1>1. d \in DeviceIDs /\ devices[d] # Null /\ devices[d] \in DeviceRows
  BY MatchingDevices DEF RowsInv, TablesOK
<1>2. /\ devices[d].sensor \in SensorIDs \cup {Null}
      /\ devices[d].name \in 0 .. Top
  BY <1>1, RowsHaveColumns
<1>3. ProfileOf(d) \in Profiles \cup {Null}
  BY <1>1, <1>2 DEF ProfileOf, RowsInv, SensorsHaveRows
<1>4. d \in 0 .. Top /\ SensorIDs \subseteq 0 .. Top /\ Profiles \subseteq 0 .. Top
  BY <1>1, RowsAreNumbers
<1> QED
  BY <1>2, <1>3, <1>4 DEF SortColumn, Sorted

LEMMA HeardOf ==
    ASSUME RowsInv, NEW d \in DeviceIDs
    PROVE  /\ Heard(d) \in -1 .. Top
           /\ UsualKey(d) = (IF devices[d].active THEN Top + 2 ELSE 0) + Heard(d) + 1
<1>1. CASE states[d] = Null
  BY <1>1, RowsAreNumbers DEF Heard, UsualKey
<1>2. CASE states[d] # Null
  <2>1. states[d].at \in 0 .. Top
    BY <1>2, RowsAreNumbers DEF RowsInv, TablesOK
  <2> QED
    BY <1>2, <2>1, RowsAreNumbers DEF Heard, UsualKey
<1> QED
  BY <1>1, <1>2

LEMMA LatestAlarms ==
    ASSUME RowsInv, NEW q, q.list = "alarms", NEW d \in Matching(q)
    PROVE  LatestAlarm(q, d) \in 0 .. Top
<1> DEFINE S == {alarms[d][t] : t \in Listed(q, d)}
<1>1. d \in DeviceIDs /\ Listed(q, d) # {}
  BY DEF Matching, AlarmWhere
<1>2. S \subseteq Times /\ S # {}
  BY <1>1 DEF Listed, RowsInv, TablesOK
<1> HIDE DEF S
<1>3. S \subseteq 0 .. Top
  BY <1>2, RowsAreNumbers
<1>4. Max(S) \in S
  BY <1>2, <1>3, SetsOfTimesHaveAMax
<1> QED
  BY <1>3, <1>4 DEF LatestAlarm, S

LEMMA SortKeys ==
    ASSUME NEW v \in (0 .. Top) \cup {Null}, NEW desc
    PROVE  /\ SortKey(v, desc) \in 0 .. 2 * Top + 3
           /\ v = Null => SortKey(v, desc) = IF desc THEN Top + 2 ELSE 0
           /\ v # Null => SortKey(v, desc) = IF desc THEN v + 1 ELSE Top + 1 - v
  BY RowsAreNumbers, NullIsNoValue DEF SortKey

LEMMA KeysAreInRange ==
    ASSUME RowsInv, NEW q, q.list \in Lists, NEW r \in Matching(q)
    PROVE  Key(q, r) \in 0 .. 2 * Top + 3
<1>1. CASE q.list = "devices" /\ ~Sorted(q)
  <2>1. r \in DeviceIDs
    BY <1>1, MatchingDevices
  <2>2. UsualKey(r) \in 0 .. 2 * Top + 3
    BY <2>1, HeardOf, RowsAreNumbers
  <2> QED
    BY <1>1, <2>2 DEF Key
<1>2. CASE q.list = "devices" /\ Sorted(q)
  BY <1>2, SortColumns, SortKeys DEF Key
<1>3. CASE q.list = "sensors"
  <2>1. r \in 0 .. Top
    BY <1>3, MatchingSensors
  <2> QED
    BY <1>3, <2>1, SortKeys DEF Key
<1>4. CASE q.list = "alarms"
  BY <1>4, LatestAlarms, SortKeys DEF Key
<1> QED
  BY <1>1, <1>2, <1>3, <1>4 DEF Lists

LEMMA KeysOrderAsOrderBy ==
    ASSUME RowsInv, NEW q, q.list \in Lists,
           NEW r \in Matching(q), NEW s \in Matching(q),
           \/ Key(q, r) > Key(q, s)
           \/ /\ Key(q, r) = Key(q, s)
              /\ q.list = "devices" /\ ~Sorted(q) /\ r < s
    PROVE  OrderBy(q, r, s)
<1>1. CASE q.list = "devices" /\ ~Sorted(q)
  <2>1. /\ r \in DeviceIDs /\ s \in DeviceIDs
        /\ devices[r] \in DeviceRows /\ devices[s] \in DeviceRows
    BY <1>1, MatchingDevices DEF RowsInv, TablesOK
  <2>2. devices[r].active \in BOOLEAN /\ devices[s].active \in BOOLEAN
    BY <2>1, RowsHaveColumns
  <2>3. Key(q, r) = UsualKey(r) /\ Key(q, s) = UsualKey(s)
    BY <1>1 DEF Key
  <2>4. /\ Heard(r) \in -1 .. Top /\ Heard(s) \in -1 .. Top
        /\ UsualKey(r) = (IF devices[r].active THEN Top + 2 ELSE 0) + Heard(r) + 1
        /\ UsualKey(s) = (IF devices[s].active THEN Top + 2 ELSE 0) + Heard(s) + 1
    BY <2>1, HeardOf
  <2>5. UsualOrder(r, s)
    BY <2>2, <2>3, <2>4, RowsAreNumbers DEF UsualOrder
  <2> QED
    BY <1>1, <2>5 DEF OrderBy
<1>2. CASE q.list = "devices" /\ Sorted(q)
  <2> DEFINE v == SortColumn(q, r)
             w == SortColumn(q, s)
  <2>1. v \in (0 .. Top) \cup {Null} /\ w \in (0 .. Top) \cup {Null}
    BY <1>2, SortColumns
  <2>2. SortKey(v, q.SortDesc) > SortKey(w, q.SortDesc)
    BY <1>2 DEF Key
  <2> HIDE DEF v, w
  <2>3. IF q.SortDesc THEN SqlLess(w, v) ELSE SqlLess(v, w)
    BY <2>1, <2>2, SortKeys, RowsAreNumbers, NullIsNoValue DEF SqlLess
  <2> QED
    BY <1>2, <2>3 DEF OrderBy, v, w
<1>3. CASE q.list = "sensors"
  <2>1. r \in 0 .. Top /\ s \in 0 .. Top
    BY <1>3, MatchingSensors
  <2>2. SortKey(r, FALSE) > SortKey(s, FALSE)
    BY <1>3 DEF Key
  <2>3. SortKey(r, FALSE) = Top + 1 - r /\ SortKey(s, FALSE) = Top + 1 - s
    BY <2>1, RowsAreNumbers, NullIsNoValue DEF SortKey
  <2>4. r < s
    <3>1. Top + 1 - r > Top + 1 - s
      BY <2>2, <2>3
    <3>2. r \in Int /\ s \in Int /\ Top \in Int
      BY <2>1, RowsAreNumbers
    <3> QED
      BY <3>1, <3>2
  <2> QED
    BY <1>3, <2>4 DEF OrderBy
<1>4. CASE q.list = "alarms"
  <2>1. LatestAlarm(q, r) \in 0 .. Top /\ LatestAlarm(q, s) \in 0 .. Top
    BY <1>4, LatestAlarms
  <2>2. SortKey(LatestAlarm(q, r), TRUE) > SortKey(LatestAlarm(q, s), TRUE)
    BY <1>4 DEF Key
  <2>3. /\ SortKey(LatestAlarm(q, r), TRUE) = LatestAlarm(q, r) + 1
        /\ SortKey(LatestAlarm(q, s), TRUE) = LatestAlarm(q, s) + 1
    BY <2>1, RowsAreNumbers, NullIsNoValue DEF SortKey
  <2>4. LatestAlarm(q, r) > LatestAlarm(q, s)
    <3>1. LatestAlarm(q, r) + 1 > LatestAlarm(q, s) + 1
      BY <2>2, <2>3
    <3>2. LatestAlarm(q, r) \in Int /\ LatestAlarm(q, s) \in Int
      BY <2>1
    <3> QED
      BY <3>1, <3>2
  <2> QED
    BY <1>4, <2>4 DEF OrderBy
<1> QED
  BY <1>1, <1>2, <1>3, <1>4 DEF Lists

-----------------------------------------------------------------------------
(***************************************************************************)
(* What a query selects does not depend on its offset.                     *)
(***************************************************************************)
TableOf(q) == [r \in Rows |-> IF r \in Matching(q) THEN Key(q, r) ELSE -1]

LEMMA TableIsOfQuery == Table = TableOf(query)
  BY DEF Table, TableOf

LEMMA SameRows ==
    ASSUME NEW p, NEW q, Same(p, q)
    PROVE  /\ Matching(p) = Matching(q)
           /\ TableOf(p) = TableOf(q)
           /\ Limit(p) = Limit(q)
           /\ p.list = q.list
           /\ p.list = "devices" => (Sorted(p) <=> Sorted(q))
<1>1. p.list = q.list /\ p.list \in Lists /\ Limit(p) = Limit(q)
  BY DEF Same, Limit
<1>2. CASE p.list = "devices"
  <2>1. /\ p.AllowedTenants = q.AllowedTenants /\ p.Tenant = q.Tenant
        /\ p.SensorID = q.SensorID /\ p.DeviceID = q.DeviceID
        /\ p.Types = q.Types /\ p.Active = q.Active /\ p.Online = q.Online
        /\ p.ProfileNames = q.ProfileNames /\ p.LastSeen = q.LastSeen
        /\ p.Labels = q.Labels /\ p.Urns = q.Urns
        /\ p.SortBy = q.SortBy /\ p.SortDesc = q.SortDesc
    BY <1>2 DEF Same
  <2>2. ASSUME NEW d \in DeviceIDs
        PROVE  DeviceWhere(p, d) <=> DeviceWhere(q, d)
    <3>1. AllowedTenant(p, d) <=> AllowedTenant(q, d)
      BY <2>1 DEF AllowedTenant
    <3>2. DeviceTypeUrnWhere(p, d) <=> DeviceTypeUrnWhere(q, d)
      BY <2>1 DEF DeviceTypeUrnWhere
    <3> QED
      BY <2>1, <3>1, <3>2 DEF DeviceWhere
  <2>3. Matching(p) = Matching(q)
    BY <1>1, <1>2, <2>2 DEF Matching
  <2>4. Sorted(p) <=> Sorted(q)
    BY <2>1 DEF Sorted
  <2>5. \A r : SortColumn(p, r) = SortColumn(q, r)
    BY <2>1 DEF SortColumn
  <2>6. \A r : Key(p, r) = Key(q, r)
    BY <1>1, <1>2, <2>1, <2>4, <2>5 DEF Key
  <2> QED
    BY <1>1, <2>3, <2>4, <2>6 DEF TableOf
<1>3. CASE p.list = "sensors"
  <2>1. /\ p.Assigned = q.Assigned /\ p.HasProfile = q.HasProfile
        /\ p.ProfileName = q.ProfileName /\ p.Types = q.Types
    BY <1>3 DEF Same
  <2>2. \A s : SensorWhere(p, s) <=> SensorWhere(q, s)
    BY <2>1 DEF SensorWhere
  <2>3. Matching(p) = Matching(q)
    BY <1>1, <1>3, <2>2 DEF Matching
  <2>4. \A r : Key(p, r) = Key(q, r)
    BY <1>1, <1>3 DEF Key
  <2> QED
    BY <1>1, <1>3, <2>3, <2>4 DEF TableOf
<1>4. CASE p.list = "alarms"
  <2>1. p.AllowedTenants = q.AllowedTenants /\ p.AlarmType = q.AlarmType
    BY <1>4 DEF Same
  <2>2. \A d : Listed(p, d) = Listed(q, d)
    BY <2>1 DEF Listed
  <2>3. \A d : AlarmWhere(p, d) <=> AlarmWhere(q, d)
    BY <2>1, <2>2 DEF AlarmWhere
  <2>4. Matching(p) = Matching(q)
    BY <1>1, <1>4, <2>3 DEF Matching
  <2>5. \A r : LatestAlarm(p, r) = LatestAlarm(q, r)
    BY <2>2 DEF LatestAlarm
  <2>6. \A r : Key(p, r) = Key(q, r)
    BY <1>1, <1>4, <2>5 DEF Key
  <2> QED
    BY <1>1, <1>4, <2>4, <2>6 DEF TableOf
<1> QED
  BY <1>1, <1>2, <1>3, <1>4 DEF Lists

\* Nothing but the tables decides what a query selects.
LEMMA RowsStay ==
    ASSUME NEW q, UNCHANGED tables
    PROVE  TableOf(q)' = TableOf(q)
<1>1. /\ devices' = devices /\ states' = states /\ sensors' = sensors
      /\ alarms' = alarms
  BY DEF tables
<1>2. /\ \A d : ProfileOf(d)' = ProfileOf(d)
      /\ \A d : UsualKey(d)' = UsualKey(d)
      /\ \A d : Listed(q, d)' = Listed(q, d)
      /\ \A d : AllowedTenant(q, d)' <=> AllowedTenant(q, d)
      /\ \A d : DeviceTypeUrnWhere(q, d)' <=> DeviceTypeUrnWhere(q, d)
      /\ \A d, s : Carries(d, s)' <=> Carries(d, s)
  BY <1>1 DEF ProfileOf, UsualKey, Listed, AllowedTenant, DeviceTypeUrnWhere, Carries
<1>3. \A d : OnlineIs(q.Online, d)' <=> OnlineIs(q.Online, d)
  BY <1>1 DEF OnlineIs
<1>4. \A d : LatestAlarm(q, d)' = LatestAlarm(q, d)
  BY <1>1, <1>2 DEF LatestAlarm
<1>5. /\ \A d : DeviceWhere(q, d)' <=> DeviceWhere(q, d)
      /\ \A s : SensorWhere(q, s)' <=> SensorWhere(q, s)
      /\ \A d : AlarmWhere(q, d)' <=> AlarmWhere(q, d)
  BY <1>1, <1>2, <1>3 DEF DeviceWhere, SensorWhere, AlarmWhere
<1>6. Matching(q)' = Matching(q)
  BY <1>5 DEF Matching
<1>7. \A d : SortColumn(q, d)' = SortColumn(q, d)
  BY <1>1, <1>2 DEF SortColumn
<1>8. \A r : Key(q, r)' = Key(q, r)
  BY <1>2, <1>4, <1>7 DEF Key
<1> QED
  BY <1>6, <1>8 DEF TableOf

-----------------------------------------------------------------------------
(***************************************************************************)
(* A link asks the same question at another offset.                        *)
(***************************************************************************)
WithOffset(values, offset) ==
    [k \in DOMAIN values \cup {"offset"} |->
        IF k = "offset" THEN <<offset>> ELSE values[k]]

LEMMA OtherKeysStay ==
    ASSUME NEW v, NEW o, NEW w, w = WithOffset(v, o), NEW keys, "offset" \notin keys
    PROVE  /\ keys \cap DOMAIN w = keys \cap DOMAIN v
           /\ Whole(w, keys) = Whole(v, keys)
           /\ \A none : First(w, keys, none) = First(v, keys, none)
<1>1. /\ keys \cap DOMAIN w = keys \cap DOMAIN v
      /\ \A k \in keys \cap DOMAIN v : w[k] = v[k]
  BY DEF WithOffset
<1>2. Whole(w, keys) = Whole(v, keys)
  BY <1>1 DEF Whole
<1> QED
  BY <1>1, <1>2 DEF First

LEMMA OffsetOfLink ==
    ASSUME NEW v, NEW o \in Nat, NEW w, w = WithOffset(v, o)
    PROVE  /\ First(w, {"offset"}, Null) = {o}
           /\ \E x : x \in First(v, {"offset"}, Null)
<1>1. "offset" \in DOMAIN w /\ w["offset"] = <<o>>
  BY DEF WithOffset
<1>2. Whole(w, {"offset"}) = {<<o>>}
  BY <1>1 DEF Whole
<1>3. First(w, {"offset"}, Null) = {o}
  <2>1. <<o>> # <<>> /\ <<o>>[1] = o
    OBVIOUS
  <2> QED
    BY <1>2, <2>1 DEF First
<1>4. \E x : x \in Whole(v, {"offset"})
  BY DEF Whole
<1> QED
  BY <1>3, <1>4 DEF First

LEMMA DeviceLink ==
    ASSUME NEW r, NEW p, p.tenants = r.tenants, NEW o \in Nat,
           p.values = WithOffset(r.values, o)
    PROVE  /\ \A q \in deviceQueryFromValues(p) :
                 \E q0 \in deviceQueryFromValues(r) : Same(q, q0) /\ q.Offset = o
           /\ deviceQueryFromValues(r) # {} => deviceQueryFromValues(p) # {}
<1> DEFINE
      Tenant == First(r.values, {"tenant"}, Blank)
      SensorID == First(r.values, {"deveui", "sensor_id"}, Blank)
      DeviceID == First(r.values, {"device_id"}, Blank)
      Types == Whole(r.values, {"type", "types"})
      Active == First(r.values, {"active"}, Null)
      Online == First(r.values, {"online"}, Null)
      ProfileNames == Whole(r.values, {"profilename"})
      LastSeen == First(r.values, {"lastseen"}, Null)
      Labels == {r.values[k][1] : k \in DOMAIN r.values \cap
                    {"search", "name", "metadata"}} \ {Blank}
      Urns == Whole(r.values, {"urns"})
      SortBy == First(r.values, {"sortby"}, Blank)
      SortDesc == {v = "desc" : v \in First(r.values, {"sortorder"}, Blank)}
      Export == {v = "true" : v \in First(r.values, {"export"}, Blank)}
      AtOffset == First(r.values, {"offset"}, Null)
      LimitTo == First(r.values, {"limit"}, Null)
      From(offsets) ==
        [list : {"devices"}, AllowedTenants : {r.tenants}, Tenant : Tenant,
         SensorID : SensorID, DeviceID : DeviceID, Types : Types, Active : Active,
         Online : Online, ProfileNames : ProfileNames, LastSeen : LastSeen,
         Labels : {Labels}, Urns : Urns, SortBy : SortBy, SortDesc : SortDesc,
         Export : Export, Offset : offsets, Limit : LimitTo]
<1>1. deviceQueryFromValues(r) = From(AtOffset)
  BY DEF deviceQueryFromValues
<1>2. deviceQueryFromValues(p) = From({o})
  <2>1. /\ First(p.values, {"tenant"}, Blank) = Tenant
        /\ First(p.values, {"deveui", "sensor_id"}, Blank) = SensorID
        /\ First(p.values, {"device_id"}, Blank) = DeviceID
        /\ Whole(p.values, {"type", "types"}) = Types
        /\ First(p.values, {"active"}, Null) = Active
        /\ First(p.values, {"online"}, Null) = Online
        /\ Whole(p.values, {"profilename"}) = ProfileNames
        /\ First(p.values, {"lastseen"}, Null) = LastSeen
        /\ Whole(p.values, {"urns"}) = Urns
        /\ First(p.values, {"sortby"}, Blank) = SortBy
        /\ First(p.values, {"sortorder"}, Blank) = First(r.values, {"sortorder"}, Blank)
        /\ First(p.values, {"export"}, Blank) = First(r.values, {"export"}, Blank)
        /\ First(p.values, {"limit"}, Null) = LimitTo
    <3>1. ASSUME NEW keys, "offset" \notin keys
          PROVE  /\ Whole(p.values, keys) = Whole(r.values, keys)
                 /\ \A none : First(p.values, keys, none) = First(r.values, keys, none)
      BY <3>1, OtherKeysStay
    <3> QED
      BY <3>1
  <2>2. {p.values[k][1] : k \in DOMAIN p.values \cap
            {"search", "name", "metadata"}} \ {Blank} = Labels
    <3>1. /\ DOMAIN p.values \cap {"search", "name", "metadata"}
               = DOMAIN r.values \cap {"search", "name", "metadata"}
          /\ \A k \in DOMAIN r.values \cap {"search", "name", "metadata"} :
                p.values[k] = r.values[k]
      BY DEF WithOffset
    <3> QED
      BY <3>1
  <2>3. First(p.values, {"offset"}, Null) = {o}
    BY OffsetOfLink
  <2> QED
    BY <2>1, <2>2, <2>3 DEF deviceQueryFromValues
<1>3. PICK x : x \in AtOffset
  BY OffsetOfLink
<1> HIDE DEF Tenant, SensorID, DeviceID, Types, Active, Online, ProfileNames,
         LastSeen, Labels, Urns, SortBy, SortDesc, Export, AtOffset, LimitTo
<1>4. ASSUME NEW q \in From({o})
      PROVE  \E q0 \in From(AtOffset) : Same(q, q0) /\ q.Offset = o
  <2> DEFINE q0 == [q EXCEPT !.Offset = x]
  <2>1. q0 \in From(AtOffset) /\ q.Offset = o /\ q.list = "devices"
    BY <1>3
  <2>2. Same(q, q0)
    BY DEF Same, Lists
  <2> QED
    BY <2>1, <2>2
<1>5. ASSUME NEW q0 \in From(AtOffset) PROVE [q0 EXCEPT !.Offset = o] \in From({o})
  OBVIOUS
<1> QED
  BY <1>1, <1>2, <1>4, <1>5

LEMMA SensorLink ==
    ASSUME NEW r, NEW p, NEW o \in Nat, p.values = WithOffset(r.values, o)
    PROVE  /\ \A q \in sensorQueryFromValues(p) :
                 \E q0 \in sensorQueryFromValues(r) : Same(q, q0) /\ q.Offset = o
           /\ sensorQueryFromValues(r) # {} => sensorQueryFromValues(p) # {}
<1> DEFINE
      Assigned == First(r.values, {"assigned"}, Null)
      Profiled == First(r.values, {"hasprofile"}, Null)
      Named == First(r.values, {"profilename", "sensortype"}, Blank)
      Types == Whole(r.values, {"type", "types"})
      AtOffset == First(r.values, {"offset"}, Null)
      LimitTo == First(r.values, {"limit"}, Null)
      From(offsets) ==
        [list : {"sensors"}, Assigned : Assigned, HasProfile : Profiled,
         ProfileName : Named, Types : Types, Export : {FALSE},
         Offset : offsets, Limit : LimitTo]
<1>1. sensorQueryFromValues(r) = From(AtOffset)
  BY DEF sensorQueryFromValues
<1>2. sensorQueryFromValues(p) = From({o})
  <2>1. /\ First(p.values, {"assigned"}, Null) = Assigned
        /\ First(p.values, {"hasprofile"}, Null) = Profiled
        /\ First(p.values, {"profilename", "sensortype"}, Blank) = Named
        /\ Whole(p.values, {"type", "types"}) = Types
        /\ First(p.values, {"limit"}, Null) = LimitTo
    <3>1. ASSUME NEW keys, "offset" \notin keys
          PROVE  /\ Whole(p.values, keys) = Whole(r.values, keys)
                 /\ \A none : First(p.values, keys, none) = First(r.values, keys, none)
      BY <3>1, OtherKeysStay
    <3> QED
      BY <3>1
  <2>2. First(p.values, {"offset"}, Null) = {o}
    BY OffsetOfLink
  <2> QED
    BY <2>1, <2>2 DEF sensorQueryFromValues
<1>3. PICK x : x \in AtOffset
  BY OffsetOfLink
<1> HIDE DEF Assigned, Profiled, Named, Types, AtOffset, LimitTo
<1>4. ASSUME NEW q \in From({o})
      PROVE  \E q0 \in From(AtOffset) : Same(q, q0) /\ q.Offset = o
  <2> DEFINE q0 == [q EXCEPT !.Offset = x]
  <2>1. q0 \in From(AtOffset) /\ q.Offset = o /\ q.list = "sensors"
    BY <1>3
  <2>2. Same(q, q0)
    BY DEF Same, Lists
  <2> QED
    BY <2>1, <2>2
<1>5. ASSUME NEW q0 \in From(AtOffset) PROVE [q0 EXCEPT !.Offset = o] \in From({o})
  OBVIOUS
<1> QED
  BY <1>1, <1>2, <1>4, <1>5

LEMMA AlarmLink ==
    ASSUME NEW r, NEW p, p.tenants = r.tenants, NEW o \in Nat,
           p.values = WithOffset(r.values, o)
    PROVE  /\ \A q \in alarmQueryFromValues(p) :
                 \E q0 \in alarmQueryFromValues(r) : Same(q, q0) /\ q.Offset = o
           /\ alarmQueryFromValues(r) # {} => alarmQueryFromValues(p) # {}
<1> DEFINE
      Type == First(r.values, {"alarmtype"}, Blank)
      AtOffset == First(r.values, {"offset"}, Null)
      LimitTo == First(r.values, {"limit"}, Null)
      From(offsets) ==
        [list : {"alarms"}, AllowedTenants : {r.tenants}, AlarmType : Type,
         Export : {FALSE}, Offset : offsets, Limit : LimitTo]
<1>1. alarmQueryFromValues(r) = From(AtOffset)
  BY DEF alarmQueryFromValues
<1>2. alarmQueryFromValues(p) = From({o})
  <2>1. /\ First(p.values, {"alarmtype"}, Blank) = Type
        /\ First(p.values, {"limit"}, Null) = LimitTo
    <3>1. ASSUME NEW keys, "offset" \notin keys
          PROVE  /\ Whole(p.values, keys) = Whole(r.values, keys)
                 /\ \A none : First(p.values, keys, none) = First(r.values, keys, none)
      BY <3>1, OtherKeysStay
    <3> QED
      BY <3>1
  <2>2. First(p.values, {"offset"}, Null) = {o}
    BY OffsetOfLink
  <2> QED
    BY <2>1, <2>2 DEF alarmQueryFromValues
<1>3. PICK x : x \in AtOffset
  BY OffsetOfLink
<1> HIDE DEF Type, AtOffset, LimitTo
<1>4. ASSUME NEW q \in From({o})
      PROVE  \E q0 \in From(AtOffset) : Same(q, q0) /\ q.Offset = o
  <2> DEFINE q0 == [q EXCEPT !.Offset = x]
  <2>1. q0 \in From(AtOffset) /\ q.Offset = o /\ q.list = "alarms"
    BY <1>3
  <2>2. Same(q, q0)
    BY DEF Same, Lists
  <2> QED
    BY <2>1, <2>2
<1>5. ASSUME NEW q0 \in From(AtOffset) PROVE [q0 EXCEPT !.Offset = o] \in From({o})
  OBVIOUS
<1> QED
  BY <1>1, <1>2, <1>4, <1>5

LEMMA LinksKeepTheQuery ==
    ASSUME NEW r, NEW p, r.list \in Lists, p.list = r.list,
           p.tenants = r.tenants, NEW o \in Nat, p.values = WithOffset(r.values, o)
    PROVE  /\ \A q \in Queries(p) :
                 \E q0 \in Queries(r) : Same(q, q0) /\ q.Offset = o
           /\ Queries(r) # {} => Queries(p) # {}
           /\ ~Refused(r) => ~Refused(p)
<1>1. /\ \A q \in Queries(p) :
            \E q0 \in Queries(r) : Same(q, q0) /\ q.Offset = o
      /\ Queries(r) # {} => Queries(p) # {}
  <2>1. CASE r.list = "devices"
    BY <2>1, DeviceLink DEF Queries
  <2>2. CASE r.list = "sensors"
    BY <2>2, SensorLink DEF Queries
  <2>3. CASE r.list = "alarms"
    BY <2>3, AlarmLink DEF Queries
  <2> QED
    BY <2>1, <2>2, <2>3 DEF Lists
<1>2. ASSUME Refused(p) PROVE Refused(r)
  <2>1. ASSUME NEW k, k # "offset"
        PROVE  /\ k \in DOMAIN p.values <=> k \in DOMAIN r.values
               /\ k \in DOMAIN r.values => p.values[k] = r.values[k]
    BY <2>1 DEF WithOffset
  <2>2. "offset" \in DOMAIN p.values /\ p.values["offset"][1] = o
    BY DEF WithOffset
  <2>3. \A v : /\ Has(p, "export", v) <=> Has(r, "export", v)
               /\ Has(p, "urn", v) <=> Has(r, "urn", v)
    BY <2>1 DEF Has
  <2> QED
    BY <1>2, <2>1, <2>2, <2>3 DEF Refused
<1> QED
  BY <1>1, <1>2

-----------------------------------------------------------------------------
(***************************************************************************)
(* The pages of a list are pages of PageWalk.                              *)
(***************************************************************************)
\* PageWalk has the library to itself.
LEMMA SameLibrary ==
    /\ \A S : Walk!Cardinality(S) = Cardinality(S)
    /\ \A S, T : Walk!Bijection(S, T) = Bijection(S, T)
<1>1. \A S : Walk!Cardinality(S) = Cardinality(S)
  BY DEF Walk!Cardinality, Cardinality
<1>2. \A S, T : Walk!Bijection(S, T) = Bijection(S, T)
  BY DEF Walk!Bijection, Bijection, Walk!Injection, Injection, Walk!Surjection,
         Surjection, Walk!IsInjective, IsInjective
<1> QED
  BY <1>1, <1>2

LEMMA QueryIsAsked ==
    ASSUME WalkInv
    PROVE  /\ query \in Queries(request)
           /\ query.list \in Lists
           /\ ~query.Export /\ Limit(query) \in 1 .. Top /\ Offset(query) \in Nat
<1>1. query \in Queries(request)
  BY DEF WalkInv, query
<1> QED
  BY <1>1 DEF WalkInv, Same

LEMMA MatchingOfWalk ==
    ASSUME RowsInv, NEW q, q.list \in Lists, TableOf(q) = Table
    PROVE  Walk!Matching = Matching(q)
<1>1. Matching(q) \subseteq Rows
  BY MatchingRows DEF Rows, Lists
<1>2. \A r \in Matching(q) : Key(q, r) # -1
  BY KeysAreInRange, RowsAreNumbers
<1> QED
  BY <1>1, <1>2 DEF Walk!Matching, Walk!Absent, TableOf

LEMMA RankingsOfWalk ==
    ASSUME RowsInv, WalkInv, NEW q, q.list \in Lists, Same(q, query),
           NEW rank \in Rankings(q)
    PROVE  rank \in Walk!Rankings
<1>1. TableOf(q) = Table
  BY SameRows, TableIsOfQuery
<1>2. Walk!Matching = Matching(q)
  BY <1>1, MatchingOfWalk
<1>3. rank \in Walk!Bijection(Walk!Matching, 0 .. Walk!Total - 1)
  <2>1. rank \in Bijection(Matching(q), 0 .. Cardinality(Matching(q)) - 1)
    BY DEF Rankings
  <2> QED
    BY <1>2, <2>1, SameLibrary DEF Walk!Total
<1>4. ASSUME NEW r \in Matching(q), NEW s \in Matching(q), Walk!Before(r, s)
      PROVE  rank[r] < rank[s]
  <2>1. r \in Rows /\ s \in Rows
    BY MatchingRows DEF Rows, Lists
  <2>2. Table[r] = Key(q, r) /\ Table[s] = Key(q, s)
    BY <1>1, <2>1 DEF TableOf
  <2>3. \/ Key(q, r) > Key(q, s)
        \/ /\ Key(q, r) = Key(q, s)
           /\ q.list = "devices" /\ ~Sorted(q) /\ r < s
    BY <1>4, <2>2, SameRows DEF Walk!Before
  <2>4. OrderBy(q, r, s)
    BY <2>3, KeysOrderAsOrderBy
  <2> QED
    BY <2>4 DEF Rankings
<1>5. \A r, s \in Walk!Matching : Walk!Before(r, s) => rank[r] < rank[s]
  BY <1>2, <1>4
<1> QED
  BY <1>3, <1>5 DEF Walk!Rankings

LEMMA PageOfWalk ==
    ASSUME RowsInv, WalkInv, NEW page \in Pages(request)
    PROVE  \E rank \in Walk!Rankings :
              /\ page.Data = Walk!Page(rank, Offset(query))
              /\ page.TotalCount = 0 <=> page.Data = {}
              /\ page.Data # {} => page.TotalCount = Walk!Total
              /\ page.Offset = Offset(query) /\ page.Limit = Limit(query)
<1>0. PICK q \in Queries(request) : \E rank \in Rankings(q) : page = Collection(q, rank)
  BY DEF Pages
<1>1. PICK rank \in Rankings(q) : page = Collection(q, rank)
  BY <1>0
<1>2. /\ Same(q, query) /\ Offset(q) = Offset(query) /\ ~q.Export
      /\ q.list \in Lists /\ Limit(q) = Limit(query)
  BY QueryIsAsked, SameRows DEF WalkInv, Same
<1>3. rank \in Walk!Rankings
  BY <1>1, <1>2, RankingsOfWalk
<1>4. Walk!Matching = Matching(q)
  BY <1>2, SameRows, TableIsOfQuery, MatchingOfWalk
<1> DEFINE data == {u \in Matching(q) : /\ Offset(q) <= rank[u]
                                        /\ rank[u] < Offset(q) + Limit(q)}
<1>5. /\ page.Data = data /\ page.TotalCount = TotalCount(q, data)
      /\ page.Offset = Offset(q) /\ page.Limit = Limit(q)
  BY <1>1, <1>2 DEF Collection
<1>6. data = Walk!Page(rank, Offset(query))
  BY <1>2, <1>4 DEF Walk!Page
<1>7. data # {} => Cardinality(Matching(q)) # 0
  BY <1>2, MatchingRows DEF Lists
<1>8. /\ TotalCount(q, data) = 0 <=> data = {}
      /\ data # {} => TotalCount(q, data) = Walk!Total
  BY <1>4, <1>7, SameLibrary DEF TotalCount, Walk!Total
<1> HIDE DEF data
<1> QED
  BY <1>2, <1>3, <1>5, <1>6, <1>8

-----------------------------------------------------------------------------
(***************************************************************************)
(* Following a link changes nothing but the offset.                        *)
(***************************************************************************)
LEMMA AskAgain ==
    ASSUME RowsInv, WalkInv, UNCHANGED tables, UNCHANGED due,
           NEW o \in Nat,
           \/ UNCHANGED request /\ o = Offset(query)
           \/ Follow(o)
    PROVE  /\ Table' = Table
           /\ Limit(query)' = Limit(query)
           /\ Offset(query)' = o
           /\ (query.list = "devices" /\ ~Sorted(query))'
                = (query.list = "devices" /\ ~Sorted(query))
           /\ WalkInv'
<1>1. PICK p : p = request'
  OBVIOUS
<1>2. PICK q1 : q1 = query'
  OBVIOUS
<1>3. /\ p = [list |-> p.list, tenants |-> p.tenants, values |-> p.values]
      /\ p.list \in Lists /\ ~Refused(p) /\ Queries(p) # {}
      /\ \A q \in Queries(p) : Same(q, query) /\ Offset(q) = o
  <2>1. CASE UNCHANGED request /\ o = Offset(query)
    BY <1>1, <2>1, QueryIsAsked DEF WalkInv
  <2>2. CASE Follow(o)
    <3>1. p = [request EXCEPT !.values = WithOffset(request.values, o)]
      BY <1>1, <2>2 DEF Follow, WithOffset
    <3>2. /\ p = [list |-> p.list, tenants |-> p.tenants, values |-> p.values]
          /\ p.list = request.list /\ p.tenants = request.tenants
          /\ p.values = WithOffset(request.values, o)
      BY <3>1 DEF WalkInv
    <3>3. /\ \A q \in Queries(p) :
                \E q0 \in Queries(request) : Same(q, q0) /\ q.Offset = o
          /\ Queries(p) # {} /\ ~Refused(p)
      <4>1. request.list \in Lists /\ Queries(request) # {} /\ ~Refused(request)
        BY DEF WalkInv
      <4>2. /\ \A q \in Queries(p) :
                  \E q0 \in Queries(request) : Same(q, q0) /\ q.Offset = o
            /\ Queries(request) # {} => Queries(p) # {}
            /\ ~Refused(request) => ~Refused(p)
        BY <3>2, <4>1, LinksKeepTheQuery
      <4> QED
        BY <4>1, <4>2
    <3>4. ASSUME NEW q \in Queries(p) PROVE Same(q, query) /\ Offset(q) = o
      <4>1. PICK q0 \in Queries(request) : Same(q, q0) /\ q.Offset = o
        BY <3>3
      <4>2. Same(q0, query)
        BY QueryIsAsked DEF WalkInv
      <4>3. Same(q, query)
        BY <4>1, <4>2 DEF Same
      <4>4. Offset(q) = o
        BY <4>1, NullIsNoValue DEF Offset
      <4> QED
        BY <4>3, <4>4
    <3> QED
      BY <3>2, <3>3, <3>4 DEF WalkInv
  <2> QED
    BY <2>1, <2>2
<1>4. q1 \in Queries(p)
  BY <1>1, <1>2, <1>3 DEF query
<1>5. Same(q1, query) /\ Offset(q1) = o /\ Limit(q1) = Limit(query)
  BY <1>3, <1>4, SameRows
<1>6. Table' = TableOf(q1)'
  BY <1>2, TableIsOfQuery DEF Table, TableOf
<1>7. Table' = Table
  BY <1>5, <1>6, RowsStay, SameRows, TableIsOfQuery
<1>8. Limit(query)' = Limit(query) /\ Offset(query)' = o
  BY <1>2, <1>5
<1>9. (query.list = "devices" /\ ~Sorted(query))'
        = (query.list = "devices" /\ ~Sorted(query))
  BY <1>2, <1>5, SameRows
<1>10. \A r : Walk!Tied(r)' <=> Walk!Tied(r)
  BY <1>7, <1>9 DEF Walk!Tied
<1>11. \A q \in Queries(p) : /\ ~q.Export /\ Limit(q) \in 1 .. Top /\ Offset(q) \in Nat
                             /\ \A q2 \in Queries(p) : Same(q, q2) /\ Offset(q) = Offset(q2)
  <2>1. ASSUME NEW q \in Queries(p)
        PROVE  ~q.Export /\ Limit(q) \in 1 .. Top /\ Offset(q) \in Nat
    <3>1. Same(q, query) /\ Offset(q) = o
      BY <1>3
    <3>2. q.Export = query.Export /\ Limit(q) = Limit(query)
      BY <3>1, SameRows DEF Same
    <3> QED
      BY <3>1, <3>2, QueryIsAsked
  <2>2. ASSUME NEW q \in Queries(p), NEW q2 \in Queries(p)
        PROVE  Same(q, q2) /\ Offset(q) = Offset(q2)
    <3>1. Same(q, query) /\ Same(q2, query) /\ Offset(q) = o /\ Offset(q2) = o
      BY <1>3
    <3> QED
      BY <3>1 DEF Same
  <2> QED
    BY <2>1, <2>2
<1>12. WalkInv'
  BY <1>1, <1>3, <1>10, <1>11 DEF WalkInv
<1> QED
  BY <1>7, <1>8, <1>9, <1>12

-----------------------------------------------------------------------------
(***************************************************************************)
(* Each step of the client and of the service is one of PageWalk.          *)
(***************************************************************************)
LEMMA TableIsTyped ==
    ASSUME RowsInv, NEW q, q.list \in Lists
    PROVE  TableOf(q) \in [Rows -> (0 .. 2 * Top + 3) \cup {-1}]
  BY KeysAreInRange DEF TableOf

LEMMA TableIsTypedAfter ==
    /\ RowsInv /\ query.list \in Lists => Table \in [Rows -> (0 .. 2 * Top + 3) \cup {-1}]
    /\ (RowsInv /\ query.list \in Lists)'
          => (Table \in [Rows -> (0 .. 2 * Top + 3) \cup {-1}])'
<1>1. RowsInv /\ query.list \in Lists
      => Table \in [Rows -> (0 .. 2 * Top + 3) \cup {-1}]
  BY TableIsTyped, TableIsOfQuery
<1> QED
  BY <1>1, PTL

LEMMA InitIsInit ==
    ASSUME Init, RowsInv
    PROVE  WalkInv /\ Walk!Init
<1>1. request \in Requests /\ WellFormed(request)
  BY DEF Init
<1>2. ~Refused(request)
  BY <1>1, WalksHaveOneQuery
<1>3. PICK q \in Queries(request) :
          /\ Queries(request) = {q} /\ ~q.Export
          /\ Limit(q) \in 1 .. Top /\ Offset(q) \in 0 .. Top
  BY <1>1, WalksHaveOneQuery
<1>4. query = q
  BY <1>3 DEF query
<1>5. request = [list |-> request.list, tenants |-> request.tenants,
                 values |-> request.values]
  BY <1>1, RequestsAreURLs
<1>6. request.list \in Lists /\ q.list = request.list
  BY <1>1, <1>3, QueryIsOfItsList DEF Lists
<1>7. Walk!Matching = Matching(query)
  BY <1>4, <1>6, MatchingOfWalk, TableIsOfQuery
<1>8. \A r \in due : ~Walk!Tied(r)
  BY DEF Init
<1>9. WalkInv
  <2>1. Offset(q) \in Nat
    BY <1>3, RowsAreNumbers
  <2> QED
    BY <1>2, <1>3, <1>5, <1>6, <1>8, <2>1 DEF WalkInv, Same
<1>10. Walk!Init
  <2>1. Table \in [Rows -> (0 .. 2 * Top + 3) \cup {Walk!Absent}]
    BY <1>4, <1>6, TableIsTyped, TableIsOfQuery DEF Walk!Absent
  <2>2. \/ /\ mode = "forward"
           /\ due = {r \in Walk!Matching : ~Walk!Tied(r) /\ Walk!Place(r) >= Offset(query)}
        \/ /\ mode = "first"
           /\ due = {r \in Walk!Matching : ~Walk!Tied(r)}
    BY <1>7 DEF Init
  <2> QED
    BY <1>3, <1>4, <2>1, <2>2 DEF Init, Walk!Init
<1> QED
  BY <1>9, <1>10

LEMMA ReadForwardIsOne ==
    ASSUME RowsInv, WalkInv, ReadForward
    PROVE  WalkInv' /\ Walk!ReadForward
<1>1. /\ UNCHANGED tables /\ UNCHANGED due /\ UNCHANGED moved /\ mode = "forward"
  BY DEF ReadForward
<1>2. PICK page \in Pages(request) :
          /\ See(page)
          /\ IF page.TotalCount = 0
             THEN /\ mode' = IF seen = {} THEN "lost first" ELSE "lost"
                  /\ UNCHANGED request
             ELSE IF NextOf(page) < page.TotalCount
                  THEN Follow(NextOf(page)) /\ UNCHANGED mode
                  ELSE mode' = "done forward" /\ UNCHANGED request
  BY DEF ReadForward
<1>3. PICK rank \in Walk!Rankings :
          /\ page.Data = Walk!Page(rank, Offset(query))
          /\ page.TotalCount = 0 <=> page.Data = {}
          /\ page.Data # {} => page.TotalCount = Walk!Total
          /\ page.Offset = Offset(query) /\ page.Limit = Limit(query)
  BY PageOfWalk
<1> DEFINE shown == Walk!Page(rank, Offset(query))
<1>4. Walk!See(shown)
  BY <1>2, <1>3 DEF See, Walk!See
<1>5. Offset(query) \in Nat /\ Limit(query) \in Nat
  BY QueryIsAsked, RowsAreNumbers
<1> HIDE DEF shown
<1>6. CASE page.Data = {} \/ ~(NextOf(page) < page.TotalCount)
  <2>1. UNCHANGED request
    BY <1>2, <1>3, <1>6
  <2>2. /\ Table' = Table /\ Limit(query)' = Limit(query)
        /\ Offset(query)' = Offset(query) /\ WalkInv'
        /\ (query.list = "devices" /\ ~Sorted(query))'
             = (query.list = "devices" /\ ~Sorted(query))
    BY <1>1, <1>5, <2>1, AskAgain
  <2>3. IF Walk!NoLinks(shown)
        THEN mode' = IF seen = {} THEN "lost first" ELSE "lost"
        ELSE ~Walk!HasNext /\ mode' = "done forward"
    BY <1>2, <1>3, <1>6 DEF shown, Walk!NoLinks, Walk!HasNext, NextOf
  <2>4. Walk!ReadForward
    BY <1>1, <1>4, <2>2, <2>3 DEF Walk!ReadForward, shown
  <2> QED
    BY <2>2, <2>4
<1>7. CASE page.Data # {} /\ NextOf(page) < page.TotalCount
  <2>1. NextOf(page) = Walk!NextOffset /\ NextOf(page) \in Nat
    BY <1>3, <1>5 DEF NextOf, Walk!NextOffset
  <2>2. Follow(NextOf(page)) /\ UNCHANGED mode
    BY <1>2, <1>3, <1>7
  <2>3. /\ Table' = Table /\ Limit(query)' = Limit(query)
        /\ Offset(query)' = NextOf(page) /\ WalkInv'
        /\ (query.list = "devices" /\ ~Sorted(query))'
             = (query.list = "devices" /\ ~Sorted(query))
    BY <1>1, <2>1, <2>2, AskAgain
  <2>4. ~Walk!NoLinks(shown) /\ Walk!HasNext
    BY <1>3, <1>7 DEF shown, Walk!NoLinks, Walk!HasNext, NextOf
  <2>5. Walk!ReadForward
    BY <1>1, <1>4, <2>1, <2>2, <2>3, <2>4 DEF Walk!ReadForward, shown
  <2> QED
    BY <2>3, <2>5
<1> QED
  BY <1>6, <1>7

LEMMA LastOffsetIsNat ==
    ASSUME NEW t \in Nat, t # 0, NEW l \in Nat, l # 0
    PROVE  ((t - 1) \div l) * l \in Nat
<1>1. t - 1 \in Nat
  OBVIOUS
<1>2. (t - 1) \div l \in Nat
  BY <1>1
<1>3. ASSUME NEW n \in Nat PROVE n * l \in Nat
  OBVIOUS
<1> QED
  BY <1>2, <1>3

LEMMA ReadFirstIsOne ==
    ASSUME RowsInv, WalkInv, ReadFirst
    PROVE  WalkInv' /\ Walk!ReadFirst
<1>1. /\ UNCHANGED tables /\ UNCHANGED <<seen, twice, due, moved>>
      /\ mode = "first"
  BY DEF ReadFirst
<1>2. PICK page \in Pages(request) :
          IF page.TotalCount = 0 THEN mode' = "lost first" /\ UNCHANGED request
          ELSE mode' = "last" /\ Follow(LastOf(page))
  BY DEF ReadFirst
<1>3. PICK rank \in Walk!Rankings :
          /\ page.Data = Walk!Page(rank, Offset(query))
          /\ page.TotalCount = 0 <=> page.Data = {}
          /\ page.Data # {} => page.TotalCount = Walk!Total
          /\ page.Offset = Offset(query) /\ page.Limit = Limit(query)
  BY PageOfWalk
<1> DEFINE shown == Walk!Page(rank, Offset(query))
<1>4. /\ query.list \in Lists /\ Offset(query) \in Nat
      /\ Limit(query) \in Nat /\ Limit(query) # 0
  BY QueryIsAsked, RowsAreNumbers
<1> HIDE DEF shown
<1>5. CASE page.Data = {}
  <2>1. UNCHANGED request /\ mode' = "lost first"
    BY <1>2, <1>3, <1>5
  <2>2. /\ Table' = Table /\ Limit(query)' = Limit(query)
        /\ Offset(query)' = Offset(query) /\ WalkInv'
        /\ (query.list = "devices" /\ ~Sorted(query))'
             = (query.list = "devices" /\ ~Sorted(query))
    BY <1>1, <1>4, <2>1, AskAgain
  <2>3. Walk!NoLinks(shown)
    BY <1>3, <1>5 DEF shown, Walk!NoLinks
  <2>4. Walk!ReadFirst
    BY <1>1, <2>1, <2>2, <2>3 DEF Walk!ReadFirst, shown
  <2> QED
    BY <2>2, <2>4
<1>6. CASE page.Data # {}
  <2>1. Walk!Total \in Nat /\ page.TotalCount = Walk!Total /\ Walk!Total # 0
    <3>1. Walk!Total = Cardinality(Matching(query))
      BY <1>4, MatchingOfWalk, TableIsOfQuery, SameLibrary DEF Walk!Total
    <3> QED
      BY <1>3, <1>4, <1>6, <3>1, MatchingRows DEF Lists
  <2>2. LastOf(page) = Walk!LastOffset /\ LastOf(page) \in Nat
    BY <1>3, <1>4, <2>1, LastOffsetIsNat DEF LastOf, Walk!LastOffset
  <2>3. Follow(LastOf(page)) /\ mode' = "last"
    BY <1>2, <1>3, <1>6
  <2>4. /\ Table' = Table /\ Limit(query)' = Limit(query)
        /\ Offset(query)' = LastOf(page) /\ WalkInv'
        /\ (query.list = "devices" /\ ~Sorted(query))'
             = (query.list = "devices" /\ ~Sorted(query))
    BY <1>1, <2>2, <2>3, AskAgain
  <2>5. ~Walk!NoLinks(shown)
    BY <1>3, <1>6 DEF shown, Walk!NoLinks
  <2>6. Walk!ReadFirst
    BY <1>1, <2>2, <2>3, <2>4, <2>5 DEF Walk!ReadFirst, shown
  <2> QED
    BY <2>4, <2>6
<1> QED
  BY <1>5, <1>6

LEMMA ReadBackwardIsOne ==
    ASSUME RowsInv, WalkInv, ReadBackward
    PROVE  WalkInv' /\ Walk!ReadBackward
<1>1. /\ UNCHANGED tables /\ UNCHANGED due /\ UNCHANGED moved
      /\ mode \in {"last", "backward"}
  BY DEF ReadBackward
<1>2. PICK page \in Pages(request) :
          /\ See(page)
          /\ IF page.TotalCount = 0 THEN mode' = "lost" /\ UNCHANGED request
             ELSE IF PrevOf(page) >= 0
                  THEN Follow(PrevOf(page)) /\ mode' = "backward"
                  ELSE mode' = "done backward" /\ UNCHANGED request
  BY DEF ReadBackward
<1>3. PICK rank \in Walk!Rankings :
          /\ page.Data = Walk!Page(rank, Offset(query))
          /\ page.TotalCount = 0 <=> page.Data = {}
          /\ page.Data # {} => page.TotalCount = Walk!Total
          /\ page.Offset = Offset(query) /\ page.Limit = Limit(query)
  BY PageOfWalk
<1> DEFINE shown == Walk!Page(rank, Offset(query))
<1>4. Walk!See(shown)
  BY <1>2, <1>3 DEF See, Walk!See
<1>5. Offset(query) \in Nat /\ Limit(query) \in Nat
  BY QueryIsAsked, RowsAreNumbers
<1>6. PrevOf(page) = Walk!PrevOffset /\ PrevOf(page) \in Int
  BY <1>3, <1>5 DEF PrevOf, Walk!PrevOffset
<1> HIDE DEF shown
<1>7. CASE page.Data = {} \/ ~(PrevOf(page) >= 0)
  <2>1. UNCHANGED request
    BY <1>2, <1>3, <1>7
  <2>2. /\ Table' = Table /\ Limit(query)' = Limit(query)
        /\ Offset(query)' = Offset(query) /\ WalkInv'
        /\ (query.list = "devices" /\ ~Sorted(query))'
             = (query.list = "devices" /\ ~Sorted(query))
    BY <1>1, <1>5, <2>1, AskAgain
  <2>3. IF Walk!NoLinks(shown) THEN mode' = "lost"
        ELSE ~Walk!HasPrev /\ mode' = "done backward"
    BY <1>2, <1>3, <1>6, <1>7 DEF shown, Walk!NoLinks, Walk!HasPrev
  <2>4. Walk!ReadBackward
    BY <1>1, <1>4, <2>2, <2>3 DEF Walk!ReadBackward, shown
  <2> QED
    BY <2>2, <2>4
<1>8. CASE page.Data # {} /\ PrevOf(page) >= 0
  <2>1. PrevOf(page) \in Nat
    BY <1>6, <1>8
  <2>2. Follow(PrevOf(page)) /\ mode' = "backward"
    BY <1>2, <1>3, <1>8
  <2>3. /\ Table' = Table /\ Limit(query)' = Limit(query)
        /\ Offset(query)' = PrevOf(page) /\ WalkInv'
        /\ (query.list = "devices" /\ ~Sorted(query))'
             = (query.list = "devices" /\ ~Sorted(query))
    BY <1>1, <2>1, <2>2, AskAgain
  <2>4. ~Walk!NoLinks(shown) /\ Walk!HasPrev
    BY <1>3, <1>6, <1>8 DEF shown, Walk!NoLinks, Walk!HasPrev
  <2>5. Walk!ReadBackward
    BY <1>1, <1>4, <1>6, <2>2, <2>3, <2>4 DEF Walk!ReadBackward, shown
  <2> QED
    BY <2>3, <2>5
<1> QED
  BY <1>7, <1>8

\* A write is a change of the list, or of rows that are not in it.
LEMMA WriteIsChange ==
    ASSUME RowsInv, RowsInv', WalkInv, Write
    PROVE  WalkInv' /\ (Walk!Change \/ UNCHANGED (Walk!vars))
<1>1. UNCHANGED <<request, mode, seen, twice>>
  BY DEF Write
<1>2. query' = query
  BY <1>1 DEF query
<1>3. /\ Limit(query)' = Limit(query) /\ Offset(query)' = Offset(query)
      /\ (query.list = "devices" /\ ~Sorted(query))'
           = (query.list = "devices" /\ ~Sorted(query))
  BY <1>2
<1>4. /\ moved' = moved \cup UNION {Walk!Movement(Table[r], Table'[r]) : r \in Rows}
      /\ due' = {r \in due : Table'[r] = Table[r] /\ ~Walk!Tied(r)'}
  BY DEF Write, History
<1>5. WalkInv'
  BY <1>1, <1>4 DEF WalkInv
<1>6. /\ Table \in [Rows -> (0 .. 2 * Top + 3) \cup {-1}]
      /\ Table' \in [Rows -> (0 .. 2 * Top + 3) \cup {-1}]
  BY <1>2, QueryIsAsked, TableIsTypedAfter
<1>7. CASE Table' # Table
  <2>1. Walk!Change
    BY <1>1, <1>3, <1>4, <1>6, <1>7 DEF Walk!Change, Walk!walk, Walk!Absent
  <2> QED
    BY <1>5, <2>1
<1>8. CASE Table' = Table
  <2>1. ASSUME NEW r \in Rows PROVE Walk!Movement(Table[r], Table'[r]) = {}
    <3>1. Table[r] \in Int /\ Table'[r] = Table[r]
      BY <1>6, <1>8, RowsAreNumbers
    <3> QED
      BY <3>1 DEF Walk!Movement
  <2>2. moved' = moved
    BY <1>4, <2>1
  <2>3. \A r \in due : ~Walk!Tied(r)'
    <3>1. \A r : Walk!Tied(r)' <=> Walk!Tied(r)
      BY <1>3, <1>8 DEF Walk!Tied
    <3> QED
      BY <3>1 DEF WalkInv
  <2>4. due' = due
    BY <1>4, <1>8, <2>3
  <2> QED
    BY <1>1, <1>3, <1>5, <1>8, <2>2, <2>4 DEF Walk!vars, Walk!walk
<1> QED
  BY <1>5, <1>7, <1>8

\* The lists, ordered and cut by the SQL of each and linked by createLinks, are
\* walked as PageWalk says, for any tables, any queries and any writes.
THEOREM Implementation == Spec => ImplementsPageWalk
<1>1. Init /\ RowsInv => WalkInv /\ Walk!Init
  BY InitIsInit
<1>2. RowsInv /\ RowsInv' /\ WalkInv /\ [Next]_vars
      => WalkInv' /\ [Walk!Next]_(Walk!vars)
  <2> SUFFICES ASSUME RowsInv, RowsInv', WalkInv, [Next]_vars
               PROVE  WalkInv' /\ [Walk!Next]_(Walk!vars)
    OBVIOUS
  <2>1. CASE Read
    BY <2>1, ReadForwardIsOne, ReadFirstIsOne, ReadBackwardIsOne
    DEF Read, Walk!Next, Walk!Read
  <2>2. CASE Write
    BY <2>2, WriteIsChange DEF Walk!Next
  <2>3. CASE UNCHANGED vars
    <3>1. /\ UNCHANGED tables /\ UNCHANGED due /\ UNCHANGED request
          /\ UNCHANGED <<mode, seen, twice, due, moved>>
      BY <2>3 DEF vars
    <3>2. /\ Table' = Table /\ Limit(query)' = Limit(query)
          /\ Offset(query)' = Offset(query) /\ WalkInv'
          /\ (query.list = "devices" /\ ~Sorted(query))'
               = (query.list = "devices" /\ ~Sorted(query))
      BY <3>1, AskAgain, QueryIsAsked
    <3> QED
      BY <3>1, <3>2 DEF Walk!vars, Walk!walk
  <2>4. Next => Read \/ Write
    BY DEF Next, WriteDevice, WriteSensor, SetDeviceState, WriteAlarm, AddStatus
  <2> QED
    BY <2>1, <2>2, <2>3, <2>4
<1>3. Spec => []RowsInv
  BY RowsHold
<1> QED
  BY <1>1, <1>2, <1>3, PTL DEF Spec, ImplementsPageWalk, Walk!Spec

-----------------------------------------------------------------------------
(***************************************************************************)
(* What is proved of PageWalk holds of the lists.                          *)
(***************************************************************************)
Proved == INSTANCE PageWalkProofs WITH
    Keys <- 0 .. 2 * Top + 3, Offsets <- 0 .. Top, Limits <- 1 .. Top,
    table <- Table, at <- Offset(query), limit <- Limit(query),
    tieBreak <- query.list = "devices" /\ ~Sorted(query)

LEMMA PageWalkAssumes ==
    /\ 1 .. Top \subseteq Nat \ {0} /\ 0 .. Top \subseteq Nat
    /\ 0 .. 2 * Top + 3 \subseteq Nat
    /\ Rows \subseteq Nat /\ Proved!IsFiniteSet(Rows)
<1>1. IsFiniteSet(Rows) /\ Rows \subseteq 0 .. Top
  BY RowsAreNumbers, FS_Union DEF Rows
<1>2. Proved!IsFiniteSet(Rows)
  BY <1>1 DEF IsFiniteSet, Proved!IsFiniteSet
<1> QED
  BY <1>1, <1>2, RowsAreNumbers

\* Both instances of PageWalk say the same.
LEMMA SameWalk == Walk!Spec <=> Proved!Spec
<1>1. /\ \A S : Proved!Cardinality(S) = Walk!Cardinality(S)
      /\ \A S, T : Proved!Bijection(S, T) = Walk!Bijection(S, T)
  <2>1. \A S : Proved!Cardinality(S) = Walk!Cardinality(S)
    BY DEF Walk!Cardinality, Proved!Cardinality
  <2>2. \A S, T : Proved!Bijection(S, T) = Walk!Bijection(S, T)
    BY DEF Walk!Bijection, Proved!Bijection, Walk!Injection, Proved!Injection,
           Walk!Surjection, Proved!Surjection, Walk!IsInjective, Proved!IsInjective
  <2> QED
    BY <2>1, <2>2
<1>2. Proved!Matching = Walk!Matching /\ Proved!Absent = Walk!Absent
  BY DEF Walk!Matching, Proved!Matching, Walk!Absent, Proved!Absent
<1>3. Proved!Total = Walk!Total
  BY <1>1, <1>2 DEF Walk!Total, Proved!Total
<1>4. /\ \A r, s : Proved!Before(r, s) <=> Walk!Before(r, s)
      /\ \A r : Proved!Tied(r) <=> Walk!Tied(r)
      /\ \A r : Proved!Tied(r)' <=> Walk!Tied(r)'
  BY DEF Walk!Before, Proved!Before, Walk!Tied, Proved!Tied
<1>5. /\ Proved!Rankings = Walk!Rankings
      /\ \A rank, offset : Proved!Page(rank, offset) = Walk!Page(rank, offset)
      /\ \A r : Proved!Place(r) = Walk!Place(r)
  <2>1. Proved!Rankings = Walk!Rankings
    BY <1>1, <1>2, <1>3, <1>4 DEF Walk!Rankings, Proved!Rankings
  <2>2. \A rank, offset : Proved!Page(rank, offset) = Walk!Page(rank, offset)
    BY <1>2 DEF Walk!Page, Proved!Page
  <2>3. \A r : Proved!Ahead(r) = Walk!Ahead(r)
    BY <1>2, <1>4 DEF Walk!Ahead, Proved!Ahead
  <2>4. \A r : Proved!Place(r) = Walk!Place(r)
    BY <1>1, <2>3 DEF Walk!Place, Proved!Place
  <2> QED
    BY <2>1, <2>2, <2>4
<1>6. /\ \A page : Proved!See(page) <=> Walk!See(page)
      /\ \A page : Proved!NoLinks(page) <=> Walk!NoLinks(page)
      /\ Proved!HasNext <=> Walk!HasNext
      /\ Proved!NextOffset = Walk!NextOffset
      /\ Proved!LastOffset = Walk!LastOffset
      /\ Proved!PrevOffset = Walk!PrevOffset
      /\ Proved!HasPrev <=> Walk!HasPrev
  BY <1>3 DEF Walk!See, Proved!See, Walk!NoLinks, Proved!NoLinks, Walk!HasNext,
     Proved!HasNext, Walk!NextOffset, Proved!NextOffset, Walk!LastOffset,
     Proved!LastOffset, Walk!PrevOffset, Proved!PrevOffset, Walk!HasPrev,
     Proved!HasPrev
<1>7. Walk!Init <=> Proved!Init
  BY <1>2, <1>4, <1>5 DEF Walk!Init, Proved!Init
<1>8. Walk!Read <=> Proved!Read
  <2>1. Walk!ReadForward <=> Proved!ReadForward
    BY <1>5, <1>6 DEF Walk!ReadForward, Proved!ReadForward
  <2>2. Walk!ReadFirst <=> Proved!ReadFirst
    BY <1>5, <1>6 DEF Walk!ReadFirst, Proved!ReadFirst
  <2>3. Walk!ReadBackward <=> Proved!ReadBackward
    BY <1>5, <1>6 DEF Walk!ReadBackward, Proved!ReadBackward
  <2> QED
    BY <2>1, <2>2, <2>3 DEF Walk!Read, Proved!Read
<1>9. Walk!Change <=> Proved!Change
  <2>1. \A k, l : Proved!Movement(k, l) = Walk!Movement(k, l)
    BY <1>2 DEF Walk!Movement, Proved!Movement
  <2> QED
    BY <1>2, <1>4, <2>1 DEF Walk!Change, Proved!Change, Walk!walk, Proved!walk
<1>10. [Walk!Next]_(Walk!vars) <=> [Proved!Next]_(Proved!vars)
  BY <1>8, <1>9 DEF Walk!Next, Proved!Next, Walk!vars, Proved!vars, Walk!walk,
     Proved!walk
<1> QED
  BY <1>7, <1>10, PTL DEF Walk!Spec, Proved!Spec

\* Walks over devices, sensors and alarms miss a record that is due only when
\* others have moved past the client.
THEOREM ListsMissOnlyByMovement == Spec => []Walk!MissedOnlyByMovement
<1>1. Proved!Spec => []Proved!MissedOnlyByMovement
  BY PageWalkAssumes, Proved!MissedOnlyByMovementHolds
<1>2. Proved!MissedOnlyByMovement <=> Walk!MissedOnlyByMovement
  BY DEF Proved!MissedOnlyByMovement, Walk!MissedOnlyByMovement
<1> QED
  BY <1>1, <1>2, Implementation, SameWalk, PTL DEF ImplementsPageWalk

\* Walks along the links of createLinks repeat a record only when others have moved
\* the other way.
THEOREM ListsRepeatOnlyByMovement == Spec => []Walk!RepeatedOnlyByMovement
<1>1. Proved!Spec => []Proved!RepeatedOnlyByMovement
  BY PageWalkAssumes, Proved!RepeatedOnlyByMovementHolds
<1>2. Proved!RepeatedOnlyByMovement <=> Walk!RepeatedOnlyByMovement
  BY DEF Proved!RepeatedOnlyByMovement, Walk!RepeatedOnlyByMovement,
         Proved!Forward, Walk!Forward, Proved!Backward, Walk!Backward
<1> QED
  BY <1>1, <1>2, Implementation, SameWalk, PTL DEF ImplementsPageWalk

\* A link of createLinks leads to an empty page only when a record has left the
\* list since.
THEOREM ListsLoseOnlyWhenRecordsLeft == Spec => []Walk!LostOnlyWhenRecordsLeft
<1>1. Proved!Spec => []Proved!LostOnlyWhenRecordsLeft
  BY PageWalkAssumes, Proved!LostOnlyWhenRecordsLeftHolds
<1>2. Proved!LostOnlyWhenRecordsLeft <=> Walk!LostOnlyWhenRecordsLeft
  BY DEF Proved!LostOnlyWhenRecordsLeft, Walk!LostOnlyWhenRecordsLeft
<1> QED
  BY <1>1, <1>2, Implementation, SameWalk, PTL DEF ImplementsPageWalk

=============================================================================
