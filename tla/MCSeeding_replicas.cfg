SPECIFICATION SeedFairSpec
CONSTANTS
    r1 = r1
    r2 = r2
    d1 = d1
    d2 = d2
    s1 = s1
    s2 = s2
    t1 = t1
    t2 = t2
    y1 = y1
    y2 = y2
    y3 = y3
    p1 = p1
    p2 = p2
    Requests = {r1, r2}
    DeviceIds = {d1, d2}
    SensorIds = {s1, s2}
    Tenants = {t1, t2}
    Types = {y1}
    SeededTypes = {y1}
    Profiles = {p1, p2}
    SeededProfiles = {p1, p2}
    Null = Null
    NoRow = NoRow
    Calls <- MCCalls
    ValidTenants <- MCValidTenants
    Seeders = {r1, r2}
    Records <- MCRecordsTwice
    ShouldUpdate = TRUE
    ClientCalls <- MCNoCalls
INVARIANTS
    TablesMatchFile
PROPERTIES
    ReplicasComeUp
