SPECIFICATION Spec
CONSTANTS
    Requests = {r1, r2}
    DeviceIds = {d1, d2}
    SensorIds = {s1, s2}
    Tenants = {t1}
    Types = {}
    SeededTypes = {}
    Profiles = {p1, p2}
    SeededProfiles = {p1}
    Null = Null
    NoRow = NoRow
    Calls <- AssignmentCalls
SYMMETRY AssignmentSymmetry
INVARIANTS
    TypeOK
    SensorAssignedAtMostOnce
    AttachedSensorHasProfile
    CheckedSensorKeepsProfile
    LookupNeverFails
    SensorCreatedOnce
PROPERTIES
    NoSensorStolen
    AcknowledgedAssignmentHolds
    ImplementsAssignment
