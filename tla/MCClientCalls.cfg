SPECIFICATION ClientSpec
CONSTANTS
    Clients = {k1}
    Requests = {r1, r2}
    DeviceIds = {d1, d2}
    SensorIds = {s1}
    Tenants = {t1, t2}
    AllowedTenants = {t1}
    Types = {}
    SeededTypes = {}
    Profiles = {p1}
    SeededProfiles = {p1}
    Null = Null
    NoRow = NoRow
    Calls <- MCMethods
    ClientMethods <- MCMethods
SYMMETRY ClientSymmetry
INVARIANTS
    SettledCreateIsThere
    NilHoldsWhenUndisturbed
PROPERTIES
    NamedErrorsChangedNothing
