SPECIFICATION Spec
CONSTANTS
    t1 = t1
    t2 = t2
    u1 = u1
    u2 = u2
    x = x
    cold = cold
    Null = Null
    NoRow = NoRow
    Blank = Blank
    Malformed = Malformed
    DeviceIDs = {1, 2, 3}
    SensorIDs = {1, 2, 3}
    Profiles = {1, 2}
    ProfileName <- MCProfileName
    TypesOf <- MCTypesOf
    Times = {1, 2}
    Top = 3
    DeviceRows <- MCDeviceRows
    AlarmTypes = {cold}
    Tables <- MCAllTables
    Requests <- MCWalks
    Probes <- MCSingleRequests
    MaxWrites = 1
CHECK_DEADLOCK FALSE
INVARIANTS
    FiltersPartition
    LinksNeverDivideByZero
    LookupsAgree
    StatusesAgree
PROPERTIES
    ImplementsPageWalk
