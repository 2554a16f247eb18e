SPECIFICATION FairSpec
CONSTANTS
    d1 = d1
    leak = leak
    off = off
    DeviceIds = {d1, d2}
    SensorIds = {s1, s2}
    Interval <- MCInterval
    ProfileInterval <- MCShortProfileInterval
    Retention = 2
    Kinds <- RadioKinds
    AlarmTypes = {leak, off, NotObserved}
    Enabled = {leak, NotObserved}
    NotObserved = NotObserved
    Null = Null
    MaxTime = 2
    MaxMessages = 2
CHECK_DEADLOCK FALSE
PROPERTIES
    StaleIsNoticed
