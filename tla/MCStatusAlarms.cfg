SPECIFICATION Spec
CONSTANTS
    d1 = d1
    leak = leak
    off = off
    DeviceIds = {d1, d2}
    SensorIds = {s1}
    Interval <- MCInterval
    ProfileInterval <- MCShortProfileInterval
    Retention = 1
    Kinds <- AllKinds
    AlarmTypes = {leak, off, NotObserved}
    Enabled = {leak, NotObserved}
    NotObserved = NotObserved
    Null = Null
    MaxTime = 2
    MaxMessages = 2
CHECK_DEADLOCK FALSE
PROPERTIES
    ReportedAlarmsStay
    HeardDevicesStayClean
    LastHeardNeverGoesBack
