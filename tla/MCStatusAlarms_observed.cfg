SPECIFICATION Spec
CONSTANTS
    d1 = d1
    leak = leak
    off = off
    DeviceIds = {d1}
    SensorIds = {s1}
    Interval <- MCInterval
    ProfileInterval <- MCProfileInterval
    Retention = 2
    Kinds <- PlainKinds
    AlarmTypes = {leak, off, NotObserved}
    Enabled = {leak, NotObserved}
    NotObserved = NotObserved
    Null = Null
    MaxTime = 2
    MaxMessages = 2
CHECK_DEADLOCK FALSE
PROPERTIES
    OnlyUnobservedDevicesAreFound
