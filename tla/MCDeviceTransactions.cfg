SPECIFICATION FairSpec
CONSTANTS
    d1 = d1
    d2 = d2
    a = a
    b = b
    y1 = y1
    y2 = y2
    y3 = y3
    Devices = {d1, d2}
    Tags = {a, b}
    s1 = s1
    s2 = s2
    Sensors = {s1, s2}
    NoSensor = NoSensor
    Types = {y1, y2, y3}
    SeededTypes = {y1, y2}
    Workers = {w1, w2}
    NoCall = NoCall
    NoRows = NoRows
    Calls <- MCCalls
INVARIANTS
    UpsertIsNeverRefused
    TagsOfTheLatestUpsert
    OnlySwapsDeadlock
PROPERTIES
    TypesMixOnlyOverlapping
    EveryCallEnds
