----------------------------- MODULE MCSeeding -----------------------------
(***************************************************************************)
(* Instances of Seeding for TLC.                                           *)
(***************************************************************************)
EXTENDS Seeding

CONSTANTS r1, r2, d1, d2, s1, s2, t1, t2, y1, y2, y3, p1, p2

MCRecord(s, d, t, p, ts) ==
    [sensor |-> s, device |-> d, tenant |-> t, types |-> ts, profile |-> p]

\* A device that the file states twice, with other types and another profile.
MCRecordsTwice ==
    << MCRecord(s1, d1, t1, p1, {}), MCRecord(s1, d1, t1, p2, {y1}) >>

\* Two devices, each with its sensor, and one of a tenant that is not seeded.
MCRecordsTwo ==
    << MCRecord(s1, d1, t1, p1, {}), MCRecord(s1, d1, t2, p1, {}),
       MCRecord(s2, d2, t1, p1, {}) >>

MCValidTenants == [r \in Seeders |-> {t1}]

\* A client creates the same devices for another tenant or without a sensor,
\* gives its sensors to other devices, and patches the columns and the types of
\* a device, as its tenant or not; the type y3 is not seeded.
MCClientCalls ==
    [op : {"CreateDevice"}, device : {d1}, sensor : {Null, s2}, tenant : {t1, t2},
     types : {{}}, profileTypes : {{}}]
    \cup [op : {"CreateDevice"}, device : {d1}, sensor : {Null}, tenant : {t2},
           types : {{y2}}, profileTypes : {{y1}}]
    \cup [op : {"MergeDevice"}, device : {d1}, tenant : {t2}, types : {{y1}, {y3}},
           allowed : {{t1}}]
    \cup [op : {"CreateSensor"}, sensor : {s1}, profile : {Null, p2}]
    \cup [op : {"AttachSensor"}, device : {d2}, sensor : {s1}, allowed : {{t1}}]

MCNoCalls == {}
MCCalls == SeedCalls \cup ClientCalls
=============================================================================
