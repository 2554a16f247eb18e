------------------------ MODULE MCDeviceTransactions ------------------------
(***************************************************************************)
(* Instances of DeviceTransactions for TLC: which calls overlap.           *)
(***************************************************************************)
EXTENDS DeviceTransactions

CONSTANTS d1, d2, a, b, y1, y2, y3, s1, s2

Upsert(d, s, tags, types) ==
    [op |-> "upsert", device |-> d, sensor |-> s, tags |-> tags, types |-> types]
SetTypes(d, types) ==
    [op |-> "setTypes", device |-> d, sensor |-> NoSensor,
     tags |-> <<>>, types |-> types]

\* Two tags in either order, on two devices; types in either order, and one
\* that is not seeded; either sensor on either device.
MCCalls ==
    {Upsert(d1, s1, <<a, b>>, <<y1>>), Upsert(d1, s2, <<b, b>>, <<y2, y1>>),
     Upsert(d2, s1, <<b, a>>, <<y3>>), Upsert(d2, s2, <<b>>, <<>>),
     SetTypes(d1, <<y1, y2>>), SetTypes(d1, <<y2>>)}
=============================================================================
