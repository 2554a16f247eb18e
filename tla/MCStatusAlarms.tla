--------------------------- MODULE MCStatusAlarms ---------------------------
(***************************************************************************)
(* Instances of StatusAlarms for TLC: intervals and message contents.      *)
(***************************************************************************)
EXTENDS StatusAlarms

CONSTANTS d1, leak, off   \* model values

\* One device with an interval of its own, the other uses the profile's.
MCInterval == [d \in DeviceIds |-> IF d = d1 THEN 1 ELSE 0]
MCProfileInterval == [s \in SensorIds |-> 2]

Plain(radio) == [code |-> Null, texts |-> <<>>, radio |-> radio]
Coded(c, radio) == [code |-> c, texts |-> <<>>, radio |-> radio]

\* A plain status with and without radio values, a code, an empty code, and
\* two texts of which one is the name of a disabled alarm type.
AllKinds ==
    {Plain(TRUE), Plain(FALSE), Coded(leak, TRUE), Coded("empty", FALSE),
     [code |-> "empty", texts |-> <<off, leak>>, radio |-> FALSE]}

PlainKinds == {Plain(TRUE), Plain(FALSE)}
RadioKinds == {Plain(TRUE)}

\* The shortest interval for every device, from either source.
MCShortProfileInterval == [s \in SensorIds |-> 1]
=============================================================================
