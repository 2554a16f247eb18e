----------------------------- MODULE ClientRun -----------------------------
(***************************************************************************)
(* The goroutine a client of the service starts, and Close.  Its queue is  *)
(* unbuffered: a Close hands its function over when run receives, and not  *)
(* before.  Nothing else is ever sent.  New calls run once, so that the    *)
(* Swap of run always finds FALSE.                                         *)
(***************************************************************************)
EXTENDS Naturals

CONSTANT Callers  \* the calls of Close

VARIABLES pc,           \* where run is
          keepRunning,  \* the atomic flag
          wg,           \* the counter of the WaitGroup
          closing       \* where each Close is

runVars == <<pc, keepRunning, wg, closing>>

RunInit ==
    /\ pc = "go"
    /\ keepRunning = FALSE
    /\ wg = 0
    /\ closing = [c \in Callers |-> "idle"]

\* run adds itself to the WaitGroup, sets the flag and enters the loop.
Add ==
    /\ pc = "go"
    /\ wg' = wg + 1 /\ pc' = "swap"
    /\ UNCHANGED <<keepRunning, closing>>

Swap ==
    /\ pc = "swap"
    /\ keepRunning' = TRUE /\ pc' = "load"
    /\ UNCHANGED <<wg, closing>>

Load ==
    /\ pc = "load"
    /\ pc' = IF keepRunning THEN "receive" ELSE "done"
    /\ UNCHANGED <<keepRunning, wg, closing>>

\* run receives the function of a Close that waits to send it.
Receive(c) ==
    /\ pc = "receive" /\ closing[c] = "send"
    /\ pc' = "call"
    /\ closing' = [closing EXCEPT ![c] = "wait"]
    /\ UNCHANGED <<keepRunning, wg>>

CallFunction ==
    /\ pc = "call"
    /\ keepRunning' = FALSE /\ pc' = "load"
    /\ UNCHANGED <<wg, closing>>

\* The deferred call.
Done ==
    /\ pc = "done"
    /\ wg' = wg - 1 /\ pc' = "ended"
    /\ UNCHANGED <<keepRunning, closing>>

Close(c) ==
    /\ closing[c] = "idle"
    /\ closing' = [closing EXCEPT ![c] = "send"]
    /\ UNCHANGED <<pc, keepRunning, wg>>

Wait(c) ==
    /\ closing[c] = "wait" /\ wg = 0
    /\ closing' = [closing EXCEPT ![c] = "returned"]
    /\ UNCHANGED <<pc, keepRunning, wg>>

Run == Add \/ Swap \/ Load \/ (\E c \in Callers : Receive(c)) \/ CallFunction \/ Done

RunNext == Run \/ \E c \in Callers : Close(c) \/ Wait(c)

RunSpec == RunInit /\ [][RunNext]_runVars
-----------------------------------------------------------------------------
(***************************************************************************)
(* Properties.                                                             *)
(***************************************************************************)
RunTypeOK ==
    /\ pc \in {"go", "swap", "load", "receive", "call", "done", "ended"}
    /\ keepRunning \in BOOLEAN
    /\ wg \in {0, 1}
    /\ closing \in [Callers -> {"idle", "send", "wait", "returned"}]

\* A Close that has returned leaves no goroutine behind, also when it came
\* before run had added itself to the WaitGroup that Close waits for.
ClosedMeansEnded ==
    \A c \in Callers : closing[c] = "returned" => pc = "ended"

\* Only one Close is ever heard.  Every other one waits for ever for somebody
\* to receive: a caller must not close a client twice.
OneCloseIsHeard ==
    \A c1, c2 \in Callers :
        closing[c1] \in {"wait", "returned"} /\ closing[c2] \in {"wait", "returned"}
        => c1 = c2
=============================================================================
