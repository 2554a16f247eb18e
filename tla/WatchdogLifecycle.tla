-------------------------- MODULE WatchdogLifecycle --------------------------
(***************************************************************************)
(* Start and Stop of the watchdog (internal/application/watchdog).         *)
(*                                                                         *)
(* Start claims the flag running with a compare-and-swap, then publishes   *)
(* cancel and done under the mutex, then spawns the goroutine that runs    *)
(* the watchers.  The goroutine ends in two deferred steps: it closes done *)
(* and, after that, clears running.  Stop copies cancel and done under the *)
(* mutex, cancels, waits for done or for its own context, and forgets the  *)
(* pair if it is still the one it copied.  A generation is one successful  *)
(* Start: its pair (cancel, done) and its goroutine.                       *)
(***************************************************************************)
EXTENDS Naturals, FiniteSets

CONSTANTS Callers,         \* goroutines that call Start and Stop
          MaxGenerations   \* bound on the number of successful Starts

ASSUME BoundIsNat == MaxGenerations \in Nat

Generations == 1 .. MaxGenerations
NoGeneration == 0           \* the fields cancel and done are nil

VARIABLES running,      \* watchdogImpl.running
          published,    \* the generation in watchdogImpl.cancel and done
          goroutine,    \* progress of the goroutine of each generation
          cancelled,    \* generations whose context is cancelled
          started,      \* number of generations begun
          pc,           \* where each caller is
          mine          \* the generation a caller begins or waits for

vars == <<running, published, goroutine, cancelled, started, pc, mine>>

\* forget: Stop has seen done closed; abandon: its own context ended first.
CallerSteps ==
    {"idle", "publish", "spawn", "cancel", "wait", "forget", "abandon"}

\* none: not spawned; watching: watchers run; done: done is closed; ended.
GoroutineSteps == {"none", "watching", "done", "ended"}

Init ==
    /\ running = FALSE
    /\ published = NoGeneration
    /\ goroutine = [g \in Generations |-> "none"]
    /\ cancelled = {}
    /\ started = 0
    /\ pc = [p \in Callers |-> "idle"]
    /\ mine = [p \in Callers |-> NoGeneration]

Goto(p, step) == pc' = [pc EXCEPT ![p] = step]
-----------------------------------------------------------------------------
(***************************************************************************)
(* Start.                                                                  *)
(***************************************************************************)
\* Nothing happens when running is already set.
StartClaim(p) ==
    /\ pc[p] = "idle"
    /\ ~running
    /\ started < MaxGenerations
    /\ running' = TRUE
    /\ started' = started + 1
    /\ mine' = [mine EXCEPT ![p] = started + 1]
    /\ Goto(p, "publish")
    /\ UNCHANGED <<published, goroutine, cancelled>>

StartPublish(p) ==
    /\ pc[p] = "publish"
    /\ published' = mine[p]
    /\ Goto(p, "spawn")
    /\ UNCHANGED <<running, goroutine, cancelled, started, mine>>

StartSpawn(p) ==
    /\ pc[p] = "spawn"
    /\ goroutine' = [goroutine EXCEPT ![mine[p]] = "watching"]
    /\ mine' = [mine EXCEPT ![p] = NoGeneration]
    /\ Goto(p, "idle")
    /\ UNCHANGED <<running, published, cancelled, started>>
-----------------------------------------------------------------------------
(***************************************************************************)
(* The goroutine of a generation.                                          *)
(***************************************************************************)
\* Every watcher returns once the context is cancelled; then wg.Wait returns
\* and the last defer, the first to run, closes done.
WatchersReturn(g) ==
    /\ goroutine[g] = "watching"
    /\ g \in cancelled
    /\ goroutine' = [goroutine EXCEPT ![g] = "done"]
    /\ UNCHANGED <<running, published, cancelled, started, pc, mine>>

\* MUTANT: the deferred running.Store(false) is missing.
GoroutineEndsStillRunning(g) ==
    /\ goroutine[g] = "done"
    /\ goroutine' = [goroutine EXCEPT ![g] = "ended"]
    /\ UNCHANGED <<running, published, cancelled, started, pc, mine>>

GoroutineEnds(g) ==
    /\ goroutine[g] = "done"
    /\ goroutine' = [goroutine EXCEPT ![g] = "ended"]
    /\ running' = FALSE
    /\ UNCHANGED <<published, cancelled, started, pc, mine>>
-----------------------------------------------------------------------------
(***************************************************************************)
(* Stop.                                                                   *)
(***************************************************************************)
\* Without a published cancel function Stop returns at once.
StopRead(p) ==
    /\ pc[p] = "idle"
    /\ published # NoGeneration
    /\ mine' = [mine EXCEPT ![p] = published]
    /\ Goto(p, "cancel")
    /\ UNCHANGED <<running, published, goroutine, cancelled, started>>

\* MUTANT: Stop waits for done before it cancels.
StopCancelAfterDone(p) ==
    /\ pc[p] = "cancel"
    /\ goroutine[mine[p]] \in {"done", "ended"}
    /\ cancelled' = cancelled \cup {mine[p]}
    /\ Goto(p, "wait")
    /\ UNCHANGED <<running, published, goroutine, started, mine>>

StopCancel(p) ==
    /\ pc[p] = "cancel"
    /\ cancelled' = cancelled \cup {mine[p]}
    /\ Goto(p, "wait")
    /\ UNCHANGED <<running, published, goroutine, started, mine>>

StopSeesDone(p) ==
    /\ pc[p] = "wait"
    /\ goroutine[mine[p]] \in {"done", "ended"}
    /\ Goto(p, "forget")
    /\ UNCHANGED <<running, published, goroutine, cancelled, started, mine>>

\* The context given to Stop ends before the watchers do.
StopGivesUp(p) ==
    /\ pc[p] = "wait"
    /\ Goto(p, "abandon")
    /\ UNCHANGED <<running, published, goroutine, cancelled, started, mine>>

\* MUTANT: whatever pair is published is forgotten.
StopForgetAny(p) ==
    /\ pc[p] \in {"forget", "abandon"}
    /\ published' = NoGeneration
    /\ mine' = [mine EXCEPT ![p] = NoGeneration]
    /\ Goto(p, "idle")
    /\ UNCHANGED <<running, goroutine, cancelled, started>>

\* MUTANT: Stop itself clears running.
StopForgetClearingFlag(p) ==
    /\ pc[p] \in {"forget", "abandon"}
    /\ published' = IF published = mine[p] THEN NoGeneration ELSE published
    /\ running' = FALSE
    /\ mine' = [mine EXCEPT ![p] = NoGeneration]
    /\ Goto(p, "idle")
    /\ UNCHANGED <<goroutine, cancelled, started>>

\* Only the pair this Stop has copied is forgotten.
StopForget(p) ==
    /\ pc[p] \in {"forget", "abandon"}
    /\ published' = IF published = mine[p] THEN NoGeneration ELSE published
    /\ mine' = [mine EXCEPT ![p] = NoGeneration]
    /\ Goto(p, "idle")
    /\ UNCHANGED <<running, goroutine, cancelled, started>>
-----------------------------------------------------------------------------
CallerStep(p) ==
    \/ StartClaim(p) \/ StartPublish(p) \/ StartSpawn(p)
    \/ StopRead(p) \/ StopCancel(p) \/ StopSeesDone(p) \/ StopGivesUp(p)
    \/ StopForget(p)

GoroutineStep(g) == WatchersReturn(g) \/ GoroutineEnds(g)

Next ==
    \/ \E p \in Callers : CallerStep(p)
    \/ \E g \in Generations : GoroutineStep(g)

Spec == Init /\ [][Next]_vars

\* A call that has begun goes on and a goroutine that can end does: the Go
\* scheduler runs every runnable goroutine.  Nothing obliges a caller to begin
\* another call, nor the context of a Stop to end.
FairSpec ==
    /\ Spec
    /\ \A p \in Callers :
          WF_vars(\/ StartPublish(p) \/ StartSpawn(p) \/ StopCancel(p)
                  \/ StopSeesDone(p) \/ StopForget(p))
    /\ \A g \in Generations : WF_vars(GoroutineStep(g))
-----------------------------------------------------------------------------
(***************************************************************************)
(* Properties.                                                             *)
(***************************************************************************)
TypeOK ==
    /\ running \in BOOLEAN
    /\ published \in Generations \cup {NoGeneration}
    /\ goroutine \in [Generations -> GoroutineSteps]
    /\ cancelled \subseteq Generations
    /\ started \in 0 .. MaxGenerations
    /\ pc \in [Callers -> CallerSteps]
    /\ mine \in [Callers -> Generations \cup {NoGeneration}]

\* However Start and Stop overlap, two sets of watchers never run at a time:
\* a stale alarm is not raised twice by one process.
AtMostOneWatcher ==
    \A g, h \in Generations :
        goroutine[g] = "watching" /\ goroutine[h] = "watching" => g = h

\* Starting: a caller between its compare-and-swap and its go statement.
Starting(p) == pc[p] \in {"publish", "spawn"}

\* The flag running is set exactly while a Start is under way or a goroutine
\* has not reached its last deferred call.
RunningIsTruthful ==
    running <=>
        \/ \E p \in Callers : Starting(p)
        \/ \E g \in Generations : goroutine[g] \in {"watching", "done"}

\* A watcher that nobody has cancelled can still be stopped: its cancel
\* function is the one that is published, so a late Stop of an earlier
\* generation has not thrown it away.
CancelStaysReachable ==
    \A g \in Generations :
        goroutine[g] = "watching" /\ g \notin cancelled =>
            \/ published = g
            \/ \E p \in Callers : pc[p] = "cancel" /\ mine[p] = g

\* A Stop that has found a generation brings its goroutine to its end.
StopEndsTheWatcher ==
    \A p \in Callers, g \in Generations :
        (pc[p] = "cancel" /\ mine[p] = g) ~> (goroutine[g] = "ended")

\* What the test of Stop asserts: when Stop returns, having seen done closed
\* and with no Start since, the watchdog is marked stopped.
StopMarksStopped ==
    [][\A p \in Callers :
          pc[p] = "forget" /\ pc'[p] = "idle" /\ started = mine[p]
          => ~running']_vars
=============================================================================
