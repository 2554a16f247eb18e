---------------------- MODULE WatchdogLifecycleProofs ----------------------
(***************************************************************************)
(* Proofs about WatchdogLifecycle, for any number of callers and of        *)
(* generations.  All generations but the last have ended; the last one is  *)
(* being started by a single caller, or has a goroutine, or has ended, and *)
(* the flag says which.                                                    *)
(***************************************************************************)
EXTENDS WatchdogLifecycle, TLAPS

\* The generations before and after the one started last.
Past ==
    \A g \in Generations :
        /\ g < started => goroutine[g] = "ended"
        /\ g > started => goroutine[g] = "none"

Resting ==
    /\ ~running
    /\ \A p \in Callers : ~Starting(p)
    /\ started # NoGeneration => goroutine[started] = "ended"

BeingStarted ==
    /\ running /\ started # NoGeneration
    /\ goroutine[started] = "none"
    /\ \E p \in Callers :
        /\ Starting(p) /\ mine[p] = started
        /\ \A q \in Callers : Starting(q) => q = p

Watched ==
    /\ running /\ started # NoGeneration
    /\ \A p \in Callers : ~Starting(p)
    /\ goroutine[started] \in {"watching", "done"}

\* What a caller carries is a generation that was begun; what a Stop waits for
\* is cancelled.
CallersKnow ==
    \A p \in Callers :
        /\ pc[p] # "idle" => mine[p] \in 1 .. started
        /\ pc[p] \in {"wait", "forget", "abandon"} => mine[p] \in cancelled

\* Somebody has cancelled the last generation, is about to, or can.
Reachable ==
    \/ started \in cancelled
    \/ published = started
    \/ \E p \in Callers : pc[p] = "cancel" /\ mine[p] = started

LastIsReachable ==
    /\ (\E p \in Callers : pc[p] = "spawn") => Reachable
    /\ started # NoGeneration /\ goroutine[started] = "watching" => Reachable

IInv ==
    /\ TypeOK
    /\ Past
    /\ Resting \/ BeingStarted \/ Watched
    /\ CallersKnow
    /\ published <= started
    /\ LastIsReachable

LEMMA StartedIsGeneration ==
    ASSUME TypeOK
    PROVE /\ started \in Nat /\ MaxGenerations \in Nat
          /\ started # NoGeneration => started \in Generations
          /\ published \in Nat
  BY BoundIsNat DEF TypeOK, Generations, NoGeneration

LEMMA InitIInv == Init => IInv
<1> SUFFICES ASSUME Init PROVE IInv
  OBVIOUS
<1>1. TypeOK
  <2>1. goroutine \in [Generations -> GoroutineSteps]
    BY DEF Init, GoroutineSteps
  <2>2. pc \in [Callers -> CallerSteps]
    BY DEF Init, CallerSteps
  <2>3. mine \in [Callers -> Generations \cup {NoGeneration}]
    BY DEF Init
  <2>4. started \in 0 .. MaxGenerations
    BY BoundIsNat DEF Init
  <2>5. QED
    BY <2>1, <2>2, <2>3, <2>4 DEF Init, TypeOK
<1>2. Past /\ Resting
  BY BoundIsNat DEF Init, Past, Resting, Starting, Generations, NoGeneration
<1>3. CallersKnow /\ published <= started
  BY DEF Init, CallersKnow, NoGeneration
<1>4. LastIsReachable
  BY DEF Init, LastIsReachable, NoGeneration
<1>5. QED
  BY <1>1, <1>2, <1>3, <1>4 DEF IInv
-----------------------------------------------------------------------------
LEMMA ClaimIInv ==
    ASSUME IInv, NEW p \in Callers, StartClaim(p)
    PROVE IInv'
<1> USE DEF StartClaim, Goto
<1>0. /\ TypeOK /\ Resting
      /\ started \in Nat /\ MaxGenerations \in Nat /\ started + 1 \in Generations
  BY StartedIsGeneration DEF IInv, BeingStarted, Watched, Generations
<1>1. TypeOK'
  BY <1>0 DEF TypeOK, CallerSteps, Generations
<1>2. Past'
  BY <1>0 DEF IInv, Past, Resting, Generations, NoGeneration
<1>3. BeingStarted'
  <2>1. goroutine'[started'] = "none"
    BY <1>0 DEF IInv, Past
  <2>2. Starting(p)' /\ mine'[p] = started'
    BY <1>0 DEF TypeOK, Starting
  <2>3. \A q \in Callers : Starting(q)' => q = p
    BY <1>0 DEF TypeOK, Starting, Resting
  <2>4. QED
    BY <1>0, <2>1, <2>2, <2>3 DEF BeingStarted, NoGeneration
<1>4. CallersKnow'
  BY <1>0 DEF IInv, CallersKnow, TypeOK
<1>5. (published <= started)'
  BY <1>0, StartedIsGeneration DEF IInv
<1>6. LastIsReachable'
  BY <1>0, <1>3 DEF LastIsReachable, BeingStarted, Resting, Starting, TypeOK
<1>7. QED
  BY <1>1, <1>2, <1>3, <1>4, <1>5, <1>6 DEF IInv

LEMMA PublishIInv ==
    ASSUME IInv, NEW p \in Callers, StartPublish(p)
    PROVE IInv'
<1> USE DEF StartPublish, Goto
<1>0. /\ TypeOK /\ BeingStarted /\ mine[p] = started
      /\ started \in Nat /\ started \in Generations
      /\ \A q \in Callers : Starting(q) => q = p
  BY StartedIsGeneration DEF IInv, Resting, BeingStarted, Watched, Starting
<1>1. TypeOK'
  BY <1>0 DEF TypeOK, CallerSteps
<1>2. Past'
  BY DEF IInv, Past
<1>3. BeingStarted'
  BY <1>0 DEF BeingStarted, Starting, TypeOK
<1>4. CallersKnow'
  BY <1>0 DEF IInv, CallersKnow, TypeOK
<1>5. (published <= started)'
  BY <1>0
<1>6. LastIsReachable'
  BY <1>0 DEF LastIsReachable, Reachable
<1>7. QED
  BY <1>1, <1>2, <1>3, <1>4, <1>5, <1>6 DEF IInv

LEMMA SpawnIInv ==
    ASSUME IInv, NEW p \in Callers, StartSpawn(p)
    PROVE IInv'
<1> USE DEF StartSpawn, Goto
<1>0. /\ TypeOK /\ BeingStarted /\ mine[p] = started
      /\ started \in Nat /\ started \in Generations
      /\ \A q \in Callers : Starting(q) => q = p
  BY StartedIsGeneration DEF IInv, Resting, BeingStarted, Watched, Starting
<1>1. TypeOK'
  BY <1>0 DEF TypeOK, CallerSteps, GoroutineSteps
<1>2. Past'
  BY <1>0 DEF IInv, Past, TypeOK, Generations
<1>3. Watched'
  BY <1>0 DEF Watched, BeingStarted, Starting, TypeOK
<1>4. CallersKnow'
  BY <1>0 DEF IInv, CallersKnow, TypeOK
<1>5. LastIsReachable'
  <2>1. Reachable
    BY <1>0 DEF IInv, LastIsReachable
  <2>2. Reachable'
    BY <1>0, <2>1 DEF Reachable, TypeOK
  <2>3. QED
    BY <2>2 DEF LastIsReachable
<1>6. QED
  BY <1>1, <1>2, <1>3, <1>4, <1>5 DEF IInv

LEMMA WatchersReturnIInv ==
    ASSUME IInv, NEW g \in Generations, WatchersReturn(g)
    PROVE IInv'
<1> USE DEF WatchersReturn
<1>0. /\ TypeOK /\ g = started /\ Watched
      /\ started \in Nat /\ started \in Generations
  BY StartedIsGeneration DEF IInv, Past, Resting, BeingStarted, Watched,
     Generations, NoGeneration
<1>1. TypeOK'
  BY <1>0 DEF TypeOK, GoroutineSteps
<1>2. Past'
  BY <1>0 DEF IInv, Past, TypeOK, Generations
<1>3. Watched'
  BY <1>0 DEF Watched, Starting, TypeOK
<1>4. CallersKnow'
  BY DEF IInv, CallersKnow
<1>5. LastIsReachable'
  BY <1>0 DEF IInv, LastIsReachable, Reachable, TypeOK
<1>6. QED
  BY <1>1, <1>2, <1>3, <1>4, <1>5 DEF IInv

LEMMA EndsIInv ==
    ASSUME IInv, NEW g \in Generations, GoroutineEnds(g)
    PROVE IInv'
<1> USE DEF GoroutineEnds
<1>0. /\ TypeOK /\ g = started /\ Watched
      /\ started \in Nat /\ started \in Generations
  BY StartedIsGeneration DEF IInv, Past, Resting, BeingStarted, Watched,
     Generations, NoGeneration
<1>1. TypeOK'
  BY <1>0 DEF TypeOK, GoroutineSteps
<1>2. Past'
  BY <1>0 DEF IInv, Past, TypeOK, Generations
<1>3. Resting'
  BY <1>0 DEF Resting, Watched, Starting, TypeOK
<1>4. CallersKnow'
  BY DEF IInv, CallersKnow
<1>5. LastIsReachable'
  BY <1>0 DEF IInv, LastIsReachable, Reachable, TypeOK
<1>6. QED
  BY <1>1, <1>2, <1>3, <1>4, <1>5 DEF IInv

\* The steps of Stop leave the flag, the goroutines and the Starts alone.
LEMMA StopKeepsPlaces ==
    ASSUME IInv, NEW p \in Callers, ~Starting(p), ~Starting(p)',
           UNCHANGED <<running, goroutine, started>>,
           \A q \in Callers \ {p} : pc'[q] = pc[q] /\ mine'[q] = mine[q]
    PROVE Past' /\ (Resting' \/ BeingStarted' \/ Watched')
<1>1. Past'
  BY DEF IInv, Past
<1>2. \A q \in Callers : Starting(q)' = Starting(q)
  BY DEF Starting
<1>3. CASE Resting
  BY <1>1, <1>2, <1>3 DEF Resting, Starting
<1>4. CASE BeingStarted
  <2>1. PICK q \in Callers : /\ Starting(q) /\ mine[q] = started
                             /\ \A r \in Callers : Starting(r) => r = q
    BY <1>4 DEF BeingStarted
  <2>2. Starting(q)' /\ mine'[q] = started
    BY <1>2, <2>1
  <2>3. \A r \in Callers : Starting(r)' => r = q
    BY <1>2, <2>1
  <2>4. BeingStarted'
    BY <1>4, <2>2, <2>3 DEF BeingStarted
  <2>5. QED
    BY <1>1, <2>4
<1>5. CASE Watched
  BY <1>1, <1>2, <1>5 DEF Watched, Starting
<1>6. QED
  BY <1>1, <1>3, <1>4, <1>5 DEF IInv

LEMMA StopReadIInv ==
    ASSUME IInv, NEW p \in Callers, StopRead(p)
    PROVE IInv'
<1> USE DEF StopRead, Goto
<1>0. TypeOK /\ started \in Nat /\ published \in 1 .. started
  BY StartedIsGeneration DEF IInv, NoGeneration
<1>1. TypeOK'
  BY <1>0 DEF TypeOK, CallerSteps
<1>2. Past' /\ (Resting' \/ BeingStarted' \/ Watched')
  <2>1. ~Starting(p) /\ ~Starting(p)'
    BY <1>0 DEF Starting, TypeOK
  <2>2. \A q \in Callers \ {p} : pc'[q] = pc[q] /\ mine'[q] = mine[q]
    BY <1>0 DEF TypeOK
  <2>3. QED
    BY <2>1, <2>2, StopKeepsPlaces
<1>3. CallersKnow'
  BY <1>0 DEF IInv, CallersKnow, TypeOK
<1>4. LastIsReachable'
  BY <1>0 DEF IInv, LastIsReachable, Reachable, TypeOK
<1>5. QED
  BY <1>1, <1>2, <1>3, <1>4 DEF IInv

LEMMA StopCancelIInv ==
    ASSUME IInv, NEW p \in Callers, StopCancel(p)
    PROVE IInv'
<1> USE DEF StopCancel, Goto
<1>0. TypeOK /\ mine[p] \in 1 .. started /\ mine[p] \in Generations
  BY StartedIsGeneration DEF IInv, CallersKnow, TypeOK, Generations,
     NoGeneration
<1>1. TypeOK'
  BY <1>0 DEF TypeOK, CallerSteps
<1>2. Past' /\ (Resting' \/ BeingStarted' \/ Watched')
  <2>1. ~Starting(p) /\ ~Starting(p)'
    BY <1>0 DEF Starting, TypeOK
  <2>2. \A q \in Callers \ {p} : pc'[q] = pc[q] /\ mine'[q] = mine[q]
    BY <1>0 DEF TypeOK
  <2>3. QED
    BY <2>1, <2>2, StopKeepsPlaces
<1>3. CallersKnow'
  BY <1>0 DEF IInv, CallersKnow, TypeOK
<1>4. LastIsReachable'
  <2>1. Reachable => Reachable'
    BY <1>0 DEF Reachable, TypeOK
  <2>2. QED
    BY <1>0, <2>1 DEF IInv, LastIsReachable, TypeOK
<1>5. QED
  BY <1>1, <1>2, <1>3, <1>4 DEF IInv

LEMMA StopWaitsIInv ==
    ASSUME IInv, NEW p \in Callers, StopSeesDone(p) \/ StopGivesUp(p)
    PROVE IInv'
<1> USE DEF StopSeesDone, StopGivesUp, Goto
<1>0. TypeOK
  BY DEF IInv
<1>1. TypeOK'
  BY <1>0 DEF TypeOK, CallerSteps
<1>2. Past' /\ (Resting' \/ BeingStarted' \/ Watched')
  <2>1. ~Starting(p) /\ ~Starting(p)'
    BY <1>0 DEF Starting, TypeOK
  <2>2. \A q \in Callers \ {p} : pc'[q] = pc[q] /\ mine'[q] = mine[q]
    BY <1>0 DEF TypeOK
  <2>3. QED
    BY <2>1, <2>2, StopKeepsPlaces
<1>3. CallersKnow'
  BY <1>0 DEF IInv, CallersKnow, TypeOK
<1>4. LastIsReachable'
  <2>1. Reachable => Reachable'
    BY <1>0 DEF Reachable, TypeOK
  <2>2. QED
    BY <1>0, <2>1 DEF IInv, LastIsReachable, TypeOK
<1>5. QED
  BY <1>1, <1>2, <1>3, <1>4 DEF IInv

LEMMA StopForgetIInv ==
    ASSUME IInv, NEW p \in Callers, StopForget(p)
    PROVE IInv'
<1> USE DEF StopForget, Goto
<1>0. /\ TypeOK /\ started \in Nat /\ published \in Nat
      /\ mine[p] \in cancelled
  BY StartedIsGeneration DEF IInv, CallersKnow
<1>1. TypeOK'
  BY <1>0 DEF TypeOK, CallerSteps
<1>2. Past' /\ (Resting' \/ BeingStarted' \/ Watched')
  <2>1. ~Starting(p) /\ ~Starting(p)'
    BY <1>0 DEF Starting, TypeOK
  <2>2. \A q \in Callers \ {p} : pc'[q] = pc[q] /\ mine'[q] = mine[q]
    BY <1>0 DEF TypeOK
  <2>3. QED
    BY <2>1, <2>2, StopKeepsPlaces
<1>3. CallersKnow'
  BY <1>0 DEF IInv, CallersKnow, TypeOK
<1>4. (published <= started)'
  BY <1>0 DEF IInv, NoGeneration
<1>5. LastIsReachable'
  <2>1. Reachable => Reachable'
    BY <1>0 DEF Reachable, TypeOK
  <2>2. QED
    BY <1>0, <2>1 DEF IInv, LastIsReachable, TypeOK
<1>6. QED
  BY <1>1, <1>2, <1>3, <1>4, <1>5 DEF IInv

LEMMA StutterIInv ==
    ASSUME IInv, UNCHANGED vars
    PROVE IInv'
  BY DEF vars, IInv, TypeOK, Past, Resting, BeingStarted, Watched, Starting,
     CallersKnow, LastIsReachable, Reachable

LEMMA StepIInv == IInv /\ [Next]_vars => IInv'
<1> SUFFICES ASSUME IInv, [Next]_vars PROVE IInv'
  OBVIOUS
<1>1. ASSUME NEW p \in Callers, CallerStep(p) PROVE IInv'
  BY <1>1, ClaimIInv, PublishIInv, SpawnIInv, StopReadIInv, StopCancelIInv,
     StopWaitsIInv, StopForgetIInv DEF CallerStep
<1>2. ASSUME NEW g \in Generations, GoroutineStep(g) PROVE IInv'
  BY <1>2, WatchersReturnIInv, EndsIInv DEF GoroutineStep
<1>3. QED
  BY <1>1, <1>2, StutterIInv DEF Next

LEMMA IInvHolds == Spec => []IInv
  BY InitIInv, StepIInv, PTL DEF Spec
-----------------------------------------------------------------------------
\* Types: no step of Start, Stop or a goroutine leaves its place.
THEOREM TypeCorrect == Spec => []TypeOK
<1>1. IInv => TypeOK
  BY DEF IInv
<1>2. QED
  BY <1>1, IInvHolds, PTL

\* A goroutine that watches is the one of the generation started last.
THEOREM OneWatcher == Spec => []AtMostOneWatcher
<1>1. ASSUME IInv PROVE AtMostOneWatcher
  <2>1. \A g \in Generations : goroutine[g] = "watching" => g = started
    BY <1>1, StartedIsGeneration DEF IInv, Past, Generations
  <2>2. QED
    BY <2>1 DEF AtMostOneWatcher
<1>2. QED
  BY <1>1, IInvHolds, PTL

\* The flag is set exactly while a Start is under way or a goroutine runs.
THEOREM FlagIsTruthful == Spec => []RunningIsTruthful
<1>1. ASSUME IInv PROVE RunningIsTruthful
  <2>1. \A g \in Generations : goroutine[g] \in {"watching", "done"} => g = started
    BY <1>1, StartedIsGeneration DEF IInv, Past, Generations
  <2>2. started # NoGeneration => started \in Generations
    BY <1>1, StartedIsGeneration DEF IInv
  <2>3. CASE Resting
    BY <2>1, <2>2, <2>3 DEF Resting, RunningIsTruthful, Generations,
       NoGeneration
  <2>4. CASE BeingStarted
    BY <2>4 DEF BeingStarted, RunningIsTruthful
  <2>5. CASE Watched
    BY <2>2, <2>5 DEF Watched, RunningIsTruthful
  <2>6. QED
    BY <1>1, <2>3, <2>4, <2>5 DEF IInv
<1>2. QED
  BY <1>1, IInvHolds, PTL

\* A watcher that nobody has cancelled can be: its pair is published.
THEOREM StaysStoppable == Spec => []CancelStaysReachable
<1>1. ASSUME IInv PROVE CancelStaysReachable
  <2>1. \A g \in Generations : goroutine[g] = "watching" => g = started
    BY <1>1, StartedIsGeneration DEF IInv, Past, Generations
  <2>2. QED
    BY <1>1, <2>1 DEF IInv, LastIsReachable, Reachable, CancelStaysReachable,
       Generations, NoGeneration
<1>2. QED
  BY <1>1, IInvHolds, PTL
=============================================================================
