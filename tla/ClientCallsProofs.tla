------------------------- MODULE ClientCallsProofs -------------------------
(***************************************************************************)
(* Proofs about ClientCalls for any number of clients, exchanges, devices  *)
(* and sensors, and any calls.                                             *)
(*                                                                         *)
(* The clients only make calls of the registry, so what is proved of it    *)
(* holds behind the network (ClientsUseRegistry).  Settled says what an    *)
(* answer of the registry means, Carried what an exchange takes along of   *)
(* it, and Waiting what its client may rely on when the answer comes.      *)
(* Kept is what a client may rely on that nobody disturbs.  At the end,    *)
(* the goroutine of a client and its Close (ClientRun).                    *)
(***************************************************************************)
EXTENDS ClientCalls, ClientRun, DeviceRegistryProofs

-----------------------------------------------------------------------------
(***************************************************************************)
(* The registry behind the network.                                        *)
(***************************************************************************)
LEMMA ClientStepIsRegistryStep ==
    ASSUME [ClientNext]_clientVars
    PROVE  [Next]_vars
<1>1. CASE UNCHANGED clientVars
  BY <1>1 DEF clientVars
<1>2. ASSUME NEW r \in Requests, Exchange(r)
      PROVE  [Next]_vars
  <2>1. CASE Arrive(r)
    BY <2>1 DEF Arrive, Next
  <2>2. CASE Serve(r)
    BY <2>2 DEF Serve, Next
  <2>3. CASE Respond(r) \/ Lose(r)
    BY <2>3 DEF Respond, Lose
  <2> QED
    BY <1>2, <2>1, <2>2, <2>3 DEF Exchange
<1>3. ASSUME NEW k \in Clients, UseClient(k)
      PROVE  [Next]_vars
  BY <1>3 DEF UseClient, Invoke, Deliver, GiveUp
<1> QED
  BY <1>1, <1>2, <1>3 DEF ClientNext

\* Whatever clients do, and whatever the network loses, is a behaviour of the
\* registry: every theorem about Spec holds behind the network.
THEOREM ClientsUseRegistry == ClientSpec => Spec
<1>1. ClientInit => Init
  BY DEF ClientInit
<1>2. [ClientNext]_clientVars => [Next]_vars
  BY ClientStepIsRegistryStep
<1> QED
  BY <1>1, <1>2, PTL DEF ClientSpec, Spec
-----------------------------------------------------------------------------
(***************************************************************************)
(* What an answer of the registry means.                                   *)
(***************************************************************************)
\* A create that succeeded, or met the row, leaves the row behind; so does one
\* that has still to set the types.  Other calls do not answer "exists".
SettledCall(r) ==
    /\ reply[r] = "deviceExists" => call[r].op = "CreateDevice"
    /\ reply[r] = "sensorExists" => call[r].op = "CreateSensor"
    /\ call[r] \in Calls /\ call[r].op = "CreateDevice"
       /\ (phase[r] = "setTypes" \/ reply[r] \in {"ok", "deviceExists"})
         => HasDevice(call[r].device)
    /\ call[r] \in Calls /\ call[r].op = "CreateSensor"
       /\ reply[r] \in {"ok", "sensorExists"}
         => HasSensor(call[r].sensor)

Settled == \A r \in Requests : SettledCall(r)

\* Which steps answer that a row exists, and that they have seen it.
LEMMA ExistsWasSeen ==
    ASSUME IInv, NEW r \in Requests, Step(r), reply[r] = "none"
    PROVE  /\ reply'[r] = "deviceExists" =>
                call[r].op = "CreateDevice" /\ HasDevice(call[r].device)
           /\ reply'[r] = "sensorExists" =>
                call[r].op = "CreateSensor" /\ HasSensor(call[r].sensor)
<1> USE DEF At, Advance, Answer, AnswerCommitted
<1>0. TypeOK /\ r \in DOMAIN reply
  BY DEF IInv, TypeOK
<1>1. CASE CheckCreate(r) \/ CheckUpdate(r)
  BY <1>0, <1>1 DEF CheckCreate, CheckUpdate, CheckSensorIfNamed
<1>2. CASE CheckMerge(r) \/ CheckAttach(r) \/ CheckDetach(r)
  BY <1>0, <1>2 DEF CheckMerge, CheckAttach, CheckDetach, CheckVisible
<1>3. CASE GetSensor(r) \/ GetHolder(r) \/ CheckSensorCall(r)
  BY <1>0, <1>3 DEF GetSensor, GetHolder, CheckSensorCall
<1>4. CASE UpsertDevice(r) \/ MergeColumns(r)
  BY <1>0, <1>4 DEF UpsertDevice, MergeColumns
<1>5. CASE SetDeviceProfileTypes(r) \/ StorageFails(r)
  BY <1>0, <1>5 DEF SetDeviceProfileTypes, StorageFails
<1>6. CASE AssignSensor(r) \/ UnassignSensor(r)
  BY <1>0, <1>6 DEF AssignSensor, UnassignSensor
<1>7. CASE InsertSensor(r) \/ UpdateSensor(r)
  BY <1>0, <1>7 DEF InsertSensor, UpdateSensor
<1> QED
  BY <1>1, <1>2, <1>3, <1>4, <1>5, <1>6, <1>7 DEF Step

\* A create reaches setTypes by writing its row.
LEMMA SetTypesAfterUpsert ==
    ASSUME IInv, NEW r \in Requests, Step(r), phase'[r] = "setTypes",
           call[r].op = "CreateDevice"
    PROVE  HasDevice(call[r].device)'
<1> USE DEF At, Advance, Answer, AnswerCommitted
<1>0. TypeOK /\ r \in DOMAIN phase
  BY DEF IInv, TypeOK
<1>1. CASE UpsertDevice(r)
  <2>1. DEFINE row(ts) == [sensor |-> call[r].sensor, tenant |-> call[r].tenant,
                           types |-> ts]
  <2>2. call[r] \in Calls
    BY <1>0, <1>1 DEF UpsertDevice, TypeOK
  <2>3. PICK ts \in TypesLeft(r, call[r].device, call[r].types) :
          devices' = [devices EXCEPT ![call[r].device] = row(ts)]
    BY <1>0, <1>1 DEF UpsertDevice
  <2>4. call[r].device \in DeviceIds /\ row(ts) \in Device
    BY <2>2, CallFields DEF TypesLeft, Device
  <2>5. row(ts) # NoRow /\ call' = call
    BY <1>1, <2>4, NoRowIsNoRow DEF UpsertDevice
  <2> HIDE DEF row
  <2>6. devices'[call[r].device] = row(ts)
    BY <1>0, <2>3, <2>4 DEF TypeOK
  <2> QED
    BY <2>5, <2>6 DEF HasDevice
<1>2. CASE \/ CheckCreate(r) \/ CheckUpdate(r) \/ CheckMerge(r)
           \/ CheckAttach(r) \/ CheckDetach(r)
  BY <1>0, <1>2 DEF CheckCreate, CheckUpdate, CheckSensorIfNamed, CheckMerge,
                    CheckAttach, CheckDetach, CheckVisible
<1>3. CASE GetSensor(r) \/ GetHolder(r) \/ CheckSensorCall(r)
  BY <1>0, <1>3 DEF GetSensor, GetHolder, CheckSensorCall
<1>4. CASE MergeColumns(r) \/ SetDeviceProfileTypes(r) \/ StorageFails(r)
  BY <1>0, <1>4 DEF MergeColumns, SetDeviceProfileTypes, StorageFails
<1>5. CASE AssignSensor(r) \/ UnassignSensor(r)
  BY <1>0, <1>5 DEF AssignSensor, UnassignSensor
<1>6. CASE InsertSensor(r) \/ UpdateSensor(r)
  BY <1>0, <1>6 DEF InsertSensor, UpdateSensor
<1> QED
  BY <1>1, <1>2, <1>3, <1>4, <1>5, <1>6 DEF Step

\* What an answer means still holds after any step.
LEMMA SettledPreserved ==
    ASSUME IInv, Answered, Settled, [Next]_vars
    PROVE  Settled'
<1> SUFFICES ASSUME NEW r \in Requests
             PROVE  SettledCall(r)'
  BY DEF Settled
<1>0. TypeOK /\ SettledCall(r)
  BY DEF IInv, Settled
<1>1. /\ \A d \in DeviceIds : HasDevice(d) => devices'[d] # NoRow
      /\ \A s \in SensorIds : HasSensor(s) => sensors'[s] # NoRow
  BY RowsAreKept DEF RowsStay, HasDevice, HasSensor
<1>2. ASSUME phase'[r] = phase[r], call'[r] = call[r], reply'[r] = reply[r]
      PROVE  SettledCall(r)'
  <2>1. CASE call[r] \in Calls /\ call[r].op \in {"CreateDevice", "CreateSensor"}
    BY <1>0, <1>1, <1>2, <2>1, CallFields DEF SettledCall, HasDevice, HasSensor
  <2>2. CASE ~(call[r] \in Calls /\ call[r].op \in {"CreateDevice", "CreateSensor"})
    BY <1>0, <1>2, <2>2 DEF SettledCall
  <2> QED
    BY <2>1, <2>2
<1>3. CASE UNCHANGED vars
  BY <1>2, <1>3 DEF vars
<1>4. ASSUME NEW q \in Requests \ {r}, Step(q) \/ BeginCall(q)
      PROVE  SettledCall(r)'
  <2>1. phase'[r] = phase[r] /\ call'[r] = call[r] /\ reply'[r] = reply[r]
    BY <1>0, <1>4, OthersStay
  <2> QED
    BY <1>2, <2>1
<1>5. CASE BeginCall(r)
  <2>1. reply'[r] = "none" /\ phase'[r] # "setTypes"
    BY <1>0, <1>5 DEF BeginCall, TypeOK
  <2> QED
    BY <2>1 DEF SettledCall
<1>6. CASE Step(r)
  <2>1. call'[r] = call[r] /\ (phase'[r] # "idle" => reply'[r] = reply[r])
        /\ phase[r] # "idle" /\ reply[r] = "none" /\ call[r] \in Calls
    BY <1>0, <1>6, StepMovesRequest, AnswerGiven
    DEF Advance, Answer, Answered, TypeOK
  <2>2. /\ reply'[r] = "deviceExists" =>
             call[r].op = "CreateDevice" /\ HasDevice(call[r].device)
        /\ reply'[r] = "sensorExists" =>
             call[r].op = "CreateSensor" /\ HasSensor(call[r].sensor)
    BY <1>6, <2>1, ExistsWasSeen
  <2>3. ASSUME call[r].op = "CreateDevice",
               phase'[r] = "setTypes" \/ reply'[r] \in {"ok", "deviceExists"}
        PROVE  devices'[call[r].device] # NoRow
    <3>1. call[r].device \in DeviceIds
      BY <2>1, <2>3, CallFields
    <3>2. CASE phase'[r] = "setTypes"
      BY <1>6, <2>1, <2>3, <3>2, SetTypesAfterUpsert DEF HasDevice
    <3>3. CASE reply'[r] = "ok" /\ phase[r] # "setTypes"
      BY <1>6, <2>1, <2>3, <3>1, <3>3, DeviceCallOk DEF HasDevice
    <3>4. CASE phase[r] = "setTypes"
      BY <1>0, <1>1, <2>1, <2>3, <3>1, <3>4 DEF SettledCall
    <3>5. CASE reply'[r] = "deviceExists"
      BY <1>1, <2>2, <3>1, <3>5
    <3> QED
      BY <2>3, <3>2, <3>3, <3>4, <3>5
  <2>4. ASSUME call[r].op = "CreateSensor", reply'[r] \in {"ok", "sensorExists"}
        PROVE  sensors'[call[r].sensor] # NoRow
    <3>1. call[r].sensor \in SensorIds
      BY <2>1, <2>4, CallFields
    <3>2. CASE reply'[r] = "ok"
      BY <1>6, <2>1, <2>4, <3>1, <3>2, SensorCallOk DEF HasSensor
    <3>3. CASE reply'[r] = "sensorExists"
      BY <1>1, <2>2, <3>1, <3>3
    <3> QED
      BY <2>4, <3>2, <3>3
  <2> QED
    BY <2>1, <2>2, <2>3, <2>4 DEF SettledCall, HasDevice, HasSensor
<1> QED
  BY <1>3, <1>4, <1>5, <1>6 DEF Next

\* A call that writes a table is then in setTypes, or was answered ok or with
\* an error that nobody names.
LEMMA WritesAreTold ==
    ASSUME IInv, NEW r \in Requests, Step(r),
           tables' # tables \/ phase[r] = "setTypes"
    PROVE  \/ phase'[r] = "setTypes"
           \/ phase'[r] = "idle" /\ reply'[r] \in {"ok", "error"}
<1> USE DEF At, Advance, Answer, AnswerCommitted, tables
<1>0. r \in DOMAIN reply /\ r \in DOMAIN phase
  BY DEF IInv, TypeOK
<1>1. CASE \/ CheckCreate(r) \/ CheckUpdate(r) \/ CheckMerge(r)
           \/ CheckAttach(r) \/ CheckDetach(r)
  BY <1>1 DEF CheckCreate, CheckUpdate, CheckMerge, CheckAttach, CheckDetach,
              CheckVisible
<1>2. CASE GetSensor(r) \/ GetHolder(r) \/ CheckSensorCall(r)
  BY <1>2 DEF GetSensor, GetHolder, CheckSensorCall
<1>3. CASE UpsertDevice(r)
  BY <1>0, <1>3 DEF UpsertDevice
<1>4. CASE MergeColumns(r)
  BY <1>0, <1>4 DEF MergeColumns
<1>5. CASE SetDeviceProfileTypes(r) \/ StorageFails(r)
  BY <1>0, <1>5 DEF SetDeviceProfileTypes, StorageFails
<1>6. CASE AssignSensor(r) \/ UnassignSensor(r)
  BY <1>0, <1>6 DEF AssignSensor, UnassignSensor
<1>7. CASE InsertSensor(r) \/ UpdateSensor(r)
  BY <1>0, <1>7 DEF InsertSensor, UpdateSensor
<1> QED
  BY <1>1, <1>2, <1>3, <1>4, <1>5, <1>6, <1>7 DEF Step
-----------------------------------------------------------------------------
(***************************************************************************)
(* Statuses and errors.                                                    *)
(***************************************************************************)
Codes == {200, 201, 204, 400, 401, 404, 409, 500}
WrittenCodes == {200, 201, 204, 500}

LEMMA StatusFacts ==
    ASSUME NEW op, NEW x \in Replies
    PROVE  /\ StatusOf(op, x) \in Codes
           /\ x \in {"ok", "error"} => StatusOf(op, x) \in WrittenCodes
           /\ op \in {"CreateDevice", "CreateSensor"}
              /\ StatusOf(op, x) \in {200, 201, 409}
                => x \in {"ok", "deviceExists", "sensorExists"}
  BY DEF StatusOf, Replies, Codes, WrittenCodes

\* The errors of the client with a name stand for three statuses, and what a
\* create may rely on for those of a create that settled.
LEMMA ErrorFacts ==
    ASSUME NEW op, NEW s
    PROVE  /\ ErrorOf(op, s) \in Typed \cup {"nil", "error"}
           /\ ErrorOf(op, s) \in Typed => s \in {401, 404, 409}
           /\ op = "CreateDevice" /\ ErrorOf(op, s) \in {"nil", "ErrDeviceExist"}
                => s \in {201, 409}
           /\ op = "CreateSensor" /\ ErrorOf(op, s) \in {"nil", "ErrConflict"}
                => s \in {200, 201, 409}
<1>1. CASE s \in Success(op)
  BY <1>1 DEF ErrorOf, Success, Typed
<1>2. CASE s \notin Success(op) /\ s \in Named(op)
  <2>1. s \in {401, 404, 409}
    BY <1>2 DEF Named
  <2>2. ErrorOf(op, s) = NameOf(op, s)
    BY <1>2 DEF ErrorOf
  <2>3. NameOf(op, s) \in Typed
    BY <2>1 DEF NameOf, Typed
  <2>4. op = "CreateDevice" /\ NameOf(op, s) = "ErrDeviceExist" => s = 409
    BY <2>1 DEF NameOf
  <2>5. op = "CreateSensor" /\ NameOf(op, s) = "ErrConflict" => s = 409
    BY <2>1 DEF NameOf
  <2> QED
    BY <2>1, <2>2, <2>3, <2>4, <2>5 DEF Typed
<1>3. CASE s \notin Success(op) /\ s \notin Named(op)
  BY <1>3 DEF ErrorOf, Typed
<1> QED
  BY <1>1, <1>2, <1>3
-----------------------------------------------------------------------------
(***************************************************************************)
(* The exchanges and the clients.                                          *)
(***************************************************************************)
\* Of an exchange: it carries a call, only it moves its request, and its status
\* says what the answer of the registry meant.
Carried(r) ==
    /\ wire[r] \in {"free", "request"} => ~wrote[r]
    /\ wire[r] # "free" => asked[r] \in ClientMethods
    /\ phase[r] # "idle" => wire[r] = "serving"
    /\ wire[r] = "serving" =>
         /\ call[r] = asked[r]
         /\ wrote[r] => \/ phase[r] = "setTypes"
                        \/ phase[r] = "idle" /\ reply[r] \in {"ok", "error"}
    /\ wire[r] = "response" =>
         /\ wrote[r] => status[r] \in WrittenCodes
         /\ asked[r].op = "CreateDevice" /\ status[r] \in {201, 409}
              => HasDevice(asked[r].device)
         /\ asked[r].op = "CreateSensor" /\ status[r] \in {200, 201, 409}
              => HasSensor(asked[r].sensor)

\* Of a client: its exchange is under way, for its method, and for no other
\* client; a create that settled has its row.
SettledCreate(k) ==
    /\ method[k].op = "CreateDevice" /\ outcome[k] \in {"nil", "ErrDeviceExist"}
         => HasDevice(method[k].device)
    /\ method[k].op = "CreateSensor" /\ outcome[k] \in {"nil", "ErrConflict"}
         => HasSensor(method[k].sensor)

Waiting(k) ==
    /\ exchange[k] # Null =>
         /\ wire[exchange[k]] # "free"
         /\ method[k] = asked[exchange[k]]
         /\ outcome[k] = "none"
         /\ \A j \in Clients : exchange[j] = exchange[k] => j = k
    /\ method[k] # Null => SettledCreate(k)

NetTypeOK ==
    /\ wire \in [Requests -> {"free", "request", "serving", "response"}]
    /\ asked \in [Requests -> ClientMethods \cup {Null}]
    /\ status \in [Requests -> {0} \cup Codes]
    /\ wrote \in [Requests -> BOOLEAN]
    /\ method \in [Clients -> ClientMethods \cup {Null}]
    /\ exchange \in [Clients -> Requests \cup {Null}]
    /\ outcome \in [Clients -> Typed \cup {"none", "nil", "error"}]
    /\ disturbed \in [Clients -> BOOLEAN]

NetInv ==
    /\ NetTypeOK
    /\ \A r \in Requests : Carried(r)
    /\ \A k \in Clients : Waiting(k)

RegistryInv == IInv /\ Answered /\ Settled

\* An exchange that is not moved carries what it carried.
LEMMA CarriedUnmoved ==
    ASSUME IInv, [Next]_vars, NEW q \in Requests, Carried(q),
           wire'[q] = wire[q], asked'[q] = asked[q], status'[q] = status[q],
           wrote'[q] = wrote[q], phase'[q] = phase[q], call'[q] = call[q],
           reply'[q] = reply[q]
    PROVE  Carried(q)'
<1>1. /\ \A d \in DeviceIds : HasDevice(d) => devices'[d] # NoRow
      /\ \A s \in SensorIds : HasSensor(s) => sensors'[s] # NoRow
  BY RowsAreKept DEF RowsStay, HasDevice, HasSensor
<1>2. wire[q] # "free" =>
        /\ asked[q].op = "CreateDevice" => asked[q].device \in DeviceIds
        /\ asked[q].op = "CreateSensor" => asked[q].sensor \in SensorIds
  BY MethodsAreCalls, CallFields DEF Carried
<1> QED
  BY <1>1, <1>2 DEF Carried, HasDevice, HasSensor

\* A client that does nothing, and whose exchange stays under way, waits on.
LEMMA SettledCreateStays ==
    ASSUME IInv, [Next]_vars, NetTypeOK, NEW k \in Clients, method[k] # Null,
           SettledCreate(k), method'[k] = method[k], outcome'[k] = outcome[k]
    PROVE  SettledCreate(k)'
<1>1. /\ \A d \in DeviceIds : HasDevice(d) => devices'[d] # NoRow
      /\ \A s \in SensorIds : HasSensor(s) => sensors'[s] # NoRow
  BY RowsAreKept DEF RowsStay, HasDevice, HasSensor
<1>2. method[k] \in Calls
  BY MethodsAreCalls DEF NetTypeOK
<1>3. /\ method[k].op = "CreateDevice" => method[k].device \in DeviceIds
      /\ method[k].op = "CreateSensor" => method[k].sensor \in SensorIds
  BY <1>2, CallFields
<1> QED
  BY <1>1, <1>3 DEF SettledCreate, HasDevice, HasSensor

\* So do all clients when none of them acts and no exchange of theirs ends.
LEMMA WaitingUnmoved ==
    ASSUME IInv, [Next]_vars, NetTypeOK, NEW k \in Clients, Waiting(k),
           UNCHANGED <<method, exchange, outcome>>,
           exchange[k] # Null =>
             wire'[exchange[k]] # "free" /\ asked'[exchange[k]] = asked[exchange[k]]
    PROVE  Waiting(k)'
<1>1. method[k] # Null => SettledCreate(k)'
  BY SettledCreateStays DEF Waiting
<1> QED
  BY <1>1 DEF Waiting
-----------------------------------------------------------------------------
(***************************************************************************)
(* The actions, one after the other.                                       *)
(***************************************************************************)
LEMMA RefusalFacts ==
    ASSUME NEW c, NEW x \in Refusals(c)
    PROVE  /\ x \in {400, 401}
           /\ c.op = "CreateDevice" => x = 401
           /\ c.op # "CreateSensor"
<1>1. CASE c.op = "CreateDevice"
  BY <1>1 DEF Refusals
<1>2. CASE c.op # "CreateDevice"
  BY <1>2 DEF Refusals
<1> QED
  BY <1>1, <1>2

LEMMA ArriveKeeps ==
    ASSUME RegistryInv, NetInv, NEW r \in Requests, Arrive(r)
    PROVE  NetInv'
<1>0. IInv /\ TypeOK /\ NetTypeOK /\ [Next]_vars
  <2>1. [Next]_vars
    BY DEF Arrive, Next
  <2> QED
    BY <2>1 DEF RegistryInv, IInv, NetInv
<1>1. /\ wire[r] = "request" /\ wire' = [wire EXCEPT ![r] = wire'[r]]
      /\ wire'[r] \in {"response", "serving"}
      /\ UNCHANGED <<asked, wrote, method, exchange, outcome, disturbed>>
  BY <1>0 DEF Arrive, Travel, NetTypeOK
<1>2. /\ \A q \in Requests \ {r} : wire'[q] = wire[q]
      /\ \A k \in Clients : exchange[k] # Null => wire'[exchange[k]] # "free"
  BY <1>0, <1>1 DEF NetInv, NetTypeOK, Waiting
<1>3. /\ ~wrote[r] /\ phase[r] = "idle" /\ asked[r] \in ClientMethods
  BY <1>1 DEF NetInv, Carried
<1>4. CASE /\ \E x \in Refusals(asked[r]) : status' = [status EXCEPT ![r] = x]
           /\ Travel(r, "response") /\ UNCHANGED vars
  <2>1. PICK x \in Refusals(asked[r]) : status' = [status EXCEPT ![r] = x]
    BY <1>4
  <2>2. /\ status'[r] = x /\ status' \in [Requests -> {0} \cup Codes]
        /\ \A q \in Requests \ {r} : status'[q] = status[q]
        /\ wire'[r] = "response"
    BY <1>0, <1>4, <2>1, RefusalFacts DEF NetTypeOK, Codes, Travel
  <2>3. Carried(r)'
    BY <1>1, <1>3, <1>4, <2>2, RefusalFacts DEF Carried, vars
  <2>4. \A q \in Requests \ {r} : Carried(q)'
    BY <1>0, <1>1, <1>2, <1>4, <2>2, CarriedUnmoved DEF NetInv, vars
  <2>5. NetTypeOK'
    BY <1>0, <1>1, <2>2 DEF NetTypeOK
  <2>6. \A k \in Clients : Waiting(k)'
    BY <1>0, <1>1, <1>2, WaitingUnmoved DEF NetInv
  <2> QED
    BY <2>3, <2>4, <2>5, <2>6 DEF NetInv
<1>5. CASE /\ BeginCall(r) /\ call'[r] = asked[r]
           /\ Travel(r, "serving") /\ UNCHANGED status
  <2>1. phase'[r] # "idle" /\ wire'[r] = "serving"
    BY <1>0, <1>5 DEF BeginCall, TypeOK, Travel, NetTypeOK
  <2>2. Carried(r)'
    BY <1>1, <1>3, <1>5, <2>1 DEF Carried
  <2>3. \A q \in Requests \ {r} :
          phase'[q] = phase[q] /\ call'[q] = call[q] /\ reply'[q] = reply[q]
    BY <1>0, <1>5, OthersStay
  <2>4. \A q \in Requests \ {r} : Carried(q)'
    BY <1>0, <1>1, <1>2, <1>5, <2>3, CarriedUnmoved DEF NetInv
  <2>5. NetTypeOK'
    BY <1>0, <1>1, <1>5 DEF NetTypeOK
  <2>6. \A k \in Clients : Waiting(k)'
    BY <1>0, <1>1, <1>2, WaitingUnmoved DEF NetInv
  <2> QED
    BY <2>2, <2>4, <2>5, <2>6 DEF NetInv
<1> QED
  BY <1>4, <1>5 DEF Arrive

LEMMA ServeKeeps ==
    ASSUME RegistryInv, NetInv, NEW r \in Requests, Serve(r)
    PROVE  NetInv'
<1>0. IInv /\ TypeOK /\ NetTypeOK /\ [Next]_vars
  <2>1. [Next]_vars
    BY DEF Serve, Next
  <2> QED
    BY <2>1 DEF RegistryInv, IInv, NetInv
<1>1. /\ wire[r] = "serving" /\ Step(r)
      /\ wrote' = [wrote EXCEPT ![r] = @ \/ tables' # tables]
      /\ UNCHANGED <<wire, asked, status, method, exchange, outcome, disturbed>>
  BY DEF Serve
<1>2. /\ wrote' \in [Requests -> BOOLEAN]
      /\ wrote'[r] => wrote[r] \/ tables' # tables
      /\ \A q \in Requests \ {r} : wrote'[q] = wrote[q]
  BY <1>0, <1>1 DEF NetTypeOK
<1>3. call'[r] = call[r] /\ phase[r] # "idle"
  BY <1>0, <1>1, StepMovesRequest, AnswerGiven DEF Advance, Answer
<1>4. Carried(r)'
  <2>1. wrote'[r] => phase[r] = "setTypes" \/ tables' # tables
    BY <1>1, <1>2, <1>3 DEF NetInv, Carried
  <2>2. wrote'[r] => \/ phase'[r] = "setTypes"
                     \/ phase'[r] = "idle" /\ reply'[r] \in {"ok", "error"}
    BY <1>0, <1>1, <2>1, WritesAreTold
  <2>3. call'[r] = asked'[r] /\ asked'[r] \in ClientMethods /\ wire'[r] = "serving"
    BY <1>1, <1>3 DEF NetInv, Carried
  <2> QED
    BY <2>2, <2>3 DEF Carried
<1>5. \A q \in Requests \ {r} :
        phase'[q] = phase[q] /\ call'[q] = call[q] /\ reply'[q] = reply[q]
  BY <1>0, <1>1, OthersStay
<1>6. \A q \in Requests \ {r} : Carried(q)'
  BY <1>0, <1>1, <1>2, <1>5, CarriedUnmoved DEF NetInv
<1>7. NetTypeOK'
  BY <1>0, <1>1, <1>2 DEF NetTypeOK
<1>8. \A k \in Clients : Waiting(k)'
  BY <1>0, <1>1, WaitingUnmoved DEF NetInv, Waiting
<1> QED
  BY <1>4, <1>6, <1>7, <1>8 DEF NetInv

LEMMA RespondKeeps ==
    ASSUME RegistryInv, NetInv, NEW r \in Requests, Respond(r)
    PROVE  NetInv'
<1> DEFINE s == StatusOf(call[r].op, reply[r])
<1>0. IInv /\ TypeOK /\ NetTypeOK /\ SettledCall(r) /\ reply[r] \in Replies
  BY DEF RegistryInv, IInv, NetInv, Settled, TypeOK
<1>1. /\ wire[r] = "serving" /\ phase[r] = "idle"
      /\ wire' = [wire EXCEPT ![r] = "response"]
      /\ status' = [status EXCEPT ![r] = s]
      /\ UNCHANGED <<vars, asked, wrote, method, exchange, outcome, disturbed>>
  BY DEF Respond, Travel
<1>2. /\ call[r] = asked[r] /\ asked[r] \in ClientMethods /\ asked[r] \in Calls
      /\ wrote[r] => reply[r] \in {"ok", "error"}
  BY <1>1, MethodsAreCalls DEF NetInv, Carried
<1>3. /\ s \in Codes
      /\ wrote[r] => s \in WrittenCodes
      /\ call[r].op = "CreateDevice" /\ s \in {201, 409}
           => HasDevice(call[r].device)
      /\ call[r].op = "CreateSensor" /\ s \in {200, 201, 409}
           => HasSensor(call[r].sensor)
  <2>1. /\ s \in Codes
        /\ wrote[r] => s \in WrittenCodes
        /\ call[r].op \in {"CreateDevice", "CreateSensor"} /\ s \in {200, 201, 409}
             => reply[r] \in {"ok", "deviceExists", "sensorExists"}
    BY <1>0, <1>2, StatusFacts
  <2> QED
    BY <1>0, <1>2, <2>1 DEF SettledCall
<1> HIDE DEF s
<1>4. /\ wire'[r] = "response" /\ status'[r] = s
      /\ \A q \in Requests \ {r} : wire'[q] = wire[q] /\ status'[q] = status[q]
  BY <1>0, <1>1 DEF NetTypeOK
<1>5. Carried(r)'
  BY <1>1, <1>2, <1>3, <1>4 DEF Carried, vars, HasDevice, HasSensor
<1>6. \A q \in Requests \ {r} : Carried(q)'
  BY <1>0, <1>1, <1>4, CarriedUnmoved DEF NetInv, vars
<1>7. NetTypeOK'
  BY <1>0, <1>1, <1>3 DEF NetTypeOK
<1>8. \A k \in Clients : Waiting(k)'
  BY <1>0, <1>1, <1>4, WaitingUnmoved DEF NetInv, NetTypeOK, Waiting
<1> QED
  BY <1>5, <1>6, <1>7, <1>8 DEF NetInv

LEMMA LoseKeeps ==
    ASSUME RegistryInv, NetInv, NEW r \in Requests, Lose(r)
    PROVE  NetInv'
<1>0. IInv /\ NetTypeOK /\ [Next]_vars /\ Carried(r)
  BY DEF RegistryInv, NetInv, Lose
<1>1. /\ wire[r] \in {"request", "response"}
      /\ \A k \in Clients : exchange[k] # r
      /\ wire' = [wire EXCEPT ![r] = "free"]
      /\ asked' = [asked EXCEPT ![r] = Null]
      /\ status' = [status EXCEPT ![r] = 0]
      /\ wrote' = [wrote EXCEPT ![r] = FALSE]
      /\ UNCHANGED <<vars, method, exchange, outcome, disturbed>>
  BY DEF Lose, Free, Travel
<1>2. /\ wire'[r] = "free" /\ wrote'[r] = FALSE
      /\ \A q \in Requests \ {r} :
           /\ wire'[q] = wire[q] /\ asked'[q] = asked[q]
           /\ status'[q] = status[q] /\ wrote'[q] = wrote[q]
  BY <1>0, <1>1 DEF NetTypeOK
<1>3. Carried(r)'
  BY <1>0, <1>1, <1>2 DEF Carried, vars
<1>4. \A q \in Requests \ {r} : Carried(q)'
  BY <1>0, <1>1, <1>2, CarriedUnmoved DEF NetInv, vars
<1>5. NetTypeOK'
  BY <1>0, <1>1 DEF NetTypeOK
<1>6. \A k \in Clients : exchange[k] # Null => exchange[k] \in Requests \ {r}
  BY <1>0, <1>1 DEF NetTypeOK
<1>7. \A k \in Clients : exchange[k] # Null =>
        wire'[exchange[k]] # "free" /\ asked'[exchange[k]] = asked[exchange[k]]
  BY <1>2, <1>6 DEF NetInv, Waiting
<1>8. \A k \in Clients : Waiting(k)'
  BY <1>0, <1>1, <1>7, WaitingUnmoved DEF NetInv
<1> QED
  BY <1>3, <1>4, <1>5, <1>8 DEF NetInv

LEMMA InvokeKeeps ==
    ASSUME RegistryInv, NetInv, NEW k \in Clients, Invoke(k)
    PROVE  NetInv'
<1>0. IInv /\ NetTypeOK /\ [Next]_vars
  BY DEF RegistryInv, NetInv, Invoke
<1>1. PICK r \in Requests, c \in ClientMethods :
        /\ wire[r] = "free" /\ wire' = [wire EXCEPT ![r] = "request"]
        /\ asked' = [asked EXCEPT ![r] = c]
        /\ method' = [method EXCEPT ![k] = c]
        /\ exchange' = [exchange EXCEPT ![k] = r]
  BY DEF Invoke, Travel
<1>2. /\ outcome' = [outcome EXCEPT ![k] = "none"]
      /\ disturbed' = [disturbed EXCEPT ![k] = \E q \in Requests : Abandoned(q)]
      /\ UNCHANGED <<vars, status, wrote>>
  BY DEF Invoke
<1>3. /\ wire'[r] = "request" /\ asked'[r] = c
      /\ \A q \in Requests \ {r} : wire'[q] = wire[q] /\ asked'[q] = asked[q]
      /\ method'[k] = c /\ exchange'[k] = r /\ outcome'[k] = "none"
      /\ \A j \in Clients \ {k} : /\ method'[j] = method[j]
                                  /\ exchange'[j] = exchange[j]
                                  /\ outcome'[j] = outcome[j]
  BY <1>0, <1>1, <1>2 DEF NetTypeOK
<1>4. Carried(r)'
  BY <1>1, <1>2, <1>3 DEF NetInv, Carried, vars
<1>5. \A q \in Requests \ {r} : Carried(q)'
  BY <1>0, <1>2, <1>3, CarriedUnmoved DEF NetInv, vars
<1>6. NetTypeOK'
  BY <1>0, <1>1, <1>2 DEF NetTypeOK
<1>7. \A j \in Clients : exchange[j] # Null =>
        exchange[j] \in Requests \ {r} /\ wire'[exchange[j]] # "free"
  BY <1>0, <1>1, <1>3 DEF NetInv, NetTypeOK, Waiting
<1>8. Waiting(k)'
  <2>1. SettledCreate(k)'
    BY <1>3 DEF SettledCreate
  <2>2. \A j \in Clients : exchange'[j] = r /\ r # Null => j = k
    BY <1>3, <1>7
  <2> QED
    BY <1>3, <2>1, <2>2 DEF Waiting
<1>9. ASSUME NEW j \in Clients \ {k}
      PROVE  Waiting(j)'
  <2>1. method'[j] # Null => SettledCreate(j)'
    BY <1>0, <1>3, SettledCreateStays DEF NetInv, Waiting
  <2>2. exchange[j] # Null =>
          asked'[exchange[j]] = asked[exchange[j]] /\ wire'[exchange[j]] # "free"
    BY <1>3, <1>7
  <2>3. \A i \in Clients : exchange'[j] # Null /\ exchange'[i] = exchange'[j] => i = j
    BY <1>3, <1>7 DEF NetInv, Waiting
  <2> QED
    BY <1>3, <2>1, <2>2, <2>3 DEF NetInv, Waiting
<1> QED
  BY <1>4, <1>5, <1>6, <1>8, <1>9 DEF NetInv

\* The answer arrives: what it says of a create is what the exchange carried.
LEMMA DeliverKeeps ==
    ASSUME RegistryInv, NetInv, NEW k \in Clients, Deliver(k)
    PROVE  NetInv'
<1>0. IInv /\ NetTypeOK /\ [Next]_vars
  BY DEF RegistryInv, NetInv, Deliver
<1>1. PICK r \in Requests : r = exchange[k] /\ r # Null
  BY <1>0 DEF Deliver, NetTypeOK
<1> DEFINE x == ErrorOf(method[k].op, status[r])
<1>2. /\ wire[r] = "response"
      /\ exchange' = [exchange EXCEPT ![k] = Null]
      /\ outcome' = [outcome EXCEPT ![k] = x]
      /\ wire' = [wire EXCEPT ![r] = "free"]
      /\ asked' = [asked EXCEPT ![r] = Null]
      /\ status' = [status EXCEPT ![r] = 0]
      /\ wrote' = [wrote EXCEPT ![r] = FALSE]
      /\ UNCHANGED <<vars, method, disturbed>>
  BY <1>0, <1>1 DEF Deliver, Return, Free, Travel, NetTypeOK
<1>3. /\ Carried(r) /\ method[k] = asked[r] /\ x \in Typed \cup {"nil", "error"}
      /\ \A j \in Clients \ {k} : exchange[j] # Null =>
           exchange[j] \in Requests \ {r}
  BY <1>0, <1>2, <1>1, ErrorFacts DEF NetInv, NetTypeOK, Waiting
<1>4. SettledCreate(k)'
  <2>1. /\ method[k].op = "CreateDevice" /\ x \in {"nil", "ErrDeviceExist"}
             => HasDevice(method[k].device)
        /\ method[k].op = "CreateSensor" /\ x \in {"nil", "ErrConflict"}
             => HasSensor(method[k].sensor)
    BY <1>2, <1>3, ErrorFacts DEF Carried
  <2>2. outcome'[k] = x
    BY <1>0, <1>2 DEF NetTypeOK
  <2> HIDE DEF x
  <2> QED
    BY <1>2, <2>1, <2>2 DEF SettledCreate, HasDevice, HasSensor, vars
<1> HIDE DEF x
<1>5. /\ wire'[r] = "free" /\ wrote'[r] = FALSE /\ exchange'[k] = Null
      /\ \A q \in Requests \ {r} :
           /\ wire'[q] = wire[q] /\ asked'[q] = asked[q]
           /\ status'[q] = status[q] /\ wrote'[q] = wrote[q]
      /\ \A j \in Clients \ {k} : exchange'[j] = exchange[j] /\ outcome'[j] = outcome[j]
  BY <1>0, <1>2 DEF NetTypeOK
<1>6. Carried(r)'
  BY <1>2, <1>3, <1>5 DEF Carried, vars
<1>7. \A q \in Requests \ {r} : Carried(q)'
  BY <1>0, <1>2, <1>5, CarriedUnmoved DEF NetInv, vars
<1>8. NetTypeOK'
  BY <1>0, <1>2, <1>3 DEF NetTypeOK
<1>9. Waiting(k)'
  BY <1>4, <1>5 DEF Waiting
<1>20. ASSUME NEW j \in Clients \ {k}
      PROVE  Waiting(j)'
  <2>1. method'[j] # Null => SettledCreate(j)'
    BY <1>0, <1>2, <1>5, SettledCreateStays DEF NetInv, Waiting
  <2>2. exchange[j] # Null =>
          asked'[exchange[j]] = asked[exchange[j]] /\ wire'[exchange[j]] # "free"
    BY <1>3, <1>5 DEF NetInv, Waiting
  <2>3. \A i \in Clients : exchange'[j] # Null /\ exchange'[i] = exchange'[j] => i = j
    BY <1>5 DEF NetInv, Waiting
  <2> QED
    BY <1>2, <1>5, <2>1, <2>2, <2>3 DEF NetInv, Waiting
<1> QED
  BY <1>6, <1>7, <1>8, <1>9, <1>20 DEF NetInv

LEMMA GiveUpKeeps ==
    ASSUME RegistryInv, NetInv, NEW k \in Clients, GiveUp(k)
    PROVE  NetInv'
<1>0. IInv /\ NetTypeOK /\ [Next]_vars
  BY DEF RegistryInv, NetInv, GiveUp
<1>1. /\ exchange' = [exchange EXCEPT ![k] = Null]
      /\ outcome' = [outcome EXCEPT ![k] = "error"]
      /\ UNCHANGED <<vars, wire, asked, status, wrote, method, disturbed>>
  BY DEF GiveUp, Return
<1>2. /\ exchange'[k] = Null /\ outcome'[k] = "error"
      /\ \A j \in Clients \ {k} : exchange'[j] = exchange[j] /\ outcome'[j] = outcome[j]
  BY <1>0, <1>1 DEF NetTypeOK
<1>3. \A q \in Requests : Carried(q)'
  BY <1>0, <1>1, CarriedUnmoved DEF NetInv, vars
<1>4. NetTypeOK'
  BY <1>0, <1>1 DEF NetTypeOK
<1>5. Waiting(k)'
  BY <1>2 DEF Waiting, SettledCreate
<1>6. ASSUME NEW j \in Clients \ {k}
      PROVE  Waiting(j)'
  <2>1. method'[j] # Null => SettledCreate(j)'
    BY <1>0, <1>1, <1>2, SettledCreateStays DEF NetInv, Waiting
  <2>2. \A i \in Clients : exchange'[j] # Null /\ exchange'[i] = exchange'[j] => i = j
    BY <1>2 DEF NetInv, Waiting
  <2> QED
    BY <1>1, <1>2, <2>1, <2>2 DEF NetInv, Waiting
<1> QED
  BY <1>3, <1>4, <1>5, <1>6 DEF NetInv
-----------------------------------------------------------------------------
(***************************************************************************)
(* The theorems.                                                           *)
(***************************************************************************)
LEMMA NetInvPreserved ==
    ASSUME RegistryInv, NetInv, [ClientNext]_clientVars
    PROVE  NetInv'
<1>1. CASE UNCHANGED clientVars
  <2>1. UNCHANGED <<vars, wire, asked, status, wrote, method, exchange, outcome, disturbed>>
    BY <1>1 DEF clientVars, net
  <2>2. IInv /\ NetTypeOK /\ [Next]_vars
    BY <2>1 DEF RegistryInv, NetInv
  <2>3. \A q \in Requests : Carried(q)'
    BY <2>1, <2>2, CarriedUnmoved DEF NetInv, vars
  <2>4. \A k \in Clients : Waiting(k)'
    BY <2>1, <2>2, WaitingUnmoved DEF NetInv, Waiting
  <2> QED
    BY <2>1, <2>2, <2>3, <2>4 DEF NetInv, NetTypeOK
<1>2. ASSUME NEW r \in Requests, Exchange(r)
      PROVE  NetInv'
  BY <1>2, ArriveKeeps, ServeKeeps, RespondKeeps, LoseKeeps DEF Exchange
<1>3. ASSUME NEW k \in Clients, UseClient(k)
      PROVE  NetInv'
  BY <1>3, InvokeKeeps, DeliverKeeps, GiveUpKeeps DEF UseClient
<1> QED
  BY <1>1, <1>2, <1>3 DEF ClientNext

LEMMA RegistryInvariance == ClientSpec => []RegistryInv
<1>1. Init => Settled
  BY DEF Init, Settled, SettledCall
<1>2. Spec => []Settled
  BY <1>1, Invariance, AnsweredAlways, SettledPreserved, PTL DEF Spec
<1>3. IInv /\ Answered /\ Settled => RegistryInv
  BY DEF RegistryInv
<1> QED
  BY <1>2, <1>3, ClientsUseRegistry, Invariance, AnsweredAlways, PTL

LEMMA NetInvariance == ClientSpec => []NetInv
<1>1. ClientInit => NetInv
  BY DEF ClientInit, Init, NetInv, NetTypeOK, Carried, Waiting, Codes
<1> QED
  BY <1>1, RegistryInvariance, NetInvPreserved, PTL DEF ClientSpec

\* Exchanges and clients are well formed, a request of the registry only moves
\* while it is served, and no two clients wait for one exchange.
THEOREM ClientTypeCorrect == ClientSpec => []ClientTypeOK
<1>1. RegistryInv /\ NetInv => ClientTypeOK
  BY DEF RegistryInv, IInv, NetInv, NetTypeOK, ClientTypeOK, Carried, Waiting, Codes
<1> QED
  BY <1>1, RegistryInvariance, NetInvariance, PTL

\* However often a client repeats a create, and whatever the network loses: told
\* that it succeeded or that the row exists, it may rely on the row.
THEOREM CreateSettles == ClientSpec => []SettledCreateIsThere
<1>1. NetInv => SettledCreateIsThere
  BY DEF NetInv, Waiting, SettledCreate, SettledCreateIsThere
<1> QED
  BY <1>1, NetInvariance, PTL

\* Told an error with a name, a client knows that its exchange changed nothing.
THEOREM NamedErrorsAreClean == ClientSpec => NamedErrorsChangedNothing
<1>1. ASSUME NetInv, [ClientNext]_clientVars
      PROVE  [\A k \in Clients :
                exchange[k] # Null /\ outcome'[k] \in Typed =>
                  ~wrote[exchange[k]] /\ wire'[exchange[k]] = "free"]_clientVars
  <2> SUFFICES ASSUME NEW k \in Clients, exchange[k] # Null, outcome'[k] \in Typed,
                      ClientNext
               PROVE  ~wrote[exchange[k]] /\ wire'[exchange[k]] = "free"
    BY <1>1
  <2>1. outcome[k] = "none" /\ outcome[k] \notin Typed
    BY <1>1 DEF NetInv, Waiting, Typed
  <2>2. ASSUME NEW r \in Requests, Exchange(r)
        PROVE  FALSE
    BY <2>1, <2>2 DEF Exchange, Arrive, Serve, Respond, Lose
  <2>3. ASSUME NEW j \in Clients, Invoke(j) \/ GiveUp(j)
        PROVE  FALSE
    BY <1>1, <2>1, <2>3 DEF Invoke, GiveUp, Return, NetInv, NetTypeOK, Typed
  <2>4. ASSUME NEW j \in Clients, Deliver(j)
        PROVE  ~wrote[exchange[k]] /\ wire'[exchange[k]] = "free"
    <3>1. j = k
      BY <1>1, <2>1, <2>4 DEF Deliver, Return, NetInv, NetTypeOK
    <3>2. /\ wire[exchange[k]] = "response" /\ exchange[k] \in Requests
          /\ outcome'[k] = ErrorOf(method[k].op, status[exchange[k]])
          /\ wire'[exchange[k]] = "free"
      BY <1>1, <2>4, <3>1 DEF Deliver, Return, Free, Travel, NetInv, NetTypeOK
    <3>3. status[exchange[k]] \in {401, 404, 409}
      BY <3>2, ErrorFacts
    <3> QED
      BY <1>1, <3>2, <3>3 DEF NetInv, Carried, WrittenCodes
  <2> QED
    BY <2>2, <2>3, <2>4 DEF ClientNext, UseClient
<1> QED
  BY <1>1, NetInvariance, PTL DEF ClientSpec, NamedErrorsChangedNothing
-----------------------------------------------------------------------------
(***************************************************************************)
(* A client that has the service to itself.                                *)
(*                                                                         *)
(* When no exchange was given up under way, its own is the only one that   *)
(* may still write, so that what a success says of a device stays as it    *)
(* was written: while the success travels, and after it was returned.      *)
(***************************************************************************)
Achieved(c) ==
    /\ c.op = "AttachSensor" => SensorOf(c.device) = c.sensor
    /\ c.op = "DetachSensor" => SensorOf(c.device) = Null

Alone(k) ==
    \A r \in Requests : wire[r] \in {"request", "serving"} => r = exchange[k]

Kept(k) ==
    /\ exchange[k] # Null \/ outcome[k] = "nil" => Alone(k)
    /\ \A r \in Requests \cap {exchange[k]} :
         /\ wire[r] = "serving" /\ phase[r] = "idle" /\ reply[r] = "ok"
              => Achieved(asked[r])
         /\ wire[r] = "response" /\ status[r] \in {200, 204} => Achieved(asked[r])
    /\ outcome[k] = "nil" => Achieved(method[k])

KeptInv == \A k \in Clients : Clients = {k} /\ ~disturbed[k] => Kept(k)

\* The two calls succeed for the client with a status that only "ok" is given.
LEMMA SuccessFacts ==
    ASSUME NEW op, NEW x, NEW s
    PROVE  /\ StatusOf(op, x) \in {200, 204} => x = "ok"
           /\ op \in {"AttachSensor", "DetachSensor"} /\ ErrorOf(op, s) = "nil"
                => s \in {200, 204}
<1>1. StatusOf(op, x) \in {200, 204} => x = "ok"
  BY DEF StatusOf
<1>2. ASSUME op \in {"AttachSensor", "DetachSensor"}, ErrorOf(op, s) = "nil"
      PROVE  s \in {200, 204}
  <2>1. s \in Named(op) => s \in {401, 404, 409}
    BY DEF Named
  <2>2. s \in {401, 404, 409} => NameOf(op, s) # "nil"
    BY DEF NameOf
  <2>3. s \in Success(op)
    BY <1>2, <2>1, <2>2 DEF ErrorOf
  <2> QED
    BY <1>2, <2>3 DEF Success
<1> QED
  BY <1>1, <1>2

\* What was done stays while no device row is written.
LEMMA DoneStays ==
    ASSUME devices' = devices, NEW c
    PROVE  Achieved(c)' <=> Achieved(c)
  BY SensorsUnchanged DEF Achieved

LEMMA ArriveKept ==
    ASSUME RegistryInv, NetInv, NEW k, Clients = {k}, Kept(k),
           NEW r \in Requests, Arrive(r)
    PROVE  Kept(k)'
<1>0. TypeOK /\ NetTypeOK
  BY DEF RegistryInv, IInv, NetInv
<1>1. /\ wire[r] = "request" /\ UNCHANGED <<asked, method, exchange, outcome>>
      /\ \A q \in Requests \ {r} : wire'[q] = wire[q]
      /\ devices' = devices
  BY <1>0 DEF Arrive, Travel, NetTypeOK, BeginCall, tables, vars
<1>2. \A q \in Requests \ {r} :
        /\ phase'[q] = phase[q] /\ reply'[q] = reply[q] /\ status'[q] = status[q]
  BY <1>0, OthersStay DEF Arrive, vars, NetTypeOK
<1>3. /\ wire'[r] = "serving" => phase'[r] # "idle"
      /\ wire'[r] = "response" => status'[r] \notin {200, 204}
  BY <1>0, RefusalFacts DEF Arrive, Travel, BeginCall, TypeOK, NetTypeOK
<1>4. \A q \in Requests : wire'[q] \in {"request", "serving"} =>
        wire[q] \in {"request", "serving"}
  BY <1>1
<1> QED
  BY <1>1, <1>2, <1>3, <1>4, DoneStays DEF Kept, Alone

LEMMA ServeKept ==
    ASSUME RegistryInv, NetInv, NEW k, Clients = {k}, Kept(k),
           NEW r \in Requests, Serve(r)
    PROVE  Kept(k)'
<1>0. /\ IInv /\ TypeOK /\ NetTypeOK /\ Step(r) /\ wire[r] = "serving"
      /\ UNCHANGED <<wire, asked, status, method, exchange, outcome>>
      /\ k \in Clients /\ Answered
  BY DEF RegistryInv, IInv, NetInv, Serve
<1>1. /\ \A q \in Requests \ {r} : phase'[q] = phase[q] /\ reply'[q] = reply[q]
      /\ phase[r] # "idle" /\ reply[r] = "none"
  BY <1>0, OthersStay, AnswerGiven DEF Answered
<1>2. outcome[k] # "nil"
  BY <1>0, NullIsNoRequest DEF Kept, Alone, NetInv, Waiting
<1>3. CASE exchange[k] = Null
  BY <1>0, <1>2, <1>3, NullIsNoRequest DEF Kept, Alone
<1>4. CASE exchange[k] # Null
  <2>1. exchange[k] = r /\ call[r] = asked[r]
    BY <1>0, <1>4 DEF Kept, Alone, NetInv, Carried
  <2>2. call'[r] = asked[r] /\ asked'[r] = asked[r]
    BY <1>0, <2>1, StepMovesRequest DEF Advance, Answer
  <2>3. phase'[r] = "idle" /\ reply'[r] = "ok" => Achieved(asked[r])'
    BY <1>0, <1>1, <2>1, <2>2, AssignmentOk DEF Achieved, SensorOf, HasDevice
  <2> QED
    BY <1>0, <1>2, <2>1, <2>3 DEF Kept, Alone
<1> QED
  BY <1>3, <1>4

LEMMA RespondKept ==
    ASSUME RegistryInv, NetInv, NEW k, Clients = {k}, Kept(k),
           NEW r \in Requests, Respond(r)
    PROVE  Kept(k)'
<1>0. NetTypeOK /\ Carried(r)
  BY DEF NetInv
<1>1. /\ wire[r] = "serving" /\ phase[r] = "idle" /\ wire'[r] = "response"
      /\ status'[r] = StatusOf(call[r].op, reply[r])
      /\ \A q \in Requests \ {r} : wire'[q] = wire[q] /\ status'[q] = status[q]
      /\ UNCHANGED <<vars, asked, method, exchange, outcome>>
  BY <1>0 DEF Respond, Travel, NetTypeOK
<1>2. status'[r] \in {200, 204} => reply[r] = "ok"
  BY <1>1, SuccessFacts
<1>3. devices' = devices /\ phase' = phase /\ reply' = reply
  BY <1>1 DEF vars
<1> QED
  BY <1>1, <1>2, <1>3, DoneStays DEF Kept, Alone

LEMMA LoseKept ==
    ASSUME RegistryInv, NetInv, NEW k, Clients = {k}, Kept(k),
           NEW r \in Requests, Lose(r)
    PROVE  Kept(k)'
<1>0. NetTypeOK /\ k \in Clients
  BY DEF NetInv
<1>1. /\ exchange[k] # r /\ wire'[r] = "free"
      /\ \A q \in Requests \ {r} :
           /\ wire'[q] = wire[q] /\ asked'[q] = asked[q] /\ status'[q] = status[q]
      /\ UNCHANGED <<vars, method, exchange, outcome>>
  BY <1>0 DEF Lose, Free, Travel, NetTypeOK
<1>2. devices' = devices /\ phase' = phase /\ reply' = reply
  BY <1>1 DEF vars
<1> QED
  BY <1>1, <1>2, DoneStays DEF Kept, Alone

\* A new exchange is alone when none was given up that may still be served.
LEMMA InvokeKept ==
    ASSUME RegistryInv, NetInv, NEW k, Clients = {k}, Invoke(k), ~disturbed'[k]
    PROVE  Kept(k)'
<1>0. NetTypeOK /\ k \in Clients
  BY DEF NetInv
<1>1. PICK r \in Requests : /\ wire' = [wire EXCEPT ![r] = "request"]
                            /\ exchange' = [exchange EXCEPT ![k] = r]
  BY DEF Invoke, Travel
<1>2. /\ exchange[k] = Null /\ exchange'[k] = r /\ outcome'[k] = "none"
      /\ wire'[r] = "request"
      /\ \A q \in Requests \ {r} : wire'[q] = wire[q]
      /\ \A q \in Requests : ~Abandoned(q)
  BY <1>0, <1>1 DEF Invoke, NetTypeOK
<1>3. \A q \in Requests : wire[q] \notin {"request", "serving"}
  BY <1>2, NullIsNoRequest DEF Abandoned
<1> QED
  BY <1>2, <1>3 DEF Kept, Alone

\* Returned with nil, the exchange had carried a success, and nothing is left
\* that may write.
LEMMA DeliverKept ==
    ASSUME RegistryInv, NetInv, NEW k, Clients = {k}, Kept(k), Deliver(k)
    PROVE  Kept(k)'
<1>0. NetTypeOK /\ k \in Clients /\ Waiting(k)
  BY DEF NetInv
<1>1. PICK r \in Requests : r = exchange[k] /\ r # Null
  BY <1>0 DEF Deliver, NetTypeOK
<1>2. /\ wire[r] = "response" /\ exchange'[k] = Null
      /\ outcome'[k] = ErrorOf(method[k].op, status[r])
      /\ method[k] = asked[r] /\ wire'[r] = "free"
      /\ \A q \in Requests \ {r} : wire'[q] = wire[q]
      /\ UNCHANGED <<vars, method>>
  BY <1>0, <1>1 DEF Deliver, Return, Free, Travel, NetTypeOK, Waiting
<1>3. \A q \in Requests : wire'[q] \notin {"request", "serving"}
  BY <1>1, <1>2 DEF Kept, Alone
<1>4. ASSUME outcome'[k] = "nil"
      PROVE  Achieved(method[k])
  <2>1. CASE method[k].op \in {"AttachSensor", "DetachSensor"}
    <3>1. status[r] \in {200, 204}
      BY <1>2, <1>4, <2>1, SuccessFacts
    <3> QED
      BY <1>1, <1>2, <3>1 DEF Kept
  <2>2. CASE method[k].op \notin {"AttachSensor", "DetachSensor"}
    BY <2>2 DEF Achieved
  <2> QED
    BY <2>1, <2>2
<1>5. devices' = devices
  BY <1>2 DEF vars
<1> QED
  BY <1>2, <1>3, <1>4, <1>5, DoneStays, NullIsNoRequest DEF Kept, Alone

LEMMA KeptPreserved ==
    ASSUME RegistryInv, NetInv, KeptInv, [ClientNext]_clientVars
    PROVE  KeptInv'
<1> SUFFICES ASSUME NEW k \in Clients, Clients = {k}, ~disturbed'[k]
             PROVE  Kept(k)'
  BY DEF KeptInv
<1>1. CASE UNCHANGED clientVars
  <2>1. Kept(k) /\ devices' = devices
    BY <1>1 DEF KeptInv, clientVars, net, vars
  <2> QED
    BY <1>1, <2>1, DoneStays DEF Kept, Alone, clientVars, net, vars
<1>2. ASSUME NEW r \in Requests, Exchange(r)
      PROVE  Kept(k)'
  <2>1. Kept(k)
    BY <1>2 DEF KeptInv, Exchange, Arrive, Serve, Respond, Lose
  <2> QED
    BY <1>2, <2>1, ArriveKept, ServeKept, RespondKept, LoseKept DEF Exchange
<1>3. CASE Invoke(k)
  BY <1>3, InvokeKept
<1>4. CASE Deliver(k)
  <2>1. Kept(k)
    BY <1>4 DEF KeptInv, Deliver, Return
  <2> QED
    BY <1>4, <2>1, DeliverKept
<1>5. CASE GiveUp(k)
  <2>1. exchange'[k] = Null /\ outcome'[k] = "error"
    BY <1>5 DEF GiveUp, Return, NetInv, NetTypeOK
  <2> QED
    BY <2>1, NullIsNoRequest DEF Kept
<1> QED
  BY <1>1, <1>2, <1>3, <1>4, <1>5 DEF ClientNext, UseClient

\* Alone with a device, a client that was told nil finds it as it asked for as
\* long as it does nothing else, whatever the network lost before, unless it had
\* given up an exchange that was still under way.
THEOREM NilHolds == ClientSpec => []NilHoldsWhenUndisturbed
<1>1. ClientInit => KeptInv
  BY NullIsNoRequest DEF ClientInit, KeptInv, Kept
<1>2. KeptInv => NilHoldsWhenUndisturbed
  BY DEF KeptInv, Kept, Achieved, NilHoldsWhenUndisturbed
<1> QED
  BY <1>1, <1>2, RegistryInvariance, NetInvariance, KeptPreserved, PTL
  DEF ClientSpec

-----------------------------------------------------------------------------
(***************************************************************************)
(* The goroutine of a client and Close, for any number of calls of Close.  *)
(* Before run has received there is nobody to wait, and the flag that ends *)
(* it is cleared by the one call it received.                              *)
(***************************************************************************)
Heard(c) == closing[c] \in {"wait", "returned"}

\* Which values go with each place of run.
Places ==
    /\ wg = IF pc \in {"go", "ended"} THEN 0 ELSE 1
    /\ pc \in {"go", "swap", "receive"} => \A c \in Callers : ~Heard(c)
    /\ pc = "load" /\ keepRunning => \A c \in Callers : ~Heard(c)
    /\ pc \in {"receive", "call"} => keepRunning

RunInv == RunTypeOK /\ Places /\ ClosedMeansEnded /\ OneCloseIsHeard

LEMMA RunInitInv == RunInit => RunInv
  BY DEF RunInit, RunInv, RunTypeOK, Places, ClosedMeansEnded, OneCloseIsHeard,
         Heard

LEMMA RunStepInv == RunInv /\ [RunNext]_runVars => RunInv'
<1> SUFFICES ASSUME RunInv, [RunNext]_runVars PROVE RunInv'
  OBVIOUS
<1> USE DEF RunInv, RunTypeOK, Places, ClosedMeansEnded, OneCloseIsHeard, Heard
<1>1. CASE Add
  BY <1>1 DEF Add
<1>2. CASE Swap
  BY <1>2 DEF Swap
<1>3. CASE Load
  BY <1>3 DEF Load
<1>4. ASSUME NEW c \in Callers, Receive(c) PROVE RunInv'
  BY <1>4 DEF Receive
<1>5. CASE CallFunction
  BY <1>5 DEF CallFunction
<1>6. CASE Done
  BY <1>6 DEF Done
<1>7. ASSUME NEW c \in Callers, Close(c) PROVE RunInv'
  BY <1>7 DEF Close
<1>8. ASSUME NEW c \in Callers, Wait(c) PROVE RunInv'
  BY <1>8 DEF Wait
<1>9. CASE UNCHANGED runVars
  BY <1>9 DEF runVars
<1>10. QED
  BY <1>1, <1>2, <1>3, <1>4, <1>5, <1>6, <1>7, <1>8, <1>9 DEF RunNext, Run

LEMMA RunInvHolds == RunSpec => []RunInv
  BY RunInitInv, RunStepInv, PTL DEF RunSpec

\* The flag, the counter and every Close are in a state ClientRun knows, and wg is
\* never negative, for which Add and Done of the WaitGroup would panic.
THEOREM RunTypeCorrect == RunSpec => []RunTypeOK
<1>1. RunInv => RunTypeOK
  BY DEF RunInv
<1>2. QED
  BY <1>1, RunInvHolds, PTL

\* No Close returns before run has ended, also one that came before run did.
THEOREM CloseWaits == RunSpec => []ClosedMeansEnded
<1>1. RunInv => ClosedMeansEnded
  BY DEF RunInv
<1>2. QED
  BY <1>1, RunInvHolds, PTL

\* At most one Close hands its function over: every other waits for ever to send.
THEOREM OneIsHeard == RunSpec => []OneCloseIsHeard
<1>1. RunInv => OneCloseIsHeard
  BY DEF RunInv
<1>2. QED
  BY <1>1, RunInvHolds, PTL
=============================================================================
