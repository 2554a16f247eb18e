---------------------------- MODULE ClientCalls ----------------------------
(***************************************************************************)
(* The client library in front of the registry, over a network that loses  *)
(* requests and responses and that is slower than the client's patience.   *)
(*                                                                         *)
(* A method of the client is one exchange, in the goroutine that serves    *)
(* it: the request travels, the handler makes a call of DeviceRegistry,    *)
(* its status travels back and becomes an error of the client.  A client   *)
(* that has given up leaves its exchange behind, wherever it is.  Module   *)
(* ClientCallsProofs proves what clients may rely on.                      *)
(*                                                                         *)
(* External: the network, and that the caller's token names the tenants    *)
(* AllowedTenants.                                                         *)
(***************************************************************************)
EXTENDS DeviceRegistry, Naturals

CONSTANTS Clients,
          ClientMethods,  \* the calls that the methods ask for
          AllowedTenants  \* tenants of the token

ASSUME MethodsAreCalls == ClientMethods \subseteq Calls
ASSUME NullIsNoRequest == Null \notin Requests

VARIABLES wire,      \* where the exchange of a request is
          asked,     \* the call it carries to the service
          status,    \* the status it carries back
          wrote,     \* history: has it changed a table?
          method,    \* what a client asked for last
          exchange,  \* the exchange it waits for, or Null
          outcome,   \* what its last method returned, or "none"
          disturbed  \* history: was an exchange given up before under way?

net == <<wire, asked, status, wrote, method, exchange, outcome, disturbed>>
clientVars == <<vars, net>>

ClientInit ==
    /\ Init
    /\ wire = [r \in Requests |-> "free"]
    /\ asked = [r \in Requests |-> Null]
    /\ status = [r \in Requests |-> 0]
    /\ wrote = [r \in Requests |-> FALSE]
    /\ method = [k \in Clients |-> Null]
    /\ exchange = [k \in Clients |-> Null]
    /\ outcome = [k \in Clients |-> "none"]
    /\ disturbed = [k \in Clients |-> FALSE]

\* An exchange that may still change something and whose client has gone.
Abandoned(r) ==
    wire[r] \in {"request", "serving"} /\ \A k \in Clients : exchange[k] # r
-----------------------------------------------------------------------------
(***************************************************************************)
(* The handlers: what comes before the call of a service, and the status   *)
(* after it.                                                               *)
(***************************************************************************)
\* createDeviceHandler asks for the tenant in the body.  updateSensorHandler
\* takes the profile from a field that writeSensor does not send, and a profile
\* without a name is not found, without a query.
Refusals(c) ==
    CASE c.op = "CreateDevice" /\ c.tenant \notin AllowedTenants -> {401}
      [] c.op = "UpdateSensor" -> {400}
      [] OTHER -> {}

\* MUTANT: any conflict of a create is a conflict.
StatusOfConflict(op, answer) ==
    CASE answer = "ok" -> CASE op \in {"CreateDevice", "CreateSensor"} -> 201
                            [] op = "DetachSensor" -> 204
                            [] OTHER -> 200
      [] answer \in {"deviceExists", "sensorExists", "alreadyAssigned",
                     "profileRequired"} -> 409
      [] answer \in {"deviceNotFound", "sensorNotFound"} -> 404
      [] OTHER -> 500

\* MUTANT: whatever goes wrong in the database is a conflict.
StatusOfFailure(op, answer) ==
    IF answer = "error" THEN 409 ELSE StatusOfConflict(op, answer)

\* MUTANT: an attach that fails in the database has been made.
StatusOfAttach(op, answer) ==
    IF answer = "error" THEN 200 ELSE StatusOfConflict(op, answer)

StatusOf(op, answer) ==
    CASE answer = "ok" -> CASE op \in {"CreateDevice", "CreateSensor"} -> 201
                            [] op = "DetachSensor" -> 204
                            [] OTHER -> 200
      [] answer = "deviceExists" -> 409
      [] answer = "sensorExists" -> 409
      [] op = "AttachSensor" /\ answer \in {"deviceNotFound", "sensorNotFound"}
           -> 404
      [] op = "AttachSensor" /\ answer \in {"alreadyAssigned", "profileRequired"}
           -> 409
      [] op = "DetachSensor" /\ answer = "deviceNotFound" -> 404
      [] op = "UpdateSensor" /\ answer = "sensorNotFound" -> 404
      [] OTHER -> 500

\* The errors of the client's methods.
Success(op) ==
    CASE op = "CreateDevice" -> {201}
      [] op \in {"CreateSensor", "UpdateSensor"} -> {200, 201}
      [] op = "AttachSensor" -> {200}
      [] op = "DetachSensor" -> {204}

Named(op) == {401} \cup (IF op = "CreateDevice" THEN {} ELSE {404})
                   \cup (IF op = "DetachSensor" THEN {} ELSE {409})

NameOf(op, s) ==
    CASE s = 401 -> "ErrUnauthorized"
      [] s = 404 -> "ErrNotFound"
      [] s = 409 -> IF op = "CreateDevice" THEN "ErrDeviceExist" ELSE "ErrConflict"

ErrorOf(op, s) ==
    IF s \in Success(op) THEN "nil"
    ELSE IF s \in Named(op) THEN NameOf(op, s) ELSE "error"

Typed == {"ErrUnauthorized", "ErrNotFound", "ErrConflict", "ErrDeviceExist"}
-----------------------------------------------------------------------------
Travel(r, place) == wire' = [wire EXCEPT ![r] = place]

\* A client calls a method.
Invoke(k) ==
    /\ exchange[k] = Null
    /\ \E r \in Requests, c \in ClientMethods :
        /\ wire[r] = "free" /\ Travel(r, "request")
        /\ asked' = [asked EXCEPT ![r] = c]
        /\ method' = [method EXCEPT ![k] = c]
        /\ exchange' = [exchange EXCEPT ![k] = r]
    /\ outcome' = [outcome EXCEPT ![k] = "none"]
    /\ disturbed' = [disturbed EXCEPT ![k] = \E r \in Requests : Abandoned(r)]
    /\ UNCHANGED <<vars, status, wrote>>

\* The request arrives, or is refused before a service is called.
Arrive(r) ==
    /\ wire[r] = "request"
    /\ LET c == asked[r] IN
       \/ /\ \E x \in Refusals(c) : status' = [status EXCEPT ![r] = x]
          /\ Travel(r, "response")
          /\ UNCHANGED vars
       \/ /\ Refusals(c) = {}
          /\ BeginCall(r) /\ call'[r] = c
          /\ Travel(r, "serving")
          /\ UNCHANGED status
    /\ UNCHANGED <<asked, wrote, method, exchange, outcome, disturbed>>

\* A storage call of the service.
Serve(r) ==
    /\ wire[r] = "serving"
    /\ Step(r)
    /\ wrote' = [wrote EXCEPT ![r] = @ \/ tables' # tables]
    /\ UNCHANGED <<wire, asked, status, method, exchange, outcome, disturbed>>

Respond(r) ==
    /\ wire[r] = "serving" /\ phase[r] = "idle"
    /\ Travel(r, "response")
    /\ status' = [status EXCEPT ![r] = StatusOf(call[r].op, reply[r])]
    /\ UNCHANGED <<vars, asked, wrote, method, exchange, outcome, disturbed>>

Free(r) ==
    /\ Travel(r, "free")
    /\ asked' = [asked EXCEPT ![r] = Null]
    /\ status' = [status EXCEPT ![r] = 0]
    /\ wrote' = [wrote EXCEPT ![r] = FALSE]

Return(k, x) ==
    /\ exchange' = [exchange EXCEPT ![k] = Null]
    /\ outcome' = [outcome EXCEPT ![k] = x]
    /\ UNCHANGED <<method, disturbed>>

Deliver(k) ==
    /\ exchange[k] # Null /\ wire[exchange[k]] = "response"
    /\ Return(k, ErrorOf(method[k].op, status[exchange[k]]))
    /\ Free(exchange[k])
    /\ UNCHANGED vars

\* The timeout of the HTTP client, or a lost message that it will run into.
GiveUp(k) ==
    /\ exchange[k] # Null
    /\ Return(k, "error")
    /\ UNCHANGED <<vars, wire, asked, status, wrote>>

\* A request or a response is lost, or nobody waits for it.
Lose(r) ==
    /\ wire[r] \in {"request", "response"}
    /\ \A k \in Clients : exchange[k] # r
    /\ Free(r)
    /\ UNCHANGED <<vars, method, exchange, outcome, disturbed>>

Exchange(r) == Arrive(r) \/ Serve(r) \/ Respond(r) \/ Lose(r)
UseClient(k) == Invoke(k) \/ Deliver(k) \/ GiveUp(k)

ClientNext ==
    \/ \E r \in Requests : Exchange(r)
    \/ \E k \in Clients : UseClient(k)

ClientSpec == ClientInit /\ [][ClientNext]_clientVars
-----------------------------------------------------------------------------
(***************************************************************************)
(* Properties.                                                             *)
(***************************************************************************)
ClientTypeOK ==
    /\ TypeOK
    /\ wire \in [Requests -> {"free", "request", "serving", "response"}]
    /\ asked \in [Requests -> ClientMethods \cup {Null}]
    /\ status \in [Requests -> {0, 200, 201, 204, 400, 401, 404, 409, 500}]
    /\ wrote \in [Requests -> BOOLEAN]
    /\ method \in [Clients -> ClientMethods \cup {Null}]
    /\ exchange \in [Clients -> Requests \cup {Null}]
    /\ outcome \in [Clients -> Typed \cup {"none", "nil", "error"}]
    /\ disturbed \in [Clients -> BOOLEAN]
    /\ \A r \in Requests : phase[r] # "idle" => wire[r] = "serving"
    /\ \A j, k \in Clients : exchange[j] = exchange[k] => j = k \/ exchange[k] = Null

\* A client that repeats a create until it is told that it succeeded, or that
\* the row exists, may rely on the row: also when an answer was lost, and when
\* the sensor of the device is at another one.
SettledCreateIsThere ==
    \A k \in Clients :
        /\ method[k] # Null /\ method[k].op = "CreateDevice"
           /\ outcome[k] \in {"nil", "ErrDeviceExist"}
             => HasDevice(method[k].device)
        /\ method[k] # Null /\ method[k].op = "CreateSensor"
           /\ outcome[k] \in {"nil", "ErrConflict"}
             => HasSensor(method[k].sensor)

\* An error with a name says that this very exchange has changed nothing and
\* never will: its client may do something else instead.
NamedErrorsChangedNothing ==
    [][\A k \in Clients :
         exchange[k] # Null /\ outcome'[k] \in Typed =>
            ~wrote[exchange[k]] /\ wire'[exchange[k]] = "free"]_clientVars

\* While one client has a device to itself, what an attach or a detach that
\* returned nil says stays so, unless an exchange it had given up before was
\* still under way: that one may be served later and undo it.
NilHoldsWhenUndisturbed ==
    \A k \in Clients :
        Clients = {k} /\ outcome[k] = "nil" /\ ~disturbed[k] =>
            LET c == method[k] IN
            /\ c.op = "AttachSensor" => SensorOf(c.device) = c.sensor
            /\ c.op = "DetachSensor" => SensorOf(c.device) = Null
=============================================================================
