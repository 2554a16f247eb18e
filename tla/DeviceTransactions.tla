------------------------- MODULE DeviceTransactions -------------------------
(***************************************************************************)
(* What DeviceRegistry takes for one step: the transactions of             *)
(* CreateOrUpdateDevice and SetDeviceProfileTypes, statement by statement. *)
(* A transaction sees what is committed and its own writes, anew in every  *)
(* statement, and waits where another has written a row of the same key.   *)
(*                                                                         *)
(* A row is a table, the device if it belongs to one, and its own key.     *)
(* Metadata are left out: only upserts write them, after everything else.  *)
(* An upsert also enters its sensor in the index that allows it on one     *)
(* device only; the foreign key of that column is DeviceRegistry's.  What  *)
(* AttachSensor and DetachSensor write is left out: one statement each,    *)
(* and the first could wait for a sensor, and be waited for, as an upsert. *)
(* That PostgreSQL waits, grants and finds cycles the way it does here is  *)
(* external: it is READ COMMITTED, the default the pool does not change.   *)
(***************************************************************************)
EXTENDS Naturals, Sequences, FiniteSets, Functions

CONSTANTS Devices, Tags, Types, Sensors,
          SeededTypes,  \* the rows of sensor_profile_types
          Workers,      \* connections of the pool
          Calls,        \* what is asked of them
          NoCall, NoRows, NoSensor

ASSUME SeededAreTypes == SeededTypes \subseteq Types
ASSUME CallsAreCalls ==
    Calls \subseteq [op : {"upsert", "setTypes"}, device : Devices,
                     sensor : Sensors \cup {NoSensor},
                     tags : Seq(Tags), types : Seq(Types)]
ASSUME NoneIsCall == NoCall \notin Calls
ASSUME FiniteTags == IsFiniteSet(Tags)  \* or InOneOrder counts nothing

VARIABLES rows,    \* what is committed
          call,    \* what a worker works on, NoCall between transactions
          pos,     \* the statement it executes
          locked,  \* rows of devices it has inserted or locked
          added,   \* rows its transaction has inserted
          gone,    \* committed rows its transaction has deleted
          target,  \* what its DELETE has found and waits for, or NoRows
          pending, \* has it its row, but its sensor not yet in the index?
          latest,  \* the upsert of a device that committed last
          late     \* history: types others committed for its device meanwhile

vars == <<rows, call, pos, locked, added, gone, target, pending, latest, late>>

DeviceRow(d) == <<"devices", d>>
TagRow(t) == <<"device_tags", t>>
LinkRow(d, t) == <<"device_device_tags", d, t>>
TypeRow(d, y) == <<"device_sensor_profile_types", d, y>>

LinkRows(d) == {LinkRow(d, t) : t \in Tags}
TypeRows(d) == {TypeRow(d, y) : y \in Types}
-----------------------------------------------------------------------------
(***************************************************************************)
(* The statements of a call, in the order of the code.                     *)
(***************************************************************************)
Lock(row) == [do |-> "lock", rows |-> {row}]
Insert(row) == [do |-> "insert", rows |-> {row}]
Delete(S) == [do |-> "delete", rows |-> S]

\* SetDeviceProfileTypes, and the same statements in CreateOrUpdateDevice.
TypeStatements(c) ==
    <<Delete(TypeRows(c.device))>>
    \o [i \in DOMAIN c.types |-> Insert(TypeRow(c.device, c.types[i]))]

\* MUTANT: links first.
TagStatementsLinkFirst(c) ==
    <<Delete(LinkRows(c.device))>>
    \o [i \in 1 .. 2 * Len(c.tags) |->
          IF i % 2 = 1 THEN Insert(LinkRow(c.device, c.tags[(i + 1) \div 2]))
          ELSE Insert(TagRow(c.tags[i \div 2]))]

\* For each tag createTagTx first, because the link refers to the tag.
TagStatements(c) ==
    <<Delete(LinkRows(c.device))>>
    \o [i \in 1 .. 2 * Len(c.tags) |->
          IF i % 2 = 1 THEN Insert(TagRow(c.tags[(i + 1) \div 2]))
          ELSE Insert(LinkRow(c.device, c.tags[i \div 2]))]

\* MUTANT: types are added, never replaced.
StatementsAddingTypes(c) ==
    IF c.op = "setTypes" THEN Tail(TypeStatements(c))
    ELSE <<Lock(DeviceRow(c.device))>> \o TagStatements(c) \o TypeStatements(c)

Statements(c) ==
    IF c.op = "setTypes" THEN TypeStatements(c)
    ELSE <<Lock(DeviceRow(c.device))>> \o TagStatements(c) \o TypeStatements(c)

\* The rows a new row refers to; the types themselves are never deleted.
References(row) ==
    CASE row[1] = "device_device_tags" -> {DeviceRow(row[2]), TagRow(row[3])}
      [] row[1] = "device_sensor_profile_types" -> {DeviceRow(row[2])}
      [] OTHER -> {}

KnownType(row) ==
    row[1] = "device_sensor_profile_types" => row[3] \in SeededTypes
-----------------------------------------------------------------------------
Plan == [c \in Calls |-> Statements(c)]

Busy(w) == call[w] # NoCall
Statement(w) == Plan[call[w]][pos[w]]
At(w, do) == /\ Busy(w) /\ ~pending[w]
             /\ pos[w] \in DOMAIN Plan[call[w]]
             /\ Statement(w).do = do
TheRow(w) == CHOOSE row \in Statement(w).rows : TRUE

\* What a statement of w sees.
Visible(w) == (rows \ gone[w]) \cup added[w]

\* Rows of a transaction that make another wait for the same key.
Written(w) == locked[w] \cup added[w] \cup gone[w]

\* The sensor in the committed row of a device.
SensorOf(d) == IF latest[d] = NoCall THEN NoSensor ELSE latest[d].sensor

\* v has written a row that has sensor s in the index: the row its device had,
\* or the new one, once that is in the index.
Holds(v, s) ==
    /\ Busy(v) /\ DeviceRow(call[v].device) \in locked[v]
    /\ s = SensorOf(call[v].device) \/ (s = call[v].sensor /\ ~pending[v])

\* w waits until v is through: for a key, for rows to be deleted, or for the
\* sensor it wants in the index.
WaitsFor(w, v) ==
    /\ v # w
    /\ \/ (At(w, "lock") \/ At(w, "insert")) /\ TheRow(w) \in Written(v)
       \/ target[w] # NoRows /\ target[w] \cap gone[v] # {}
       \/ pending[w] /\ Holds(v, call[w].sensor)

Waits(w) == \E v \in Workers : WaitsFor(w, v)

\* w waits in a circle: each of a set waits for one of it and is waited for.
Deadlocked(w) ==
    \E S \in SUBSET Workers :
        /\ w \in S
        /\ \A v \in S : /\ \E u \in S : WaitsFor(v, u)
                        /\ \E u \in S : WaitsFor(u, v)

Init ==
    /\ rows = {}
    /\ call = [w \in Workers |-> NoCall]
    /\ pos = [w \in Workers |-> 1]
    /\ locked = [w \in Workers |-> {}]
    /\ added = [w \in Workers |-> {}]
    /\ gone = [w \in Workers |-> {}]
    /\ target = [w \in Workers |-> NoRows]
    /\ pending = [w \in Workers |-> FALSE]
    /\ latest = [d \in Devices |-> NoCall]
    /\ late = [w \in Workers |-> {}]

Begin(w) ==
    /\ ~Busy(w)
    /\ \E c \in Calls : call' = [call EXCEPT ![w] = c]
    /\ UNCHANGED <<rows, pos, locked, added, gone, target, pending, latest, late>>

Advance(w) ==
    /\ pos' = [pos EXCEPT ![w] = @ + 1]
    /\ UNCHANGED <<rows, call, latest, late>>

\* The transaction is over: its locks are released.
Release(w) ==
    /\ call' = [call EXCEPT ![w] = NoCall]
    /\ pos' = [pos EXCEPT ![w] = 1]
    /\ locked' = [locked EXCEPT ![w] = {}]
    /\ added' = [added EXCEPT ![w] = {}]
    /\ gone' = [gone EXCEPT ![w] = {}]
    /\ pending' = [pending EXCEPT ![w] = FALSE]

\* MUTANT: an error returns without a Rollback, the connection stays open.
RollbackMissing(w) ==
    /\ pos' = [pos EXCEPT ![w] = 0]
    /\ target' = [target EXCEPT ![w] = NoRows]
    /\ UNCHANGED <<rows, call, locked, added, gone, pending, latest, late>>

\* The deferred Rollback.
Rollback(w) ==
    /\ Release(w)
    /\ target' = [target EXCEPT ![w] = NoRows]
    /\ late' = [late EXCEPT ![w] = {}]
    /\ UNCHANGED <<rows, latest>>

\* MUTANT: ON CONFLICT DO NOTHING, which locks no row that is there.
LockRowIfNew(w) ==
    /\ At(w, "lock") /\ ~Waits(w)
    /\ added' = [added EXCEPT ![w] = @ \cup ({TheRow(w)} \ rows)]
    /\ pending' = [pending EXCEPT ![w] = call[w].sensor # NoSensor]
    /\ Advance(w)
    /\ UNCHANGED <<locked, gone, target>>

\* INSERT INTO devices ... ON CONFLICT DO UPDATE: first the row ...
LockRow(w) ==
    /\ At(w, "lock") /\ ~Waits(w)
    /\ locked' = [locked EXCEPT ![w] = @ \cup {TheRow(w)}]
    /\ added' = [added EXCEPT ![w] = @ \cup ({TheRow(w)} \ rows)]
    /\ pending' = [pending EXCEPT ![w] = call[w].sensor # NoSensor]
    /\ Advance(w)
    /\ UNCHANGED <<gone, target>>

Taken(w) ==
    \E d \in Devices \ {call[w].device} : SensorOf(d) = call[w].sensor

\* ... then its sensor goes into uq_devices_sensor_not_deleted ...
IndexSensor(w) ==
    /\ pending[w] /\ ~Waits(w) /\ ~Taken(w)
    /\ pending' = [pending EXCEPT ![w] = FALSE]
    /\ UNCHANGED <<rows, call, pos, locked, added, gone, target, latest, late>>

\* ... which refuses one that another device has: the error is returned.
SensorRefused(w) ==
    /\ pending[w] /\ ~Waits(w) /\ Taken(w)
    /\ Rollback(w)

Accepted(w) ==
    References(TheRow(w)) \subseteq Visible(w) /\ KnownType(TheRow(w))

\* INSERT ... ON CONFLICT DO NOTHING.
InsertRow(w) ==
    /\ At(w, "insert") /\ ~Waits(w) /\ Accepted(w)
    /\ added' = [added EXCEPT ![w] = @ \cup ({TheRow(w)} \ Visible(w))]
    /\ Advance(w)
    /\ UNCHANGED <<locked, gone, target, pending>>

\* A foreign key refuses the row: the error is returned.
InsertRefused(w) ==
    /\ At(w, "insert") /\ ~Waits(w) /\ ~Accepted(w)
    /\ Rollback(w)

\* A DELETE first finds its rows ...
FindRows(w) ==
    /\ At(w, "delete") /\ target[w] = NoRows
    /\ target' = [target EXCEPT ![w] = Statement(w).rows \cap Visible(w)]
    /\ UNCHANGED <<rows, call, pos, locked, added, gone, pending, latest, late>>

\* ... and deletes those that no other transaction has deleted meanwhile.
DeleteRows(w) ==
    /\ target[w] # NoRows /\ ~Waits(w)
    /\ gone' = [gone EXCEPT ![w] = @ \cup target[w]]
    /\ target' = [target EXCEPT ![w] = NoRows]
    /\ Advance(w)
    /\ UNCHANGED <<locked, added, pending>>

\* The devices of v and w are one, and one of the two has no lock on its row.
Overlap(v, w) ==
    /\ v # w /\ Busy(v) /\ call[v].device = call[w].device
    /\ "setTypes" \in {call[v].op, call[w].op}

\* What w has deleted is no longer there for a DELETE that waits, not even
\* where w has inserted the same key again.
Commit(w) ==
    /\ Busy(w) /\ pos[w] = Len(Plan[call[w]]) + 1
    /\ rows' = Visible(w)
    /\ target' = [v \in Workers |-> IF target[v] = NoRows THEN NoRows
                                    ELSE target[v] \ gone[w]]
    /\ latest' = [d \in Devices |->
                    IF call[w].op = "upsert" /\ call[w].device = d
                    THEN call[w] ELSE latest[d]]
    /\ late' = [v \in Workers |->
                  IF v = w THEN {}
                  ELSE IF Overlap(v, w)
                    THEN late[v] \cup (added[w] \cap TypeRows(call[v].device))
                    ELSE late[v]]
    /\ Release(w)

\* The database ends one transaction of a cycle.
BreakDeadlock(w) == Busy(w) /\ Deadlocked(w) /\ Rollback(w)

\* The connection is lost, the caller has gone away.
StatementFails(w) == Busy(w) /\ Rollback(w)

Step(w) ==
    \/ LockRow(w) \/ IndexSensor(w) \/ SensorRefused(w)
    \/ InsertRow(w) \/ InsertRefused(w)
    \/ FindRows(w) \/ DeleteRows(w) \/ Commit(w)

Next == \E w \in Workers :
    Begin(w) \/ Step(w) \/ BreakDeadlock(w) \/ StatementFails(w)

Spec == Init /\ [][Next]_vars

\* Who waits for a key gets it in turn; a cycle is found after a second.
Fairness ==
    /\ \A w \in Workers : SF_vars(Step(w))
    /\ WF_vars(\E w \in Workers : BreakDeadlock(w))

FairSpec == Spec /\ Fairness
-----------------------------------------------------------------------------
(***************************************************************************)
(* Properties.                                                             *)
(***************************************************************************)
\* The tag of a link is there when the link is inserted, whoever inserted the
\* tag and however that transaction ended: a foreign key never refuses an
\* upsert whose types are seeded.
UpsertIsNeverRefused ==
    \A w \in Workers :
        At(w, "insert") /\ call[w].op = "upsert" /\ ~Waits(w)
        /\ KnownType(TheRow(w)) => Accepted(w)

\* However upserts of a device overlap, fail and wait for one another, its
\* tags are those of the one that committed last, all of them and no other.
TagsOfTheLatestUpsert ==
    \A d \in Devices :
        rows \cap LinkRows(d) =
            IF latest[d] = NoCall THEN {}
            ELSE {LinkRow(d, t) : t \in Range(latest[d].tags)}

\* A call leaves its types behind and no other, but for types of calls that
\* overlapped with it, where one of the two is a SetDeviceProfileTypes and takes
\* no lock on the device: those that are there its DELETE may have missed, and
\* where they are gone again its INSERT of the same may have added nothing.
TypesMixOnlyOverlapping ==
    [][\A w \in Workers :
         Busy(w) /\ Commit(w) =>
            LET d == call[w].device
                own == {TypeRow(d, y) : y \in Range(call[w].types)} IN
            /\ rows' \cap TypeRows(d) \subseteq own \cup (late[w] \cap rows)
            /\ own \subseteq rows' \cup (late[w] \ rows)]_vars

\* The calls name their tags in one order, whichever it is.
InOneOrder(S) ==
    \E rank \in Injection(Tags, 1 .. Cardinality(Tags)) :
        \A c \in S : \A i, j \in DOMAIN c.tags :
            i < j => rank[c.tags[i]] <= rank[c.tags[j]]

\* Among upserts whose lists have their tags in one order only sensors that
\* change places are waited for in a circle: each in it wants the sensor that
\* the device of another in it still has, and has no tag, link or type written
\* yet.  Without such an exchange of sensors the database ends none of them.
\* (With SetDeviceProfileTypes that is not so: what it deletes and inserts is
\* taken without the lock of the device.)
OnlySwapsDeadlock ==
    LET working == {call[w] : w \in {v \in Workers : Busy(v)}} IN
    InOneOrder(working) /\ (\A c \in working : c.op = "upsert")
        => \A w \in Workers : Deadlocked(w) =>
              /\ pending[w]
              /\ \E v \in Workers :
                    /\ Deadlocked(v) /\ call[v].device # call[w].device
                    /\ SensorOf(call[v].device) = call[w].sensor

\* Every transaction ends, also where lists differ in their order and calls
\* wait in a circle.
EveryCallEnds == \A w \in Workers : Busy(w) ~> ~Busy(w)
=============================================================================
