---------------------- MODULE DeviceTransactionsProofs ----------------------
(***************************************************************************)
(* Proofs about DeviceTransactions for any set of calls, of devices, tags  *)
(* and types, and any number of connections.                               *)
(*                                                                         *)
(* The lemmas about Plan say which statement stands where; nothing after   *)
(* them looks into the sequences.  The invariant then says how a           *)
(* transaction has got where it is: what it holds is of statements it has  *)
(* executed (OfPast), no two hold a row (Exclusive), and a DELETE followed *)
(* by INSERTs of the same rows replaces them (Replacing), which others may *)
(* disturb only before it; for types, which are written without the lock   *)
(* of the device, all but those that came late (Mixing).  An upsert whose sensor is pending has its device locked and   *)
(* nothing else done.                                                      *)
(***************************************************************************)
EXTENDS DeviceTransactions, FiniteSetTheorems, SequenceTheorems,
        WellFoundedInduction, TLAPS

-----------------------------------------------------------------------------
(***************************************************************************)
(* Rows and plans.                                                         *)
(***************************************************************************)
TagRows == {TagRow(t) : t \in Tags}
RowsOf(d) == {DeviceRow(d)} \cup LinkRows(d) \cup TypeRows(d)

\* Rows that no DELETE names.
Lasting == {DeviceRow(d) : d \in Devices} \cup TagRows

AnyRow == TagRows \cup UNION {RowsOf(d) : d \in Devices}

\* Where the types of a call are deleted.
TypeStart(c) == IF c.op = "upsert" THEN 2 * Len(c.tags) + 3 ELSE 1

\* Statement q of c deletes K; no other names a row of K but INSERTs after it.
Replaces(c, K, q) ==
    /\ q \in DOMAIN Plan[c] /\ Plan[c][q] = Delete(K)
    /\ \A p \in DOMAIN Plan[c] :
        \/ Plan[c][p].rows \cap K = {}
        \/ p = q
        \/ p > q /\ Plan[c][p].do = "insert"

InsertedBefore(c, p, K) ==
    {row \in K : \E i \in DOMAIN Plan[c] : i < p /\ Plan[c][i] = Insert(row)}
-----------------------------------------------------------------------------
(***************************************************************************)
(* The invariant.                                                          *)
(***************************************************************************)
TypeCorrect ==
    /\ rows \subseteq AnyRow
    /\ call \in [Workers -> Calls \cup {NoCall}]
    /\ pos \in [Workers -> Nat \ {0}]
    /\ locked \in [Workers -> SUBSET AnyRow]
    /\ added \in [Workers -> SUBSET AnyRow]
    /\ gone \in [Workers -> SUBSET AnyRow]
    /\ target \in [Workers -> (SUBSET AnyRow) \cup {NoRows}]
    /\ pending \in [Workers -> BOOLEAN]
    /\ latest \in [Devices -> Calls \cup {NoCall}]
    /\ late \in [Workers -> SUBSET AnyRow]

\* A connection without a transaction holds nothing.
Idle(w) ==
    /\ pos[w] = 1 /\ target[w] = NoRows /\ ~pending[w]
    /\ locked[w] = {} /\ added[w] = {} /\ gone[w] = {}
    /\ late[w] = {}

Past(w, row, kinds) ==
    \E p \in DOMAIN Plan[call[w]] :
        /\ p < pos[w] /\ row \in Plan[call[w]][p].rows
        /\ Plan[call[w]][p].do \in kinds

\* A transaction holds rows of statements it has executed; what they have
\* inserted and no DELETE names is there for it.
OfPast(w) ==
    /\ pos[w] <= Len(Plan[call[w]]) + 1
    /\ \A row \in locked[w] : Past(w, row, {"lock"})
    /\ \A row \in added[w] : Past(w, row, {"lock", "insert"})
    /\ \A row \in gone[w] : Past(w, row, {"delete"})
    /\ \A row \in AnyRow : Past(w, row, {"lock"}) => row \in locked[w]
    /\ \A row \in Lasting :
        Past(w, row, {"lock", "insert"}) => row \in rows \cup added[w]
    /\ target[w] # NoRows =>
        At(w, "delete") /\ target[w] \subseteq Statement(w).rows
    /\ pending[w] => call[w].op = "upsert" /\ pos[w] = 2

Progress == \A w \in Workers : IF Busy(w) THEN OfPast(w) ELSE Idle(w)

Exclusive ==
    \A v, w \in Workers :
        v # w => locked[v] \cap locked[w] = {} /\ added[v] \cap added[w] = {}

\* How far w is with replacing K by its DELETE at q: w has not touched K, its
\* DELETE has found the rows that are there, or they are gone; and it has added
\* what its INSERTs so far name.
Replacing(w, K, q) ==
    /\ added[w] \cap K = InsertedBefore(call[w], pos[w], K)
    /\ pos[w] <= q => gone[w] \cap K = {}
    /\ pos[w] = q /\ target[w] # NoRows => target[w] = rows \cap K
    /\ pos[w] > q => rows \cap K \subseteq gone[w]

LinksReplaced ==
    \A w \in Workers :
        Busy(w) /\ call[w].op = "upsert"
            => Replacing(w, LinkRows(call[w].device), 2)

\* The same where rows of K may have come late: they need not be among those
\* its DELETE has found, nor has an INSERT that names one need to add it.
Mixing(w, K, q) ==
    /\ added[w] \cap K \subseteq InsertedBefore(call[w], pos[w], K)
    /\ InsertedBefore(call[w], pos[w], K) \subseteq
            added[w] \cup (late[w] \ gone[w])
    /\ pos[w] <= q => gone[w] \cap K = {}
    /\ pos[w] = q /\ target[w] # NoRows =>
            rows \cap K \subseteq target[w] \cup late[w]
    /\ pos[w] > q => rows \cap K \subseteq gone[w] \cup late[w]

TypesMixed ==
    \A w \in Workers :
        Busy(w) => Mixing(w, TypeRows(call[w].device), TypeStart(call[w]))

Inv == /\ TypeCorrect /\ Progress /\ Exclusive
       /\ LinksReplaced /\ TypesMixed /\ TagsOfTheLatestUpsert
-----------------------------------------------------------------------------
(***************************************************************************)
(* Lemmas about rows and plans.                                            *)
(***************************************************************************)
AnyStatement ==
    {Lock(row) : row \in AnyRow} \cup {Insert(row) : row \in AnyRow}
        \cup {Delete(S) : S \in SUBSET AnyRow}

LEMMA CallShape ==
    ASSUME NEW c \in Calls
    PROVE  /\ c.op \in {"upsert", "setTypes"} /\ c.device \in Devices
           /\ c.tags \in Seq(Tags) /\ c.types \in Seq(Types)
           /\ Len(c.tags) \in Nat /\ Len(c.types) \in Nat
           /\ \A i \in 1 .. Len(c.tags) : c.tags[i] \in Tags
           /\ \A i \in 1 .. Len(c.types) : c.types[i] \in Types
           /\ c # NoCall
<1>1. c \in [op : {"upsert", "setTypes"}, device : Devices,
             sensor : Sensors \cup {NoSensor},
             tags : Seq(Tags), types : Seq(Types)]
  BY CallsAreCalls
<1> QED
  BY <1>1, NoneIsCall

LEMMA RowsDiffer ==
    \A d, e, t, u :
        /\ DeviceRow(d) # TagRow(t)
        /\ DeviceRow(d) # LinkRow(e, t) /\ DeviceRow(d) # TypeRow(e, t)
        /\ TagRow(t) # LinkRow(e, u) /\ TagRow(t) # TypeRow(e, u)
        /\ LinkRow(d, t) # TypeRow(e, u)
BY DEF DeviceRow, TagRow, LinkRow, TypeRow

LEMMA RowsAreTheirs ==
    \A d, e, t, u :
        /\ DeviceRow(d) = DeviceRow(e) => d = e
        /\ TagRow(t) = TagRow(u) => t = u
        /\ LinkRow(d, t) = LinkRow(e, u) => d = e /\ t = u
        /\ TypeRow(d, t) = TypeRow(e, u) => d = e /\ t = u
BY DEF DeviceRow, TagRow, LinkRow, TypeRow

LEMMA RowsKnown ==
    ASSUME NEW d \in Devices
    PROVE  /\ DeviceRow(d) \in AnyRow
           /\ \A t \in Tags : TagRow(t) \in AnyRow /\ LinkRow(d, t) \in AnyRow
           /\ \A y \in Types : TypeRow(d, y) \in AnyRow
           /\ LinkRows(d) \subseteq AnyRow /\ TypeRows(d) \subseteq AnyRow
BY DEF AnyRow, TagRows, RowsOf, LinkRows, TypeRows

\* Rows of two devices are never the same, and none is a tag.
LEMMA RowsApart ==
    ASSUME NEW d, NEW e, d # e
    PROVE  /\ RowsOf(d) \cap (TagRows \cup RowsOf(e)) = {}
           /\ LinkRows(d) \cap (TagRows \cup RowsOf(e)) = {}
           /\ TypeRows(d) \cap (TagRows \cup RowsOf(e)) = {}
<1>1. RowsOf(d) \cap (TagRows \cup RowsOf(e)) = {}
  BY RowsDiffer, RowsAreTheirs DEF RowsOf, LinkRows, TypeRows, TagRows
<1> QED
  BY <1>1 DEF RowsOf

\* A statement is one of three, and names the row of an INSERT.
LEMMA StatementParts ==
    /\ \A row : /\ Lock(row).do = "lock" /\ Lock(row).rows = {row}
                /\ Insert(row).do = "insert" /\ Insert(row).rows = {row}
    /\ \A S : Delete(S).do = "delete" /\ Delete(S).rows = S
BY DEF Lock, Insert, Delete

LEMMA StatementsKnown ==
    /\ \A row \in AnyRow : /\ Lock(row) \in AnyStatement
                           /\ Insert(row) \in AnyStatement
    /\ \A S \in SUBSET AnyRow : Delete(S) \in AnyStatement
BY DEF AnyStatement

LEMMA TypeStatementsShape ==
    ASSUME NEW c \in Calls
    PROVE  LET s == TypeStatements(c) IN
           /\ s \in Seq(AnyStatement) /\ Len(s) = 1 + Len(c.types)
           /\ s[1] = Delete(TypeRows(c.device))
           /\ \A i \in 1 .. Len(c.types) :
                s[1 + i] = Insert(TypeRow(c.device, c.types[i]))
<1> DEFINE first == <<Delete(TypeRows(c.device))>>
           rest == [i \in DOMAIN c.types |-> Insert(TypeRow(c.device, c.types[i]))]
<1>1. first \in Seq(AnyStatement) /\ Len(first) = 1
      /\ first[1] = Delete(TypeRows(c.device))
  BY CallShape, RowsKnown, StatementsKnown
<1>2. DOMAIN c.types = 1 .. Len(c.types)
  BY CallShape
<1>3. \A i \in 1 .. Len(c.types) :
        Insert(TypeRow(c.device, c.types[i])) \in AnyStatement
  BY CallShape, RowsKnown, StatementsKnown
<1>4. rest \in Seq(AnyStatement) /\ Len(rest) = Len(c.types)
  BY <1>2, <1>3, CallShape
<1>5. \A i \in 1 .. Len(c.types) :
        rest[i] = Insert(TypeRow(c.device, c.types[i]))
  BY <1>2
<1>6. TypeStatements(c) = first \o rest
  BY DEF TypeStatements
<1> HIDE DEF first, rest
<1>7. /\ first \o rest \in Seq(AnyStatement)
      /\ Len(first \o rest) = 1 + Len(c.types)
      /\ \A i \in 1 .. 1 + Len(c.types) :
            (first \o rest)[i] = IF i <= 1 THEN first[i] ELSE rest[i - 1]
  BY <1>1, <1>4, ConcatProperties
<1>8. ASSUME NEW i \in 1 .. Len(c.types)
      PROVE  (first \o rest)[1 + i] = Insert(TypeRow(c.device, c.types[i]))
  <2>1. i \in Nat /\ i >= 1 /\ 1 + i \in 1 .. 1 + Len(c.types)
        /\ ~(1 + i <= 1) /\ (1 + i) - 1 = i
    BY CallShape
  <2> QED
    BY <2>1, <1>5, <1>7
<1>9. (first \o rest)[1] = first[1]
  <2>1. 1 \in 1 .. 1 + Len(c.types)
    BY CallShape
  <2> QED
    BY <2>1, <1>7
<1> QED
  BY <1>1, <1>6, <1>7, <1>8, <1>9

LEMMA TagStatementsShape ==
    ASSUME NEW c \in Calls
    PROVE  LET s == TagStatements(c) IN
           /\ s \in Seq(AnyStatement) /\ Len(s) = 1 + 2 * Len(c.tags)
           /\ s[1] = Delete(LinkRows(c.device))
           /\ \A i \in 1 .. Len(c.tags) :
                /\ s[2 * i] = Insert(TagRow(c.tags[i]))
                /\ s[2 * i + 1] = Insert(LinkRow(c.device, c.tags[i]))
<1> DEFINE n == Len(c.tags)
           first == <<Delete(LinkRows(c.device))>>
           rest == [i \in 1 .. 2 * Len(c.tags) |->
                      IF i % 2 = 1 THEN Insert(TagRow(c.tags[(i + 1) \div 2]))
                      ELSE Insert(LinkRow(c.device, c.tags[i \div 2]))]
<1>1. first \in Seq(AnyStatement) /\ Len(first) = 1
      /\ first[1] = Delete(LinkRows(c.device))
  BY CallShape, RowsKnown, StatementsKnown
<1>2. n \in Nat
  BY CallShape
<1>3. \A i \in 1 .. n : /\ Insert(TagRow(c.tags[i])) \in AnyStatement
                        /\ Insert(LinkRow(c.device, c.tags[i])) \in AnyStatement
  BY CallShape, RowsKnown, StatementsKnown
<1>4. ASSUME NEW i \in 1 .. 2 * n
      PROVE  rest[i] \in AnyStatement
  <2>1. CASE i % 2 = 1
    <3>1. (i + 1) \div 2 \in 1 .. n
      BY <1>2, <2>1
    <3> QED
      BY <2>1, <3>1, <1>3
  <2>2. CASE i % 2 # 1
    <3>1. i \div 2 \in 1 .. n
      BY <1>2, <2>2
    <3> QED
      BY <2>2, <3>1, <1>3
  <2> QED
    BY <2>1, <2>2
<1>5. rest \in Seq(AnyStatement) /\ Len(rest) = 2 * n
  <2>1. rest \in [1 .. 2 * n -> AnyStatement]
    BY <1>4
  <2> HIDE DEF rest
  <2> QED
    BY <2>1, <1>2
<1>6. ASSUME NEW i \in 1 .. n
      PROVE  /\ rest[2 * i - 1] = Insert(TagRow(c.tags[i]))
             /\ rest[2 * i] = Insert(LinkRow(c.device, c.tags[i]))
  <2>1. /\ 2 * i - 1 \in 1 .. 2 * n /\ 2 * i \in 1 .. 2 * n
        /\ (2 * i - 1) % 2 = 1 /\ ((2 * i - 1) + 1) \div 2 = i
        /\ (2 * i) % 2 # 1 /\ (2 * i) \div 2 = i
    BY <1>2
  <2>2. \A k \in 1 .. 2 * n : rest[k] =
          IF k % 2 = 1 THEN Insert(TagRow(c.tags[(k + 1) \div 2]))
          ELSE Insert(LinkRow(c.device, c.tags[k \div 2]))
    OBVIOUS
  <2> HIDE DEF rest
  <2> QED
    BY <2>1, <2>2
<1>7. TagStatements(c) = first \o rest
  BY DEF TagStatements
<1> HIDE DEF first, rest, n
<1>8. /\ first \o rest \in Seq(AnyStatement)
      /\ Len(first \o rest) = 1 + 2 * n
      /\ \A i \in 1 .. 1 + 2 * n :
            (first \o rest)[i] = IF i <= 1 THEN first[i] ELSE rest[i - 1]
  <2>1. /\ first \o rest \in Seq(AnyStatement)
        /\ Len(first \o rest) = Len(first) + Len(rest)
        /\ \A i \in 1 .. Len(first) + Len(rest) :
              (first \o rest)[i] =
                 IF i <= Len(first) THEN first[i] ELSE rest[i - Len(first)]
    BY <1>1, <1>5, ConcatProperties
  <2> QED
    BY <1>1, <1>5, <2>1
<1>9. ASSUME NEW i \in 1 .. n
      PROVE  /\ (first \o rest)[2 * i] = Insert(TagRow(c.tags[i]))
             /\ (first \o rest)[2 * i + 1] = Insert(LinkRow(c.device, c.tags[i]))
  <2>1. /\ 2 * i \in 1 .. 1 + 2 * n /\ 2 * i + 1 \in 1 .. 1 + 2 * n
        /\ ~(2 * i <= 1) /\ ~(2 * i + 1 <= 1) /\ (2 * i + 1) - 1 = 2 * i
    BY <1>2
  <2> QED
    BY <2>1, <1>6, <1>8
<1>10. (first \o rest)[1] = first[1]
  <2>1. 1 \in 1 .. 1 + 2 * n
    BY <1>2
  <2> QED
    BY <2>1, <1>8
<1>11. n = Len(c.tags)
  BY DEF n
<1> QED
  BY <1>1, <1>7, <1>8, <1>9, <1>10, <1>11

LEMMA SetTypesPlan ==
    ASSUME NEW c \in Calls, c.op # "upsert"
    PROVE  Plan[c] = TypeStatements(c)
BY CallShape DEF Plan, Statements

LEMMA UpsertPlan ==
    ASSUME NEW c \in Calls, c.op = "upsert"
    PROVE  LET s == Plan[c]
               n == Len(c.tags)
           IN /\ s \in Seq(AnyStatement)
              /\ Len(s) = 2 * n + 3 + Len(c.types)
              /\ s[1] = Lock(DeviceRow(c.device))
              /\ s[2] = Delete(LinkRows(c.device))
              /\ \A i \in 1 .. n :
                    /\ s[2 * i + 1] = Insert(TagRow(c.tags[i]))
                    /\ s[2 * i + 2] = Insert(LinkRow(c.device, c.tags[i]))
              /\ s[2 * n + 3] = Delete(TypeRows(c.device))
              /\ \A i \in 1 .. Len(c.types) :
                    s[2 * n + 3 + i] = Insert(TypeRow(c.device, c.types[i]))
<1> DEFINE n == Len(c.tags)
           m == Len(c.types)
           lock == <<Lock(DeviceRow(c.device))>>
           tagged == TagStatements(c)
           typed == TypeStatements(c)
           s == (lock \o tagged) \o typed
<1>1. lock \in Seq(AnyStatement) /\ Len(lock) = 1
      /\ lock[1] = Lock(DeviceRow(c.device))
  BY CallShape, RowsKnown, StatementsKnown
<1>2. /\ tagged \in Seq(AnyStatement) /\ Len(tagged) = 1 + 2 * n
      /\ tagged[1] = Delete(LinkRows(c.device))
      /\ \A i \in 1 .. n :
            /\ tagged[2 * i] = Insert(TagRow(c.tags[i]))
            /\ tagged[2 * i + 1] = Insert(LinkRow(c.device, c.tags[i]))
  BY TagStatementsShape
<1>3. /\ typed \in Seq(AnyStatement) /\ Len(typed) = 1 + m
      /\ typed[1] = Delete(TypeRows(c.device))
      /\ \A i \in 1 .. m : typed[1 + i] = Insert(TypeRow(c.device, c.types[i]))
  BY TypeStatementsShape
<1>4. n \in Nat /\ m \in Nat
  BY CallShape
<1>5. Plan[c] = s
  BY CallShape DEF Plan, Statements
<1> HIDE DEF n, m, lock, tagged, typed
<1>6. /\ lock \o tagged \in Seq(AnyStatement)
      /\ Len(lock \o tagged) = 2 * n + 2
      /\ \A i \in 1 .. 2 * n + 2 :
            (lock \o tagged)[i] = IF i <= 1 THEN lock[i] ELSE tagged[i - 1]
  <2>1. /\ lock \o tagged \in Seq(AnyStatement)
        /\ Len(lock \o tagged) = Len(lock) + Len(tagged)
        /\ \A i \in 1 .. Len(lock) + Len(tagged) :
              (lock \o tagged)[i] =
                 IF i <= Len(lock) THEN lock[i] ELSE tagged[i - Len(lock)]
    BY <1>1, <1>2, ConcatProperties
  <2>2. Len(lock) + Len(tagged) = 2 * n + 2
    BY <1>1, <1>2, <1>4
  <2> QED
    BY <1>1, <2>1, <2>2
<1>7. /\ s \in Seq(AnyStatement)
      /\ Len(s) = 2 * n + 3 + m
      /\ \A i \in 1 .. 2 * n + 3 + m :
            s[i] = IF i <= 2 * n + 2 THEN (lock \o tagged)[i]
                   ELSE typed[i - (2 * n + 2)]
  <2> DEFINE front == lock \o tagged
  <2>1. front \in Seq(AnyStatement) /\ Len(front) = 2 * n + 2
    BY <1>6
  <2> HIDE DEF front
  <2>2. /\ front \o typed \in Seq(AnyStatement)
        /\ Len(front \o typed) = Len(front) + Len(typed)
        /\ \A i \in 1 .. Len(front) + Len(typed) :
              (front \o typed)[i] =
                 IF i <= Len(front) THEN front[i] ELSE typed[i - Len(front)]
    BY <2>1, <1>3, ConcatProperties
  <2>3. Len(front) + Len(typed) = 2 * n + 3 + m
    BY <2>1, <1>3, <1>4
  <2>4. /\ front \o typed \in Seq(AnyStatement)
        /\ Len(front \o typed) = 2 * n + 3 + m
        /\ \A i \in 1 .. 2 * n + 3 + m :
              (front \o typed)[i] =
                 IF i <= 2 * n + 2 THEN front[i] ELSE typed[i - (2 * n + 2)]
    BY <2>1, <2>2, <2>3
  <2> QED
    BY <2>4 DEF front
<1> HIDE DEF s
<1>8. s[1] = Lock(DeviceRow(c.device)) /\ s[2] = Delete(LinkRows(c.device))
  <2>1. /\ 1 \in 1 .. 2 * n + 3 + m /\ 2 \in 1 .. 2 * n + 3 + m
        /\ 1 <= 2 * n + 2 /\ 2 <= 2 * n + 2
        /\ 1 \in 1 .. 2 * n + 2 /\ 2 \in 1 .. 2 * n + 2
    BY <1>4
  <2> QED
    BY <2>1, <1>1, <1>2, <1>6, <1>7
<1>9. ASSUME NEW i \in 1 .. n
      PROVE  /\ s[2 * i + 1] = Insert(TagRow(c.tags[i]))
             /\ s[2 * i + 2] = Insert(LinkRow(c.device, c.tags[i]))
  <2>1. /\ 2 * i + 1 \in 1 .. 2 * n + 2 /\ 2 * i + 2 \in 1 .. 2 * n + 2
        /\ 2 * i + 1 \in 1 .. 2 * n + 3 + m /\ 2 * i + 2 \in 1 .. 2 * n + 3 + m
        /\ 2 * i + 1 <= 2 * n + 2 /\ 2 * i + 2 <= 2 * n + 2
        /\ ~(2 * i + 1 <= 1) /\ ~(2 * i + 2 <= 1)
        /\ (2 * i + 1) - 1 = 2 * i /\ (2 * i + 2) - 1 = 2 * i + 1
    BY <1>4
  <2> QED
    BY <2>1, <1>2, <1>6, <1>7
<1>10. ASSUME NEW i \in 0 .. m
       PROVE  s[2 * n + 3 + i] = typed[1 + i]
  <2>1. /\ 2 * n + 3 + i \in 1 .. 2 * n + 3 + m
        /\ ~(2 * n + 3 + i <= 2 * n + 2)
        /\ (2 * n + 3 + i) - (2 * n + 2) = 1 + i
    BY <1>4
  <2> QED
    BY <2>1, <1>7
<1>11. s[2 * n + 3] = typed[1]
  <2>1. 0 \in 0 .. m /\ 2 * n + 3 + 0 = 2 * n + 3 /\ 1 + 0 = 1
    BY <1>4
  <2> QED
    BY <2>1, <1>10
<1>12. \A i \in 1 .. m :
          s[2 * n + 3 + i] = Insert(TypeRow(c.device, c.types[i]))
  <2>1. 1 .. m \subseteq 0 .. m
    BY <1>4
  <2> QED
    BY <2>1, <1>3, <1>10
<1>13. n = Len(c.tags) /\ m = Len(c.types)
  BY DEF n, m
<1> QED
  BY <1>3, <1>5, <1>7, <1>8, <1>9, <1>11, <1>12, <1>13

LEMMA PlanIsSeq ==
    ASSUME NEW c \in Calls
    PROVE  /\ Plan[c] \in Seq(AnyStatement) /\ Len(Plan[c]) \in Nat
           /\ DOMAIN Plan[c] = 1 .. Len(Plan[c])
           /\ TypeStart(c) \in Nat
           /\ Len(Plan[c]) = TypeStart(c) + Len(c.types)
<1>1. CASE c.op = "upsert"
  <2>1. Plan[c] \in Seq(AnyStatement)
    BY <1>1, UpsertPlan
  <2>2. Len(Plan[c]) = 2 * Len(c.tags) + 3 + Len(c.types)
    BY <1>1, UpsertPlan
  <2>3. TypeStart(c) = 2 * Len(c.tags) + 3
    BY <1>1 DEF TypeStart
  <2>4. Len(c.tags) \in Nat /\ Len(c.types) \in Nat
    BY CallShape
  <2>5. Len(Plan[c]) \in Nat /\ DOMAIN Plan[c] = 1 .. Len(Plan[c])
    BY <2>1
  <2>6. TypeStart(c) \in Nat /\ Len(Plan[c]) = TypeStart(c) + Len(c.types)
    BY <2>2, <2>3, <2>4
  <2> QED
    BY <2>1, <2>5, <2>6
<1>2. CASE c.op # "upsert"
  <2>1. Plan[c] \in Seq(AnyStatement) /\ Len(Plan[c]) = 1 + Len(c.types)
    BY <1>2, SetTypesPlan, TypeStatementsShape
  <2>2. TypeStart(c) = 1
    BY <1>2 DEF TypeStart
  <2> QED
    BY <2>1, <2>2, CallShape
<1> QED
  BY <1>1, <1>2

LEMMA TypesInPlan ==
    ASSUME NEW c \in Calls
    PROVE  /\ Plan[c][TypeStart(c)] = Delete(TypeRows(c.device))
           /\ \A i \in 1 .. Len(c.types) :
                Plan[c][TypeStart(c) + i] = Insert(TypeRow(c.device, c.types[i]))
<1>1. CASE c.op = "upsert"
  BY <1>1, UpsertPlan DEF TypeStart
<1>2. CASE c.op # "upsert"
  BY <1>2, SetTypesPlan, TypeStatementsShape DEF TypeStart
<1> QED
  BY <1>1, <1>2

\* Where the statements of a call stand.
LEMMA PositionsInPlan ==
    ASSUME NEW c \in Calls
    PROVE  /\ TypeStart(c) \in DOMAIN Plan[c]
           /\ \A i \in 1 .. Len(c.types) :
                TypeStart(c) + i \in DOMAIN Plan[c] /\ TypeStart(c) + i > TypeStart(c)
           /\ \A p \in DOMAIN Plan[c] : p \in Nat /\ p >= 1 /\ p < Len(Plan[c]) + 1
           /\ c.op = "upsert" =>
                /\ 1 \in DOMAIN Plan[c] /\ 2 \in DOMAIN Plan[c]
                /\ TypeStart(c) > 2
                /\ \A i \in 1 .. Len(c.tags) :
                    /\ 2 * i + 1 \in DOMAIN Plan[c] /\ 2 * i + 2 \in DOMAIN Plan[c]
                    /\ 2 * i + 1 > 2
<1> DEFINE n == Len(c.tags)
           m == Len(c.types)
           k == Len(Plan[c])
           q == TypeStart(c)
<1>1. n \in Nat /\ m \in Nat
  BY CallShape
<1>2. k \in Nat /\ DOMAIN Plan[c] = 1 .. k
  BY PlanIsSeq
<1>3. q \in Nat /\ k = q + m
  BY PlanIsSeq
<1>4. q = IF c.op = "upsert" THEN 2 * n + 3 ELSE 1
  BY DEF TypeStart
<1> HIDE DEF n, m, k, q
<1>5. /\ q \in 1 .. k
      /\ \A i \in 1 .. m : q + i \in 1 .. k /\ q + i > q
      /\ \A p \in 1 .. k : p \in Nat /\ p >= 1 /\ p < k + 1
  BY <1>1, <1>2, <1>3, <1>4
<1>6. ASSUME c.op = "upsert"
      PROVE  /\ 1 \in 1 .. k /\ 2 \in 1 .. k /\ q > 2
             /\ \A i \in 1 .. n : /\ 2 * i + 1 \in 1 .. k /\ 2 * i + 2 \in 1 .. k
                                  /\ 2 * i + 1 > 2
  <2>1. q = 2 * n + 3
    BY <1>4, <1>6
  <2> QED
    BY <2>1, <1>1, <1>2, <1>3
<1>7. n = Len(c.tags) /\ m = Len(c.types) /\ k = Len(Plan[c]) /\ q = TypeStart(c)
  BY DEF n, m, k, q
<1> QED
  BY <1>2, <1>5, <1>6, <1>7

\* Every statement of a call is one of six.
LEMMA StatementsOfCall ==
    ASSUME NEW c \in Calls, NEW p \in DOMAIN Plan[c]
    PROVE  \/ /\ c.op = "upsert" /\ p = 1
              /\ Plan[c][p] = Lock(DeviceRow(c.device))
           \/ /\ c.op = "upsert" /\ p = 2
              /\ Plan[c][p] = Delete(LinkRows(c.device))
           \/ /\ c.op = "upsert"
              /\ \E i \in 1 .. Len(c.tags) :
                    p = 2 * i + 1 /\ Plan[c][p] = Insert(TagRow(c.tags[i]))
           \/ /\ c.op = "upsert"
              /\ \E i \in 1 .. Len(c.tags) :
                    /\ p = 2 * i + 2
                    /\ Plan[c][p] = Insert(LinkRow(c.device, c.tags[i]))
           \/ p = TypeStart(c) /\ Plan[c][p] = Delete(TypeRows(c.device))
           \/ \E i \in 1 .. Len(c.types) :
                /\ p = TypeStart(c) + i
                /\ Plan[c][p] = Insert(TypeRow(c.device, c.types[i]))
<1> DEFINE n == Len(c.tags)
           m == Len(c.types)
<1>1. n \in Nat /\ m \in Nat
  BY CallShape
<1>2. p \in 1 .. TypeStart(c) + m
  BY PlanIsSeq
<1>3. CASE p >= TypeStart(c)
  <2>1. p = TypeStart(c) \/ p - TypeStart(c) \in 1 .. m
    BY <1>1, <1>2, <1>3, PlanIsSeq
  <2>2. p = TypeStart(c) + (p - TypeStart(c))
    BY <1>2, PlanIsSeq
  <2> QED
    BY <2>1, <2>2, TypesInPlan
<1>4. CASE p < TypeStart(c)
  <2>1. c.op = "upsert" /\ p \in 1 .. 2 * n + 2
    BY <1>1, <1>2, <1>4 DEF TypeStart
  <2>2. \/ p = 1 \/ p = 2
        \/ \E i \in 1 .. n : p = 2 * i + 1
        \/ \E i \in 1 .. n : p = 2 * i + 2
    <3>1. CASE p > 2 /\ p % 2 = 1
      <4>1. (p - 1) \div 2 \in 1 .. n /\ p = 2 * ((p - 1) \div 2) + 1
        BY <1>1, <2>1, <3>1
      <4> QED
        BY <4>1
    <3>2. CASE p > 2 /\ p % 2 # 1
      <4>1. (p - 2) \div 2 \in 1 .. n /\ p = 2 * ((p - 2) \div 2) + 2
        BY <1>1, <2>1, <3>2
      <4> QED
        BY <4>1
    <3> QED
      BY <2>1, <3>1, <3>2
  <2> QED
    BY <2>1, <2>2, UpsertPlan
<1> QED
  BY <1>2, <1>3, <1>4, PlanIsSeq

LEMMA StatementFacts ==
    ASSUME NEW c \in Calls, NEW p \in DOMAIN Plan[c]
    PROVE  /\ Plan[c][p].do \in {"lock", "insert", "delete"}
           /\ Plan[c][p].rows \subseteq AnyRow
           /\ Plan[c][p].rows \subseteq TagRows \cup RowsOf(c.device)
           /\ Plan[c][p].do = "delete" =>
                Plan[c][p].rows \subseteq
                    LinkRows(c.device) \cup TypeRows(c.device)
           /\ Plan[c][p].do = "lock" =>
                /\ c.op = "upsert" /\ p = 1
                /\ Plan[c][p].rows = {DeviceRow(c.device)}
           /\ Plan[c][p].do = "insert" =>
                \E row \in AnyRow : Plan[c][p] = Insert(row)
<1> DEFINE d == c.device
<1>1. d \in Devices
  BY CallShape
<1>2. \A i \in 1 .. Len(c.tags) : c.tags[i] \in Tags
  BY CallShape
<1>3. \A i \in 1 .. Len(c.types) : c.types[i] \in Types
  BY CallShape
<1>4. CASE c.op = "upsert" /\ p = 1 /\ Plan[c][p] = Lock(DeviceRow(d))
  BY <1>1, <1>4, StatementParts, RowsKnown DEF RowsOf
<1>5. CASE Plan[c][p] = Delete(LinkRows(d)) \/ Plan[c][p] = Delete(TypeRows(d))
  BY <1>1, <1>5, StatementParts, RowsKnown DEF RowsOf
<1>6. CASE \E i \in 1 .. Len(c.tags) : Plan[c][p] = Insert(TagRow(c.tags[i]))
  BY <1>1, <1>2, <1>6, StatementParts, RowsKnown DEF TagRows
<1>7. CASE \E i \in 1 .. Len(c.tags) : Plan[c][p] = Insert(LinkRow(d, c.tags[i]))
  BY <1>1, <1>2, <1>7, StatementParts, RowsKnown DEF RowsOf, LinkRows
<1>8. CASE \E i \in 1 .. Len(c.types) : Plan[c][p] = Insert(TypeRow(d, c.types[i]))
  BY <1>1, <1>3, <1>8, StatementParts, RowsKnown DEF RowsOf, TypeRows
<1> QED
  BY <1>4, <1>5, <1>6, <1>7, <1>8, StatementsOfCall

\* What a DELETE of a device names does not last.
LEMMA DeletesSpareLasting ==
    ASSUME NEW d
    PROVE  (LinkRows(d) \cup TypeRows(d)) \cap Lasting = {}
BY RowsDiffer DEF LinkRows, TypeRows, Lasting, TagRows

\* Links of a device and its types are different rows.
LEMMA LinksAreNoTypes ==
    \A d, e :
        /\ LinkRows(d) \cap TypeRows(e) = {}
        /\ DeviceRow(d) \notin LinkRows(e) \cup TypeRows(e)
        /\ \A t : /\ TagRow(t) \notin LinkRows(e) \cup TypeRows(e)
                  /\ LinkRow(d, t) \notin TypeRows(e)
                  /\ TypeRow(d, t) \notin LinkRows(e)
BY RowsDiffer DEF LinkRows, TypeRows

\* The tag statements of an upsert replace the links of its device.
LEMMA LinksAreReplaced ==
    ASSUME NEW c \in Calls, c.op = "upsert"
    PROVE  Replaces(c, LinkRows(c.device), 2)
<1> DEFINE K == LinkRows(c.device)
<1>1. Plan[c][2] = Delete(K)
  BY UpsertPlan
<1>2. 2 \in DOMAIN Plan[c]
  BY PositionsInPlan
<1>3. ASSUME NEW p \in DOMAIN Plan[c]
      PROVE  \/ Plan[c][p].rows \cap K = {}
             \/ p = 2
             \/ p > 2 /\ Plan[c][p].do = "insert"
  <2>1. CASE Plan[c][p] = Lock(DeviceRow(c.device))
    BY <2>1, StatementParts, LinksAreNoTypes
  <2>2. CASE Plan[c][p] = Delete(TypeRows(c.device))
    BY <2>2, StatementParts, LinksAreNoTypes
  <2>3. CASE \E i \in 1 .. Len(c.tags) : Plan[c][p] = Insert(TagRow(c.tags[i]))
    BY <2>3, StatementParts, LinksAreNoTypes
  <2>4. CASE \E i \in 1 .. Len(c.tags) :
                /\ p = 2 * i + 2
                /\ Plan[c][p] = Insert(LinkRow(c.device, c.tags[i]))
    BY <2>4, PositionsInPlan, StatementParts
  <2>5. CASE \E i \in 1 .. Len(c.types) :
                Plan[c][p] = Insert(TypeRow(c.device, c.types[i]))
    <3>1. PICK i \in 1 .. Len(c.types) :
              Plan[c][p] = Insert(TypeRow(c.device, c.types[i]))
      BY <2>5
    <3>2. Plan[c][p].rows = {TypeRow(c.device, c.types[i])}
      BY <3>1, StatementParts
    <3>3. TypeRow(c.device, c.types[i]) \notin K
      BY LinksAreNoTypes
    <3> QED
      BY <3>2, <3>3
  <2>6. CASE p = 2 /\ Plan[c][p] = Delete(K)
    BY <2>6
  <2> QED
    BY <2>1, <2>2, <2>3, <2>4, <2>5, <2>6, StatementsOfCall, Zenon
<1> QED
  BY <1>1, <1>2, <1>3 DEF Replaces

\* The type statements of a call replace the types of its device.
LEMMA TypesAreReplaced ==
    ASSUME NEW c \in Calls
    PROVE  Replaces(c, TypeRows(c.device), TypeStart(c))
<1> DEFINE K == TypeRows(c.device)
           q == TypeStart(c)
<1>1. Plan[c][q] = Delete(K)
  BY TypesInPlan
<1>2. q \in DOMAIN Plan[c]
  BY PositionsInPlan
<1>3. ASSUME NEW p \in DOMAIN Plan[c]
      PROVE  \/ Plan[c][p].rows \cap K = {}
             \/ p = q
             \/ p > q /\ Plan[c][p].do = "insert"
  <2>1. CASE Plan[c][p] = Lock(DeviceRow(c.device))
    BY <2>1, StatementParts, LinksAreNoTypes
  <2>2. CASE Plan[c][p] = Delete(LinkRows(c.device))
    BY <2>2, StatementParts, LinksAreNoTypes
  <2>3. CASE \E i \in 1 .. Len(c.tags) : Plan[c][p] = Insert(TagRow(c.tags[i]))
    BY <2>3, StatementParts, LinksAreNoTypes
  <2>4. CASE \E i \in 1 .. Len(c.tags) :
                Plan[c][p] = Insert(LinkRow(c.device, c.tags[i]))
    <3>1. PICK i \in 1 .. Len(c.tags) :
              Plan[c][p] = Insert(LinkRow(c.device, c.tags[i]))
      BY <2>4
    <3>2. Plan[c][p].rows = {LinkRow(c.device, c.tags[i])}
      BY <3>1, StatementParts
    <3>3. LinkRow(c.device, c.tags[i]) \notin K
      BY LinksAreNoTypes
    <3> QED
      BY <3>2, <3>3
  <2>5. CASE \E i \in 1 .. Len(c.types) :
                /\ p = q + i
                /\ Plan[c][p] = Insert(TypeRow(c.device, c.types[i]))
    <3>1. \A i \in 1 .. Len(c.types) : q + i > q
      BY PositionsInPlan
    <3> QED
      BY <2>5, <3>1, StatementParts
  <2>6. CASE p = q /\ Plan[c][p] = Delete(K)
    BY <2>6
  <2> QED
    BY <2>1, <2>2, <2>3, <2>4, <2>5, <2>6, StatementsOfCall, Zenon
<1> QED
  BY <1>1, <1>2, <1>3 DEF Replaces

LEMMA InsertsDiffer ==
    /\ \A r, s : Insert(r) = Insert(s) => r = s
    /\ \A r, s, S : Insert(r) # Lock(s) /\ Insert(r) # Delete(S)
<1>1. \A r, s : Insert(r) = Insert(s) => {r} = {s}
  BY StatementParts
<1>2. \A r, s, S : Insert(r) # Lock(s) /\ Insert(r) # Delete(S)
  BY StatementParts
<1> QED
  BY <1>1, <1>2

\* What the INSERTs of a call name.
LEMMA InsertOfCall ==
    ASSUME NEW c \in Calls, NEW p \in DOMAIN Plan[c],
           NEW row, Plan[c][p] = Insert(row)
    PROVE  \/ \E i \in 1 .. Len(c.tags) : p = 2 * i + 1 /\ row = TagRow(c.tags[i])
           \/ \E i \in 1 .. Len(c.tags) :
                p = 2 * i + 2 /\ row = LinkRow(c.device, c.tags[i])
           \/ \E i \in 1 .. Len(c.types) :
                p = TypeStart(c) + i /\ row = TypeRow(c.device, c.types[i])
<1>1. ASSUME NEW s, Insert(row) = Insert(s)
      PROVE  row = s
  BY <1>1, InsertsDiffer
<1>2. CASE \E i \in 1 .. Len(c.tags) :
              p = 2 * i + 1 /\ Plan[c][p] = Insert(TagRow(c.tags[i]))
  BY <1>1, <1>2
<1>3. CASE \E i \in 1 .. Len(c.tags) :
              p = 2 * i + 2 /\ Plan[c][p] = Insert(LinkRow(c.device, c.tags[i]))
  BY <1>1, <1>3
<1>4. CASE \E i \in 1 .. Len(c.types) :
              /\ p = TypeStart(c) + i
              /\ Plan[c][p] = Insert(TypeRow(c.device, c.types[i]))
  BY <1>1, <1>4
<1>5. CASE \/ Plan[c][p] = Lock(DeviceRow(c.device))
           \/ Plan[c][p] = Delete(LinkRows(c.device))
           \/ Plan[c][p] = Delete(TypeRows(c.device))
  BY <1>5, InsertsDiffer
<1> QED
  BY <1>2, <1>3, <1>4, <1>5, StatementsOfCall, Zenon

\* What an upsert inserts refers to rows it has locked or inserted before.
LEMMA ReferencesCome ==
    ASSUME NEW c \in Calls, c.op = "upsert", NEW p \in DOMAIN Plan[c],
           NEW row, Plan[c][p] = Insert(row)
    PROVE  /\ References(row) \subseteq Lasting
           /\ \A ref \in References(row) : \E k \in DOMAIN Plan[c] :
                /\ k < p /\ ref \in Plan[c][k].rows
                /\ Plan[c][k].do \in {"lock", "insert"}
<1> DEFINE d == c.device
<1>1. d \in Devices /\ \A i \in 1 .. Len(c.tags) : c.tags[i] \in Tags
  BY CallShape
<1>2. \A i \in 1 .. Len(c.types) : c.types[i] \in Types
  BY CallShape
<1>3. 1 \in DOMAIN Plan[c] /\ Plan[c][1] = Lock(DeviceRow(d))
  BY UpsertPlan, PositionsInPlan
<1>4. CASE \E i \in 1 .. Len(c.tags) : row = TagRow(c.tags[i])
  <2>1. References(row) = {}
    BY <1>4 DEF References, TagRow
  <2> QED
    BY <2>1
<1>5. CASE \E i \in 1 .. Len(c.tags) :
              p = 2 * i + 2 /\ row = LinkRow(d, c.tags[i])
  <2>1. PICK i \in 1 .. Len(c.tags) : p = 2 * i + 2 /\ row = LinkRow(d, c.tags[i])
    BY <1>5
  <2>2. References(row) = {DeviceRow(d), TagRow(c.tags[i])}
    BY <2>1 DEF References, LinkRow
  <2>3. i \in Nat /\ 2 * i + 1 \in Nat /\ 1 < p /\ 2 * i + 1 < p /\ 2 * i + 1 >= 1
    BY <2>1, CallShape
  <2>4. 2 * i + 1 \in DOMAIN Plan[c]
    BY <2>3, PlanIsSeq
  <2>5. Plan[c][2 * i + 1] = Insert(TagRow(c.tags[i]))
    BY UpsertPlan
  <2>6. DeviceRow(d) \in Lasting /\ TagRow(c.tags[i]) \in Lasting
    BY <1>1 DEF Lasting, TagRows
  <2> QED
    BY <1>3, <2>2, <2>3, <2>4, <2>5, <2>6, StatementParts
<1>6. CASE \E i \in 1 .. Len(c.types) :
              p = TypeStart(c) + i /\ row = TypeRow(d, c.types[i])
  <2>1. PICK i \in 1 .. Len(c.types) :
              p = TypeStart(c) + i /\ row = TypeRow(d, c.types[i])
    BY <1>6
  <2>2. References(row) = {DeviceRow(d)}
    BY <2>1 DEF References, TypeRow
  <2>3. 1 < p
    <3>1. TypeStart(c) = 2 * Len(c.tags) + 3
      BY DEF TypeStart
    <3> QED
      BY <2>1, <3>1, CallShape
  <2>4. DeviceRow(d) \in Lasting
    BY <1>1 DEF Lasting
  <2> QED
    BY <1>3, <2>2, <2>3, <2>4, StatementParts
<1> QED
  <2>1. \/ \E i \in 1 .. Len(c.tags) : row = TagRow(c.tags[i])
        \/ \E i \in 1 .. Len(c.tags) :
              p = 2 * i + 2 /\ row = LinkRow(d, c.tags[i])
        \/ \E i \in 1 .. Len(c.types) :
              p = TypeStart(c) + i /\ row = TypeRow(d, c.types[i])
    BY InsertOfCall
  <2> QED
    BY <2>1, <1>4, <1>5, <1>6

\* All the links an upsert inserts, and all the types of a call.
LEMMA LinksOfCall ==
    ASSUME NEW c \in Calls, c.op = "upsert"
    PROVE  InsertedBefore(c, Len(Plan[c]) + 1, LinkRows(c.device))
             = {LinkRow(c.device, t) : t \in Range(c.tags)}
<1> DEFINE d == c.device
<1>1. Range(c.tags) = {c.tags[i] : i \in 1 .. Len(c.tags)}
  <2>1. DOMAIN c.tags = 1 .. Len(c.tags)
    BY CallShape
  <2> QED
    BY <2>1 DEF Range
<1>2. ASSUME NEW row \in LinkRows(d), NEW i \in DOMAIN Plan[c],
             Plan[c][i] = Insert(row)
      PROVE  \E k \in 1 .. Len(c.tags) : row = LinkRow(d, c.tags[k])
  <2>1. \A t : row # TagRow(t) /\ row # TypeRow(d, t)
    BY LinksAreNoTypes, RowsDiffer DEF LinkRows
  <2> QED
    BY <1>2, <2>1, InsertOfCall
<1>3. ASSUME NEW k \in 1 .. Len(c.tags)
      PROVE  LinkRow(d, c.tags[k]) \in
                InsertedBefore(c, Len(Plan[c]) + 1, LinkRows(d))
  <2>1. Plan[c][2 * k + 2] = Insert(LinkRow(d, c.tags[k]))
    BY UpsertPlan
  <2>2. 2 * k + 2 \in DOMAIN Plan[c] /\ 2 * k + 2 < Len(Plan[c]) + 1
    BY PositionsInPlan
  <2>3. LinkRow(d, c.tags[k]) \in LinkRows(d)
    BY CallShape DEF LinkRows
  <2> QED
    BY <2>1, <2>2, <2>3 DEF InsertedBefore
<1> QED
  BY <1>1, <1>2, <1>3 DEF InsertedBefore

LEMMA TypesOfCall ==
    ASSUME NEW c \in Calls
    PROVE  InsertedBefore(c, Len(Plan[c]) + 1, TypeRows(c.device))
             = {TypeRow(c.device, y) : y \in Range(c.types)}
<1> DEFINE d == c.device
<1>1. Range(c.types) = {c.types[i] : i \in 1 .. Len(c.types)}
  <2>1. DOMAIN c.types = 1 .. Len(c.types)
    BY CallShape
  <2> QED
    BY <2>1 DEF Range
<1>2. ASSUME NEW row \in TypeRows(d), NEW i \in DOMAIN Plan[c],
             Plan[c][i] = Insert(row)
      PROVE  \E k \in 1 .. Len(c.types) : row = TypeRow(d, c.types[k])
  <2>1. \A t : row # TagRow(t) /\ row # LinkRow(d, t)
    BY LinksAreNoTypes, RowsDiffer DEF TypeRows
  <2> QED
    BY <1>2, <2>1, InsertOfCall
<1>3. ASSUME NEW k \in 1 .. Len(c.types)
      PROVE  TypeRow(d, c.types[k]) \in
                InsertedBefore(c, Len(Plan[c]) + 1, TypeRows(d))
  <2>1. Plan[c][TypeStart(c) + k] = Insert(TypeRow(d, c.types[k]))
    BY TypesInPlan
  <2>2. /\ TypeStart(c) + k \in DOMAIN Plan[c]
        /\ TypeStart(c) + k < Len(Plan[c]) + 1
    BY PositionsInPlan
  <2>3. TypeRow(d, c.types[k]) \in TypeRows(d)
    BY CallShape DEF TypeRows
  <2> QED
    BY <2>1, <2>2, <2>3 DEF InsertedBefore
<1> QED
  BY <1>1, <1>2, <1>3 DEF InsertedBefore

\* A tag inserted before another comes before it in the list of the call.
LEMMA TagsInOrder ==
    ASSUME NEW c \in Calls, NEW p \in DOMAIN Plan[c], NEW k \in DOMAIN Plan[c],
           NEW t, NEW u, k < p,
           Plan[c][p] = Insert(TagRow(t)), Plan[c][k] = Insert(TagRow(u))
    PROVE  \E i, j \in DOMAIN c.tags :
              i < j /\ c.tags[i] = u /\ c.tags[j] = t
<1>0. ASSUME NEW h \in DOMAIN Plan[c], NEW v, Plan[c][h] = Insert(TagRow(v))
      PROVE  \E i \in 1 .. Len(c.tags) : h = 2 * i + 1 /\ c.tags[i] = v
  <2> DEFINE row == TagRow(v)
  <2>1. Plan[c][h] = Insert(row)
    BY <1>0
  <2>2. /\ \A x : row = TagRow(x) => v = x
        /\ \A e, x : row # LinkRow(e, x) /\ row # TypeRow(e, x)
    BY RowsDiffer, RowsAreTheirs
  <2> HIDE DEF row
  <2>3. \/ \E i \in 1 .. Len(c.tags) : h = 2 * i + 1 /\ row = TagRow(c.tags[i])
        \/ \E i \in 1 .. Len(c.tags) :
             h = 2 * i + 2 /\ row = LinkRow(c.device, c.tags[i])
        \/ \E i \in 1 .. Len(c.types) :
             h = TypeStart(c) + i /\ row = TypeRow(c.device, c.types[i])
    BY <2>1, InsertOfCall
  <2> QED
    BY <2>2, <2>3
<1>1. PICK j \in 1 .. Len(c.tags) : p = 2 * j + 1 /\ c.tags[j] = t
  BY <1>0
<1>2. PICK i \in 1 .. Len(c.tags) : k = 2 * i + 1 /\ c.tags[i] = u
  BY <1>0
<1>3. i < j
  BY <1>1, <1>2, CallShape
<1>4. DOMAIN c.tags = 1 .. Len(c.tags)
  BY CallShape
<1> QED
  BY <1>1, <1>2, <1>3, <1>4
-----------------------------------------------------------------------------
(***************************************************************************)
(* What a step does.                                                       *)
(***************************************************************************)
LEMMA Moves ==
    ASSUME Next
    PROVE  \E w \in Workers :
              \/ Begin(w) \/ LockRow(w) \/ IndexSensor(w) \/ InsertRow(w)
              \/ FindRows(w) \/ DeleteRows(w) \/ Commit(w) \/ Rollback(w)
BY DEF Next, Step, SensorRefused, InsertRefused, BreakDeadlock, StatementFails

LEMMA BusyHasCall ==
    ASSUME TypeCorrect, NEW w \in Workers, Busy(w)
    PROVE  call[w] \in Calls
BY DEF TypeCorrect, Busy

LEMMA AtStatement ==
    ASSUME TypeCorrect, NEW w \in Workers, NEW do, At(w, do)
    PROVE  /\ Busy(w) /\ call[w] \in Calls
           /\ pos[w] \in DOMAIN Plan[call[w]]
           /\ Statement(w) = Plan[call[w]][pos[w]]
           /\ Statement(w).do = do
BY BusyHasCall DEF At, Statement

LEMMA AtLock ==
    ASSUME TypeCorrect, NEW w \in Workers, At(w, "lock")
    PROVE  /\ call[w].op = "upsert" /\ pos[w] = 1
           /\ TheRow(w) = DeviceRow(call[w].device)
           /\ Statement(w).rows = {TheRow(w)}
           /\ TheRow(w) \in AnyRow
<1>1. /\ call[w] \in Calls /\ pos[w] \in DOMAIN Plan[call[w]]
      /\ Statement(w) = Plan[call[w]][pos[w]] /\ Statement(w).do = "lock"
  BY AtStatement
<1>2. /\ call[w].op = "upsert" /\ pos[w] = 1
      /\ Statement(w).rows = {DeviceRow(call[w].device)}
      /\ Statement(w).rows \subseteq AnyRow
  BY <1>1, StatementFacts
<1>3. TheRow(w) = DeviceRow(call[w].device)
  BY <1>2 DEF TheRow
<1> QED
  BY <1>2, <1>3

LEMMA AtInsert ==
    ASSUME TypeCorrect, NEW w \in Workers, At(w, "insert")
    PROVE  /\ Statement(w) = Insert(TheRow(w))
           /\ Statement(w).rows = {TheRow(w)}
           /\ TheRow(w) \in AnyRow
<1>1. /\ call[w] \in Calls /\ pos[w] \in DOMAIN Plan[call[w]]
      /\ Statement(w) = Plan[call[w]][pos[w]] /\ Statement(w).do = "insert"
  BY AtStatement
<1>2. PICK row \in AnyRow : Statement(w) = Insert(row)
  BY <1>1, StatementFacts
<1>3. Statement(w).rows = {row}
  BY <1>2, StatementParts
<1>4. TheRow(w) = row
  BY <1>3 DEF TheRow
<1> QED
  BY <1>2, <1>3, <1>4

\* One statement at a time.
LEMMA OneStatement ==
    ASSUME NEW w, NEW do, At(w, do), NEW do2, At(w, do2)
    PROVE  do = do2
BY DEF At

LEMMA TargetIsDelete ==
    ASSUME Progress, NEW w \in Workers, target[w] # NoRows
    PROVE  /\ Busy(w) /\ At(w, "delete")
           /\ target[w] \subseteq Statement(w).rows
BY DEF Progress, Idle, OfPast

\* An executed statement is one of the past.
LEMMA PastGrows ==
    ASSUME TypeCorrect, NEW w \in Workers, Busy(w),
           pos[w] \in DOMAIN Plan[call[w]], Advance(w),
           NEW row, NEW kinds
    PROVE  Past(w, row, kinds)' <=>
              \/ Past(w, row, kinds)
              \/ row \in Statement(w).rows /\ Statement(w).do \in kinds
<1>1. call' = call /\ pos'[w] = pos[w] + 1
  BY DEF Advance, TypeCorrect
<1>2. DOMAIN Plan[call[w]] = 1 .. Len(Plan[call[w]]) /\ Len(Plan[call[w]]) \in Nat
  BY BusyHasCall, PlanIsSeq
<1>3. \A p \in DOMAIN Plan[call[w]] : p < pos[w] + 1 <=> p < pos[w] \/ p = pos[w]
  BY <1>2
<1> QED
  BY <1>1, <1>3 DEF Past, Statement

LEMMA InsertedGrows ==
    ASSUME NEW c \in Calls, NEW p \in DOMAIN Plan[c], NEW K
    PROVE  InsertedBefore(c, p + 1, K) =
              InsertedBefore(c, p, K) \cup {row \in K : Plan[c][p] = Insert(row)}
<1>1. DOMAIN Plan[c] = 1 .. Len(Plan[c]) /\ Len(Plan[c]) \in Nat
  BY PlanIsSeq
<1>2. \A i \in DOMAIN Plan[c] : i < p + 1 <=> i < p \/ i = p
  BY <1>1
<1> QED
  BY <1>2 DEF InsertedBefore
-----------------------------------------------------------------------------
(***************************************************************************)
(* The types.                                                              *)
(***************************************************************************)
LEMMA TypesNext ==
    ASSUME TypeCorrect, Progress, [Next]_vars
    PROVE  TypeCorrect'
<1>1. CASE UNCHANGED vars
  BY <1>1 DEF TypeCorrect, vars
<1>2. ASSUME NEW w \in Workers, Begin(w)
      PROVE  TypeCorrect'
  <2>1. call' \in [Workers -> Calls \cup {NoCall}]
    BY <1>2 DEF Begin, TypeCorrect
  <2> QED
    BY <1>2, <2>1 DEF Begin, TypeCorrect
<1>3. ASSUME NEW w \in Workers, LockRow(w)
      PROVE  TypeCorrect'
  <2>1. TheRow(w) \in AnyRow
    BY <1>3, AtLock DEF LockRow
  <2> QED
    BY <1>3, <2>1 DEF LockRow, Advance, TypeCorrect
<1>11. ASSUME NEW w \in Workers, IndexSensor(w)
       PROVE  TypeCorrect'
  BY <1>11 DEF IndexSensor, TypeCorrect
<1>4. ASSUME NEW w \in Workers, InsertRow(w)
      PROVE  TypeCorrect'
  <2>1. TheRow(w) \in AnyRow
    BY <1>4, AtInsert DEF InsertRow
  <2> QED
    BY <1>4, <2>1 DEF InsertRow, Advance, TypeCorrect
<1>5. ASSUME NEW w \in Workers, FindRows(w)
      PROVE  TypeCorrect'
  <2>1. Visible(w) \subseteq AnyRow
    BY DEF Visible, TypeCorrect
  <2>2. Statement(w).rows \cap Visible(w) \in SUBSET AnyRow
    BY <2>1
  <2> QED
    BY <1>5, <2>2 DEF FindRows, TypeCorrect
<1>6. ASSUME NEW w \in Workers, DeleteRows(w)
      PROVE  TypeCorrect'
  <2>1. target[w] \in SUBSET AnyRow
    BY <1>6 DEF DeleteRows, TypeCorrect
  <2> QED
    BY <1>6, <2>1 DEF DeleteRows, Advance, TypeCorrect
<1>7. ASSUME NEW w \in Workers, Release(w)
      PROVE  /\ call' \in [Workers -> Calls \cup {NoCall}]
             /\ pos' \in [Workers -> Nat \ {0}]
             /\ locked' \in [Workers -> SUBSET AnyRow]
             /\ added' \in [Workers -> SUBSET AnyRow]
             /\ gone' \in [Workers -> SUBSET AnyRow]
             /\ pending' \in [Workers -> BOOLEAN]
  BY <1>7 DEF Release, TypeCorrect
<1>8. ASSUME NEW w \in Workers, Rollback(w)
      PROVE  TypeCorrect'
  <2>1. late' \in [Workers -> SUBSET AnyRow]
    BY <1>8 DEF Rollback, TypeCorrect
  <2> QED
    BY <1>8, <1>7, <2>1 DEF Rollback, TypeCorrect
<1>9. ASSUME NEW w \in Workers, Commit(w)
      PROVE  TypeCorrect'
  <2>1. rows' \subseteq AnyRow
    <3>1. rows \subseteq AnyRow /\ added[w] \subseteq AnyRow
      BY DEF TypeCorrect
    <3> QED
      BY <1>9, <3>1 DEF Commit, Visible
  <2>2. target' \in [Workers -> (SUBSET AnyRow) \cup {NoRows}]
    <3>1. ASSUME NEW v \in Workers, target[v] # NoRows
          PROVE  target[v] \ gone[w] \in SUBSET AnyRow
      <4>1. target[v] \in SUBSET AnyRow
        BY <3>1 DEF TypeCorrect
      <4> QED
        BY <4>1
    <3> QED
      BY <1>9, <3>1 DEF Commit
  <2>3. latest' \in [Devices -> Calls \cup {NoCall}]
    BY <1>9 DEF Commit, TypeCorrect
  <2>4. late' \in [Workers -> SUBSET AnyRow]
    <3>1. \A v \in Workers :
            late[v] \in SUBSET AnyRow /\ added[v] \in SUBSET AnyRow
      BY DEF TypeCorrect
    <3> QED
      BY <1>9, <3>1 DEF Commit
  <2>5. Release(w)
    BY <1>9 DEF Commit
  <2> QED
    BY <2>1, <2>2, <2>3, <2>4, <2>5, <1>7 DEF TypeCorrect
<1> QED
  BY <1>1, <1>2, <1>3, <1>4, <1>5, <1>6, <1>8, <1>9, <1>11, Moves
-----------------------------------------------------------------------------
(***************************************************************************)
(* How a transaction gets on, and what the others leave it.                *)
(***************************************************************************)
\* Rows that no DELETE names are never deleted.
LEMMA LastingKept ==
    ASSUME TypeCorrect, Progress, NEW w \in Workers, Commit(w)
    PROVE  rows \cap Lasting \subseteq rows'
<1>1. Busy(w) /\ rows' = (rows \ gone[w]) \cup added[w]
  BY DEF Commit, Visible
<1>2. ASSUME NEW row \in gone[w]
      PROVE  row \notin Lasting
  <2>1. Past(w, row, {"delete"})
    BY <1>1 DEF Progress, OfPast
  <2>2. PICK p \in DOMAIN Plan[call[w]] :
            row \in Plan[call[w]][p].rows /\ Plan[call[w]][p].do = "delete"
    BY <2>1 DEF Past
  <2>3. row \in LinkRows(call[w].device) \cup TypeRows(call[w].device)
    BY <1>1, <2>2, BusyHasCall, StatementFacts
  <2> QED
    BY <2>3, DeletesSpareLasting
<1> QED
  BY <1>1, <1>2

\* A transaction that does not move stays where it is.
LEMMA Unmoved ==
    ASSUME NEW w, IF Busy(w) THEN OfPast(w) ELSE Idle(w),
           call'[w] = call[w], pos'[w] = pos[w], locked'[w] = locked[w],
           added'[w] = added[w], gone'[w] = gone[w], pending'[w] = pending[w],
           Busy(w) \/ late'[w] = late[w],
           \/ target'[w] = NoRows
           \/ target[w] # NoRows /\ target'[w] \subseteq target[w],
           rows \cap Lasting \subseteq rows'
    PROVE  (IF Busy(w) THEN OfPast(w) ELSE Idle(w))'
<1>1. Busy(w)' <=> Busy(w)
  BY DEF Busy
<1>2. \A row, kinds : Past(w, row, kinds)' <=> Past(w, row, kinds)
  BY DEF Past
<1>3. CASE Busy(w)
  <2>1. target'[w] # NoRows =>
            At(w, "delete")' /\ target'[w] \subseteq Statement(w)'.rows
    BY <1>3 DEF OfPast, At, Statement, Busy
  <2> QED
    BY <1>1, <1>2, <1>3, <2>1 DEF OfPast
<1>4. CASE ~Busy(w)
  BY <1>1, <1>4 DEF Idle
<1> QED
  BY <1>3, <1>4

LEMMA LockRowProgress ==
    ASSUME TypeCorrect, Progress, NEW w \in Workers, LockRow(w)
    PROVE  OfPast(w)' /\ Busy(w)'
<1>1. /\ At(w, "lock") /\ Busy(w) /\ pos[w] \in DOMAIN Plan[call[w]]
      /\ Statement(w).do = "lock" /\ OfPast(w) /\ Advance(w)
  BY AtStatement DEF LockRow, Progress
<1>2. /\ locked'[w] = locked[w] \cup {TheRow(w)}
      /\ added'[w] = added[w] \cup ({TheRow(w)} \ rows)
      /\ gone'[w] = gone[w] /\ rows' = rows /\ call' = call
      /\ pos'[w] = pos[w] + 1
      /\ target' = target
  BY DEF LockRow, Advance, TypeCorrect
<1>3. Statement(w).rows = {TheRow(w)}
  BY <1>1, AtLock
<1>4. target[w] = NoRows
  BY <1>1, TargetIsDelete, OneStatement
<1>5. pos'[w] <= Len(Plan[call[w]]) + 1
  BY <1>1, <1>2, BusyHasCall, PositionsInPlan, PlanIsSeq
<1>6. \A row, kinds : Past(w, row, kinds)' <=>
          Past(w, row, kinds) \/ (row = TheRow(w) /\ "lock" \in kinds)
  BY <1>1, <1>3, PastGrows
<1>7. Busy(w)'
  BY <1>1, <1>2 DEF Busy
<1>8. call[w].op = "upsert" /\ pos'[w] = 2
  BY <1>1, <1>2, AtLock
<1> QED
  BY <1>1, <1>2, <1>4, <1>5, <1>6, <1>7, <1>8 DEF OfPast

LEMMA IndexSensorProgress ==
    ASSUME TypeCorrect, Progress, NEW w \in Workers, IndexSensor(w)
    PROVE  OfPast(w)' /\ Busy(w)'
<1>1. /\ UNCHANGED <<rows, call, pos, locked, added, gone, target>>
      /\ pending[w] /\ ~pending'[w]
  BY DEF IndexSensor, TypeCorrect
<1>2. Busy(w) /\ OfPast(w)
  BY <1>1 DEF Progress, Idle
<1>3. target[w] = NoRows
  BY <1>1, TargetIsDelete DEF At
<1>4. \A row, kinds : Past(w, row, kinds)' <=> Past(w, row, kinds)
  BY <1>1 DEF Past
<1> QED
  BY <1>1, <1>2, <1>3, <1>4 DEF OfPast, Busy

LEMMA InsertRowProgress ==
    ASSUME TypeCorrect, Progress, NEW w \in Workers, InsertRow(w)
    PROVE  OfPast(w)' /\ Busy(w)'
<1>1. /\ At(w, "insert") /\ Busy(w) /\ pos[w] \in DOMAIN Plan[call[w]]
      /\ Statement(w).do = "insert" /\ OfPast(w) /\ Advance(w)
  BY AtStatement DEF InsertRow, Progress
<1>2. /\ locked' = locked
      /\ added'[w] = added[w] \cup ({TheRow(w)} \ Visible(w))
      /\ gone'[w] = gone[w] /\ rows' = rows /\ call' = call
      /\ pos'[w] = pos[w] + 1
      /\ target' = target /\ pending' = pending /\ ~pending[w]
  BY <1>1 DEF InsertRow, At, Advance, TypeCorrect
<1>3. Statement(w).rows = {TheRow(w)}
  BY <1>1, AtInsert
<1>4. target[w] = NoRows
  BY <1>1, TargetIsDelete, OneStatement
<1>5. pos'[w] <= Len(Plan[call[w]]) + 1
  BY <1>1, <1>2, BusyHasCall, PositionsInPlan, PlanIsSeq
<1>6. \A row, kinds : Past(w, row, kinds)' <=>
          Past(w, row, kinds) \/ (row = TheRow(w) /\ "insert" \in kinds)
  BY <1>1, <1>3, PastGrows
<1>7. Busy(w)'
  BY <1>1, <1>2 DEF Busy
<1>8. TheRow(w) \in rows \cup added'[w]
  BY <1>2 DEF Visible
<1> QED
  BY <1>1, <1>2, <1>4, <1>5, <1>6, <1>7, <1>8 DEF OfPast

LEMMA DeleteRowsProgress ==
    ASSUME TypeCorrect, Progress, NEW w \in Workers, DeleteRows(w)
    PROVE  OfPast(w)' /\ Busy(w)'
<1>1. At(w, "delete") /\ target[w] \subseteq Statement(w).rows
  BY TargetIsDelete DEF DeleteRows
<1>2. /\ Busy(w) /\ pos[w] \in DOMAIN Plan[call[w]]
      /\ Statement(w).do = "delete" /\ OfPast(w) /\ Advance(w)
  BY <1>1, AtStatement DEF DeleteRows, Progress
<1>3. /\ locked' = locked /\ added' = added
      /\ gone'[w] = gone[w] \cup target[w] /\ rows' = rows /\ call' = call
      /\ pos'[w] = pos[w] + 1
      /\ target'[w] = NoRows /\ pending' = pending /\ ~pending[w]
  BY <1>1 DEF At, DeleteRows, Advance, TypeCorrect
<1>4. pos'[w] <= Len(Plan[call[w]]) + 1
  BY <1>2, <1>3, BusyHasCall, PositionsInPlan, PlanIsSeq
<1>5. \A row, kinds : Past(w, row, kinds)' <=>
          Past(w, row, kinds) \/ (row \in Statement(w).rows /\ "delete" \in kinds)
  BY <1>2, PastGrows
<1>6. Busy(w)'
  BY <1>2, <1>3 DEF Busy
<1> QED
  BY <1>1, <1>2, <1>3, <1>4, <1>5, <1>6 DEF OfPast

LEMMA FindRowsProgress ==
    ASSUME TypeCorrect, Progress, NEW w \in Workers, FindRows(w)
    PROVE  OfPast(w)' /\ Busy(w)'
<1>1. At(w, "delete") /\ Busy(w) /\ OfPast(w)
  BY AtStatement DEF FindRows, Progress
<1>2. /\ UNCHANGED <<rows, call, pos, locked, added, gone, pending>>
      /\ target'[w] = Statement(w).rows \cap Visible(w)
  BY DEF FindRows, TypeCorrect
<1>3. At(w, "delete")' /\ target'[w] \subseteq Statement(w)'.rows /\ Busy(w)'
  BY <1>1, <1>2 DEF At, Statement, Busy
<1>4. \A row, kinds : Past(w, row, kinds)' <=> Past(w, row, kinds)
  BY <1>2 DEF Past
<1> QED
  BY <1>1, <1>2, <1>3, <1>4 DEF OfPast

LEMMA ReleaseProgress ==
    ASSUME TypeCorrect, NEW w \in Workers, Release(w), target'[w] = NoRows,
           late'[w] = {}
    PROVE  Idle(w)' /\ ~Busy(w)'
BY DEF Release, TypeCorrect, Idle, Busy

LEMMA BeginProgress ==
    ASSUME TypeCorrect, Progress, NEW w \in Workers, Begin(w)
    PROVE  OfPast(w)' /\ Busy(w)'
<1>1. Idle(w) /\ UNCHANGED <<rows, pos, locked, added, gone, target, pending, late>>
  BY DEF Begin, Progress
<1>2. call'[w] \in Calls
  BY DEF Begin, TypeCorrect
<1>3. Busy(w)'
  BY <1>2, NoneIsCall DEF Busy
<1>4. 1 <= Len(Plan[call'[w]]) + 1
  BY <1>2, PlanIsSeq
<1>5. \A row, kinds : ~Past(w, row, kinds)'
  BY <1>1, <1>2, PositionsInPlan DEF Past, Idle
<1> QED
  BY <1>1, <1>3, <1>4, <1>5 DEF OfPast, Idle

LEMMA ProgressNext ==
    ASSUME TypeCorrect, Progress, [Next]_vars
    PROVE  Progress'
<1> DEFINE Where(w) == IF Busy(w) THEN OfPast(w) ELSE Idle(w)
<1>1. \A v \in Workers : Where(v)
  BY DEF Progress
<1>2. CASE UNCHANGED vars
  BY <1>1, <1>2, Unmoved DEF vars, Progress
<1>3. ASSUME NEW w \in Workers,
             \/ Begin(w) \/ LockRow(w) \/ IndexSensor(w) \/ InsertRow(w)
             \/ FindRows(w) \/ DeleteRows(w) \/ Rollback(w),
             NEW v \in Workers, v # w
      PROVE  Where(v)'
  <2>1. /\ call'[v] = call[v] /\ pos'[v] = pos[v] /\ locked'[v] = locked[v]
        /\ added'[v] = added[v] /\ gone'[v] = gone[v]
        /\ target'[v] = target[v] /\ pending'[v] = pending[v]
        /\ late'[v] = late[v] /\ rows' = rows
    BY <1>3 DEF Begin, LockRow, IndexSensor, InsertRow, FindRows, DeleteRows, Rollback,
                Release, Advance, TypeCorrect
  <2> QED
    BY <1>1, <2>1, Unmoved
<1>4. ASSUME NEW w \in Workers, Commit(w), NEW v \in Workers, v # w
      PROVE  Where(v)'
  <2>1. /\ call'[v] = call[v] /\ pos'[v] = pos[v] /\ locked'[v] = locked[v]
        /\ added'[v] = added[v] /\ gone'[v] = gone[v]
        /\ pending'[v] = pending[v] /\ (Busy(v) \/ late'[v] = late[v])
    BY <1>4 DEF Commit, Release, Overlap, TypeCorrect
  <2>2. target'[v] = IF target[v] = NoRows THEN NoRows ELSE target[v] \ gone[w]
    BY <1>4 DEF Commit
  <2>3. rows \cap Lasting \subseteq rows'
    BY <1>4, LastingKept
  <2> QED
    BY <1>1, <2>1, <2>2, <2>3, Unmoved
<1>5. ASSUME NEW w \in Workers,
             \/ Begin(w) \/ LockRow(w) \/ IndexSensor(w) \/ InsertRow(w)
             \/ FindRows(w) \/ DeleteRows(w)
      PROVE  Where(w)'
  BY <1>5, BeginProgress, LockRowProgress, IndexSensorProgress,
     InsertRowProgress, FindRowsProgress, DeleteRowsProgress
<1>6. ASSUME NEW w \in Workers, Rollback(w)
      PROVE  Where(w)'
  <2>1. Release(w) /\ target'[w] = NoRows /\ late'[w] = {}
    BY <1>6 DEF Rollback, TypeCorrect
  <2> QED
    BY <2>1, ReleaseProgress
<1>7. ASSUME NEW w \in Workers, Commit(w)
      PROVE  Where(w)'
  <2>1. Release(w)
    BY <1>7 DEF Commit
  <2>2. At(w, "delete") => FALSE
    BY <1>7, AtStatement, PositionsInPlan DEF Commit
  <2>3. target[w] = NoRows
    BY <2>2, TargetIsDelete
  <2>4. target'[w] = NoRows /\ late'[w] = {}
    BY <1>7, <2>3 DEF Commit
  <2> QED
    BY <2>1, <2>4, ReleaseProgress
<1> QED
  BY <1>2, <1>3, <1>4, <1>5, <1>6, <1>7, Moves DEF Progress
-----------------------------------------------------------------------------
(***************************************************************************)
(* No two hold a row.                                                      *)
(***************************************************************************)
\* What is taken was nobody's.
LEMMA TakenIsFree ==
    ASSUME NEW w \in Workers, At(w, "lock") \/ At(w, "insert"), ~Waits(w),
           NEW v \in Workers, v # w
    PROVE  TheRow(w) \notin locked[v] \cup added[v]
BY DEF Waits, WaitsFor, Written

LEMMA ExclusiveNext ==
    ASSUME TypeCorrect, Exclusive, [Next]_vars
    PROVE  Exclusive'
<1>1. CASE UNCHANGED <<locked, added>>
  BY <1>1 DEF Exclusive
<1>2. ASSUME NEW w \in Workers, LockRow(w) \/ InsertRow(w)
      PROVE  Exclusive'
  <2>1. /\ \A v \in Workers : v # w =>
              locked'[v] = locked[v] /\ added'[v] = added[v]
        /\ locked'[w] \subseteq locked[w] \cup {TheRow(w)}
        /\ added'[w] \subseteq added[w] \cup {TheRow(w)}
    BY <1>2 DEF LockRow, InsertRow, TypeCorrect
  <2>2. \A v \in Workers : v # w =>
            TheRow(w) \notin locked[v] \cup added[v]
    BY <1>2, TakenIsFree DEF LockRow, InsertRow
  <2> QED
    BY <2>1, <2>2 DEF Exclusive
<1>3. ASSUME NEW w \in Workers, Release(w)
      PROVE  Exclusive'
  <2>1. \A v \in Workers : /\ locked'[v] \subseteq locked[v]
                           /\ added'[v] \subseteq added[v]
    BY <1>3 DEF Release, TypeCorrect
  <2> QED
    BY <2>1 DEF Exclusive
<1> QED
  BY <1>1, <1>2, <1>3, Moves
     DEF vars, Begin, IndexSensor, FindRows, DeleteRows, Commit, Rollback

-----------------------------------------------------------------------------
(***************************************************************************)
(* A DELETE and the INSERTs behind it replace rows.                        *)
(***************************************************************************)
LEMMA ReplacingBegins ==
    ASSUME TypeCorrect, Progress, NEW w \in Workers, Begin(w),
           NEW K, NEW q, Replaces(call'[w], K, q)
    PROVE  Replacing(w, K, q)'
<1>1. Idle(w)' /\ call'[w] \in Calls
  BY DEF Begin, Progress, Idle, TypeCorrect
<1>2. q \in Nat /\ q >= 1
  BY <1>1, PositionsInPlan DEF Replaces
<1>3. InsertedBefore(call'[w], 1, K) = {}
  BY <1>1, PositionsInPlan DEF InsertedBefore
<1> QED
  BY <1>1, <1>2, <1>3 DEF Idle, Replacing

LEMMA ReplacingUnmoved ==
    ASSUME NEW w, NEW K, NEW q, Replacing(w, K, q), call'[w] = call[w],
           pos'[w] = pos[w], added'[w] = added[w], gone'[w] = gone[w],
           target'[w] = target[w], rows' \cap K = rows \cap K
    PROVE  Replacing(w, K, q)'
BY DEF Replacing, InsertedBefore

LEMMA LockRowReplacing ==
    ASSUME TypeCorrect, Progress, NEW w \in Workers, LockRow(w),
           NEW K, NEW q, Replaces(call[w], K, q), Replacing(w, K, q)
    PROVE  Replacing(w, K, q)'
<1>1. /\ At(w, "lock") /\ Busy(w) /\ pos[w] \in DOMAIN Plan[call[w]]
      /\ call[w] \in Calls /\ Statement(w) = Plan[call[w]][pos[w]]
      /\ Statement(w).do = "lock"
  BY AtStatement DEF LockRow
<1>2. Statement(w).rows = {TheRow(w)}
  BY <1>1, AtLock
<1>3. TheRow(w) \notin K /\ pos[w] # q
  BY <1>1, <1>2, StatementParts DEF Replaces
<1>4. /\ added'[w] \cap K = added[w] \cap K
      /\ gone'[w] = gone[w] /\ rows' = rows /\ call' = call
      /\ pos'[w] = pos[w] + 1
      /\ target' = target
  BY <1>3 DEF LockRow, Advance, TypeCorrect
<1>5. target[w] = NoRows
  BY <1>1, TargetIsDelete, OneStatement
<1>6. InsertedBefore(call[w], pos[w] + 1, K) = InsertedBefore(call[w], pos[w], K)
  <2>1. \A row : Plan[call[w]][pos[w]] # Insert(row)
    BY <1>1, StatementParts
  <2>2. InsertedBefore(call[w], pos[w] + 1, K) =
            InsertedBefore(call[w], pos[w], K)
              \cup {row \in K : Plan[call[w]][pos[w]] = Insert(row)}
    BY <1>1, InsertedGrows
  <2> QED
    BY <2>1, <2>2
<1>7. pos[w] \in Nat /\ q \in Nat
  BY <1>1, PositionsInPlan DEF Replaces
<1> QED
  BY <1>3, <1>4, <1>5, <1>6, <1>7 DEF Replacing

LEMMA InsertRowReplacing ==
    ASSUME TypeCorrect, Progress, NEW w \in Workers, InsertRow(w),
           NEW K, NEW q, Replaces(call[w], K, q), Replacing(w, K, q)
    PROVE  Replacing(w, K, q)'
<1>1. /\ At(w, "insert") /\ Busy(w) /\ pos[w] \in DOMAIN Plan[call[w]]
      /\ call[w] \in Calls /\ Statement(w) = Plan[call[w]][pos[w]]
      /\ Statement(w).do = "insert"
  BY AtStatement DEF InsertRow
<1>2. Statement(w).rows = {TheRow(w)} /\ Statement(w) = Insert(TheRow(w))
  BY <1>1, AtInsert
<1>3. pos[w] # q /\ (TheRow(w) \in K => pos[w] > q)
  <2>1. pos[w] # q
    BY <1>1, StatementParts DEF Replaces
  <2>2. TheRow(w) \in K => Plan[call[w]][pos[w]].rows \cap K # {}
    BY <1>1, <1>2
  <2> QED
    BY <1>1, <2>1, <2>2 DEF Replaces
<1>4. /\ added'[w] = added[w] \cup ({TheRow(w)} \ Visible(w))
      /\ gone'[w] = gone[w] /\ rows' = rows /\ call' = call
      /\ pos'[w] = pos[w] + 1
      /\ target' = target
  BY DEF InsertRow, Advance, TypeCorrect
<1>5. target[w] = NoRows
  BY <1>1, TargetIsDelete, OneStatement
<1>6. InsertedBefore(call[w], pos[w] + 1, K) =
          InsertedBefore(call[w], pos[w], K) \cup ({TheRow(w)} \cap K)
  <2>1. \A row : Insert(row) = Statement(w) <=> row = TheRow(w)
    BY <1>2, InsertsDiffer
  <2> QED
    BY <1>1, <2>1, InsertedGrows
<1>7. added'[w] \cap K = (added[w] \cap K) \cup ({TheRow(w)} \cap K)
  <2>1. CASE TheRow(w) \in K
    <3>1. rows \cap K \subseteq gone[w]
      BY <1>3, <2>1 DEF Replacing
    <3> QED
      BY <1>4, <2>1, <3>1 DEF Visible
  <2>2. CASE TheRow(w) \notin K
    BY <1>4, <2>2
  <2> QED
    BY <2>1, <2>2
<1>8. pos[w] \in Nat /\ q \in Nat
  BY <1>1, PositionsInPlan DEF Replaces
<1> QED
  BY <1>3, <1>4, <1>5, <1>6, <1>7, <1>8 DEF Replacing

LEMMA FindRowsReplacing ==
    ASSUME TypeCorrect, Progress, NEW w \in Workers, FindRows(w),
           NEW K, NEW q, Replaces(call[w], K, q), Replacing(w, K, q)
    PROVE  Replacing(w, K, q)'
<1>1. /\ Busy(w) /\ pos[w] \in DOMAIN Plan[call[w]]
      /\ call[w] \in Calls /\ Statement(w) = Plan[call[w]][pos[w]]
  BY AtStatement DEF FindRows
<1>2. /\ UNCHANGED <<rows, call, pos, added, gone>>
      /\ target'[w] = Statement(w).rows \cap Visible(w)
  BY DEF FindRows, TypeCorrect
<1>3. ASSUME pos[w] = q
      PROVE  target'[w] = rows \cap K
  <2>1. Statement(w).rows = K
    BY <1>1, <1>3, StatementParts DEF Replaces
  <2>2. q \in Nat
    BY <1>1, PositionsInPlan DEF Replaces
  <2>3. gone[w] \cap K = {}
    BY <1>3, <2>2 DEF Replacing
  <2>4. added[w] \cap K = {}
    <3>1. ASSUME NEW row \in K, NEW i \in DOMAIN Plan[call[w]], i < q,
                 Plan[call[w]][i] = Insert(row)
          PROVE  FALSE
      <4>1. Plan[call[w]][i].rows \cap K # {}
        BY <3>1, StatementParts
      <4>2. i \in Nat /\ q \in Nat
        BY <1>1, <2>2, PositionsInPlan
      <4> QED
        BY <3>1, <4>1, <4>2 DEF Replaces
    <3> QED
      BY <1>3, <3>1 DEF Replacing, InsertedBefore
  <2> QED
    BY <1>2, <2>1, <2>3, <2>4 DEF Visible
<1> QED
  BY <1>2, <1>3 DEF Replacing, InsertedBefore

LEMMA DeleteRowsReplacing ==
    ASSUME TypeCorrect, Progress, NEW w \in Workers, DeleteRows(w),
           NEW K, NEW q, Replaces(call[w], K, q), Replacing(w, K, q)
    PROVE  Replacing(w, K, q)'
<1>1. /\ At(w, "delete") /\ target[w] \subseteq Statement(w).rows
      /\ target[w] # NoRows
  BY TargetIsDelete DEF DeleteRows
<1>2. /\ Busy(w) /\ pos[w] \in DOMAIN Plan[call[w]]
      /\ call[w] \in Calls /\ Statement(w) = Plan[call[w]][pos[w]]
      /\ Statement(w).do = "delete"
  BY <1>1, AtStatement
<1>3. /\ added' = added /\ gone'[w] = gone[w] \cup target[w]
      /\ rows' = rows /\ call' = call /\ pos'[w] = pos[w] + 1
      /\ target'[w] = NoRows
  BY DEF DeleteRows, Advance, TypeCorrect
<1>4. InsertedBefore(call[w], pos[w] + 1, K) = InsertedBefore(call[w], pos[w], K)
  <2>1. \A row : Plan[call[w]][pos[w]] # Insert(row)
    BY <1>2, StatementParts
  <2>2. InsertedBefore(call[w], pos[w] + 1, K) =
            InsertedBefore(call[w], pos[w], K)
              \cup {row \in K : Plan[call[w]][pos[w]] = Insert(row)}
    BY <1>2, InsertedGrows
  <2> QED
    BY <2>1, <2>2
<1>5. pos[w] \in Nat /\ q \in Nat
  BY <1>2, PositionsInPlan DEF Replaces
<1>6. CASE pos[w] = q
  BY <1>1, <1>3, <1>4, <1>5, <1>6 DEF Replacing
<1>7. CASE pos[w] # q
  <2>1. target[w] \cap K = {}
    BY <1>1, <1>2, <1>7 DEF Replaces
  <2> QED
    BY <1>3, <1>4, <1>5, <1>7, <2>1 DEF Replacing
<1> QED
  BY <1>6, <1>7

\* A commit of another, which has none of the rows, or before the DELETE.
LEMMA OthersCommit ==
    ASSUME TypeCorrect, Progress, NEW v \in Workers, Commit(v),
           NEW w \in Workers, v # w, Busy(w),
           NEW K, NEW q, Replaces(call[w], K, q), Replacing(w, K, q),
           pos[w] < q \/ (gone[v] \cap K = {} /\ added[v] \cap K = {})
    PROVE  Replacing(w, K, q)'
<1>1. /\ call'[w] = call[w] /\ pos'[w] = pos[w]
      /\ added'[w] = added[w] /\ gone'[w] = gone[w]
      /\ target'[w] = IF target[w] = NoRows THEN NoRows ELSE target[w] \ gone[v]
      /\ rows' = (rows \ gone[v]) \cup added[v]
  BY DEF Commit, Release, Visible, TypeCorrect
<1>2. pos[w] \in Nat /\ q \in Nat
  BY BusyHasCall, PositionsInPlan DEF Replaces, TypeCorrect
<1>3. CASE pos[w] < q
  BY <1>1, <1>2, <1>3 DEF Replacing, InsertedBefore
<1>4. CASE gone[v] \cap K = {} /\ added[v] \cap K = {}
  <2>1. rows' \cap K = rows \cap K
    BY <1>1, <1>4
  <2>2. pos[w] = q /\ target'[w] # NoRows => target'[w] = rows \cap K
    BY <1>1, <1>4 DEF Replacing
  <2> QED
    BY <1>1, <2>1, <2>2 DEF Replacing, InsertedBefore
<1> QED
  BY <1>3, <1>4

LEMMA MixingBegins ==
    ASSUME TypeCorrect, Progress, NEW w \in Workers, Begin(w),
           NEW K, NEW q, Replaces(call'[w], K, q)
    PROVE  Mixing(w, K, q)'
<1>1. Idle(w)' /\ call'[w] \in Calls
  BY DEF Begin, Progress, Idle, TypeCorrect
<1>2. q \in Nat /\ q >= 1
  BY <1>1, PositionsInPlan DEF Replaces
<1>3. InsertedBefore(call'[w], 1, K) = {}
  BY <1>1, PositionsInPlan DEF InsertedBefore
<1> QED
  BY <1>1, <1>2, <1>3 DEF Idle, Mixing

LEMMA MixingUnmoved ==
    ASSUME NEW w, NEW K, NEW q, Mixing(w, K, q), call'[w] = call[w],
           pos'[w] = pos[w], added'[w] = added[w], gone'[w] = gone[w],
           target'[w] = target[w], late'[w] = late[w], rows' = rows
    PROVE  Mixing(w, K, q)'
BY DEF Mixing, InsertedBefore

LEMMA LockRowMixing ==
    ASSUME TypeCorrect, Progress, NEW w \in Workers, LockRow(w),
           NEW K, NEW q, Replaces(call[w], K, q), Mixing(w, K, q)
    PROVE  Mixing(w, K, q)'
<1>1. /\ At(w, "lock") /\ Busy(w) /\ pos[w] \in DOMAIN Plan[call[w]]
      /\ call[w] \in Calls /\ Statement(w) = Plan[call[w]][pos[w]]
      /\ Statement(w).do = "lock"
  BY AtStatement DEF LockRow
<1>2. Statement(w).rows = {TheRow(w)}
  BY <1>1, AtLock
<1>3. TheRow(w) \notin K /\ pos[w] # q
  BY <1>1, <1>2, StatementParts DEF Replaces
<1>4. /\ added'[w] \cap K = added[w] \cap K /\ added[w] \subseteq added'[w]
      /\ gone'[w] = gone[w] /\ rows' = rows /\ call' = call
      /\ pos'[w] = pos[w] + 1
      /\ target' = target /\ late' = late
  BY <1>3 DEF LockRow, Advance, TypeCorrect
<1>5. target[w] = NoRows
  BY <1>1, TargetIsDelete, OneStatement
<1>6. InsertedBefore(call[w], pos[w] + 1, K) = InsertedBefore(call[w], pos[w], K)
  <2>1. \A row : Plan[call[w]][pos[w]] # Insert(row)
    BY <1>1, StatementParts
  <2>2. InsertedBefore(call[w], pos[w] + 1, K) =
            InsertedBefore(call[w], pos[w], K)
              \cup {row \in K : Plan[call[w]][pos[w]] = Insert(row)}
    BY <1>1, InsertedGrows
  <2> QED
    BY <2>1, <2>2
<1>7. pos[w] \in Nat /\ q \in Nat
  BY <1>1, PositionsInPlan DEF Replaces
<1> QED
  BY <1>3, <1>4, <1>5, <1>6, <1>7 DEF Mixing

LEMMA InsertRowMixing ==
    ASSUME TypeCorrect, Progress, NEW w \in Workers, InsertRow(w),
           NEW K, NEW q, Replaces(call[w], K, q), Mixing(w, K, q)
    PROVE  Mixing(w, K, q)'
<1>1. /\ At(w, "insert") /\ Busy(w) /\ pos[w] \in DOMAIN Plan[call[w]]
      /\ call[w] \in Calls /\ Statement(w) = Plan[call[w]][pos[w]]
      /\ Statement(w).do = "insert"
  BY AtStatement DEF InsertRow
<1>2. Statement(w).rows = {TheRow(w)} /\ Statement(w) = Insert(TheRow(w))
  BY <1>1, AtInsert
<1>3. pos[w] # q /\ (TheRow(w) \in K => pos[w] > q)
  <2>1. pos[w] # q
    BY <1>1, StatementParts DEF Replaces
  <2>2. TheRow(w) \in K => Plan[call[w]][pos[w]].rows \cap K # {}
    BY <1>1, <1>2
  <2> QED
    BY <1>1, <2>1, <2>2 DEF Replaces
<1>4. /\ added'[w] = added[w] \cup ({TheRow(w)} \ Visible(w))
      /\ gone'[w] = gone[w] /\ rows' = rows /\ call' = call
      /\ pos'[w] = pos[w] + 1
      /\ target' = target /\ late' = late
  BY DEF InsertRow, Advance, TypeCorrect
<1>5. target[w] = NoRows
  BY <1>1, TargetIsDelete, OneStatement
<1>6. InsertedBefore(call[w], pos[w] + 1, K) =
          InsertedBefore(call[w], pos[w], K) \cup ({TheRow(w)} \cap K)
  <2>1. \A row : Insert(row) = Statement(w) <=> row = TheRow(w)
    BY <1>2, InsertsDiffer
  <2> QED
    BY <1>1, <2>1, InsertedGrows
\* Where the row is there already, it has come late.
<1>7. {TheRow(w)} \cap K \subseteq added'[w] \cup (late[w] \ gone[w])
  <2>1. TheRow(w) \in K => rows \cap K \subseteq gone[w] \cup late[w]
    BY <1>3 DEF Mixing
  <2> QED
    BY <1>4, <2>1 DEF Visible
<1>8. pos[w] \in Nat /\ q \in Nat
  BY <1>1, PositionsInPlan DEF Replaces
<1>9. /\ added'[w] \cap K \subseteq InsertedBefore(call[w], pos[w] + 1, K)
      /\ InsertedBefore(call[w], pos[w] + 1, K) \subseteq
            added'[w] \cup (late[w] \ gone[w])
  BY <1>4, <1>6, <1>7 DEF Mixing
<1> QED
  BY <1>3, <1>4, <1>5, <1>8, <1>9 DEF Mixing

LEMMA FindRowsMixing ==
    ASSUME TypeCorrect, Progress, NEW w \in Workers, FindRows(w),
           NEW K, NEW q, Replaces(call[w], K, q), Mixing(w, K, q)
    PROVE  Mixing(w, K, q)'
<1>1. /\ Busy(w) /\ pos[w] \in DOMAIN Plan[call[w]]
      /\ call[w] \in Calls /\ Statement(w) = Plan[call[w]][pos[w]]
  BY AtStatement DEF FindRows
<1>2. /\ UNCHANGED <<rows, call, pos, added, gone, late>>
      /\ target'[w] = Statement(w).rows \cap Visible(w)
  BY DEF FindRows, TypeCorrect
<1>3. ASSUME pos[w] = q
      PROVE  rows \cap K \subseteq target'[w]
  <2>1. Statement(w).rows = K
    BY <1>1, <1>3, StatementParts DEF Replaces
  <2>2. q \in Nat
    BY <1>1, PositionsInPlan DEF Replaces
  <2>3. gone[w] \cap K = {}
    BY <1>3, <2>2 DEF Mixing
  <2> QED
    BY <1>2, <2>1, <2>3 DEF Visible
<1> QED
  BY <1>2, <1>3 DEF Mixing, InsertedBefore

LEMMA DeleteRowsMixing ==
    ASSUME TypeCorrect, Progress, NEW w \in Workers, DeleteRows(w),
           NEW K, NEW q, Replaces(call[w], K, q), Mixing(w, K, q)
    PROVE  Mixing(w, K, q)'
<1>1. /\ At(w, "delete") /\ target[w] \subseteq Statement(w).rows
      /\ target[w] # NoRows
  BY TargetIsDelete DEF DeleteRows
<1>2. /\ Busy(w) /\ pos[w] \in DOMAIN Plan[call[w]]
      /\ call[w] \in Calls /\ Statement(w) = Plan[call[w]][pos[w]]
      /\ Statement(w).do = "delete"
  BY <1>1, AtStatement
<1>3. /\ added' = added /\ gone'[w] = gone[w] \cup target[w]
      /\ rows' = rows /\ call' = call /\ pos'[w] = pos[w] + 1
      /\ target'[w] = NoRows /\ late' = late
  BY DEF DeleteRows, Advance, TypeCorrect
<1>4. InsertedBefore(call[w], pos[w] + 1, K) = InsertedBefore(call[w], pos[w], K)
  <2>1. \A row : Plan[call[w]][pos[w]] # Insert(row)
    BY <1>2, StatementParts
  <2>2. InsertedBefore(call[w], pos[w] + 1, K) =
            InsertedBefore(call[w], pos[w], K)
              \cup {row \in K : Plan[call[w]][pos[w]] = Insert(row)}
    BY <1>2, InsertedGrows
  <2> QED
    BY <2>1, <2>2
<1>5. pos[w] \in Nat /\ q \in Nat
  BY <1>2, PositionsInPlan DEF Replaces
<1>6. CASE pos[w] = q
  <2>1. InsertedBefore(call[w], pos[w], K) = {}
    <3>1. SUFFICES ASSUME NEW row \in K, NEW i \in DOMAIN Plan[call[w]], i < q,
                          Plan[call[w]][i] = Insert(row)
                   PROVE  FALSE
      BY <1>6 DEF InsertedBefore
    <3>2. Plan[call[w]][i].rows \cap K # {}
      BY <3>1, StatementParts
    <3>3. i \in Nat
      BY <1>2, PositionsInPlan
    <3> QED
      BY <1>5, <3>1, <3>2, <3>3 DEF Replaces
  <2> QED
    BY <1>1, <1>3, <1>4, <1>5, <1>6, <2>1 DEF Mixing
<1>7. CASE pos[w] # q
  <2>1. target[w] \cap K = {}
    BY <1>1, <1>2, <1>7 DEF Replaces
  <2>2. InsertedBefore(call[w], pos[w], K) \subseteq K
    BY DEF InsertedBefore
  <2> QED
    BY <1>3, <1>4, <1>5, <1>7, <2>1, <2>2 DEF Mixing
<1> QED
  BY <1>6, <1>7

\* A commit of another: what it adds has come late, or w has not got so far.
LEMMA OthersCommitMixing ==
    ASSUME TypeCorrect, Progress, NEW v \in Workers, Commit(v),
           NEW w \in Workers, v # w, Busy(w),
           NEW K, NEW q, Replaces(call[w], K, q), Mixing(w, K, q),
           late[w] \subseteq late'[w],
           pos[w] < q \/ added[v] \cap K \subseteq late'[w]
    PROVE  Mixing(w, K, q)'
<1>1. /\ call'[w] = call[w] /\ pos'[w] = pos[w]
      /\ added'[w] = added[w] /\ gone'[w] = gone[w]
      /\ target'[w] = IF target[w] = NoRows THEN NoRows ELSE target[w] \ gone[v]
      /\ rows' = (rows \ gone[v]) \cup added[v]
  BY DEF Commit, Release, Visible, TypeCorrect
<1>2. pos[w] \in Nat /\ q \in Nat
  BY BusyHasCall, PositionsInPlan DEF Replaces, TypeCorrect
<1>3. InsertedBefore(call[w], pos[w], K)' = InsertedBefore(call[w], pos[w], K)
  BY <1>1 DEF InsertedBefore
<1>4. /\ added'[w] \cap K \subseteq InsertedBefore(call[w], pos[w], K)
      /\ InsertedBefore(call[w], pos[w], K) \subseteq
            added'[w] \cup (late'[w] \ gone'[w])
      /\ pos'[w] <= q => gone'[w] \cap K = {}
  BY <1>1 DEF Mixing
<1>5. pos'[w] = q /\ target'[w] # NoRows =>
            rows' \cap K \subseteq target'[w] \cup late'[w]
  BY <1>1, <1>2 DEF Mixing
<1>6. pos'[w] > q => rows' \cap K \subseteq gone'[w] \cup late'[w]
  BY <1>1, <1>2 DEF Mixing
<1> QED
  BY <1>3, <1>4, <1>5, <1>6 DEF Mixing
-----------------------------------------------------------------------------
(***************************************************************************)
(* What the others of a transaction can have changed.                      *)
(***************************************************************************)
LEMMA HeldRows ==
    ASSUME TypeCorrect, Progress, NEW v \in Workers, Busy(v)
    PROVE  /\ added[v] \cup gone[v] \subseteq TagRows \cup RowsOf(call[v].device)
           /\ call[v].op # "upsert" =>
                \A d : (added[v] \cup gone[v]) \cap LinkRows(d) = {}
<1>1. call[v] \in Calls
  BY BusyHasCall
<1>2. ASSUME NEW row \in added[v] \cup gone[v]
      PROVE  \E p \in DOMAIN Plan[call[v]] : row \in Plan[call[v]][p].rows
  BY DEF Progress, OfPast, Past
<1>3. added[v] \cup gone[v] \subseteq TagRows \cup RowsOf(call[v].device)
  BY <1>1, <1>2, StatementFacts
<1>4. ASSUME call[v].op # "upsert", NEW p \in DOMAIN Plan[call[v]], NEW d
      PROVE  Plan[call[v]][p].rows \cap LinkRows(d) = {}
  <2>1. CASE Plan[call[v]][p] = Delete(TypeRows(call[v].device))
    BY <2>1, StatementParts, LinksAreNoTypes
  <2>2. CASE \E i \in 1 .. Len(call[v].types) :
                Plan[call[v]][p] = Insert(TypeRow(call[v].device, call[v].types[i]))
    <3>1. PICK i \in 1 .. Len(call[v].types) :
              Plan[call[v]][p] = Insert(TypeRow(call[v].device, call[v].types[i]))
      BY <2>2
    <3>2. Plan[call[v]][p].rows = {TypeRow(call[v].device, call[v].types[i])}
      BY <3>1, StatementParts
    <3>3. TypeRow(call[v].device, call[v].types[i]) \notin LinkRows(d)
      BY LinksAreNoTypes
    <3> QED
      BY <3>2, <3>3
  <2> QED
    BY <1>1, <1>4, <2>1, <2>2, StatementsOfCall
<1> QED
  BY <1>2, <1>3, <1>4

\* An upsert behind its first statement holds its device.
LEMMA HoldsDevice ==
    ASSUME TypeCorrect, Progress, NEW v \in Workers, Busy(v),
           call[v].op = "upsert", pos[v] > 1
    PROVE  DeviceRow(call[v].device) \in locked[v]
<1>1. /\ call[v] \in Calls /\ 1 \in DOMAIN Plan[call[v]]
      /\ Plan[call[v]][1] = Lock(DeviceRow(call[v].device))
  BY BusyHasCall, UpsertPlan, PositionsInPlan
<1>2. DeviceRow(call[v].device) \in AnyRow
  BY <1>1, CallShape, RowsKnown
<1>3. Past(v, DeviceRow(call[v].device), {"lock"})
  BY <1>1, StatementParts DEF Past
<1> QED
  BY <1>2, <1>3 DEF Progress, OfPast

\* Of two upserts of a device one has not begun with its rows.
LEMMA OneHolds ==
    ASSUME TypeCorrect, Progress, Exclusive,
           NEW v \in Workers, NEW w \in Workers, v # w, Busy(v), Busy(w),
           call[v].op = "upsert", call[w].op = "upsert",
           call[v].device = call[w].device, pos[v] > 1
    PROVE  pos[w] = 1
<1>1. DeviceRow(call[v].device) \in locked[v]
  BY HoldsDevice
<1>2. ~(pos[w] > 1)
  BY <1>1, HoldsDevice DEF Exclusive
<1>3. pos[w] \in Nat \ {0}
  BY DEF TypeCorrect
<1> QED
  BY <1>2, <1>3

LEMMA CommitIsBehind ==
    ASSUME TypeCorrect, NEW v \in Workers, Commit(v)
    PROVE  /\ Busy(v) /\ call[v] \in Calls /\ pos[v] = Len(Plan[call[v]]) + 1
           /\ \A p \in DOMAIN Plan[call[v]] : p \in Nat /\ pos[v] > p
           /\ pos[v] > 1
<1>1. Busy(v) /\ call[v] \in Calls /\ pos[v] = Len(Plan[call[v]]) + 1
  BY BusyHasCall DEF Commit
<1>2. \A p \in DOMAIN Plan[call[v]] : p \in Nat /\ p >= 1 /\ pos[v] > p
  BY <1>1, PositionsInPlan, PlanIsSeq
<1>3. TypeStart(call[v]) \in DOMAIN Plan[call[v]]
  BY <1>1, PositionsInPlan
<1> QED
  BY <1>1, <1>2, <1>3, PlanIsSeq

\* One step of anyone, unless it is a commit that changes the rows.
LEMMA ReplacingNext ==
    ASSUME TypeCorrect, Progress, [Next]_vars,
           NEW w \in Workers, Busy(w), Busy(w)',
           NEW K, NEW q, Replaces(call[w], K, q), Replacing(w, K, q),
           \A v \in Workers : v # w /\ Commit(v) =>
                pos[w] < q \/ (gone[v] \cap K = {} /\ added[v] \cap K = {})
    PROVE  Replacing(w, K, q)'
<1>1. CASE UNCHANGED vars
  BY <1>1, ReplacingUnmoved DEF vars
<1>6. CASE IndexSensor(w)
  BY <1>6, ReplacingUnmoved DEF IndexSensor
<1>2. CASE \/ LockRow(w) \/ InsertRow(w) \/ FindRows(w) \/ DeleteRows(w)
  BY <1>2, LockRowReplacing, InsertRowReplacing, FindRowsReplacing,
     DeleteRowsReplacing
<1>3. ~Release(w) /\ ~Begin(w)
  BY DEF Release, Begin, Busy, TypeCorrect
<1>4. ASSUME NEW v \in Workers, v # w,
             \/ Begin(v) \/ LockRow(v) \/ IndexSensor(v) \/ InsertRow(v)
             \/ FindRows(v) \/ DeleteRows(v) \/ Rollback(v)
      PROVE  Replacing(w, K, q)'
  <2>1. /\ call'[w] = call[w] /\ pos'[w] = pos[w] /\ added'[w] = added[w]
        /\ gone'[w] = gone[w] /\ target'[w] = target[w] /\ rows' = rows
    BY <1>4 DEF Begin, LockRow, IndexSensor, InsertRow, FindRows, DeleteRows,
                Rollback, Release, Advance, TypeCorrect
  <2> QED
    BY <2>1, ReplacingUnmoved
<1>5. ASSUME NEW v \in Workers, v # w, Commit(v)
      PROVE  Replacing(w, K, q)'
  BY <1>5, OthersCommit
<1> QED
  BY <1>1, <1>2, <1>3, <1>4, <1>5, <1>6, Moves DEF Commit, Rollback

LEMMA CallKept ==
    ASSUME TypeCorrect, [Next]_vars, NEW w \in Workers, Busy(w), Busy(w)'
    PROVE  call'[w] = call[w]
<1>1. CASE UNCHANGED call
  BY <1>1
<1>2. ASSUME NEW v \in Workers, Release(v)
      PROVE  call'[w] = call[w]
  BY <1>2 DEF Release, Busy, TypeCorrect
<1>3. ASSUME NEW v \in Workers, Begin(v)
      PROVE  call'[w] = call[w]
  BY <1>3 DEF Begin, Busy, TypeCorrect
<1> QED
  BY <1>1, <1>2, <1>3, Moves
     DEF vars, LockRow, IndexSensor, InsertRow, FindRows, DeleteRows, Advance,
         Commit, Rollback

LEMMA NowBusyBegan ==
    ASSUME TypeCorrect, [Next]_vars, NEW w \in Workers, ~Busy(w), Busy(w)'
    PROVE  Begin(w)
<1>1. CASE UNCHANGED call
  BY <1>1 DEF Busy
<1>2. ASSUME NEW v \in Workers, Release(v)
      PROVE  FALSE
  BY <1>2 DEF Release, Busy, TypeCorrect
<1>3. ASSUME NEW v \in Workers, Begin(v), v # w
      PROVE  FALSE
  BY <1>3 DEF Begin, Busy, TypeCorrect
<1> QED
  BY <1>1, <1>2, <1>3, Moves
     DEF vars, LockRow, IndexSensor, InsertRow, FindRows, DeleteRows, Advance,
         Commit, Rollback

LEMMA LinksReplacedNext ==
    ASSUME TypeCorrect, Progress, Exclusive, LinksReplaced, TypeCorrect',
           [Next]_vars
    PROVE  LinksReplaced'
<1>1. SUFFICES ASSUME NEW w \in Workers, Busy(w)', call'[w].op = "upsert"
               PROVE  Replacing(w, LinkRows(call[w].device), 2)'
  BY DEF LinksReplaced
<1>2. PICK c \in Calls : c = call'[w]
  BY <1>1 DEF TypeCorrect, Busy
<1> DEFINE K == LinkRows(c.device)
<1>3. c.op = "upsert" /\ Replaces(c, K, 2)
  BY <1>1, <1>2, LinksAreReplaced
<1>4. ASSUME ~Busy(w)
      PROVE  Replacing(w, K, 2)'
  <2> HIDE DEF K
  <2>1. Begin(w)
    BY <1>1, <1>4, NowBusyBegan
  <2>2. Replaces(call'[w], K, 2)
    BY <1>2, <1>3
  <2> QED
    BY <2>1, <2>2, ReplacingBegins
<1>5. ASSUME Busy(w)
      PROVE  Replacing(w, K, 2)'
  <2>1. call[w] = c
    BY <1>1, <1>2, <1>5, CallKept
  <2>2. Replacing(w, K, 2)
    BY <1>3, <1>5, <2>1 DEF LinksReplaced
  <2>3. ASSUME NEW v \in Workers, v # w, Commit(v)
        PROVE  pos[w] < 2 \/ (gone[v] \cap K = {} /\ added[v] \cap K = {})
    <3>1. Busy(v) /\ pos[v] > 1
      BY <2>3, CommitIsBehind
    <3>2. CASE call[v].device # c.device
      <4>1. K \cap (TagRows \cup RowsOf(call[v].device)) = {}
        BY <3>2, RowsApart
      <4> QED
        BY <3>1, <4>1, HeldRows
    <3>3. CASE call[v].op # "upsert"
      <4>1. (added[v] \cup gone[v]) \cap K = {}
        BY <3>1, <3>3, HeldRows
      <4> QED
        BY <4>1
    <3>4. CASE call[v].device = c.device /\ call[v].op = "upsert"
      <4>1. pos[w] = 1
        BY <1>3, <1>5, <2>1, <2>3, <3>1, <3>4, OneHolds
      <4> QED
        BY <4>1
    <3> QED
      BY <3>2, <3>3, <3>4
  <2> HIDE DEF K
  <2>4. Replaces(call[w], K, 2)
    BY <1>3, <2>1
  <2> QED
    BY <1>1, <1>5, <2>2, <2>3, <2>4, ReplacingNext
<1>6. Replacing(w, K, 2)'
  BY <1>4, <1>5
<1> QED
  BY <1>2, <1>6 DEF Replacing

LEMMA MixingNext ==
    ASSUME TypeCorrect, Progress, [Next]_vars,
           NEW w \in Workers, Busy(w), Busy(w)',
           NEW K, NEW q, Replaces(call[w], K, q), Mixing(w, K, q),
           \A v \in Workers : v # w /\ Commit(v) =>
                /\ late[w] \subseteq late'[w]
                /\ pos[w] < q \/ added[v] \cap K \subseteq late'[w]
    PROVE  Mixing(w, K, q)'
<1>1. CASE UNCHANGED vars
  BY <1>1, MixingUnmoved DEF vars
<1>2. CASE \/ LockRow(w) \/ InsertRow(w) \/ FindRows(w) \/ DeleteRows(w)
  BY <1>2, LockRowMixing, InsertRowMixing, FindRowsMixing, DeleteRowsMixing
<1>3. CASE IndexSensor(w)
  BY <1>3, MixingUnmoved DEF IndexSensor
<1>4. ~Release(w) /\ ~Begin(w)
  BY DEF Release, Begin, Busy, TypeCorrect
<1>5. ASSUME NEW v \in Workers, v # w,
             \/ Begin(v) \/ LockRow(v) \/ IndexSensor(v) \/ InsertRow(v)
             \/ FindRows(v) \/ DeleteRows(v) \/ Rollback(v)
      PROVE  Mixing(w, K, q)'
  <2>1. /\ call'[w] = call[w] /\ pos'[w] = pos[w] /\ added'[w] = added[w]
        /\ gone'[w] = gone[w] /\ target'[w] = target[w]
        /\ late'[w] = late[w] /\ rows' = rows
    BY <1>5 DEF Begin, LockRow, IndexSensor, InsertRow, FindRows, DeleteRows,
                Rollback, Release, Advance, TypeCorrect
  <2> QED
    BY <2>1, MixingUnmoved
<1>6. ASSUME NEW v \in Workers, v # w, Commit(v)
      PROVE  Mixing(w, K, q)'
  BY <1>6, OthersCommitMixing
<1> QED
  BY <1>1, <1>2, <1>3, <1>4, <1>5, <1>6, Moves DEF Commit, Rollback

LEMMA TypesMixedNext ==
    ASSUME TypeCorrect, Progress, Exclusive, TypesMixed, TypeCorrect', [Next]_vars
    PROVE  TypesMixed'
<1>1. SUFFICES ASSUME NEW w \in Workers, Busy(w)'
               PROVE  Mixing(w, TypeRows(call[w].device), TypeStart(call[w]))'
  BY DEF TypesMixed
<1>2. PICK c \in Calls : c = call'[w]
  BY <1>1 DEF TypeCorrect, Busy
<1> DEFINE K == TypeRows(c.device)
           q == TypeStart(c)
<1>3. Replaces(c, K, q)
  BY TypesAreReplaced
<1>4. ASSUME ~Busy(w)
      PROVE  Mixing(w, K, q)'
  <2> HIDE DEF K, q
  <2>1. Begin(w)
    BY <1>1, <1>4, NowBusyBegan
  <2>2. Replaces(call'[w], K, q)
    BY <1>2, <1>3
  <2> QED
    BY <2>1, <2>2, MixingBegins
<1>5. ASSUME Busy(w)
      PROVE  Mixing(w, K, q)'
  <2>1. call[w] = c
    BY <1>1, <1>2, <1>5, CallKept
  <2>2. Mixing(w, K, q)
    BY <1>5, <2>1 DEF TypesMixed
  <2>3. ASSUME NEW v \in Workers, v # w, Commit(v)
        PROVE  /\ late[w] \subseteq late'[w]
               /\ pos[w] < q \/ added[v] \cap K \subseteq late'[w]
    <3>1. Busy(v) /\ pos[v] > 1 /\ call[v] \in Calls
      BY <2>3, CommitIsBehind
    <3>2. late'[w] = IF Overlap(w, v)
                       THEN late[w] \cup (added[v] \cap TypeRows(call[w].device))
                       ELSE late[w]
      BY <2>3 DEF Commit
    <3>3. CASE call[v].device # c.device
      <4>1. K \cap (TagRows \cup RowsOf(call[v].device)) = {}
        BY <3>3, RowsApart
      <4>2. added[v] \cap K = {}
        BY <3>1, <4>1, HeldRows
      <4> QED
        BY <3>2, <4>2
    <3>4. CASE call[v].device = c.device /\ Overlap(w, v)
      BY <2>1, <3>2, <3>4
    <3>5. CASE call[v].device = c.device /\ ~Overlap(w, v)
      <4>1. call[v].op = "upsert" /\ c.op = "upsert"
        BY <1>5, <2>1, <2>3, <3>1, <3>5, CallShape DEF Overlap
      <4>2. pos[w] = 1
        BY <1>5, <2>1, <2>3, <3>1, <3>5, <4>1, OneHolds
      <4>3. q \in DOMAIN Plan[c] /\ q > 2
        BY <4>1, PositionsInPlan
      <4>4. q \in Nat
        BY PlanIsSeq
      <4> QED
        BY <3>2, <3>5, <4>2, <4>3, <4>4
    <3> QED
      BY <3>3, <3>4, <3>5
  <2> HIDE DEF K, q
  <2>4. Replaces(call[w], K, q)
    BY <1>3, <2>1
  <2> QED
    BY <1>1, <1>5, <2>2, <2>3, <2>4, MixingNext
<1>6. Mixing(w, K, q)'
  BY <1>4, <1>5
<1> QED
  BY <1>2, <1>6 DEF Mixing

LEMMA TagsNext ==
    ASSUME TypeCorrect, Progress, LinksReplaced, TagsOfTheLatestUpsert,
           [Next]_vars
    PROVE  TagsOfTheLatestUpsert'
<1>1. CASE UNCHANGED <<rows, latest>>
  BY <1>1 DEF TagsOfTheLatestUpsert
<1>2. ASSUME NEW v \in Workers, Commit(v), NEW d \in Devices
      PROVE  rows' \cap LinkRows(d) =
                IF latest'[d] = NoCall THEN {}
                ELSE {LinkRow(d, t) : t \in Range(latest'[d].tags)}
  <2>1. /\ Busy(v) /\ call[v] \in Calls /\ pos[v] = Len(Plan[call[v]]) + 1
        /\ \A p \in DOMAIN Plan[call[v]] : p \in Nat /\ pos[v] > p
    BY <1>2, CommitIsBehind
  <2>2. rows' = (rows \ gone[v]) \cup added[v]
    BY <1>2 DEF Commit, Visible
  <2>3. latest'[d] = IF call[v].op = "upsert" /\ call[v].device = d
                     THEN call[v] ELSE latest[d]
    BY <1>2 DEF Commit
  <2>4. CASE call[v].op = "upsert" /\ call[v].device = d
    <3>1. Replacing(v, LinkRows(d), 2)
      BY <2>1, <2>4 DEF LinksReplaced
    <3>2. pos[v] > 2
      BY <2>1, <2>4, PositionsInPlan
    <3>3. rows' \cap LinkRows(d) =
              InsertedBefore(call[v], Len(Plan[call[v]]) + 1, LinkRows(d))
      <4>1. rows \cap LinkRows(d) \subseteq gone[v]
        BY <3>1, <3>2 DEF Replacing
      <4>2. added[v] \cap LinkRows(d) =
              InsertedBefore(call[v], Len(Plan[call[v]]) + 1, LinkRows(d))
        BY <2>1, <3>1 DEF Replacing
      <4> QED
        BY <2>2, <4>1, <4>2
    <3>4. InsertedBefore(call[v], Len(Plan[call[v]]) + 1, LinkRows(d)) =
              {LinkRow(d, t) : t \in Range(call[v].tags)}
      BY <2>1, <2>4, LinksOfCall
    <3>5. latest'[d] = call[v] /\ call[v] # NoCall
      BY <2>1, <2>3, <2>4, CallShape
    <3> QED
      BY <3>3, <3>4, <3>5
  <2>5. CASE ~(call[v].op = "upsert" /\ call[v].device = d)
    <3>1. CASE call[v].device # d
      <4>1. LinkRows(d) \cap (TagRows \cup RowsOf(call[v].device)) = {}
        BY <3>1, RowsApart
      <4>2. rows' \cap LinkRows(d) = rows \cap LinkRows(d)
        BY <2>1, <2>2, <4>1, HeldRows
      <4>3. latest'[d] = latest[d]
        BY <2>3, <2>5
      <4> QED
        BY <4>2, <4>3 DEF TagsOfTheLatestUpsert
    <3>2. CASE call[v].op # "upsert"
      <4>1. (added[v] \cup gone[v]) \cap LinkRows(d) = {}
        BY <2>1, <3>2, HeldRows
      <4>2. rows' \cap LinkRows(d) = rows \cap LinkRows(d)
        BY <2>2, <4>1
      <4>3. latest'[d] = latest[d]
        BY <2>3, <2>5
      <4> QED
        BY <4>2, <4>3 DEF TagsOfTheLatestUpsert
    <3> QED
      BY <2>5, <3>1, <3>2
  <2> QED
    BY <2>4, <2>5
<1>3. ASSUME NEW v \in Workers, Commit(v)
      PROVE  TagsOfTheLatestUpsert'
  BY <1>2, <1>3 DEF TagsOfTheLatestUpsert
<1> QED
  BY <1>1, <1>3, Moves
     DEF vars, Begin, LockRow, IndexSensor, InsertRow, FindRows, DeleteRows,
         Advance, Rollback
-----------------------------------------------------------------------------
(***************************************************************************)
(* The invariant holds.                                                    *)
(***************************************************************************)
LEMMA InvInit == Init => Inv
<1>1. SUFFICES ASSUME Init PROVE Inv
  OBVIOUS
<1>2. TypeCorrect
  BY <1>1 DEF Init, TypeCorrect
<1>3. \A w \in Workers : ~Busy(w) /\ Idle(w)
  BY <1>1 DEF Init, Busy, Idle
<1>4. Exclusive
  BY <1>1 DEF Init, Exclusive
<1>5. TagsOfTheLatestUpsert
  BY <1>1 DEF Init, TagsOfTheLatestUpsert
<1> QED
  BY <1>2, <1>3, <1>4, <1>5
     DEF Inv, Progress, LinksReplaced, TypesMixed

LEMMA InvNext == Inv /\ [Next]_vars => Inv'
<1>1. SUFFICES ASSUME Inv, [Next]_vars PROVE Inv'
  OBVIOUS
<1>2. /\ TypeCorrect /\ Progress /\ Exclusive
      /\ LinksReplaced /\ TypesMixed /\ TagsOfTheLatestUpsert
  BY <1>1 DEF Inv
<1>3. TypeCorrect' /\ Progress' /\ Exclusive'
  BY <1>1, <1>2, TypesNext, ProgressNext, ExclusiveNext
<1>4. LinksReplaced' /\ TypesMixed' /\ TagsOfTheLatestUpsert'
  BY <1>1, <1>2, <1>3, LinksReplacedNext, TypesMixedNext, TagsNext
<1> QED
  BY <1>3, <1>4 DEF Inv

\* What a transaction holds, and how far it has come, is as Inv says.
THEOREM Invariant == Spec => []Inv
BY InvInit, InvNext, PTL DEF Spec

\* The tags of a device are those of the upsert that committed last, whatever
\* calls overlap, wait, fail or are ended (devices.go:230-275).
THEOREM TagsAreTheLatest == Spec => []TagsOfTheLatestUpsert
<1>1. Inv => TagsOfTheLatestUpsert
  BY DEF Inv
<1> QED
  BY <1>1, Invariant, PTL

LEMMA ReferencesAreThere ==
    ASSUME TypeCorrect, Progress, NEW w \in Workers,
           At(w, "insert"), call[w].op = "upsert"
    PROVE  References(TheRow(w)) \subseteq Visible(w)
<1>1. /\ Busy(w) /\ call[w] \in Calls /\ pos[w] \in DOMAIN Plan[call[w]]
      /\ Plan[call[w]][pos[w]] = Insert(TheRow(w)) /\ OfPast(w)
  BY AtStatement, AtInsert DEF Progress
<1>2. ASSUME NEW ref \in References(TheRow(w))
      PROVE  ref \in Visible(w)
  <2>1. ref \in Lasting /\ Past(w, ref, {"lock", "insert"})
    BY <1>1, ReferencesCome DEF Past
  <2>2. ref \in rows \cup added[w]
    BY <1>1, <2>1 DEF OfPast
  <2>3. ref \notin gone[w]
    <3>1. SUFFICES ASSUME ref \in gone[w] PROVE FALSE
      OBVIOUS
    <3>2. PICK p \in DOMAIN Plan[call[w]] :
              ref \in Plan[call[w]][p].rows /\ Plan[call[w]][p].do = "delete"
      BY <1>1, <3>1 DEF OfPast, Past
    <3>3. ref \in LinkRows(call[w].device) \cup TypeRows(call[w].device)
      BY <1>1, <3>2, StatementFacts
    <3> QED
      BY <2>1, <3>3, DeletesSpareLasting
  <2> QED
    BY <2>2, <2>3 DEF Visible
<1> QED
  BY <1>2

\* No foreign key refuses an upsert whose types are seeded: what a link refers
\* to has been inserted or locked before, or is there for good.
THEOREM NoUpsertIsRefused == Spec => []UpsertIsNeverRefused
<1>1. Inv => UpsertIsNeverRefused
  BY ReferencesAreThere DEF Inv, UpsertIsNeverRefused, Accepted
<1> QED
  BY <1>1, Invariant, PTL

LEMMA MixedCommit ==
    ASSUME Inv, NEW w \in Workers, Commit(w)
    PROVE  LET d == call[w].device
               own == {TypeRow(d, y) : y \in Range(call[w].types)} IN
           /\ rows' \cap TypeRows(d) \subseteq own \cup (late[w] \cap rows)
           /\ own \subseteq rows' \cup (late[w] \ rows)
<1> DEFINE K == TypeRows(call[w].device)
           own == {TypeRow(call[w].device, y) : y \in Range(call[w].types)}
<1>1. /\ Busy(w) /\ call[w] \in Calls /\ pos[w] = Len(Plan[call[w]]) + 1
      /\ \A p \in DOMAIN Plan[call[w]] : p \in Nat /\ pos[w] > p
  BY CommitIsBehind DEF Inv
<1>2. rows' = (rows \ gone[w]) \cup added[w]
  BY DEF Commit, Visible
<1>3. Mixing(w, K, TypeStart(call[w]))
  BY <1>1 DEF Inv, TypesMixed
<1>4. pos[w] > TypeStart(call[w])
  BY <1>1, PositionsInPlan
<1>5. InsertedBefore(call[w], pos[w], K) = own
  BY <1>1, TypesOfCall
<1> HIDE DEF K, own
<1>6. /\ added[w] \cap K \subseteq own
      /\ own \subseteq added[w] \cup (late[w] \ gone[w])
      /\ rows \cap K \subseteq gone[w] \cup late[w]
  BY <1>3, <1>4, <1>5 DEF Mixing
<1>7. /\ rows' \cap K \subseteq own \cup (late[w] \cap rows)
      /\ own \subseteq rows' \cup (late[w] \ rows)
  BY <1>2, <1>6
<1> QED
  BY <1>7 DEF K, own

\* A call leaves its types behind and no other, but for those that came late by
\* a call that wrote types without the lock of the device (devices.go:171-191).
THEOREM OverlappingTypes == Spec => TypesMixOnlyOverlapping
<1>1. Inv /\ [Next]_vars =>
        [\A w \in Workers :
           Busy(w) /\ Commit(w) =>
              LET d == call[w].device
                  own == {TypeRow(d, y) : y \in Range(call[w].types)} IN
              /\ rows' \cap TypeRows(d) \subseteq own \cup (late[w] \cap rows)
              /\ own \subseteq rows' \cup (late[w] \ rows)]_vars
  BY MixedCommit
<1> QED
  BY <1>1, Invariant, PTL DEF Spec, TypesMixOnlyOverlapping
-----------------------------------------------------------------------------
(***************************************************************************)
(* Where lists are in one order, a circle is one of sensors: whoever waits *)
(* for a tag waits for one who is past its sensor too, and holds tags that *)
(* come before the one it waits for.                                       *)
(***************************************************************************)
\* What an upsert has written belongs to its device, or is a tag it added.
LEMMA WrittenRows ==
    ASSUME Inv, NEW v \in Workers, Busy(v)
    PROVE  /\ locked[v] \cup gone[v] \subseteq RowsOf(call[v].device)
           /\ added[v] \subseteq TagRows \cup RowsOf(call[v].device)
           /\ target[v] # NoRows => target[v] \subseteq RowsOf(call[v].device)
<1>1. call[v] \in Calls /\ OfPast(v) /\ TypeCorrect /\ Progress
  BY BusyHasCall DEF Inv, Progress
<1>2. ASSUME NEW row \in gone[v]
      PROVE  row \in RowsOf(call[v].device)
  BY <1>1, StatementFacts DEF OfPast, Past, RowsOf
<1>3. ASSUME NEW row \in locked[v]
      PROVE  row \in RowsOf(call[v].device)
  BY <1>1, StatementFacts DEF OfPast, Past, RowsOf
<1>4. ASSUME target[v] # NoRows
      PROVE  target[v] \subseteq RowsOf(call[v].device)
  <2>1. At(v, "delete") /\ target[v] \subseteq Statement(v).rows
    BY <1>1, <1>4, TargetIsDelete
  <2>2. Statement(v).rows \subseteq
            LinkRows(call[v].device) \cup TypeRows(call[v].device)
    BY <1>1, <2>1, AtStatement, StatementFacts
  <2> QED
    BY <2>1, <2>2 DEF RowsOf
<1>5. added[v] \subseteq TagRows \cup RowsOf(call[v].device)
  BY <1>1, HeldRows
<1> QED
  BY <1>2, <1>3, <1>4, <1>5

\* At its first statement an upsert has written nothing.
LEMMA NothingAtFirst ==
    ASSUME Inv, NEW v \in Workers, Busy(v), pos[v] = 1
    PROVE  Written(v) = {}
<1>1. call[v] \in Calls /\ OfPast(v)
  BY BusyHasCall DEF Inv, Progress
<1>2. \A row, kinds : ~Past(v, row, kinds)
  BY <1>1, PositionsInPlan DEF Past
<1> QED
  BY <1>1, <1>2 DEF OfPast, Written

\* Whoever waits, and whoever is waited for, has a transaction.
LEMMA WaitersAreBusy ==
    ASSUME Inv, NEW v \in Workers, NEW u \in Workers, WaitsFor(v, u)
    PROVE  Busy(v) /\ Busy(u)
<1>1. Busy(v)
  BY TargetIsDelete DEF WaitsFor, At, Inv, Progress, Idle
<1>2. Written(u) # {}
  BY DEF WaitsFor, Written, Holds
<1>3. Busy(u)
  BY <1>2 DEF Inv, Progress, Idle, Written
<1> QED
  BY <1>1, <1>3

\* Of two upserts that are both waited for, one waits for a tag of the other,
\* once its sensor is in the index.
LEMMA WaitsForTag ==
    ASSUME Inv, NEW v \in Workers, NEW u \in Workers, WaitsFor(v, u),
           call[v].op = "upsert", call[u].op = "upsert", Written(v) # {},
           ~pending[v]
    PROVE  /\ At(v, "insert") /\ TheRow(v) \in added[u]
           /\ \E t \in Tags : TheRow(v) = TagRow(t)
<1>1. /\ v # u /\ Busy(v) /\ Busy(u) /\ TypeCorrect /\ Progress /\ Exclusive
      /\ call[v] \in Calls /\ call[u] \in Calls
  BY WaitersAreBusy, BusyHasCall DEF WaitsFor, Inv
<1>2. Written(u) # {}
  BY DEF WaitsFor, Written, Holds
<1>3. pos[v] > 1 /\ pos[u] > 1
  <2>1. pos[v] # 1 /\ pos[u] # 1
    BY <1>1, <1>2, NothingAtFirst
  <2> QED
    BY <2>1, <1>1 DEF TypeCorrect
<1>4. call[v].device # call[u].device
  BY <1>1, <1>3, OneHolds
<1>5. RowsOf(call[v].device) \cap (TagRows \cup RowsOf(call[u].device)) = {}
  BY <1>4, RowsApart
<1>6. ~At(v, "lock")
  BY <1>1, <1>3, AtLock
<1>7. CASE target[v] # NoRows /\ target[v] \cap gone[u] # {}
  BY <1>1, <1>5, <1>7, WrittenRows
<1>8. CASE At(v, "insert") /\ TheRow(v) \in Written(u)
  <2>1. TheRow(v) \in TagRows \cup RowsOf(call[v].device)
    <3>1. /\ pos[v] \in DOMAIN Plan[call[v]]
          /\ Statement(v) = Plan[call[v]][pos[v]]
      BY <1>1, <1>8, AtStatement
    <3>2. Statement(v).rows = {TheRow(v)}
      BY <1>1, <1>8, AtInsert
    <3> QED
      BY <1>1, <3>1, <3>2, StatementFacts
  <2>2. TheRow(v) \in TagRows
    BY <1>1, <1>5, <1>8, <2>1, WrittenRows DEF Written
  <2>3. TheRow(v) \notin RowsOf(call[u].device)
    BY <1>4, <2>2, RowsApart
  <2>4. TheRow(v) \in added[u]
    BY <1>1, <1>8, <2>3, WrittenRows DEF Written
  <2> QED
    BY <1>8, <2>2, <2>4 DEF TagRows
<1> QED
  BY <1>6, <1>7, <1>8 DEF WaitsFor

\* A tag a transaction has added comes before the one it is about to insert.
LEMMA AddedBefore ==
    ASSUME Inv, NEW u \in Workers, At(u, "insert"),
           NEW t, TheRow(u) = TagRow(t), NEW b, TagRow(b) \in added[u]
    PROVE  \E i, j \in DOMAIN call[u].tags :
              i < j /\ call[u].tags[i] = b /\ call[u].tags[j] = t
<1>1. /\ Busy(u) /\ call[u] \in Calls /\ pos[u] \in DOMAIN Plan[call[u]]
      /\ Plan[call[u]][pos[u]] = Insert(TagRow(t)) /\ OfPast(u)
  BY AtStatement, AtInsert DEF Inv, Progress
<1>2. PICK p \in DOMAIN Plan[call[u]] :
          /\ p < pos[u] /\ TagRow(b) \in Plan[call[u]][p].rows
          /\ Plan[call[u]][p].do \in {"lock", "insert"}
  BY <1>1 DEF OfPast, Past
<1>3. Plan[call[u]][p].do # "lock"
  <2>1. SUFFICES ASSUME Plan[call[u]][p].do = "lock" PROVE FALSE
    OBVIOUS
  <2>2. Plan[call[u]][p].rows = {DeviceRow(call[u].device)}
    BY <1>1, <2>1, StatementFacts
  <2> QED
    BY <1>2, <2>2, RowsDiffer
<1>4. Plan[call[u]][p] = Insert(TagRow(b))
  <2>1. PICK row \in AnyRow : Plan[call[u]][p] = Insert(row)
    BY <1>1, <1>2, <1>3, StatementFacts
  <2> QED
    BY <1>2, <2>1, StatementParts
<1> QED
  BY <1>1, <1>2, <1>4, TagsInOrder

\* A set of natural numbers that is not empty has a least element.
LEMMA Least ==
    ASSUME NEW T \in SUBSET Nat, T # {}
    PROVE  \E x \in T : \A y \in T : x <= y
<1> DEFINE R == OpToRel(<, Nat)
<1>1. IsWellFoundedOn(R, Nat)
  BY NatLessThanWellFounded, Zenon
<1>2. \A x, y \in Nat : x < y => <<x, y>> \in R
  BY DEF OpToRel
<1> HIDE DEF R
<1>3. PICK x \in T : \A y \in T : <<y, x>> \notin R
  BY <1>1, WFMin
<1>4. \A y \in T : ~(y < x)
  BY <1>2, <1>3
<1> QED
  BY <1>4

\* Before its sensor is in the index an upsert has added no tag.
LEMMA PendingHasNoTag ==
    ASSUME Inv, NEW v \in Workers, pending[v]
    PROVE  /\ Busy(v) /\ call[v].op = "upsert" /\ pos[v] = 2
           /\ target[v] = NoRows
           /\ \A t : TagRow(t) \notin added[v]
<1>1. /\ Busy(v) /\ OfPast(v) /\ call[v] \in Calls
      /\ call[v].op = "upsert" /\ pos[v] = 2
  BY BusyHasCall DEF Inv, Progress, Idle, OfPast
<1>2. target[v] = NoRows
  BY TargetIsDelete DEF Inv, At
<1>3. ASSUME NEW t, TagRow(t) \in added[v]
      PROVE  FALSE
  <2>1. PICK p \in DOMAIN Plan[call[v]] :
            p < 2 /\ TagRow(t) \in Plan[call[v]][p].rows
    BY <1>1, <1>3 DEF OfPast, Past
  <2>2. p = 1
    BY <1>1, <2>1, PositionsInPlan
  <2>3. Plan[call[v]][p] = Lock(DeviceRow(call[v].device))
    BY <1>1, <2>2, UpsertPlan
  <2> QED
    BY <2>1, <2>3, StatementParts, RowsDiffer
<1> QED
  BY <1>1, <1>2, <1>3

\* The upserts of a circle that are through with their sensor would each hold a
\* tag that comes before the one they wait for: there are none.
LEMMA CircleIsPending ==
    ASSUME Inv, NEW S \in SUBSET Workers,
           \A v \in S : /\ \E u \in S : WaitsFor(v, u)
                        /\ \E u \in S : WaitsFor(u, v),
           InOneOrder({call[v] : v \in {u \in Workers : Busy(u)}}),
           \A c \in {call[v] : v \in {u \in Workers : Busy(u)}} : c.op = "upsert"
    PROVE  \A v \in S : pending[v]
<1> DEFINE N == Cardinality(Tags)
           T == {v \in S : ~pending[v]}
<1>1. SUFFICES ASSUME T # {} PROVE FALSE
  OBVIOUS
<1>2. PICK rank \in Injection(Tags, 1 .. N) :
        \A v \in Workers : Busy(v) => \A i, j \in DOMAIN call[v].tags :
            i < j => rank[call[v].tags[i]] <= rank[call[v].tags[j]]
  BY DEF InOneOrder
<1>3. N \in Nat
  BY FiniteTags, FS_CardinalityType
<1>4. rank \in [Tags -> 1 .. N]
      /\ \A t, u \in Tags : rank[t] = rank[u] => t = u
  BY DEF Injection, IsInjective
<1>5. \A v \in S : /\ v \in Workers /\ Busy(v) /\ call[v].op = "upsert"
                   /\ Written(v) # {}
  <2>1. SUFFICES ASSUME NEW v \in S
                 PROVE  /\ v \in Workers /\ Busy(v) /\ call[v].op = "upsert"
                        /\ Written(v) # {}
    OBVIOUS
  <2>2. v \in Workers
    OBVIOUS
  <2>3. PICK u \in S : WaitsFor(v, u)
    OBVIOUS
  <2>4. PICK x \in S : WaitsFor(x, v)
    OBVIOUS
  <2>5. Busy(v)
    BY <2>3, WaitersAreBusy
  <2>6. Written(v) # {}
    BY <2>4 DEF WaitsFor, Written, Holds
  <2> QED
    BY <2>2, <2>5, <2>6
<1>6. \A v \in T : \E t \in Tags :
        /\ At(v, "insert") /\ TheRow(v) = TagRow(t)
        /\ \E u \in T : u # v /\ TagRow(t) \in added[u]
  <2>1. SUFFICES ASSUME NEW v \in T
                 PROVE  \E t \in Tags :
                          /\ At(v, "insert") /\ TheRow(v) = TagRow(t)
                          /\ \E u \in T : u # v /\ TagRow(t) \in added[u]
    OBVIOUS
  <2>2. PICK u \in S : WaitsFor(v, u)
    OBVIOUS
  <2>3. u # v /\ u \in Workers
    BY <1>5, <2>2 DEF WaitsFor
  <2>4. /\ At(v, "insert") /\ TheRow(v) \in added[u]
        /\ \E t \in Tags : TheRow(v) = TagRow(t)
    BY <1>5, <2>2, WaitsForTag
  <2>5. ~pending[u]
    BY <1>5, <2>4, PendingHasNoTag
  <2> QED
    BY <2>3, <2>4, <2>5
<1>7. T \subseteq S
  OBVIOUS
<1> HIDE DEF T
<1>8. PICK tag \in [T -> Tags] : \A v \in T : TheRow(v) = TagRow(tag[v])
  <2> DEFINE f == [v \in T |-> CHOOSE t \in Tags : TheRow(v) = TagRow(t)]
  <2>1. \A v \in T : f[v] \in Tags /\ TheRow(v) = TagRow(f[v])
    BY <1>6
  <2>2. f \in [T -> Tags]
    BY <2>1
  <2> HIDE DEF f
  <2> QED
    BY <2>1, <2>2
\* Whom one waits for waits for a tag that comes later.
<1>9. ASSUME NEW v \in T
      PROVE  \E u \in T : rank[tag[v]] < rank[tag[u]]
  <2>1. PICK u \in T : u # v /\ TagRow(tag[v]) \in added[u]
    BY <1>6, <1>8, RowsAreTheirs
  <2>2. /\ At(u, "insert") /\ TheRow(u) = TagRow(tag[u])
        /\ \E x \in T : x # u /\ TagRow(tag[u]) \in added[x]
    BY <1>6, <1>8, RowsAreTheirs
  <2>3. tag[u] # tag[v]
    BY <1>5, <1>7, <2>1, <2>2 DEF Inv, Exclusive
  <2>4. \E i, j \in DOMAIN call[u].tags :
          i < j /\ call[u].tags[i] = tag[v] /\ call[u].tags[j] = tag[u]
    BY <1>5, <1>7, <2>1, <2>2, AddedBefore
  <2>5. rank[tag[v]] <= rank[tag[u]]
    BY <1>2, <1>5, <1>7, <2>4
  <2>6. tag[u] \in Tags /\ tag[v] \in Tags
    BY <1>8
  <2>7. rank[tag[u]] # rank[tag[v]]
    BY <1>4, <2>3, <2>6
  <2>8. rank[tag[u]] \in 1 .. N /\ rank[tag[v]] \in 1 .. N
    BY <1>4, <2>6
  <2> QED
    BY <1>3, <2>5, <2>7, <2>8
<1>10. \A v \in T : N - rank[tag[v]] \in Nat
  <2>1. \A v \in T : rank[tag[v]] \in 1 .. N
    BY <1>4, <1>8
  <2> QED
    BY <1>3, <2>1
<1>11. PICK v \in T : \A u \in T : N - rank[tag[v]] <= N - rank[tag[u]]
  <2> DEFINE R == {N - rank[tag[v]] : v \in T}
  <2>1. R \in SUBSET Nat /\ R # {}
    BY <1>1, <1>10
  <2>2. PICK x \in R : \A y \in R : x <= y
    BY <2>1, Least
  <2> QED
    BY <2>2
<1>12. PICK u \in T : rank[tag[v]] < rank[tag[u]]
  BY <1>9
<1>13. rank[tag[u]] \in 1 .. N /\ rank[tag[v]] \in 1 .. N
  BY <1>4, <1>8
<1>14. N - rank[tag[v]] <= N - rank[tag[u]]
  BY <1>11
<1> QED
  BY <1>3, <1>12, <1>13, <1>14

\* Whoever waits in a circle wants the sensor of another in it.
LEMMA CircleIsSwap ==
    ASSUME Inv, NEW w \in Workers, Deadlocked(w),
           InOneOrder({call[v] : v \in {u \in Workers : Busy(u)}}),
           \A c \in {call[v] : v \in {u \in Workers : Busy(u)}} : c.op = "upsert"
    PROVE  /\ pending[w]
           /\ \E v \in Workers :
                 /\ Deadlocked(v) /\ call[v].device # call[w].device
                 /\ SensorOf(call[v].device) = call[w].sensor
<1>1. PICK S \in SUBSET Workers :
        /\ w \in S
        /\ \A v \in S : /\ \E u \in S : WaitsFor(v, u)
                        /\ \E u \in S : WaitsFor(u, v)
  BY DEF Deadlocked
<1>2. \A v \in S : pending[v] /\ v \in Workers
  BY <1>1, CircleIsPending
<1>3. PICK v \in S : WaitsFor(w, v)
  BY <1>1
<1>4. Deadlocked(v)
  BY <1>1 DEF Deadlocked
<1>5. /\ Busy(w) /\ call[w].op = "upsert" /\ pos[w] = 2 /\ target[w] = NoRows
      /\ Busy(v) /\ call[v].op = "upsert" /\ pos[v] = 2 /\ v # w
  BY <1>1, <1>2, <1>3, PendingHasNoTag DEF WaitsFor
<1>6. SensorOf(call[v].device) = call[w].sensor
  BY <1>1, <1>2, <1>3, <1>5 DEF WaitsFor, At, Holds
<1>7. call[v].device # call[w].device
  BY <1>2, <1>5, OneHolds DEF Inv
<1> QED
  BY <1>1, <1>2, <1>4, <1>6, <1>7

\* Upserts whose lists have their tags in one order wait in a circle only where
\* sensors change places: for any number of them at a time, any lists, any
\* order and any sensors.
THEOREM OnlySwapsAreEnded == Spec => []OnlySwapsDeadlock
<1>1. Inv => OnlySwapsDeadlock
  BY CircleIsSwap DEF OnlySwapsDeadlock
<1> QED
  BY <1>1, Invariant, PTL
=============================================================================
