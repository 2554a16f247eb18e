--------------------------- MODULE PageWalkProofs ---------------------------
(***************************************************************************)
(* Proofs about PageWalk for any records, keys, offsets and limits, and    *)
(* for any changes during a walk.                                          *)
(*                                                                         *)
(* A record that ties with no other has its place whatever the database    *)
(* does with ties (RankIsPlace), and a change moves that place only the    *)
(* way other records move (ChangeMovesOneWay).  So the client, who keeps   *)
(* an offset, has a record behind it or before it, as Behind and Beyond    *)
(* say, until records have moved the wrong way.                            *)
(***************************************************************************)
EXTENDS PageWalk, FiniteSetTheorems, TLAPS

-----------------------------------------------------------------------------
(***************************************************************************)
(* Matching, ranks and places.                                             *)
(***************************************************************************)
LEMMA SetsOfRowsAreFinite ==
    ASSUME NEW S \in SUBSET Rows
    PROVE  IsFiniteSet(S) /\ Cardinality(S) \in Nat
  BY FS_Subset, FS_CardinalityType, RowsAreFinite

LEMMA MatchingIsFinite ==
    /\ IsFiniteSet(Matching) /\ Total \in Nat
    /\ \A r : IsFiniteSet(Ahead(r)) /\ Place(r) \in Nat
  BY SetsOfRowsAreFinite DEF Matching, Total, Ahead, Place

LEMMA KeysAreNumbers ==
    ASSUME NEW k \in Keys \cup {Absent}
    PROVE  k \in Int
<1>1. CASE k \in Keys
  <2>1. k \in Nat
    BY <1>1, KeysAreNat
  <2> QED
    BY <2>1
<1>2. CASE k = Absent
  BY <1>2 DEF Absent
<1> QED
  BY <1>1, <1>2

LEMMA KeysAreInt ==
    ASSUME TypeOK, NEW r \in Rows
    PROVE  table[r] \in Int
  BY KeysAreNumbers DEF TypeOK

\* A set whose members rank takes, one to one, to the first numbers.
LEMMA RanksCount ==
    ASSUME NEW S, IsFiniteSet(S), NEW n \in Nat,
           NEW rank \in [S -> Nat],
           \A r, s \in S : rank[r] = rank[s] => r = s,
           \A r \in S : rank[r] < n,
           \A i \in 0 .. n - 1 : \E r \in S : rank[r] = i
    PROVE  Cardinality(S) = n
<1> DEFINE T == 0 .. n - 1
           f == [r \in S |-> rank[r]]
<1>1. f \in [S -> T]
  OBVIOUS
<1>2. f \in Injection(S, T)
  BY <1>1 DEF Injection, IsInjective
<1>3. f \in Surjection(S, T)
  BY <1>1 DEF Surjection
<1>4. ExistsBijection(S, T)
  BY <1>2, <1>3 DEF ExistsBijection, Bijection
<1>5. Cardinality(T) = Cardinality(S)
  BY <1>4, FS_Bijection
<1>6. Cardinality(T) = n
  BY FS_Interval
<1> QED
  BY <1>5, <1>6

LEMMA RankingsAreOneToOne ==
    ASSUME NEW rank \in Rankings
    PROVE  /\ rank \in [Matching -> 0 .. Total - 1]
           /\ \A r, s \in Matching : rank[r] = rank[s] => r = s
           /\ \A i \in 0 .. Total - 1 : \E r \in Matching : rank[r] = i
           /\ \A r, s \in Matching : Before(r, s) => rank[r] < rank[s]
  BY DEF Rankings, Bijection, Injection, IsInjective, Surjection

\* However ties are broken, a record that ties with no other stands where the
\* records ahead of it put it.
LEMMA RankIsPlace ==
    ASSUME TypeOK, NEW rank \in Rankings, NEW u \in Matching, ~Tied(u)
    PROVE  rank[u] = Place(u)
<1> DEFINE n == rank[u]
<1>1. n \in 0 .. Total - 1 /\ Total \in Nat
  BY RankingsAreOneToOne, MatchingIsFinite
<1>2. \A s \in Ahead(u) : s \in Matching /\ rank[s] < n
  BY RankingsAreOneToOne DEF Ahead
<1>3. ASSUME NEW s \in Matching, rank[s] < n PROVE s \in Ahead(u)
  <2>1. s # u
    BY <1>1, <1>3
  <2>2. s \in Rows /\ u \in Rows /\ s \in Nat /\ u \in Nat
    BY RowsAreFinite DEF Matching
  <2>3. table[s] \in Int /\ table[u] \in Int
    BY <2>2, KeysAreInt
  <2>4. Before(s, u) \/ Before(u, s)
    BY <2>1, <2>2, <2>3 DEF Before, Tied
  <2>5. ~Before(u, s)
    <3>1. rank[s] \in 0 .. Total - 1
      BY RankingsAreOneToOne
    <3> QED
      BY <1>1, <1>3, <3>1, RankingsAreOneToOne
  <2> QED
    BY <2>4, <2>5 DEF Ahead
<1>4. \A i \in 0 .. n - 1 : \E r \in Ahead(u) : rank[r] = i
  <2> SUFFICES ASSUME NEW i \in 0 .. n - 1 PROVE \E r \in Ahead(u) : rank[r] = i
    OBVIOUS
  <2>1. i \in 0 .. Total - 1
    BY <1>1
  <2>2. PICK r \in Matching : rank[r] = i
    BY <2>1, RankingsAreOneToOne
  <2> QED
    BY <1>1, <1>3, <2>2
<1> DEFINE g == [r \in Ahead(u) |-> rank[r]]
<1>5. /\ g \in [Ahead(u) -> Nat]
      /\ \A r, s \in Ahead(u) : g[r] = g[s] => r = s
      /\ \A r \in Ahead(u) : g[r] < n
      /\ \A i \in 0 .. n - 1 : \E r \in Ahead(u) : g[r] = i
  <2>1. \A r \in Ahead(u) : r \in Matching /\ rank[r] \in Nat
    BY <1>2, RankingsAreOneToOne
  <2> QED
    BY <1>2, <1>4, <2>1, RankingsAreOneToOne
<1>6. n \in Nat
  BY <1>1
<1>7. Cardinality(Ahead(u)) = n
  <2> HIDE DEF n, g
  <2> QED BY <1>5, <1>6, MatchingIsFinite, RanksCount
<1> QED
  BY <1>7 DEF Place

\* A page at an offset before the end is not empty.
LEMMA PageBeforeTheEnd ==
    ASSUME TypeOK, NEW rank \in Rankings, at < Total
    PROVE  Page(rank, at) # {}
<1>1. at \in 0 .. Total - 1 /\ limit \in Nat \ {0}
  BY MatchingIsFinite, LimitsArePositive DEF TypeOK
<1>2. PICK r \in Matching : rank[r] = at
  BY <1>1, RankingsAreOneToOne
<1> QED
  BY <1>1, <1>2 DEF Page

LEMMA LastOffsetIsLastPage ==
    ASSUME NEW t \in Nat \ {0}, NEW l \in Nat \ {0}
    PROVE  LET q == (t - 1) \div l
           IN q \in Nat /\ q * l < t /\ t <= q * l + l
  OBVIOUS
LEMMA OneMultipleLess ==
    ASSUME NEW n \in Nat, NEW l \in Nat
    PROVE  (n - 1) * l = n * l - l
  OBVIOUS

-----------------------------------------------------------------------------
(***************************************************************************)
(* Changes.                                                                *)
(***************************************************************************)
LEMMA MovementsAreComparisons ==
    ASSUME NEW k \in Keys \cup {Absent}, NEW l \in Keys \cup {Absent}
    PROVE  /\ Movement(k, l) \subseteq Movements
           /\ Movement(k, l) \subseteq {"rose", "entered"} => k <= l
           /\ Movement(k, l) \subseteq {"fell", "left"} => l <= k
           /\ "left" \notin Movement(k, l) => (k # Absent => l # Absent)
<1>1. k \in Int /\ l \in Int /\ (k = Absent \/ 0 <= k) /\ (l = Absent \/ 0 <= l)
  BY KeysAreNat DEF Absent
<1>2. Absent < 0 /\ Absent \in Int
  BY DEF Absent
<1>3. CASE k = l
  BY <1>1, <1>3 DEF Movement
<1>4. CASE k = Absent /\ l # Absent
  BY <1>1, <1>2, <1>4 DEF Movement, Movements
<1>5. CASE k # Absent /\ l = Absent
  BY <1>1, <1>2, <1>5 DEF Movement, Movements
<1>6. CASE k # Absent /\ l # Absent /\ k < l
  BY <1>1, <1>6 DEF Movement, Movements
<1>7. CASE k # Absent /\ l # Absent /\ l < k
  BY <1>1, <1>7 DEF Movement, Movements
<1> QED
  BY <1>1, <1>3, <1>4, <1>5, <1>6, <1>7

\* What the history says of the change that was the last.
LEMMA ChangeIsRecorded ==
    ASSUME TypeOK, Change
    PROVE  /\ moved \subseteq moved' /\ moved' \subseteq Movements
           /\ moved' \subseteq {"rose", "entered"} =>
                \A r \in Rows : table[r] <= table'[r]
           /\ moved' \subseteq {"fell", "left"} =>
                \A r \in Rows : table'[r] <= table[r]
           /\ "left" \notin moved' =>
                \A r \in Rows : table[r] # Absent => table'[r] # Absent
<1>1. \A r \in Rows : /\ table[r] \in Keys \cup {Absent}
                      /\ table'[r] \in Keys \cup {Absent}
  BY DEF TypeOK, Change
<1>2. \A r \in Rows : Movement(table[r], table'[r]) \subseteq moved'
  BY DEF Change
<1>3. \A r \in Rows : Movement(table[r], table'[r]) \subseteq Movements
  BY <1>1, MovementsAreComparisons
<1>4. moved' \subseteq Movements
  BY <1>3 DEF Change, TypeOK
<1>5. moved \subseteq moved'
  BY DEF Change
<1>6. ASSUME NEW r \in Rows
      PROVE  /\ moved' \subseteq {"rose", "entered"} => table[r] <= table'[r]
             /\ moved' \subseteq {"fell", "left"} => table'[r] <= table[r]
             /\ "left" \notin moved' => (table[r] # Absent => table'[r] # Absent)
  <2> DEFINE m == Movement(table[r], table'[r])
  <2>1. m \subseteq moved'
    BY <1>2
  <2>2. /\ m \subseteq {"rose", "entered"} => table[r] <= table'[r]
        /\ m \subseteq {"fell", "left"} => table'[r] <= table[r]
        /\ "left" \notin m => (table[r] # Absent => table'[r] # Absent)
    BY <1>1, MovementsAreComparisons
  <2> HIDE DEF m
  <2> QED
    BY <2>1, <2>2
<1> QED
  BY <1>4, <1>5, <1>6

\* When no record moves back or leaves, those ahead of a record stay ahead; when
\* none moves forward or enters, no other comes ahead.
LEMMA ChangeMovesOneWay ==
    ASSUME TypeOK, TypeOK', Change, NEW u \in due'
    PROVE  /\ moved' \subseteq {"rose", "entered"} => Place(u) <= Place(u)'
           /\ moved' \subseteq {"fell", "left"} => Place(u)' <= Place(u)
<1>1. u \in due /\ u \in Rows /\ table'[u] = table[u] /\ tieBreak' = tieBreak
  BY DEF Change, walk, TypeOK, Matching
<1>2. \A r \in Rows : table[r] \in Int /\ table'[r] \in Int
  <2>1. \A r \in Rows : table[r] \in Int
    BY KeysAreInt
  <2>2. ASSUME NEW r \in Rows PROVE table'[r] \in Int
    <3>1. table'[r] \in Keys \cup {Absent}
      BY DEF Change
    <3> QED
      BY <3>1, KeysAreNumbers
  <2> QED
    BY <2>1, <2>2
<1>3. /\ IsFiniteSet(Ahead(u)) /\ Place(u) \in Nat
      /\ IsFiniteSet(Ahead(u)') /\ Place(u)' \in Nat
  BY SetsOfRowsAreFinite DEF Matching, Ahead, Place
<1>4. ASSUME moved' \subseteq {"rose", "entered"} PROVE Place(u) <= Place(u)'
  <2>1. \A r \in Rows : table[r] <= table'[r]
    BY <1>4, ChangeIsRecorded
  <2>2. Ahead(u) \subseteq Ahead(u)'
    <3> SUFFICES ASSUME NEW s \in Ahead(u) PROVE s \in Ahead(u)'
      OBVIOUS
    <3>1. s \in Rows /\ table[s] # Absent /\ Before(s, u)
      BY DEF Ahead, Matching
    <3>2. table'[s] # Absent
      <4>1. table[s] \in Keys
        BY <3>1 DEF TypeOK
      <4> QED
        BY <1>2, <2>1, <3>1, <4>1, KeysAreNat DEF Absent
    <3>3. Before(s, u)'
      BY <1>1, <1>2, <2>1, <3>1 DEF Before
    <3> QED
      BY <3>1, <3>2, <3>3 DEF Ahead, Matching
  <2> QED
    BY <1>3, <2>2, FS_Subset DEF Place
<1>5. ASSUME moved' \subseteq {"fell", "left"} PROVE Place(u)' <= Place(u)
  <2>1. \A r \in Rows : table'[r] <= table[r]
    BY <1>5, ChangeIsRecorded
  <2>2. Ahead(u)' \subseteq Ahead(u)
    <3> SUFFICES ASSUME NEW s \in Ahead(u)' PROVE s \in Ahead(u)
      OBVIOUS
    <3>1. s \in Rows /\ table'[s] # Absent /\ Before(s, u)'
      BY DEF Ahead, Matching
    <3>2. table[s] # Absent
      <4>1. table'[s] \in Keys
        BY <3>1 DEF Change
      <4> QED
        BY <1>2, <2>1, <3>1, <4>1, KeysAreNat DEF Absent
    <3>3. Before(s, u)
      BY <1>1, <1>2, <2>1, <3>1 DEF Before
    <3> QED
      BY <3>1, <3>2, <3>3 DEF Ahead, Matching
  <2> QED
    BY <1>3, <2>2, FS_Subset DEF Place
<1> QED
  BY <1>4, <1>5

LEMMA TotalDoesNotShrink ==
    ASSUME TypeOK, Change, "left" \notin moved'
    PROVE  Total <= Total'
<1>1. Matching \subseteq Matching'
  BY ChangeIsRecorded DEF Matching
<1>2. IsFiniteSet(Matching')
  BY FS_Subset, RowsAreFinite DEF Matching
<1> QED
  BY <1>1, <1>2, FS_Subset DEF Total
-----------------------------------------------------------------------------
(***************************************************************************)
(* The invariant.                                                          *)
(***************************************************************************)
OnlyUp == moved \subseteq {"rose", "entered"}
OnlyDown == moved \subseteq {"fell", "left"}

\* Along next: what is not seen stands at the offset or behind it, what is seen
\* before it.
Behind ==
    /\ mode = "forward" =>
          /\ OnlyUp => \A u \in due \ seen : at <= Place(u)
          /\ OnlyDown => \A u \in due \cap seen : Place(u) < at
    /\ mode = "done forward" /\ OnlyUp => due \subseteq seen
    /\ Forward /\ OnlyDown => due \cap twice = {}

\* Along prev, from pages that begin at multiples of the limit: what is not seen
\* stands before the end of the next page, what is seen behind it.
Beyond ==
    /\ mode = "first" => seen = {} /\ twice = {}
    /\ mode \in {"last", "backward"} =>
          /\ \E n \in Nat : at = n * limit
          /\ OnlyDown => \A u \in due \ seen : Place(u) < at + limit
          /\ OnlyUp => \A u \in due \cap seen : at + limit <= Place(u)
    /\ mode = "done backward" /\ OnlyDown => due \subseteq seen
    /\ Backward /\ OnlyUp => due \cap twice = {}

\* A link leads before the end, until records leave.
Inside ==
    /\ \/ mode = "forward" /\ seen # {}
       \/ mode \in {"last", "backward"}
       => "left" \in moved \/ at < Total
    /\ mode = "lost" => "left" \in moved

Inv == TypeOK /\ (\A u \in due : ~Tied(u)) /\ Behind /\ Beyond /\ Inside

LEMMA InitEstablishesInv == Init => Inv
<1> SUFFICES ASSUME Init PROVE Inv
  OBVIOUS
<1>1. TypeOK
  BY OffsetsAreNat DEF Init, TypeOK, Modes
<1>2. \A u \in due : ~Tied(u)
  BY DEF Init
<1>3. Behind
  BY DEF Init, Behind, Forward
<1>4. Beyond
  BY DEF Init, Beyond, Backward
<1>5. Inside
  BY DEF Init, Inside
<1> QED
  BY <1>1, <1>2, <1>3, <1>4, <1>5 DEF Inv

LEMMA ReadForwardKeepsInv == Inv /\ ReadForward => Inv'
<1> SUFFICES ASSUME Inv, ReadForward PROVE Inv'
  OBVIOUS
<1> USE DEF Inv
<1>1. mode = "forward" /\ UNCHANGED <<table, tieBreak, limit, due, moved>>
  BY DEF ReadForward
<1>2. PICK rank \in Rankings :
        /\ See(Page(rank, at))
        /\ IF NoLinks(Page(rank, at))
           THEN /\ mode' = IF seen = {} THEN "lost first" ELSE "lost"
                /\ UNCHANGED at
           ELSE IF HasNext THEN at' = NextOffset /\ UNCHANGED mode
           ELSE mode' = "done forward" /\ UNCHANGED at
  BY DEF ReadForward
<1> DEFINE page == Page(rank, at)
<1>3. at \in Nat /\ limit \in Nat /\ limit > 0 /\ Total \in Nat
  BY LimitsArePositive, MatchingIsFinite DEF TypeOK
<1>4. page \subseteq Matching
  BY DEF Page
<1>5. seen' = seen \cup page /\ twice' = twice \cup (seen \cap page)
  BY <1>2 DEF See
<1>6. /\ Matching' = Matching /\ Total' = Total
      /\ \A u : Place(u)' = Place(u) /\ (Tied(u)' <=> Tied(u))
  BY <1>1 DEF Matching, Total, Place, Ahead, Before, Tied
<1>7. \A u \in due : /\ rank[u] = Place(u) /\ Place(u) \in Nat /\ Place(u) < Total
                     /\ u \in page <=> at <= Place(u) /\ Place(u) < at + limit
  <2> SUFFICES ASSUME NEW u \in due
               PROVE  /\ rank[u] = Place(u) /\ Place(u) \in Nat /\ Place(u) < Total
                      /\ u \in page <=> at <= Place(u) /\ Place(u) < at + limit
    OBVIOUS
  <2>1. u \in Matching /\ ~Tied(u)
    BY DEF TypeOK
  <2>2. rank[u] = Place(u)
    BY <2>1, RankIsPlace
  <2>3. rank[u] \in 0 .. Total - 1
    BY <2>1, RankingsAreOneToOne
  <2> QED
    BY <1>3, <2>1, <2>2, <2>3 DEF Page
<1>8. mode' \in {"lost first", "lost", "forward", "done forward"}
  BY <1>1, <1>2
<1>9. CASE NoLinks(page)
  <2>1. mode' \in {"lost first", "lost"} /\ at' = at /\ page = {}
    BY <1>2, <1>9 DEF NoLinks
  <2>2. TypeOK'
    BY <1>1, <1>4, <1>5, <1>6, <2>1 DEF TypeOK, Modes, Matching
  <2>3. Behind' /\ Beyond'
    BY <2>1 DEF Behind, Beyond, Forward, Backward
  <2>4. Inside'
    <3>1. SUFFICES ASSUME mode' = "lost" PROVE "left" \in moved
      BY <1>1, <2>1 DEF Inside
    <3>2. seen # {}
      BY <1>2, <1>9, <3>1
    <3>3. ~(at < Total)
      BY <2>1, PageBeforeTheEnd
    <3> QED
      BY <1>1, <3>2, <3>3 DEF Inside
  <2> QED
    BY <1>1, <1>6, <2>2, <2>3, <2>4
<1>10. CASE ~NoLinks(page) /\ HasNext
  <2>1. mode' = "forward" /\ at' = at + limit /\ at' < Total /\ at' \in Nat
    BY <1>1, <1>2, <1>3, <1>10 DEF HasNext, NextOffset
  <2>2. TypeOK'
    BY <1>1, <1>4, <1>5, <1>6, <2>1 DEF TypeOK, Modes, Matching
  <2>3. Behind'
    <3>1. OnlyUp => \A u \in due' \ seen' : at' <= Place(u)
      BY <1>1, <1>3, <1>5, <1>7, <2>1 DEF Behind
    <3>2. OnlyDown => \A u \in due' \cap seen' : Place(u) < at'
      BY <1>1, <1>3, <1>5, <1>7, <2>1 DEF Behind
    <3>3. OnlyDown => due' \cap twice' = {}
      BY <1>1, <1>3, <1>5, <1>7 DEF Behind, Forward
    <3> QED
      BY <1>1, <1>6, <2>1, <3>1, <3>2, <3>3 DEF Behind, OnlyUp, OnlyDown
  <2>4. Beyond' /\ Inside'
    BY <1>6, <2>1 DEF Beyond, Inside, Backward
  <2> QED
    BY <1>1, <1>6, <2>2, <2>3, <2>4
<1>11. CASE ~NoLinks(page) /\ ~HasNext
  <2>1. mode' = "done forward" /\ at' = at
    BY <1>2, <1>11
  <2>0. Total <= at + limit
    BY <1>3, <1>11 DEF HasNext
  <2>2. TypeOK'
    BY <1>1, <1>4, <1>5, <1>6, <2>1 DEF TypeOK, Modes, Matching
  <2>3. Behind'
    <3>1. ASSUME OnlyUp, NEW u \in due PROVE u \in seen'
      <4>1. u \in seen \/ at <= Place(u)
        BY <1>1, <3>1 DEF Behind
      <4>2. Place(u) \in Nat /\ Place(u) < at + limit
        BY <1>3, <1>7, <2>0
      <4> QED
        BY <1>5, <1>7, <4>1, <4>2
    <3>2. OnlyDown => due' \cap twice' = {}
      BY <1>1, <1>3, <1>5, <1>7 DEF Behind, Forward
    <3> QED
      BY <1>1, <2>1, <3>1, <3>2 DEF Behind, OnlyUp, OnlyDown
  <2>4. Beyond' /\ Inside'
    BY <2>1 DEF Beyond, Inside, Backward
  <2> QED
    BY <1>1, <1>6, <2>2, <2>3, <2>4
<1> QED
  BY <1>9, <1>10, <1>11

LEMMA ReadFirstKeepsInv == Inv /\ ReadFirst => Inv'
<1> SUFFICES ASSUME Inv, ReadFirst PROVE Inv'
  OBVIOUS
<1> USE DEF Inv
<1>1. mode = "first" /\ UNCHANGED <<table, tieBreak, limit, seen, twice, due, moved>>
  BY DEF ReadFirst
<1>2. PICK rank \in Rankings :
        IF NoLinks(Page(rank, at))
        THEN mode' = "lost first" /\ UNCHANGED at
        ELSE mode' = "last" /\ at' = LastOffset
  BY DEF ReadFirst
<1>3. at \in Nat /\ limit \in Nat \ {0} /\ Total \in Nat
  BY LimitsArePositive, MatchingIsFinite DEF TypeOK
<1>4. seen = {} /\ twice = {}
  BY <1>1 DEF Beyond
<1>5. /\ Matching' = Matching /\ Total' = Total
      /\ \A u : Place(u)' = Place(u) /\ (Tied(u)' <=> Tied(u))
  BY <1>1 DEF Matching, Total, Place, Ahead, Before, Tied
<1>6. CASE NoLinks(Page(rank, at))
  <2>1. mode' = "lost first" /\ at' = at
    BY <1>2, <1>6
  <2>2. TypeOK'
    BY <1>1, <1>5, <2>1 DEF TypeOK, Modes
  <2>3. Behind' /\ Beyond' /\ Inside'
    BY <2>1 DEF Behind, Beyond, Inside, Forward, Backward
  <2> QED
    BY <1>1, <1>5, <2>2, <2>3
<1>7. CASE ~NoLinks(Page(rank, at))
  <2>1. mode' = "last" /\ at' = LastOffset
    BY <1>2, <1>7
  <2>2. Total > 0
    <3>1. Matching # {}
      BY <1>7 DEF NoLinks, Page
    <3> QED
      BY <1>3, <3>1, MatchingIsFinite, FS_EmptySet DEF Total
  <2> DEFINE q == (Total - 1) \div limit
  <2>3. q \in Nat /\ q * limit < Total /\ Total <= q * limit + limit
    <3>1. Total \in Nat \ {0}
      BY <1>3, <2>2
    <3> QED
      BY <1>3, <3>1, LastOffsetIsLastPage
  <2>4. at' = q * limit /\ limit' = limit
    BY <1>1, <2>1 DEF LastOffset
  <2> HIDE DEF q
  <2>5. PICK a \in Nat : at' = a /\ a < Total /\ Total <= a + limit
    BY <1>3, <2>3, <2>4
  <2>6. TypeOK'
    BY <1>1, <1>5, <2>1, <2>5 DEF TypeOK, Modes
  <2>7. \A u \in due : Place(u) \in Nat /\ Place(u) < Total
    <3> SUFFICES ASSUME NEW u \in due PROVE Place(u) \in Nat /\ Place(u) < Total
      OBVIOUS
    <3>1. u \in Matching /\ ~Tied(u)
      BY DEF TypeOK
    <3>2. rank[u] = Place(u) /\ rank[u] \in 0 .. Total - 1
      BY <3>1, RankIsPlace, RankingsAreOneToOne
    <3> QED
      BY <1>3, <3>2
  <2>8. Beyond'
    <3>1. \E n \in Nat : at' = n * limit'
      BY <2>3, <2>4
    <3>2. ASSUME NEW u \in due PROVE Place(u) < at' + limit
      <4>1. Place(u) \in Nat /\ Place(u) < Total
        BY <2>7
      <4> QED
        BY <1>3, <2>5, <4>1
    <3> QED
      BY <1>1, <1>4, <1>5, <2>1, <3>1, <3>2 DEF Beyond, OnlyUp, OnlyDown, Backward
  <2>9. Behind' /\ Inside'
    BY <1>5, <2>1, <2>5 DEF Behind, Inside, Forward
  <2> QED
    BY <1>1, <1>5, <2>6, <2>8, <2>9
<1> QED
  BY <1>6, <1>7

LEMMA ReadBackwardKeepsInv == Inv /\ ReadBackward => Inv'
<1> SUFFICES ASSUME Inv, ReadBackward PROVE Inv'
  OBVIOUS
<1> USE DEF Inv
<1>1. /\ mode \in {"last", "backward"}
      /\ UNCHANGED <<table, tieBreak, limit, due, moved>>
  BY DEF ReadBackward
<1>2. PICK rank \in Rankings :
        /\ See(Page(rank, at))
        /\ IF NoLinks(Page(rank, at)) THEN mode' = "lost" /\ UNCHANGED at
           ELSE IF HasPrev THEN at' = PrevOffset /\ mode' = "backward"
           ELSE mode' = "done backward" /\ UNCHANGED at
  BY DEF ReadBackward
<1> DEFINE page == Page(rank, at)
<1>3. at \in Nat /\ limit \in Nat /\ limit > 0 /\ Total \in Nat
  BY LimitsArePositive, MatchingIsFinite DEF TypeOK
<1>4. page \subseteq Matching
  BY DEF Page
<1>5. seen' = seen \cup page /\ twice' = twice \cup (seen \cap page)
  BY <1>2 DEF See
<1>6. /\ Matching' = Matching /\ Total' = Total
      /\ \A u : Place(u)' = Place(u) /\ (Tied(u)' <=> Tied(u))
  BY <1>1 DEF Matching, Total, Place, Ahead, Before, Tied
<1>7. \A u \in due : /\ Place(u) \in Nat
                     /\ u \in page <=> at <= Place(u) /\ Place(u) < at + limit
  <2> SUFFICES ASSUME NEW u \in due
               PROVE  /\ Place(u) \in Nat
                      /\ u \in page <=> at <= Place(u) /\ Place(u) < at + limit
    OBVIOUS
  <2>1. u \in Matching /\ ~Tied(u)
    BY DEF TypeOK
  <2>2. rank[u] = Place(u)
    BY <2>1, RankIsPlace
  <2>3. rank[u] \in 0 .. Total - 1
    BY <2>1, RankingsAreOneToOne
  <2> QED
    BY <1>3, <2>1, <2>2, <2>3 DEF Page
<1>8. OnlyUp => due' \cap twice' = {}
  <2> SUFFICES ASSUME OnlyUp, NEW u \in due PROVE u \notin twice'
    BY <1>1
  <2>1. u \notin twice
    BY <1>1 DEF Beyond, Backward
  <2>2. u \in seen => at + limit <= Place(u)
    BY <1>1 DEF Beyond
  <2>3. ~(u \in seen /\ u \in page)
    BY <1>3, <1>7, <2>2
  <2> QED
    BY <1>5, <2>1, <2>3
<1>9. CASE NoLinks(page)
  <2>1. mode' = "lost" /\ at' = at /\ page = {}
    BY <1>2, <1>9 DEF NoLinks
  <2>2. TypeOK'
    BY <1>1, <1>4, <1>5, <1>6, <2>1 DEF TypeOK, Modes, Matching
  <2>3. Behind' /\ Beyond'
    BY <2>1 DEF Behind, Beyond, Forward, Backward
  <2>4. "left" \in moved
    <3>1. ~(at < Total)
      BY <2>1, PageBeforeTheEnd
    <3> QED
      BY <1>1, <3>1 DEF Inside
  <2> QED
    BY <1>1, <1>6, <2>1, <2>2, <2>3, <2>4 DEF Inside
<1>10. CASE ~NoLinks(page) /\ HasPrev
  <2>1. mode' = "backward" /\ at' = PrevOffset
    BY <1>2, <1>10
  <2>2. PICK a \in Nat : a = at - limit /\ at' = a
    BY <1>3, <1>10, <2>1 DEF HasPrev, PrevOffset
  <2>3. TypeOK'
    BY <1>1, <1>4, <1>5, <1>6, <2>1, <2>2 DEF TypeOK, Modes, Matching
  <2>4. Beyond'
    <3>1. \E n \in Nat : at' = n * limit'
      <4>1. PICK n \in Nat : at = n * limit
        BY <1>1 DEF Beyond
      <4>2. n # 0
        <5> SUFFICES ASSUME n = 0 PROVE FALSE
          OBVIOUS
        <5>1. at = 0
          BY <1>3, <4>1
        <5>2. at - limit < 0
          BY <1>3, <5>1
        <5> QED
          BY <2>2, <5>2
      <4>3. (n - 1) * limit = n * limit - limit
        BY <1>3, OneMultipleLess
      <4>4. at' = at - limit
        BY <2>2
      <4>5. n - 1 \in Nat /\ at' = (n - 1) * limit
        BY <4>1, <4>2, <4>3, <4>4
      <4> QED
        BY <1>1, <4>5
    <3>2. OnlyDown => \A u \in due' \ seen' : Place(u) < at' + limit
      <4> SUFFICES ASSUME OnlyDown, NEW u \in due, u \notin seen'
                   PROVE  Place(u) < at' + limit
        BY <1>1
      <4>1. Place(u) < at + limit /\ u \notin page
        BY <1>1, <1>5 DEF Beyond
      <4> QED
        BY <1>3, <1>7, <2>2, <4>1
    <3>3. OnlyUp => \A u \in due' \cap seen' : at' + limit <= Place(u)
      <4> SUFFICES ASSUME OnlyUp, NEW u \in due, u \in seen'
                   PROVE  at' + limit <= Place(u)
        BY <1>1
      <4>1. u \in page => at <= Place(u)
        BY <1>7
      <4>2. u \in seen => at + limit <= Place(u)
        BY <1>1 DEF Beyond
      <4> QED
        BY <1>3, <1>5, <1>7, <2>2, <4>1, <4>2
    <3> QED
      BY <1>1, <1>6, <1>8, <2>1, <3>1, <3>2, <3>3 DEF Beyond, OnlyUp, OnlyDown
  <2>5. Behind'
    BY <2>1 DEF Behind, Forward
  <2>6. Inside'
    BY <1>1, <1>3, <1>6, <2>1, <2>2 DEF Inside
  <2> QED
    BY <1>1, <1>6, <2>3, <2>4, <2>5, <2>6
<1>11. CASE ~NoLinks(page) /\ ~HasPrev
  <2>1. mode' = "done backward" /\ at' = at
    BY <1>2, <1>11
  <2>2. at = 0
    <3>1. at < limit
      BY <1>3, <1>11 DEF HasPrev, PrevOffset
    <3>2. PICK n \in Nat : at = n * limit
      BY <1>1 DEF Beyond
    <3>3. n < 1
      BY <1>3, <3>1, <3>2
    <3> QED
      BY <1>3, <3>2, <3>3
  <2>3. TypeOK'
    BY <1>1, <1>4, <1>5, <1>6, <2>1 DEF TypeOK, Modes, Matching
  <2>4. OnlyDown => due' \subseteq seen'
    <3> SUFFICES ASSUME OnlyDown, NEW u \in due PROVE u \in seen'
      BY <1>1
    <3>1. u \in seen \/ Place(u) < at + limit
      BY <1>1 DEF Beyond
    <3> QED
      BY <1>3, <1>5, <1>7, <2>2, <3>1
  <2>5. Beyond'
    BY <1>1, <1>8, <2>1, <2>4 DEF Beyond, OnlyUp, OnlyDown
  <2>6. Behind' /\ Inside'
    BY <2>1 DEF Behind, Inside, Forward
  <2> QED
    BY <1>1, <1>6, <2>3, <2>5, <2>6
<1> QED
  BY <1>9, <1>10, <1>11

LEMMA ChangeKeepsInv == Inv /\ Change => Inv'
<1> SUFFICES ASSUME Inv, Change PROVE Inv'
  OBVIOUS
<1> USE DEF Inv
<1>1. /\ UNCHANGED <<tieBreak, mode, at, limit, seen, twice>>
      /\ due' \subseteq due
      /\ \A u \in due' : table'[u] = table[u] /\ ~Tied(u)'
  BY DEF Change, walk
<1>2. at \in Nat /\ limit \in Nat /\ Total \in Nat /\ Total' \in Nat
  BY LimitsArePositive, MatchingIsFinite, SetsOfRowsAreFinite
  DEF TypeOK, Total, Matching
<1>3. due' \subseteq Matching'
  BY <1>1 DEF TypeOK, Matching
<1>4. moved \subseteq moved' /\ moved' \subseteq Movements
  BY ChangeIsRecorded
<1>5. TypeOK'
  BY <1>1, <1>3, <1>4 DEF TypeOK, Change
<1>6. ASSUME NEW u \in due'
      PROVE  /\ Place(u) \in Nat /\ Place(u)' \in Nat
             /\ OnlyUp' => Place(u) <= Place(u)'
             /\ OnlyDown' => Place(u)' <= Place(u)
  BY <1>5, ChangeMovesOneWay, SetsOfRowsAreFinite
  DEF OnlyUp, OnlyDown, Place, Ahead, Matching
<1>7. (OnlyUp' => OnlyUp) /\ (OnlyDown' => OnlyDown)
  BY <1>4 DEF OnlyUp, OnlyDown
<1>8. Behind'
  <2>1. ASSUME mode = "forward", OnlyUp', NEW u \in due' \ seen
        PROVE  at <= Place(u)'
    <3>1. at <= Place(u)
      BY <1>1, <1>7, <2>1 DEF Behind
    <3>2. Place(u) \in Nat /\ Place(u)' \in Nat /\ Place(u) <= Place(u)'
      BY <1>6, <2>1
    <3> QED
      BY <1>2, <3>1, <3>2
  <2>2. ASSUME mode = "forward", OnlyDown', NEW u \in due' \cap seen
        PROVE  Place(u)' < at
    <3>1. Place(u) < at
      BY <1>1, <1>7, <2>2 DEF Behind
    <3>2. Place(u) \in Nat /\ Place(u)' \in Nat /\ Place(u)' <= Place(u)
      BY <1>6, <2>2
    <3> QED
      BY <1>2, <3>1, <3>2
  <2>3. mode = "done forward" /\ OnlyUp' => due' \subseteq seen
    BY <1>1, <1>7 DEF Behind
  <2>4. Forward /\ OnlyDown' => due' \cap twice = {}
    BY <1>1, <1>7 DEF Behind
  <2> QED
    BY <1>1, <2>1, <2>2, <2>3, <2>4 DEF Behind, Forward
<1>9. Beyond'
  <2>1. ASSUME mode \in {"last", "backward"}, OnlyDown', NEW u \in due' \ seen
        PROVE  Place(u)' < at + limit
    <3>1. Place(u) < at + limit
      BY <1>1, <1>7, <2>1 DEF Beyond
    <3>2. Place(u) \in Nat /\ Place(u)' \in Nat /\ Place(u)' <= Place(u)
      BY <1>6, <2>1
    <3> QED
      BY <1>2, <3>1, <3>2
  <2>2. ASSUME mode \in {"last", "backward"}, OnlyUp', NEW u \in due' \cap seen
        PROVE  at + limit <= Place(u)'
    <3>1. at + limit <= Place(u)
      BY <1>1, <1>7, <2>2 DEF Beyond
    <3>2. Place(u) \in Nat /\ Place(u)' \in Nat /\ Place(u) <= Place(u)'
      BY <1>6, <2>2
    <3> QED
      BY <1>2, <3>1, <3>2
  <2>3. mode = "first" => seen = {} /\ twice = {}
    BY DEF Beyond
  <2>4. mode \in {"last", "backward"} => \E n \in Nat : at = n * limit
    BY DEF Beyond
  <2>5. mode = "done backward" /\ OnlyDown' => due' \subseteq seen
    BY <1>1, <1>7 DEF Beyond
  <2>6. Backward /\ OnlyUp' => due' \cap twice = {}
    BY <1>1, <1>7 DEF Beyond
  <2> QED
    BY <1>1, <2>1, <2>2, <2>3, <2>4, <2>5, <2>6 DEF Beyond, Backward
<1>10. Inside'
  <2>1. "left" \in moved' \/ Total <= Total'
    BY TotalDoesNotShrink
  <2> QED
    BY <1>1, <1>2, <1>4, <2>1 DEF Inside
<1> QED
  BY <1>1, <1>5, <1>8, <1>9, <1>10

LEMMA StutterKeepsInv == Inv /\ UNCHANGED vars => Inv'
<1> SUFFICES ASSUME Inv, UNCHANGED vars PROVE Inv'
  OBVIOUS
<1>1. /\ table' = table /\ tieBreak' = tieBreak /\ mode' = mode /\ at' = at
      /\ limit' = limit /\ seen' = seen /\ twice' = twice /\ due' = due /\ moved' = moved
  BY DEF vars, walk
<1>2. Matching' = Matching /\ Total' = Total
  BY <1>1 DEF Matching, Total
<1>3. ASSUME NEW u PROVE Place(u)' = Place(u) /\ (Tied(u)' <=> Tied(u))
  <2>1. Ahead(u)' = Ahead(u)
    BY <1>1, <1>2 DEF Ahead, Before
  <2> QED
    BY <1>1, <2>1 DEF Place, Tied
<1>4. TypeOK'
  BY <1>1, <1>2 DEF Inv, TypeOK
<1>5. \A u \in due' : ~Tied(u)'
  BY <1>1, <1>3 DEF Inv
<1>6. Behind'
  BY <1>1, <1>3 DEF Inv, Behind, Forward, OnlyUp, OnlyDown
<1>7. Beyond'
  BY <1>1, <1>3 DEF Inv, Beyond, Backward, OnlyUp, OnlyDown
<1>8. Inside'
  BY <1>1, <1>2 DEF Inv, Inside
<1> QED
  BY <1>4, <1>5, <1>6, <1>7, <1>8 DEF Inv

THEOREM InvHolds == Spec => []Inv
<1>1. Init => Inv
  BY InitEstablishesInv
<1>2. Inv /\ [Next]_vars => Inv'
  BY ReadForwardKeepsInv, ReadFirstKeepsInv, ReadBackwardKeepsInv, ChangeKeepsInv,
     StutterKeepsInv DEF Next, Read
<1> QED
  BY <1>1, <1>2, PTL DEF Spec
-----------------------------------------------------------------------------
(***************************************************************************)
(* The theorems.                                                           *)
(***************************************************************************)
\* The offset of a walk is a natural number, the records it has shown are
\* records, and those that are due are selected.
THEOREM TypeOKHolds == Spec => []TypeOK
<1>1. Inv => TypeOK
  BY DEF Inv
<1> QED
  BY <1>1, InvHolds, PTL

\* However many records come, go and change places, and however the database
\* breaks ties: a walk along next misses a record that is due only when others
\* fell back or left, a walk along prev only when others rose or entered.
THEOREM MissedOnlyByMovementHolds == Spec => []MissedOnlyByMovement
<1>1. Inv => MissedOnlyByMovement
  BY DEF Inv, Behind, Beyond, OnlyUp, OnlyDown, MissedOnlyByMovement
<1> QED
  BY <1>1, InvHolds, PTL

\* And it shows one twice only when others moved the other way.
THEOREM RepeatedOnlyByMovementHolds == Spec => []RepeatedOnlyByMovement
<1>1. Inv => RepeatedOnlyByMovement
  BY DEF Inv, Behind, Beyond, OnlyUp, OnlyDown, RepeatedOnlyByMovement
<1> QED
  BY <1>1, InvHolds, PTL

\* The links of createLinks lead to pages with records, and with links, until
\* records leave the list.
THEOREM LostOnlyWhenRecordsLeftHolds == Spec => []LostOnlyWhenRecordsLeft
<1>1. Inv => LostOnlyWhenRecordsLeft
  BY DEF Inv, Inside, LostOnlyWhenRecordsLeft
<1> QED
  BY <1>1, InvHolds, PTL
=============================================================================
