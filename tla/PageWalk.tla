------------------------------ MODULE PageWalk ------------------------------
(***************************************************************************)
(* Walking a list page by page along the links of the responses, while the *)
(* records change.                                                         *)
(*                                                                         *)
(* Every list of the service is one SQL statement per page: WHERE selects, *)
(* ORDER BY ranks, OFFSET and LIMIT cut, a window function counts, and     *)
(* createLinks turns offset, limit and count into links.  Nothing is kept  *)
(* between two pages.  Here a record is an identifier, and WHERE and ORDER *)
(* BY are a key: Absent for a record the query does not select, otherwise  *)
(* a number, the higher the earlier.  Module Listings says which key the   *)
(* rows of the database have.                                              *)
(***************************************************************************)
EXTENDS Integers, FiniteSets, Functions

CONSTANTS Rows,       \* identifiers of the records, in their order
          Keys,       \* what ORDER BY compares before it comes to them
          Offsets,    \* offsets a walk is begun with
          Limits      \* limits a walk is begun with

ASSUME RowsAreFinite == Rows \subseteq Nat /\ IsFiniteSet(Rows)
ASSUME KeysAreNat == Keys \subseteq Nat
ASSUME OffsetsAreNat == Offsets \subseteq Nat
ASSUME LimitsArePositive == Limits \subseteq Nat \ {0}

Absent == -1

VARIABLES table,     \* the key of each record for the query of the walk
          tieBreak,  \* ORDER BY ends with the identifier
          mode,      \* what the client does next
          at,        \* the offset it asks for next
          limit,     \* the limit of all its requests
          seen,      \* records on the pages so far ...
          twice,     \* ... and those on two of them
          due,       \* records the walk should show, see below
          moved      \* how records have moved since the walk began

walk == <<tieBreak, mode, at, limit, seen, twice>>
vars == <<table, walk, due, moved>>

\* forward: along next; first: asks for a page to find the link last;
\* last, backward: at that link, then along prev; done: no link is left to
\* follow; lost: an empty page without links.
Modes == {"forward", "first", "last", "backward", "done forward",
          "done backward", "lost first", "lost"}

Forward == mode \in {"forward", "done forward"}
Backward == mode \in {"first", "last", "backward", "done backward"}
Walking == mode \in {"forward", "first", "last", "backward"}

Movements == {"rose", "fell", "entered", "left"}
-----------------------------------------------------------------------------
(***************************************************************************)
(* One page.                                                               *)
(***************************************************************************)
Matching == {r \in Rows : table[r] # Absent}
Total == Cardinality(Matching)

Before(r, s) ==
    \/ table[r] > table[s]
    \/ table[r] = table[s] /\ tieBreak /\ r < s

\* Where ORDER BY leaves a tie, each statement may break it in its own way.
Rankings ==
    {rank \in Bijection(Matching, 0 .. Total - 1) :
        \A r, s \in Matching : Before(r, s) => rank[r] < rank[s]}

\* MUTANT: BETWEEN, both ends included.
PageInclusive(rank, offset) ==
    {r \in Matching : offset <= rank[r] /\ rank[r] <= offset + limit}

Page(rank, offset) ==
    {r \in Matching : offset <= rank[r] /\ rank[r] < offset + limit}

\* createLinks makes no links for an empty page: it brings no count with it.
NoLinks(page) == page = {}

\* MUTANT: the last record is not before the end.
HasNextShort == at + limit < Total - 1

HasNext == at + limit < Total

\* MUTANT: one page too far when the last one is full.
LastOffsetUnaligned == (Total \div limit) * limit

LastOffset == ((Total - 1) \div limit) * limit

\* MUTANT: the link keeps the offset.
NextOffsetKept == at

NextOffset == at + limit

PrevOffset == at - limit

HasPrev == PrevOffset >= 0
-----------------------------------------------------------------------------
(***************************************************************************)
(* What a walk should show.  A record that is selected when the walk       *)
(* begins, behind its offset, and that neither changes nor ties with       *)
(* another one meanwhile, is due: its place is a matter of the others.     *)
(***************************************************************************)
Ahead(r) == {s \in Matching : Before(s, r)}
Place(r) == Cardinality(Ahead(r))

Tied(r) == ~tieBreak /\ \E s \in Rows \ {r} : table[s] = table[r]

\* A walk begins with a query, which fixes the keys and whether they are broken
\* by the identifier, and with a request for a page.
Init ==
    /\ table \in [Rows -> Keys \cup {Absent}]
    /\ tieBreak \in BOOLEAN
    /\ limit \in Limits
    /\ at \in Offsets
    /\ \/ /\ mode = "forward"
          /\ due = {r \in Matching : ~Tied(r) /\ Place(r) >= at}
       \/ /\ mode = "first"
          /\ due = {r \in Matching : ~Tied(r)}
    /\ seen = {} /\ twice = {} /\ moved = {}

See(page) == seen' = seen \cup page /\ twice' = twice \cup (seen \cap page)

\* A page of a walk along next.
ReadForward ==
    /\ mode = "forward"
    /\ \E rank \in Rankings :
        LET page == Page(rank, at) IN
        /\ See(page)
        /\ IF NoLinks(page)
           THEN /\ mode' = IF seen = {} THEN "lost first" ELSE "lost"
                /\ UNCHANGED at
           ELSE IF HasNext THEN at' = NextOffset /\ UNCHANGED mode
           ELSE mode' = "done forward" /\ UNCHANGED at
    /\ UNCHANGED <<table, tieBreak, limit, due, moved>>

\* The page whose link to the last one is followed.
ReadFirst ==
    /\ mode = "first"
    /\ \E rank \in Rankings :
        IF NoLinks(Page(rank, at))
        THEN mode' = "lost first" /\ UNCHANGED at
        ELSE mode' = "last" /\ at' = LastOffset
    /\ UNCHANGED <<table, tieBreak, limit, seen, twice, due, moved>>

\* A page of a walk along prev.
ReadBackward ==
    /\ mode \in {"last", "backward"}
    /\ \E rank \in Rankings :
        LET page == Page(rank, at) IN
        /\ See(page)
        /\ IF NoLinks(page) THEN mode' = "lost" /\ UNCHANGED at
           ELSE IF HasPrev THEN at' = PrevOffset /\ mode' = "backward"
           ELSE mode' = "done backward" /\ UNCHANGED at
    /\ UNCHANGED <<table, tieBreak, limit, due, moved>>

Read == ReadForward \/ ReadFirst \/ ReadBackward

\* How a record whose key was k moves when it becomes l.
Movement(k, l) ==
    CASE k = l -> {}
      [] k = Absent /\ l # Absent -> {"entered"}
      [] k # Absent /\ l = Absent -> {"left"}
      [] k # Absent /\ l # Absent /\ k < l -> {"rose"}
      [] OTHER -> {"fell"}

\* Records are written, one or, in a transaction, several: they come, go, or
\* change their places.
Change ==
    /\ table' \in [Rows -> Keys \cup {Absent}]
    /\ table' # table
    /\ UNCHANGED walk
    /\ moved' = moved \cup UNION {Movement(table[r], table'[r]) : r \in Rows}
    /\ due' = {r \in due : table'[r] = table[r] /\ ~Tied(r)'}

Next == Read \/ Change

Spec == Init /\ [][Next]_vars

\* The client goes on until no link is left; nothing obliges a record to change.
FairSpec == Spec /\ WF_vars(Read)
-----------------------------------------------------------------------------
(***************************************************************************)
(* Properties.                                                             *)
(***************************************************************************)
TypeOK ==
    /\ table \in [Rows -> Keys \cup {Absent}]
    /\ tieBreak \in BOOLEAN
    /\ mode \in Modes
    /\ at \in Nat /\ limit \in Limits
    /\ twice \subseteq seen /\ seen \subseteq Rows
    /\ due \subseteq Matching
    /\ moved \subseteq Movements

\* A walk to the end misses a record that is due only when other records have
\* moved the right way past the client: back or out of the list on a walk along
\* next, forward or into it on a walk along prev.  New observations, which move
\* devices to the front, never hide a silent device from a walk along next.
MissedOnlyByMovement ==
    /\ mode = "done forward" /\ moved \subseteq {"rose", "entered"}
       => due \subseteq seen
    /\ mode = "done backward" /\ moved \subseteq {"fell", "left"}
       => due \subseteq seen

\* A record that is due is shown twice only when others have moved the other
\* way.  With the invariant above: a walk over records that do not change shows
\* each of them once.
RepeatedOnlyByMovement ==
    /\ Forward /\ moved \subseteq {"fell", "left"} => due \cap twice = {}
    /\ Backward /\ moved \subseteq {"rose", "entered"} => due \cap twice = {}

\* A link leads to an empty page, which has no links to go on with, only when
\* a record has left the list since.
LostOnlyWhenRecordsLeft == mode = "lost" => "left" \in moved

\* A walk comes to its end, whatever is written meanwhile.
WalkEnds == <>~Walking
=============================================================================
