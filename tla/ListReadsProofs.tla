---------------------------- MODULE ListReadsProofs ----------------------------
(***************************************************************************)
(* What a client gets by turning pages, for any number of incidents and    *)
(* controllers, any page size and any ranks: an offset counts rows, so the *)
(* argument is about places, the number of rows that precede one.  While   *)
(* rows only leave a list, places only shrink, and what was shown stays    *)
(* before the next page.                                                   *)
(***************************************************************************)
EXTENDS ListReads, RecordsProofs

-----------------------------------------------------------------------------
(* The inductive invariant.                                                *)

IsHistory(kind) == kind.list = "histories"

\* The lists that no command adds a row to.
OnlyLeaves(kind) == kind.list = "incidents" /\ kind.filter # "mine_only"

\* How many rows precede row x.
Place(kind, x) == Cardinality({y \in Rows(kind) : Precedes(kind, y, x)})

\* The answer to the page is still open.
InPage == walk.phase \in {"begun", "counted"}

\* How many rows the pages stand for that were answered.
Turned == IF InPage THEN (walk.page - 1) * walk.size ELSE walk.page * walk.size

WalkTyped ==
    \/ walk = [phase |-> "idle"]
    \/ walk \in [phase : {"begun", "counted", "answered", "done"}, kind : Kinds,
                 size : Sizes, isolation : Isolations, snapshot : SUBSET Seq(Nat),
                 page : Nat \ {0}, total : Nat, items : Seq(Nat), shown : Seq(Nat),
                 start : SUBSET Nat]

\* What the rows have become since the client opened the list.
SinceStart ==
    IF OnlyLeaves(walk.kind) THEN Rows(walk.kind) \subseteq walk.start
    ELSE walk.start \subseteq Rows(walk.kind)

\* Order s of the rows, as it is now or was when the page was asked for, shows
\* nothing of what was shown before behind the pages that were turned.
SeesLeaving(s) ==
    OnlyLeaves(walk.kind) =>
      \A j \in DOMAIN s :
        /\ \A a \in DOMAIN walk.shown : walk.shown[a] = s[j] => j <= Turned
        /\ s[j] \in Rows(walk.kind) => Place(walk.kind, s[j]) < j

SeesHistory(s) ==
    IsHistory(walk.kind) =>
      /\ \A j \in DOMAIN s : s[j] = j
      /\ walk.start \subseteq 1..Len(s)
      /\ Len(s) <= Len(incident_histories[walk.kind.of])

SeesStart(s) ==
    Rows(walk.kind) = walk.start =>
      /\ Len(s) = Cardinality(walk.start)
      /\ \A j \in DOMAIN s : s[j] \in walk.start /\ Place(walk.kind, s[j]) = j - 1

Sees(s) ==
    /\ s \in Seq(Nat) /\ IsInjective(s)
    /\ SeesLeaving(s) /\ SeesHistory(s) /\ SeesStart(s)

\* The snapshot of a page: a reading of the rows as they were.
SnapshotSees ==
    walk.isolation = "REPEATABLE READ" /\ InPage =>
      /\ \A s \in walk.snapshot : Sees(s)
      /\ \A s, t \in walk.snapshot : Len(s) = Len(t)
      /\ walk.phase = "counted" => \A s \in walk.snapshot : Len(s) = walk.total

\* A list that only loses rows: what was shown is behind the client.
ShownBehind ==
    OnlyLeaves(walk.kind) =>
      /\ IsInjective(walk.shown)
      /\ \A j \in DOMAIN walk.shown :
            walk.shown[j] \in Rows(walk.kind) => Place(walk.kind, walk.shown[j]) < Turned

\* A list of the same rows as at first: what was shown is how it begins.
ShownBegins ==
    Rows(walk.kind) = walk.start =>
      /\ \A j \in DOMAIN walk.shown :
            walk.shown[j] \in walk.start /\ Place(walk.kind, walk.shown[j]) = j - 1
      /\ InPage => Len(walk.shown) = Turned /\ Turned <= Cardinality(walk.start)
      /\ walk.phase # "begun" => walk.total = Cardinality(walk.start)
      /\ ~ InPage => Len(walk.shown) = Min2(Turned, Cardinality(walk.start))

\* A history: what was shown is how it begins.
ShownHistory ==
    IsHistory(walk.kind) =>
      /\ \A j \in DOMAIN walk.shown : walk.shown[j] = j
      /\ Len(walk.shown) <= Turned
      /\ InPage => Len(walk.shown) = Turned
      /\ walk.phase # "begun" => walk.start \subseteq 1..walk.total
      /\ walk.phase = "counted" => walk.total <= Len(incident_histories[walk.kind.of])
      /\ ~ InPage => (walk.total <= Len(walk.shown) \/ Len(walk.shown) = Turned)

\* Only a client that has all pages is done.
DoneTurned == walk.phase = "done" => walk.total <= Turned

WalkInv ==
    walk.phase # "idle" =>
      /\ SinceStart /\ SnapshotSees
      /\ ShownBehind /\ ShownBegins /\ ShownHistory
      /\ DoneTurned

-----------------------------------------------------------------------------
(* Rows and their places.                                                  *)

\* The four kinds of lists, and the rows of each.
LEMMA KindCases ==
    ASSUME NEW kind \in Kinds
    PROVE  \/ /\ OnlyLeaves(kind) /\ ~ IsHistory(kind)
              /\ \/ kind.filter = "none" /\ Rows(kind) = Incidents
                 \/ /\ kind.filter = "unclaimed_only"
                    /\ Rows(kind) = {i \in Incidents : incidents[i].controller = NoUser}
           \/ /\ ~ OnlyLeaves(kind) /\ ~ IsHistory(kind)
              /\ kind.filter = "mine_only" /\ kind.of \in Controllers
              /\ Rows(kind) = {i \in Incidents : incidents[i].controller = kind.of}
           \/ /\ ~ OnlyLeaves(kind) /\ IsHistory(kind)
              /\ kind.filter = "none" /\ kind.of \in Incidents
              /\ Rows(kind) = DOMAIN incident_histories[kind.of]
BY DEF Kinds, OnlyLeaves, IsHistory, Rows

\* Rows are finitely many numbers; those of a history are its positions.
LEMMA RowsAreNumbers ==
    ASSUME TypeOK, NEW kind \in Kinds
    PROVE  /\ IsFiniteSet(Rows(kind)) /\ Rows(kind) \subseteq Nat
           /\ ~ IsHistory(kind) => Rows(kind) \subseteq Incidents
           /\ IsHistory(kind) =>
                 /\ kind.of \in Incidents
                 /\ Len(incident_histories[kind.of]) \in Nat
                 /\ Rows(kind) = 1..Len(incident_histories[kind.of])
<1>1. CASE IsHistory(kind)
  <2> DEFINE n == Len(incident_histories[kind.of])
  <2>1. kind.of \in Incidents /\ n \in Nat /\ Rows(kind) = 1..n
    BY <1>1, KindCases DEF TypeOK
  <2> HIDE DEF n
  <2>2. IsFiniteSet(1..n) /\ 1..n \subseteq Nat
    BY <2>1, FS_Interval
  <2> QED
    BY <1>1, <2>1, <2>2 DEF n
<1>2. CASE ~ IsHistory(kind)
  <2>1. Rows(kind) \in SUBSET Incidents
    BY <1>2, KindCases
  <2> QED
    BY <1>2, <2>1, FS_Subset, IncidentIdsAssumption
<1> QED
  BY <1>1, <1>2

\* ORDER BY leaves nothing to chance: the order is strict and total.
LEMMA OrderIsTotal ==
    ASSUME TypeOK, rank \in [Incidents -> Ranks], NEW kind \in Kinds,
           NEW x \in Rows(kind), NEW y \in Rows(kind)
    PROVE  /\ ~ Precedes(kind, x, x)
           /\ x # y => (Precedes(kind, x, y) <=> ~ Precedes(kind, y, x))
<1>1. x \in Nat /\ y \in Nat
  BY RowsAreNumbers
<1>2. CASE IsHistory(kind)
  BY <1>1, <1>2 DEF Precedes, ComesFirst, IsHistory
<1>3. CASE ~ IsHistory(kind)
  <2>1. rank[x] \in Nat /\ rank[y] \in Nat
    BY <1>3, RowsAreNumbers, ListsAssumption
  <2> QED
    BY <1>1, <1>3, <2>1 DEF Precedes, ComesFirst, IsHistory
<1> QED
  BY <1>2, <1>3

\* A function of the positions is a sequence.
LEMMA PlainSequence ==
    ASSUME NEW n \in Nat, NEW S, NEW f \in [1..n -> S]
    PROVE  f \in Seq(S) /\ Len(f) = n /\ DOMAIN f = 1..n
OBVIOUS

\* An order of the rows has each of them once, at its place.
LEMMA OrderPlaces ==
    ASSUME TypeOK, rank \in [Incidents -> Ranks], NEW kind \in Kinds,
           NEW s \in Orders(kind)
    PROVE  /\ s \in Seq(Nat) /\ IsInjective(s)
           /\ Len(s) = Cardinality(Rows(kind))
           /\ \A j \in DOMAIN s : s[j] \in Rows(kind) /\ Place(kind, s[j]) = j - 1
<1> DEFINE R == Rows(kind)
           n == Cardinality(R)
<1>1. IsFiniteSet(R) /\ R \subseteq Nat /\ n \in Nat
  BY RowsAreNumbers, FS_CardinalityType
<1>2. /\ s \in [1..n -> R] /\ IsInjective(s)
      /\ \A j, k \in 1..n : j < k => Precedes(kind, s[j], s[k])
  BY DEF Orders, SetToSeqs, IsInjective
<1> HIDE DEF R, n
<1>3. s \in Seq(Nat) /\ Len(s) = n /\ DOMAIN s = 1..n
  BY <1>1, <1>2, PlainSequence, SeqMonotonic
<1>4. \A x \in R : \E j \in 1..n : s[j] = x
  <2>1. s \in Injection(1..n, R)
    BY <1>2 DEF Injection
  <2>2. Cardinality(1..n) = n
    BY <1>1, FS_Interval
  <2>3. s \in Surjection(1..n, R)
    BY <1>1, <2>1, <2>2, FS_Injection DEF n
  <2> QED
    BY <2>3 DEF Surjection
<1>5. ASSUME NEW j \in 1..n
      PROVE  s[j] \in R /\ Place(kind, s[j]) = j - 1
  <2> DEFINE P == {y \in R : Precedes(kind, y, s[j])}
             first == [k \in 1..(j - 1) |-> s[k]]
  <2>1. s[j] \in R
    BY <1>2
  <2>2. \A k \in 1..n : Precedes(kind, s[k], s[j]) <=> k < j
    <3> TAKE k \in 1..n
    <3>1. s[k] \in R /\ (k # j => s[k] # s[j])
      BY <1>2 DEF IsInjective
    <3>2. CASE k < j
      BY <1>2, <3>2
    <3>3. CASE k = j
      BY <2>1, <3>3, OrderIsTotal DEF R
    <3>4. CASE j < k
      BY <1>2, <2>1, <3>1, <3>4, OrderIsTotal DEF R
    <3> QED
      BY <1>1, <3>2, <3>3, <3>4
  <2>3. first \in Bijection(1..(j - 1), P)
    <3>1. \A k \in 1..(j - 1) : k \in 1..n /\ k < j
      BY <1>1
    <3>2. first \in [1..(j - 1) -> P]
      BY <1>2, <2>2, <3>1
    <3>3. IsInjective(first)
      BY <1>2, <3>1 DEF IsInjective
    <3>4. \A y \in P : \E k \in 1..(j - 1) : first[k] = y
      <4> TAKE y \in P
      <4>1. PICK k \in 1..n : s[k] = y
        BY <1>4
      <4>2. k < j
        BY <2>2, <4>1
      <4>3. k \in 1..(j - 1)
        BY <1>1, <4>2
      <4> QED
        BY <4>1, <4>3
    <3> QED
      BY <3>2, <3>3, <3>4 DEF Bijection, Injection, Surjection
  <2>4. Cardinality(P) = Cardinality(1..(j - 1))
    <3>1. IsFiniteSet(1..(j - 1))
      BY <1>1, FS_Interval
    <3>2. ExistsBijection(1..(j - 1), P)
      BY <2>3 DEF ExistsBijection
    <3> HIDE DEF P
    <3> QED
      BY <3>1, <3>2, FS_Bijection
  <2>5. Cardinality(1..(j - 1)) = j - 1
    BY <1>1, FS_Interval
  <2> QED
    BY <2>1, <2>4, <2>5 DEF Place, R
<1> QED
  BY <1>2, <1>3, <1>5 DEF R, n

-----------------------------------------------------------------------------
(* What a command does to the rows of a list.                              *)

\* An incident that is claimed stays with who claimed it, and its history
\* only grows.
LEMMA TablesStep ==
    ASSUME TypeOK, OwnershipAgrees, [Next]_vars, NEW i \in Incidents
    PROVE  /\ incidents[i].controller # NoUser =>
                 incidents'[i].controller = incidents[i].controller
           /\ Len(incident_histories[i]) <= Len(incident_histories'[i])
<1> DEFINE Kept == /\ incidents[i].controller # NoUser =>
                         incidents'[i].controller = incidents[i].controller
                   /\ Len(incident_histories[i]) <= Len(incident_histories'[i])
<1>1. ASSUME NEW k \in Incidents, NEW row, WritesRow(k, row),
             \E s, t : RecordsMove(k, s, t),
             \/ row.controller = incidents[k].controller
             \/ incidents[k].controller = NoUser
      PROVE  Kept
  <2>1. incidents'[k] = row /\ \A j \in Incidents \ {k} : incidents'[j] = incidents[j]
    BY <1>1, RowWritten
  <2>2. incidents[i].controller # NoUser =>
           incidents'[i].controller = incidents[i].controller
    BY <1>1, <2>1
  <2>3. PICK s, t : RecordsMove(k, s, t)
    BY <1>1
  <2>4. /\ incident_histories \in [Incidents -> Seq(IncidentStatuses \X IncidentStatuses)]
        /\ Len(incident_histories[i]) \in Nat
    BY DEF TypeOK
  <2>5. Len(incident_histories[i]) <= Len(incident_histories'[i])
    <3>1. CASE incident_histories' = incident_histories
      BY <2>4, <3>1
    <3>2. CASE incident_histories' =
                  [incident_histories EXCEPT ![k] = Append(@, <<s, t>>)]
      <4>1. \/ incident_histories'[i] = incident_histories[i]
            \/ incident_histories'[i] = Append(incident_histories[i], <<s, t>>)
        BY <2>4, <3>2
      <4> QED
        BY <2>4, <4>1
    <3> QED
      BY <2>3, <3>1, <3>2 DEF RecordsMove
  <2> QED
    BY <2>2, <2>5
<1>2. ASSUME NEW u \in Controllers, NEW k \in Incidents, NEW row \in IncidentRow,
             ControllerRecords(u, k, row)
      PROVE  Kept
  <2>1. /\ WritesRow(k, row) /\ RecordsMove(k, incidents[k].status, row.status)
        /\ row.controller = IF row.status = "CLAIMED" THEN u ELSE incidents[k].controller
        /\ row.status = "CLAIMED" => incidents[k].status = "ACKNOWLEDGED"
    BY <1>2 DEF ControllerRecords, ControllerWrites, IncidentTransitions
  <2>2. incidents[k].status = "ACKNOWLEDGED" => incidents[k].controller = NoUser
    BY DEF OwnershipAgrees
  <2> QED
    BY <1>1, <2>1, <2>2
<1>3. ASSUME NEW u \in Controllers, NEW k \in Incidents, NEW d \in Dispatches \ Used,
             NEW p \in Dispatches \cup {NoDispatch}, NEW new \in DispatchRow,
             NEW row \in IncidentRow, AssignRecords(u, k, d, p, new, row)
      PROVE  Kept
  <2>1. /\ WritesRow(k, row)
        /\ RecordsMove(k, "DISPATCH_REQUESTED", "DISPATCH_REQUESTED")
        /\ row = [incidents[k] EXCEPT !.version = @ + 1]
    BY <1>3 DEF AssignRecords, AssignWrites
  <2>2. incidents[k] \in IncidentRow
    BY DEF TypeOK
  <2>3. row.controller = incidents[k].controller
    BY <2>1, <2>2 DEF IncidentRow
  <2> QED
    BY <1>1, <2>1, <2>3
<1>4. ASSUME NEW d \in Used, NEW k \in Incidents, NEW new \in DispatchRow,
             NEW row \in IncidentRow, ResponderWrites(d, new, k, row)
      PROVE  Kept
  <2>1. /\ WritesRow(k, row) /\ RecordsMove(k, incidents[k].status, row.status)
        /\ row.controller = incidents[k].controller
    BY <1>4 DEF ResponderWrites
  <2> QED
    BY <1>1, <2>1
<1>5. CASE UNCHANGED vars
  <2>1. Len(incident_histories[i]) \in Nat
    BY DEF TypeOK
  <2> QED
    BY <1>5, <2>1 DEF vars
<1>6. \/ \E u \in Controllers, k \in Incidents, row \in IncidentRow :
           ControllerRecords(u, k, row)
      \/ \E u \in Controllers, k \in Incidents, d \in Dispatches \ Used,
            p \in Dispatches \cup {NoDispatch}, new \in DispatchRow,
            row \in IncidentRow : AssignRecords(u, k, d, p, new, row)
      \/ \E d \in Used, k \in Incidents, new \in DispatchRow, row \in IncidentRow :
           ResponderWrites(d, new, k, row)
      \/ UNCHANGED vars
  BY StepEffect
<1> QED
  BY <1>2, <1>3, <1>4, <1>5, <1>6

\* No command puts an incident back into the list of all or of the unclaimed
\* ones; none takes a row from a history or an incident from who claimed it.
LEMMA RowsStep ==
    ASSUME TypeOK, TypeOK', OwnershipAgrees, [Next]_vars, NEW kind \in Kinds
    PROVE  /\ OnlyLeaves(kind) => Rows(kind)' \subseteq Rows(kind)
           /\ ~ OnlyLeaves(kind) => Rows(kind) \subseteq Rows(kind)'
<1>1. \A i \in Incidents :
        /\ incidents[i].controller # NoUser =>
              incidents'[i].controller = incidents[i].controller
        /\ Len(incident_histories[i]) <= Len(incident_histories'[i])
  BY TablesStep
<1>2. CASE OnlyLeaves(kind)
  <2>1. \/ Rows(kind) = Incidents /\ Rows(kind)' = Incidents
        \/ /\ Rows(kind) = {i \in Incidents : incidents[i].controller = NoUser}
           /\ Rows(kind)' = {i \in Incidents : incidents'[i].controller = NoUser}
    BY <1>2 DEF Kinds, OnlyLeaves, Rows
  <2> QED
    BY <1>1, <1>2, <2>1
<1>3. CASE IsHistory(kind)
  <2>1. /\ kind.of \in Incidents
        /\ Rows(kind) = DOMAIN incident_histories[kind.of]
        /\ Rows(kind)' = DOMAIN incident_histories'[kind.of]
    BY <1>3 DEF Kinds, IsHistory, Rows
  <2>2. /\ incident_histories[kind.of] \in Seq(IncidentStatuses \X IncidentStatuses)
        /\ incident_histories'[kind.of] \in Seq(IncidentStatuses \X IncidentStatuses)
    BY <2>1 DEF TypeOK
  <2>3. /\ Rows(kind) = 1..Len(incident_histories[kind.of])
        /\ Rows(kind)' = 1..Len(incident_histories'[kind.of])
        /\ Len(incident_histories[kind.of]) \in Nat
        /\ Len(incident_histories'[kind.of]) \in Nat
    BY <2>1, <2>2
  <2> QED
    BY <1>1, <1>3, <2>1, <2>3 DEF IsHistory, OnlyLeaves
<1>4. CASE ~ OnlyLeaves(kind) /\ ~ IsHistory(kind)
  <2>1. /\ kind.of # NoUser
        /\ Rows(kind) = {i \in Incidents : incidents[i].controller = kind.of}
        /\ Rows(kind)' = {i \in Incidents : incidents'[i].controller = kind.of}
    BY <1>4, UsersAssumption DEF Kinds, OnlyLeaves, IsHistory, Rows
  <2> QED
    BY <1>1, <1>4, <2>1
<1> QED
  BY <1>2, <1>3, <1>4

\* A row moves towards the beginning of a list while rows leave, and nowhere
\* while the rows stay.
LEMMA PlacesStep ==
    ASSUME TypeOK, rank' = rank, NEW kind \in Kinds, NEW x,
           Rows(kind)' \subseteq Rows(kind)
    PROVE  /\ Place(kind, x) \in Nat /\ Place(kind, x)' \in Nat
           /\ Place(kind, x)' <= Place(kind, x)
           /\ Rows(kind)' = Rows(kind) => Place(kind, x)' = Place(kind, x)
<1> DEFINE Before == {y \in Rows(kind) : Precedes(kind, y, x)}
           Left == {y \in Rows(kind)' : Precedes(kind, y, x)}
<1>1. \A y : Precedes(kind, y, x)' <=> Precedes(kind, y, x)
  BY DEF Precedes, ComesFirst
<1>2. Place(kind, x) = Cardinality(Before) /\ Place(kind, x)' = Cardinality(Left)
  BY <1>1 DEF Place
<1>3. Before \in SUBSET Rows(kind) /\ Left \in SUBSET Before
  OBVIOUS
<1>4. Rows(kind)' = Rows(kind) => Left = Before
  OBVIOUS
<1>5. IsFiniteSet(Rows(kind))
  BY RowsAreNumbers
<1> HIDE DEF Before, Left
<1>6. IsFiniteSet(Before)
  BY <1>3, <1>5, FS_Subset
<1>7. IsFiniteSet(Left) /\ Cardinality(Left) <= Cardinality(Before)
  BY <1>3, <1>6, FS_Subset
<1>8. Cardinality(Before) \in Nat /\ Cardinality(Left) \in Nat
  BY <1>6, <1>7, FS_CardinalityType
<1> QED
  BY <1>2, <1>4, <1>7, <1>8

-----------------------------------------------------------------------------
(* What a statement sees.                                                  *)

\* The columns of an open walk.
LEMMA WalkColumns ==
    ASSUME WalkTyped, walk.phase # "idle"
    PROVE  /\ walk.phase \in {"begun", "counted", "answered", "done"}
           /\ walk.kind \in Kinds /\ walk.size \in Nat \ {0}
           /\ walk.isolation \in {"REPEATABLE READ", "READ COMMITTED"}
           /\ walk.snapshot \in SUBSET Seq(Nat)
           /\ walk.page \in Nat \ {0} /\ walk.total \in Nat
           /\ walk.items \in Seq(Nat) /\ walk.shown \in Seq(Nat)
           /\ walk.start \in SUBSET Nat
           /\ (walk.page - 1) * walk.size \in Nat /\ walk.page * walk.size \in Nat
           /\ walk.page * walk.size = (walk.page - 1) * walk.size + walk.size
           /\ Turned \in Nat
<1>1. walk \in [phase : {"begun", "counted", "answered", "done"}, kind : Kinds,
                size : Sizes, isolation : Isolations, snapshot : SUBSET Seq(Nat),
                page : Nat \ {0}, total : Nat, items : Seq(Nat), shown : Seq(Nat),
                start : SUBSET Nat]
  BY DEF WalkTyped
<1>2. walk.page \in Nat \ {0} /\ walk.size \in Nat \ {0}
  BY <1>1, ListsAssumption
<1>3. /\ (walk.page - 1) * walk.size \in Nat /\ walk.page * walk.size \in Nat
      /\ walk.page * walk.size = (walk.page - 1) * walk.size + walk.size
  BY <1>2
<1>4. Turned \in Nat
  BY <1>3 DEF Turned
<1> QED
  BY <1>1, <1>2, <1>3, <1>4, ListsAssumption

\* The places of the rows of a history are their positions.
LEMMA HistoryPlace ==
    ASSUME TypeOK, NEW kind \in Kinds, IsHistory(kind), NEW x \in Rows(kind)
    PROVE  Place(kind, x) = x - 1
<1> DEFINE n == Len(incident_histories[kind.of])
<1>1. n \in Nat /\ Rows(kind) = 1..n /\ x \in 1..n
  BY RowsAreNumbers
<1>2. \A y \in 1..n : Precedes(kind, y, x) <=> y < x
  BY <1>1 DEF Precedes, ComesFirst, IsHistory
<1> HIDE DEF n
<1>3. {y \in Rows(kind) : Precedes(kind, y, x)} = 1..(x - 1)
  BY <1>1, <1>2
<1>4. Cardinality(1..(x - 1)) = x - 1
  BY <1>1, FS_Interval
<1> QED
  BY <1>3, <1>4 DEF Place

\* The rows as they are satisfy what is kept of a snapshot.
LEMMA CurrentSees ==
    ASSUME TypeOK, rank \in [Incidents -> Ranks], WalkTyped, walk.phase # "idle",
           SinceStart, ShownBehind, NEW s \in Orders(walk.kind)
    PROVE  Sees(s)
<1> DEFINE kind == walk.kind
<1>1. /\ kind \in Kinds /\ Turned \in Nat /\ walk.shown \in Seq(Nat)
  BY WalkColumns
<1>2. /\ s \in Seq(Nat) /\ IsInjective(s) /\ Len(s) = Cardinality(Rows(kind))
      /\ \A j \in DOMAIN s : s[j] \in Rows(kind) /\ Place(kind, s[j]) = j - 1
  BY <1>1, OrderPlaces
<1>3. DOMAIN s = 1..Len(s) /\ Len(s) \in Nat
  BY <1>2
<1>4. SeesLeaving(s)
  <2> SUFFICES ASSUME OnlyLeaves(kind), NEW j \in DOMAIN s
               PROVE  /\ \A a \in DOMAIN walk.shown : walk.shown[a] = s[j] => j <= Turned
                      /\ s[j] \in Rows(kind) => Place(kind, s[j]) < j
    BY DEF SeesLeaving
  <2>1. j \in Nat /\ s[j] \in Rows(kind) /\ Place(kind, s[j]) = j - 1
    BY <1>2, <1>3
  <2>2. ASSUME NEW a \in DOMAIN walk.shown, walk.shown[a] = s[j]
        PROVE  j <= Turned
    <3>1. Place(kind, s[j]) < Turned
      BY <2>1, <2>2 DEF ShownBehind
    <3> QED
      BY <1>1, <2>1, <3>1
  <2> QED
    BY <2>1, <2>2
<1>5. SeesHistory(s)
  <2> SUFFICES ASSUME IsHistory(kind)
               PROVE  /\ \A j \in DOMAIN s : s[j] = j
                      /\ walk.start \subseteq 1..Len(s)
                      /\ Len(s) <= Len(incident_histories[kind.of])
    BY DEF SeesHistory
  <2> DEFINE n == Len(incident_histories[kind.of])
  <2>1. n \in Nat /\ Rows(kind) = 1..n
    BY <1>1, RowsAreNumbers
  <2> HIDE DEF n
  <2>2. Len(s) = n
    BY <1>2, <2>1, FS_Interval
  <2>3. \A j \in DOMAIN s : s[j] = j
    <3> TAKE j \in DOMAIN s
    <3>1. s[j] \in 1..n /\ Place(kind, s[j]) = j - 1
      BY <1>2, <2>1
    <3>2. Place(kind, s[j]) = s[j] - 1
      BY <1>1, <2>1, <3>1, HistoryPlace
    <3> QED
      BY <1>3, <3>1, <3>2
  <2>4. walk.start \subseteq Rows(kind)
    BY DEF SinceStart, OnlyLeaves, IsHistory
  <2> QED
    BY <2>1, <2>2, <2>3, <2>4 DEF n
<1>6. SeesStart(s)
  BY <1>2 DEF SeesStart
<1> QED
  BY <1>2, <1>4, <1>5, <1>6 DEF Sees

\* Orders of the rows at one moment have the same length.
LEMMA OrdersAgree ==
    ASSUME TypeOK, rank \in [Incidents -> Ranks], NEW kind \in Kinds,
           NEW s \in Orders(kind), NEW t \in Orders(kind)
    PROVE  Len(s) = Len(t)
BY OrderPlaces

\* Whatever a statement is answered from.
LEMMA VisibleSees ==
    ASSUME TypeOK, rank \in [Incidents -> Ranks], WalkTyped, walk.phase # "idle",
           WalkInv, InPage, NEW s \in Visible
    PROVE  Sees(s)
<1>1. SinceStart /\ ShownBehind /\ SnapshotSees
  BY DEF WalkInv
<1>2. CASE walk.isolation = "REPEATABLE READ"
  BY <1>1, <1>2 DEF Visible, SnapshotSees
<1>3. CASE walk.isolation # "REPEATABLE READ"
  BY <1>1, <1>3, CurrentSees DEF Visible
<1> QED
  BY <1>2, <1>3

-----------------------------------------------------------------------------
(* A command commits between two statements of the client.                 *)

\* What a command leaves and what it moves, for the list of the client.
LEMMA CommandMoves ==
    ASSUME TypeOK, TypeOK', OwnershipAgrees, [Next]_vars, rank' = rank, walk' = walk,
           WalkTyped, walk.phase # "idle", SinceStart
    PROVE  /\ OnlyLeaves(walk.kind) => Rows(walk.kind)' \subseteq Rows(walk.kind)
           /\ ~ OnlyLeaves(walk.kind) => Rows(walk.kind) \subseteq Rows(walk.kind)'
           /\ Rows(walk.kind)' = walk.start => Rows(walk.kind) = walk.start
           /\ Rows(walk.kind)' \subseteq Rows(walk.kind) =>
                 \A x : /\ Place(walk.kind, x) \in Nat /\ Place(walk.kind, x)' \in Nat
                        /\ Place(walk.kind, x)' <= Place(walk.kind, x)
                        /\ Rows(walk.kind)' = Rows(walk.kind) =>
                              Place(walk.kind, x)' = Place(walk.kind, x)
           /\ IsHistory(walk.kind) =>
                 /\ Len(incident_histories[walk.kind.of]) \in Nat
                 /\ Len(incident_histories'[walk.kind.of]) \in Nat
                 /\ Len(incident_histories[walk.kind.of])
                       <= Len(incident_histories'[walk.kind.of])
<1>1. PICK kind \in Kinds : kind = walk.kind
  BY WalkColumns
<1>2. /\ OnlyLeaves(kind) => Rows(kind)' \subseteq Rows(kind)
      /\ ~ OnlyLeaves(kind) => Rows(kind) \subseteq Rows(kind)'
  BY RowsStep
<1>3. Rows(kind)' \subseteq Rows(kind) =>
        \A x : /\ Place(kind, x) \in Nat /\ Place(kind, x)' \in Nat
               /\ Place(kind, x)' <= Place(kind, x)
               /\ Rows(kind)' = Rows(kind) => Place(kind, x)' = Place(kind, x)
  BY PlacesStep
<1>4. IF OnlyLeaves(kind) THEN Rows(kind) \subseteq walk.start
      ELSE walk.start \subseteq Rows(kind)
  BY <1>1 DEF SinceStart
<1>5. Rows(kind)' = walk.start => Rows(kind) = walk.start
  BY <1>2, <1>4
<1>6. IsHistory(kind) =>
        /\ Len(incident_histories[kind.of]) \in Nat
        /\ Len(incident_histories'[kind.of]) \in Nat
        /\ Len(incident_histories[kind.of]) <= Len(incident_histories'[kind.of])
  <2> SUFFICES ASSUME IsHistory(kind)
               PROVE  /\ Len(incident_histories[kind.of]) \in Nat
                      /\ Len(incident_histories'[kind.of]) \in Nat
                      /\ Len(incident_histories[kind.of])
                            <= Len(incident_histories'[kind.of])
    OBVIOUS
  <2>1. kind.of \in Incidents
    BY KindCases
  <2>2. Len(incident_histories[kind.of]) <= Len(incident_histories'[kind.of])
    BY <2>1, TablesStep
  <2>3. /\ incident_histories[kind.of] \in Seq(IncidentStatuses \X IncidentStatuses)
        /\ incident_histories'[kind.of] \in Seq(IncidentStatuses \X IncidentStatuses)
    BY <2>1 DEF TypeOK
  <2> QED
    BY <2>2, <2>3
<1>7. kind = walk'.kind
  BY <1>1
<1> QED
  BY <1>1, <1>2, <1>3, <1>5, <1>6, <1>7

\* A snapshot stays what it was.
LEMMA SeesStays ==
    ASSUME TypeOK, TypeOK', OwnershipAgrees, [Next]_vars, rank' = rank, walk' = walk,
           WalkTyped, walk.phase # "idle", SinceStart, NEW s, Sees(s)
    PROVE  Sees(s)'
<1>1. PICK kind \in Kinds : kind = walk.kind
  BY WalkColumns
<1>2. kind = walk'.kind /\ walk.start = walk'.start /\ walk'.shown = walk.shown
  BY <1>1
<1>3. /\ OnlyLeaves(kind) => Rows(kind)' \subseteq Rows(kind)
      /\ Rows(kind)' = walk.start => Rows(kind) = walk.start
      /\ Rows(kind)' \subseteq Rows(kind) =>
           \A x : /\ Place(kind, x) \in Nat /\ Place(kind, x)' \in Nat
                  /\ Place(kind, x)' <= Place(kind, x)
                  /\ Rows(kind)' = Rows(kind) => Place(kind, x)' = Place(kind, x)
      /\ IsHistory(kind) =>
           /\ Len(incident_histories[kind.of]) \in Nat
           /\ Len(incident_histories'[kind.of]) \in Nat
           /\ Len(incident_histories[kind.of]) <= Len(incident_histories'[kind.of])
  BY <1>1, <1>2, CommandMoves
<1>4. Turned' = Turned
  BY DEF Turned, InPage
<1>5. s \in Seq(Nat) /\ IsInjective(s) /\ SeesLeaving(s) /\ SeesHistory(s) /\ SeesStart(s)
  BY DEF Sees
<1>6. DOMAIN s \subseteq Nat /\ Len(s) \in Nat
  BY <1>5
<1>7. SeesLeaving(s)'
  <2> SUFFICES ASSUME OnlyLeaves(kind), NEW j \in DOMAIN s
               PROVE  /\ \A a \in DOMAIN walk.shown : walk.shown[a] = s[j] => j <= Turned
                      /\ s[j] \in Rows(kind)' => Place(kind, s[j])' < j
    BY <1>2, <1>4 DEF SeesLeaving
  <2>1. /\ \A a \in DOMAIN walk.shown : walk.shown[a] = s[j] => j <= Turned
        /\ s[j] \in Rows(kind) => Place(kind, s[j]) < j
    BY <1>1, <1>5 DEF SeesLeaving
  <2>2. j \in Nat
    BY <1>6
  <2>3. /\ Rows(kind)' \subseteq Rows(kind)
        /\ Place(kind, s[j]) \in Nat /\ Place(kind, s[j])' \in Nat
        /\ Place(kind, s[j])' <= Place(kind, s[j])
    BY <1>3
  <2> QED
    BY <2>1, <2>2, <2>3
<1>8. SeesHistory(s)'
  <2> SUFFICES ASSUME IsHistory(kind)
               PROVE  /\ \A j \in DOMAIN s : s[j] = j
                      /\ walk.start \subseteq 1..Len(s)
                      /\ Len(s) <= Len(incident_histories'[kind.of])
    BY <1>2 DEF SeesHistory
  <2>1. /\ \A j \in DOMAIN s : s[j] = j
        /\ walk.start \subseteq 1..Len(s)
        /\ Len(s) <= Len(incident_histories[kind.of])
    BY <1>1, <1>5 DEF SeesHistory
  <2> QED
    BY <1>3, <1>6, <2>1
<1>9. SeesStart(s)'
  <2> SUFFICES ASSUME Rows(kind)' = walk.start
               PROVE  /\ Len(s) = Cardinality(walk.start)
                      /\ \A j \in DOMAIN s :
                            s[j] \in walk.start /\ Place(kind, s[j])' = j - 1
    BY <1>2 DEF SeesStart
  <2>1. Rows(kind) = walk.start
    BY <1>3
  <2>2. /\ Len(s) = Cardinality(walk.start)
        /\ \A j \in DOMAIN s : s[j] \in walk.start /\ Place(kind, s[j]) = j - 1
    BY <1>1, <1>5, <2>1 DEF SeesStart
  <2>3. \A x : Place(kind, x)' = Place(kind, x)
    BY <1>3, <2>1
  <2> QED
    BY <2>2, <2>3
<1> QED
  BY <1>5, <1>7, <1>8, <1>9 DEF Sees

\* A command keeps what is known of the walk.
LEMMA CommandKeepsWalk ==
    ASSUME TypeOK, TypeOK', OwnershipAgrees, [Next]_vars, rank' = rank, walk' = walk,
           WalkTyped, WalkInv
    PROVE  WalkInv'
<1> SUFFICES ASSUME walk.phase # "idle"
             PROVE  /\ SinceStart' /\ SnapshotSees'
                    /\ ShownBehind' /\ ShownBegins' /\ ShownHistory'
                    /\ DoneTurned'
  BY DEF WalkInv
<1>1. PICK kind \in Kinds : kind = walk.kind
  BY WalkColumns
<1>2. /\ SinceStart /\ SnapshotSees /\ ShownBehind /\ ShownBegins /\ ShownHistory
      /\ DoneTurned
  BY DEF WalkInv
<1>3. /\ OnlyLeaves(kind) => Rows(kind)' \subseteq Rows(kind)
      /\ ~ OnlyLeaves(kind) => Rows(kind) \subseteq Rows(kind)'
      /\ Rows(kind)' = walk.start => Rows(kind) = walk.start
      /\ Rows(kind)' \subseteq Rows(kind) =>
           \A x : /\ Place(kind, x) \in Nat /\ Place(kind, x)' \in Nat
                  /\ Place(kind, x)' <= Place(kind, x)
                  /\ Rows(kind)' = Rows(kind) => Place(kind, x)' = Place(kind, x)
      /\ IsHistory(kind) =>
           /\ Len(incident_histories[kind.of]) \in Nat
           /\ Len(incident_histories'[kind.of]) \in Nat
           /\ Len(incident_histories[kind.of]) <= Len(incident_histories'[kind.of])
  BY <1>1, <1>2, CommandMoves
<1>4. (Turned' = Turned) /\ (InPage' <=> InPage)
  BY DEF Turned, InPage
<1>5. walk'.kind = kind
  BY <1>1
<1>6. SinceStart'
  BY <1>1, <1>2, <1>3, <1>5 DEF SinceStart
<1>7. SnapshotSees'
  <2> SUFFICES ASSUME walk.isolation = "REPEATABLE READ", InPage
               PROVE  /\ \A s \in walk.snapshot : Sees(s)'
                      /\ \A s, t \in walk.snapshot : Len(s) = Len(t)
                      /\ walk.phase = "counted" =>
                            \A s \in walk.snapshot : Len(s) = walk.total
    BY <1>4 DEF SnapshotSees
  <2>1. \A s \in walk.snapshot : Sees(s)
    BY <1>2 DEF SnapshotSees
  <2>2. \A s \in walk.snapshot : Sees(s)'
    BY <1>2, <2>1, SeesStays
  <2> QED
    BY <1>2, <2>2 DEF SnapshotSees
<1>8. ShownBehind'
  <2> SUFFICES ASSUME OnlyLeaves(kind)
               PROVE  /\ IsInjective(walk.shown)
                      /\ \A j \in DOMAIN walk.shown :
                            walk.shown[j] \in Rows(kind)' =>
                               Place(kind, walk.shown[j])' < Turned
    BY <1>4, <1>5 DEF ShownBehind
  <2>1. /\ IsInjective(walk.shown)
        /\ \A j \in DOMAIN walk.shown :
              walk.shown[j] \in Rows(kind) => Place(kind, walk.shown[j]) < Turned
    BY <1>1, <1>2 DEF ShownBehind
  <2>2. Turned \in Nat
    BY WalkColumns
  <2>3. ASSUME NEW j \in DOMAIN walk.shown, walk.shown[j] \in Rows(kind)'
        PROVE  Place(kind, walk.shown[j])' < Turned
    <3>1. PICK x : x = walk.shown[j]
      OBVIOUS
    <3>2. x \in Rows(kind) /\ Place(kind, x) < Turned
      BY <1>3, <2>1, <2>3, <3>1
    <3>3. /\ Place(kind, x) \in Nat /\ Place(kind, x)' \in Nat
          /\ Place(kind, x)' <= Place(kind, x)
      BY <1>3
    <3>4. Place(kind, x)' < Turned
      BY <2>2, <3>2, <3>3
    <3>5. x = walk'.shown[j]
      BY <3>1
    <3> QED
      BY <3>4, <3>5
  <2> QED
    BY <2>1, <2>3
<1>9. ShownBegins'
  <2> SUFFICES ASSUME Rows(kind)' = walk.start
               PROVE  /\ \A j \in DOMAIN walk.shown :
                            /\ walk.shown[j] \in walk.start
                            /\ Place(kind, walk.shown[j])' = j - 1
                      /\ InPage => Len(walk.shown) = Turned
                                   /\ Turned <= Cardinality(walk.start)
                      /\ walk.phase # "begun" => walk.total = Cardinality(walk.start)
                      /\ ~ InPage =>
                            Len(walk.shown) = Min2(Turned, Cardinality(walk.start))
    BY <1>4, <1>5 DEF ShownBegins
  <2>1. Rows(kind) = walk.start
    BY <1>3
  <2>2. /\ \A j \in DOMAIN walk.shown :
              walk.shown[j] \in walk.start /\ Place(kind, walk.shown[j]) = j - 1
        /\ InPage => Len(walk.shown) = Turned /\ Turned <= Cardinality(walk.start)
        /\ walk.phase # "begun" => walk.total = Cardinality(walk.start)
        /\ ~ InPage => Len(walk.shown) = Min2(Turned, Cardinality(walk.start))
    BY <1>1, <1>2, <2>1 DEF ShownBegins
  <2>3. ASSUME NEW j \in DOMAIN walk.shown
        PROVE  Place(kind, walk.shown[j])' = j - 1
    <3>1. PICK x : x = walk.shown[j]
      OBVIOUS
    <3>2. Place(kind, x)' = Place(kind, x) /\ Place(kind, x) = j - 1
      BY <1>3, <2>1, <2>2, <3>1
    <3>3. x = walk'.shown[j]
      BY <3>1
    <3> QED
      BY <3>2, <3>3
  <2> QED
    BY <2>2, <2>3
<1>10. ShownHistory'
  <2> SUFFICES ASSUME IsHistory(kind)
               PROVE  /\ \A j \in DOMAIN walk.shown : walk.shown[j] = j
                      /\ Len(walk.shown) <= Turned
                      /\ InPage => Len(walk.shown) = Turned
                      /\ walk.phase # "begun" => walk.start \subseteq 1..walk.total
                      /\ walk.phase = "counted" =>
                            walk.total <= Len(incident_histories'[kind.of])
                      /\ ~ InPage => \/ walk.total <= Len(walk.shown)
                                     \/ Len(walk.shown) = Turned
    BY <1>4, <1>5 DEF ShownHistory
  <2>1. /\ \A j \in DOMAIN walk.shown : walk.shown[j] = j
        /\ Len(walk.shown) <= Turned
        /\ InPage => Len(walk.shown) = Turned
        /\ walk.phase # "begun" => walk.start \subseteq 1..walk.total
        /\ walk.phase = "counted" => walk.total <= Len(incident_histories[kind.of])
        /\ ~ InPage => (walk.total <= Len(walk.shown) \/ Len(walk.shown) = Turned)
    BY <1>1, <1>2 DEF ShownHistory
  <2>2. walk.total \in Nat
    BY WalkColumns
  <2> QED
    BY <1>3, <2>1, <2>2
<1>11. DoneTurned'
  BY <1>2, <1>4 DEF DoneTurned
<1> QED
  BY <1>6, <1>7, <1>8, <1>9, <1>10, <1>11

-----------------------------------------------------------------------------
(* The number of pages.                                                    *)

\* A product grows with its factor.
LEMMA ProductsOrdered ==
    ASSUME NEW a \in Nat, NEW b \in Nat, NEW c \in Nat \ {0}
    PROVE  /\ a <= b => a * c <= b * c
           /\ a * c < b * c => a < b
<1>1. ASSUME NEW x \in Nat, NEW y \in Nat, x <= y PROVE x * c <= y * c
  <2>1. PICK d \in Nat : y = x + d
    <3>1. y - x \in Nat /\ y = x + (y - x)
      BY <1>1
    <3> QED
      BY <3>1
  <2>2. y * c = x * c + d * c /\ x * c \in Nat /\ d * c \in Nat /\ y * c \in Nat
    BY <2>1
  <2> QED
    BY <2>2
<1>2. a <= b => a * c <= b * c
  BY <1>1
<1>3. b <= a => b * c <= a * c
  BY <1>1
<1>4. a * c \in Nat /\ b * c \in Nat
  OBVIOUS
<1> QED
  BY <1>2, <1>3, <1>4

\* There is one more page exactly if there is one more row.
LEMMA OneMorePage ==
    ASSUME NEW total \in Nat, NEW size \in Nat \ {0}, NEW n \in Nat
    PROVE  /\ TotalPages(total, size) \in Nat
           /\ n + 1 <= TotalPages(total, size) <=> n * size < total
<1>1. CASE total = 0
  <2>1. n * size \in Nat
    OBVIOUS
  <2> QED
    BY <1>1, <2>1 DEF TotalPages
<1>2. CASE total # 0
  <2> DEFINE q == (total + size - 1) \div size
  <2>1. TotalPages(total, size) = q
    BY <1>2 DEF TotalPages
  <2>2. q \in Nat /\ q * size <= total + size - 1 /\ total + size - 1 < q * size + size
    BY <1>2
  <2> HIDE DEF q
  <2>3. (n + 1) * size = n * size + size /\ (q + 1) * size = q * size + size
    BY <2>2
  <2>4. n * size \in Nat /\ q * size \in Nat
    BY <2>2
  <2>5. ASSUME n + 1 <= q PROVE n * size < total
    <3>1. (n + 1) * size <= q * size
      BY <2>2, <2>5, ProductsOrdered
    <3> QED
      BY <2>2, <2>3, <2>4, <3>1
  <2>6. ASSUME n * size < total PROVE n + 1 <= q
    <3>1. (n + 1) * size < (q + 1) * size
      BY <2>2, <2>3, <2>4, <2>6
    <3>2. n + 1 \in Nat /\ q + 1 \in Nat
      BY <2>2
    <3>3. n + 1 < q + 1
      BY <3>1, <3>2, ProductsOrdered
    <3> QED
      BY <2>2, <3>3
  <2> QED
    BY <2>1, <2>2, <2>5, <2>6
<1> QED
  BY <1>1, <1>2

\* How many of len rows a page of this size has behind the first n.
OnPage(n, size, len) ==
    IF n < Min2(n + size, len) THEN Min2(n + size, len) - n ELSE 0

\* Those rows, in their order.
IsPage(items, s, n, size) ==
    /\ items \in Seq(Nat) /\ Len(items) = OnPage(n, size, Len(s))
    /\ \A b \in 1..Len(items) :
          n + b \in 1..Len(s) /\ b <= size /\ items[b] = s[n + b]

\* Where the b-th row of a page is, whose last row is at this place.
LEMMA PageBounds ==
    ASSUME NEW n \in Nat, NEW size \in Nat, NEW last \in Nat, NEW len \in Nat,
           last <= len, last <= n + size
    PROVE  /\ \A b \in Nat : 1 <= b /\ b <= last - n => n + b \in 1..len /\ b <= size
           /\ (IF n + 1 <= last THEN last - (n + 1) + 1 ELSE 0)
                = IF n < last THEN last - n ELSE 0
OBVIOUS

\* The rows of a page: those behind the offset, as many as fit.
LEMMA PageItems ==
    ASSUME NEW s \in Seq(Nat), NEW page \in Nat \ {0}, NEW size \in Nat \ {0},
           NEW n \in Nat, n = Offset(page, size),
           NEW items, items = PageOf(s, page, size)
    PROVE  IsPage(items, s, n, size)
<1> DEFINE last == Min2(n + size, Len(s))
           found == SubSeq(s, n + 1, last)
<1>1. items = found
  BY DEF PageOf, Min2
<1>2. last \in Nat /\ last <= Len(s) /\ last <= n + size /\ Len(s) \in Nat
  BY DEF Min2
<1> HIDE DEF last
<1>3. \A j \in (n + 1)..last : s[j] \in Nat
  <2> TAKE j \in (n + 1)..last
  <2>1. j \in 1..Len(s)
    BY <1>2
  <2> QED
    BY <2>1
<1>4. n + 1 \in Int /\ last \in Int
  BY <1>2
<1>5. /\ found \in Seq(Nat)
      /\ Len(found) = IF n + 1 <= last THEN last - (n + 1) + 1 ELSE 0
      /\ \A b \in 1..(last - (n + 1) + 1) : found[b] = s[(n + 1) + b - 1]
  BY <1>3, <1>4, SubSeqProperties
<1> HIDE DEF found
<1>6. items \in Seq(Nat) /\ Len(items) = IF n < last THEN last - n ELSE 0
  <2>1. (IF n + 1 <= last THEN last - (n + 1) + 1 ELSE 0) = IF n < last THEN last - n ELSE 0
    BY <1>2, PageBounds
  <2> QED
    BY <1>1, <1>5, <2>1, Zenon
<1>7. ASSUME NEW b \in 1..Len(items)
      PROVE  n + b \in 1..Len(s) /\ b <= size /\ items[b] = s[n + b]
  <2>1. b \in Nat /\ 1 <= b /\ b <= last - n /\ n < last
    BY <1>2, <1>6, <1>7
  <2>2. b \in 1..(last - (n + 1) + 1) /\ (n + 1) + b - 1 = n + b
    BY <1>2, <2>1
  <2>3. items[b] = s[n + b]
    BY <1>1, <1>5, <2>2
  <2>4. n + b \in 1..Len(s) /\ b <= size
    BY <1>2, <2>1, PageBounds
  <2> QED
    BY <2>3, <2>4
<1> QED
  BY <1>6, <1>7 DEF last, OnPage, IsPage

-----------------------------------------------------------------------------
(* The steps of the client.                                                *)

\* While no table is written, the rows and their orders stay.
LEMMA TablesStay ==
    ASSUME UNCHANGED <<vars, rank>>, NEW kind
    PROVE  /\ Rows(kind)' = Rows(kind)
           /\ \A x : Place(kind, x)' = Place(kind, x)
           /\ Orders(kind)' = Orders(kind)
           /\ incident_histories' = incident_histories
<1>1. Rows(kind)' = Rows(kind) /\ incident_histories' = incident_histories
  BY DEF Rows, vars
<1>2. \A x, y : Precedes(kind, x, y)' <=> Precedes(kind, x, y)
  BY DEF Precedes, ComesFirst
<1>3. \A x : Place(kind, x)' = Place(kind, x)
  BY <1>1, <1>2 DEF Place
<1>4. Orders(kind)' = Orders(kind)
  BY <1>1, <1>2 DEF Orders
<1> QED
  BY <1>1, <1>3, <1>4

\* What an order shows depends on the walk only by what was shown and turned.
LEMMA SeesSame ==
    ASSUME UNCHANGED <<vars, rank>>, WalkTyped, walk.phase # "idle",
           walk'.kind = walk.kind, walk'.shown = walk.shown, walk'.start = walk.start,
           Turned' = Turned, NEW s, Sees(s)
    PROVE  Sees(s)'
<1>1. PICK kind \in Kinds : kind = walk.kind /\ kind = walk'.kind
  BY WalkColumns
<1>2. /\ Rows(kind)' = Rows(kind) /\ incident_histories' = incident_histories
      /\ \A x : Place(kind, x)' = Place(kind, x)
  BY TablesStay
<1>3. s \in Seq(Nat) /\ IsInjective(s) /\ SeesLeaving(s) /\ SeesHistory(s) /\ SeesStart(s)
  BY DEF Sees
<1>4. SeesLeaving(s)'
  BY <1>1, <1>2, <1>3 DEF SeesLeaving
<1>5. SeesHistory(s)'
  BY <1>1, <1>2, <1>3 DEF SeesHistory
<1>6. SeesStart(s)'
  BY <1>1, <1>2, <1>3 DEF SeesStart
<1> QED
  BY <1>3, <1>4, <1>5, <1>6 DEF Sees

\* CurrentSees and OrdersAgree, as facts about every state.
CurrentOrdersSee ==
    /\ TypeOK /\ rank \in [Incidents -> Ranks] /\ WalkTyped /\ walk.phase # "idle"
    /\ SinceStart /\ ShownBehind
    => \A s \in Orders(walk.kind) : Sees(s) /\ \A t \in Orders(walk.kind) : Len(s) = Len(t)

LEMMA CurrentOrdersSeeAlways == CurrentOrdersSee /\ CurrentOrdersSee'
<1>1. CurrentOrdersSee
  BY CurrentSees, OrdersAgree, WalkColumns DEF CurrentOrdersSee
<1> QED
  BY <1>1, PTL

\* A page is asked for: what the request will see, it sees now.
LEMMA SnapshotTaken ==
    ASSUME TypeOK', rank' \in [Incidents -> Ranks], WalkTyped', walk'.phase = "begun",
           SinceStart', ShownBehind',
           walk'.isolation = "REPEATABLE READ" => walk'.snapshot = Orders(walk.kind)'
    PROVE  SnapshotSees'
<1> SUFFICES ASSUME walk'.isolation = "REPEATABLE READ"
             PROVE  /\ \A s \in walk'.snapshot : Sees(s)'
                    /\ \A s, t \in walk'.snapshot : Len(s) = Len(t)
  BY DEF SnapshotSees
<1>1. walk'.snapshot = Orders(walk.kind)'
  OBVIOUS
<1>2. walk'.phase # "idle"
  OBVIOUS
<1>3. \A s \in Orders(walk.kind)' : Sees(s)' /\ \A t \in Orders(walk.kind)' : Len(s) = Len(t)
  BY <1>2, CurrentOrdersSeeAlways DEF CurrentOrdersSee
<1> QED
  BY <1>1, <1>3

\* A snapshot is a set of sequences of ids.
LEMMA SnapshotTyped ==
    ASSUME TypeOK, rank \in [Incidents -> Ranks], NEW kind \in Kinds, NEW isolation
    PROVE  Snapshot(kind, isolation) \in SUBSET Seq(Nat)
BY OrderPlaces DEF Snapshot

\* What the proof keeps of a walk besides PageFitsCount.
WalkKnown ==
    /\ TypeOK /\ OwnershipAgrees /\ rank \in [Incidents -> Ranks]
    /\ WalkTyped /\ WalkInv

\* The client opens a list: nothing is shown yet.
LEMMA OpenKeepsWalk ==
    ASSUME WalkKnown, TypeOK', NEW kind \in Kinds, NEW size \in Sizes,
           NEW isolation \in Isolations, Open(kind, size, isolation)
    PROVE  WalkTyped' /\ WalkInv' /\ PageFitsCount'
<1> USE DEF WalkKnown
<1>1. UNCHANGED <<vars, rank>> /\ rank' \in [Incidents -> Ranks]
  BY DEF Open
<1>2. walk' = [phase |-> "begun", kind |-> kind, size |-> size,
               isolation |-> isolation, snapshot |-> Snapshot(kind, isolation),
               page |-> 1, total |-> 0, items |-> <<>>, shown |-> <<>>,
               start |-> Rows(kind)]
  BY DEF Open
<1>3. Snapshot(kind, isolation) \in SUBSET Seq(Nat)
  BY SnapshotTyped
<1>4. Rows(kind) \in SUBSET Nat /\ IsFiniteSet(Rows(kind))
  BY RowsAreNumbers
<1>5. /\ Rows(kind)' = Rows(kind) /\ Orders(kind)' = Orders(kind)
  BY <1>1, TablesStay
<1>6. /\ walk'.phase = "begun" /\ walk'.kind = kind /\ walk'.size = size
      /\ walk'.isolation = isolation /\ walk'.page = 1
      /\ walk'.snapshot = Snapshot(kind, isolation)
      /\ walk'.shown = <<>> /\ walk'.start = Rows(kind)
  BY <1>2
<1>7. WalkTyped'
  BY <1>2, <1>3, <1>4 DEF WalkTyped
<1>8. size \in Nat /\ Turned' = 0 /\ InPage'
  <2>1. InPage'
    BY <1>6 DEF InPage
  <2>2. size \in Nat /\ (1 - 1) * size = 0
    <3>1. size \in Nat
      BY ListsAssumption
    <3>2. \A n \in Nat : (1 - 1) * n = 0
      OBVIOUS
    <3> QED
      BY <3>1, <3>2
  <2>3. Turned' = (walk'.page - 1) * walk'.size
    BY <2>1 DEF Turned
  <2>4. (walk'.page - 1) * walk'.size = (1 - 1) * size
    BY <1>6
  <2> QED
    BY <2>1, <2>2, <2>3, <2>4
<1>9. SinceStart'
  BY <1>5, <1>6 DEF SinceStart
<1>10. ShownBehind'
  BY <1>6 DEF ShownBehind, IsInjective
<1>11. ShownBegins'
  <2>1. Cardinality(Rows(kind)) \in Nat
    BY <1>4, FS_CardinalityType
  <2> QED
    BY <1>6, <1>8, <2>1 DEF ShownBegins
<1>12. ShownHistory'
  BY <1>6, <1>8 DEF ShownHistory
<1>13. SnapshotSees'
  <2>1. isolation = "REPEATABLE READ" => walk'.snapshot = Orders(kind)'
    BY <1>5, <1>6 DEF Snapshot
  <2>2. Orders(walk.kind)' = Orders(kind)'
    BY <1>6
  <2> QED
    BY <1>1, <1>6, <1>7, <1>9, <1>10, <2>1, <2>2, SnapshotTaken
<1>14. DoneTurned'
  BY <1>6 DEF DoneTurned
<1>15. PageFitsCount'
  BY <1>6 DEF PageFitsCount
<1> QED
  BY <1>7, <1>9, <1>10, <1>11, <1>12, <1>13, <1>14, <1>15 DEF WalkInv

\* The first statement counts what the second one will see, at REPEATABLE
\* READ the same rows.
LEMMA CountKeepsWalk ==
    ASSUME WalkKnown, Count
    PROVE  WalkTyped' /\ WalkInv' /\ PageFitsCount'
<1> USE DEF WalkKnown
<1>1. /\ walk.phase = "begun" /\ UNCHANGED <<vars, rank>> /\ InPage
  BY DEF Count, InPage
<1>2. /\ walk.kind \in Kinds /\ walk.size \in Nat \ {0} /\ walk.page \in Nat \ {0}
      /\ walk.start \in SUBSET Nat /\ walk.snapshot \in SUBSET Seq(Nat)
      /\ walk.shown \in Seq(Nat)
  BY <1>1, WalkColumns
<1>3. PICK order \in Visible :
        walk' = [walk EXCEPT !.phase = "counted", !.total = Len(order)]
  BY DEF Count
<1>4. Sees(order)
  BY <1>1, VisibleSees
<1>5. order \in Seq(Nat) /\ Len(order) \in Nat
  BY <1>4 DEF Sees
<1>6. walk \in [phase : {"begun", "counted", "answered", "done"}, kind : Kinds,
                size : Sizes, isolation : Isolations, snapshot : SUBSET Seq(Nat),
                page : Nat \ {0}, total : Nat, items : Seq(Nat), shown : Seq(Nat),
                start : SUBSET Nat]
  BY <1>1 DEF WalkTyped
<1>7. /\ walk'.phase = "counted" /\ walk'.total = Len(order)
      /\ walk'.kind = walk.kind /\ walk'.size = walk.size
      /\ walk'.isolation = walk.isolation /\ walk'.page = walk.page
      /\ walk'.snapshot = walk.snapshot
      /\ walk'.shown = walk.shown /\ walk'.start = walk.start
  BY <1>3, <1>6
<1>8. WalkTyped'
  BY <1>3, <1>5, <1>6 DEF WalkTyped
<1>9. InPage' /\ Turned' = Turned
  BY <1>1, <1>7 DEF InPage, Turned
<1>10. PICK kind \in Kinds : kind = walk.kind /\ kind = walk'.kind
  BY <1>2, <1>7
<1>11. /\ Rows(kind)' = Rows(kind) /\ incident_histories' = incident_histories
       /\ \A x : Place(kind, x)' = Place(kind, x)
  BY <1>1, TablesStay
<1>12. /\ SinceStart /\ SnapshotSees /\ ShownBehind /\ ShownBegins /\ ShownHistory
       /\ SeesHistory(order) /\ SeesStart(order)
  BY <1>1, <1>4 DEF WalkInv, Sees
<1>13. SinceStart'
  BY <1>7, <1>10, <1>11, <1>12 DEF SinceStart
<1>14. SnapshotSees'
  <2> SUFFICES ASSUME walk.isolation = "REPEATABLE READ"
               PROVE  /\ \A s \in walk.snapshot : Sees(s)'
                      /\ \A s, t \in walk.snapshot : Len(s) = Len(t)
                      /\ \A s \in walk.snapshot : Len(s) = Len(order)
    BY <1>7 DEF SnapshotSees
  <2>1. /\ \A s \in walk.snapshot : Sees(s)
        /\ \A s, t \in walk.snapshot : Len(s) = Len(t)
        /\ order \in walk.snapshot
    BY <1>1, <1>12 DEF SnapshotSees, Visible
  <2>2. \A s \in walk.snapshot : Sees(s)'
    BY <1>1, <1>7, <1>9, <2>1, SeesSame
  <2> QED
    BY <2>1, <2>2
<1>15. ShownBehind'
  BY <1>7, <1>9, <1>10, <1>11, <1>12 DEF ShownBehind
<1>16. ShownBegins'
  BY <1>1, <1>7, <1>9, <1>10, <1>11, <1>12 DEF ShownBegins, SeesStart
<1>17. ShownHistory'
  BY <1>1, <1>7, <1>9, <1>10, <1>11, <1>12 DEF ShownHistory, SeesHistory
<1>18. DoneTurned' /\ PageFitsCount'
  BY <1>7 DEF DoneTurned, PageFitsCount
<1> QED
  BY <1>8, <1>13, <1>14, <1>15, <1>16, <1>17, <1>18 DEF WalkInv

\* The next page starts where the last one ended; without one the total is
\* behind the client.
LEMMA TurnKeepsWalk ==
    ASSUME WalkKnown, TypeOK', Turn
    PROVE  WalkTyped' /\ WalkInv' /\ PageFitsCount'
<1> USE DEF WalkKnown
<1> DEFINE pages == TotalPages(walk.total, walk.size)
<1>1. /\ walk.phase = "answered" /\ UNCHANGED <<vars, rank>> /\ ~ InPage
      /\ rank' \in [Incidents -> Ranks]
  BY DEF Turn, InPage
<1>2. /\ walk.kind \in Kinds /\ walk.size \in Nat \ {0} /\ walk.page \in Nat \ {0}
      /\ walk.start \in SUBSET Nat /\ walk.total \in Nat /\ walk.shown \in Seq(Nat)
      /\ walk.page * walk.size \in Nat /\ Len(walk.shown) \in Nat
  <2>1. walk.phase # "idle"
    BY <1>1
  <2>2. /\ walk.kind \in Kinds /\ walk.size \in Nat \ {0} /\ walk.page \in Nat \ {0}
        /\ walk.start \in SUBSET Nat /\ walk.total \in Nat /\ walk.shown \in Seq(Nat)
        /\ walk.page * walk.size \in Nat
    BY <2>1, WalkColumns
  <2> QED
    BY <2>2
<1>3. walk \in [phase : {"begun", "counted", "answered", "done"}, kind : Kinds,
                size : Sizes, isolation : Isolations, snapshot : SUBSET Seq(Nat),
                page : Nat \ {0}, total : Nat, items : Seq(Nat), shown : Seq(Nat),
                start : SUBSET Nat]
  BY <1>1 DEF WalkTyped
<1>4. Turned = walk.page * walk.size
  BY <1>1 DEF Turned
<1>5. pages \in Nat /\ (walk.page + 1 <= pages <=> walk.page * walk.size < walk.total)
  BY <1>2, OneMorePage
<1>6. /\ SinceStart /\ ShownBehind /\ ShownBegins /\ ShownHistory
  BY <1>1 DEF WalkInv
<1>7. PICK kind \in Kinds : kind = walk.kind
  BY <1>2
<1>8. /\ Rows(kind)' = Rows(kind) /\ incident_histories' = incident_histories
      /\ Orders(kind)' = Orders(kind)
      /\ \A x : Place(kind, x)' = Place(kind, x)
  BY <1>1, TablesStay
<1>9. CASE walk.page < pages
  <2>1. walk' = [walk EXCEPT !.phase = "begun", !.page = walk.page + 1,
                    !.snapshot = Snapshot(walk.kind, walk.isolation)]
    BY <1>9 DEF Turn
  <2>2. Snapshot(walk.kind, walk.isolation) \in SUBSET Seq(Nat)
    BY <1>2, SnapshotTyped
  <2>3. /\ walk'.phase = "begun" /\ walk'.kind = kind /\ walk'.size = walk.size
        /\ walk'.isolation = walk.isolation /\ walk'.page = walk.page + 1
        /\ walk'.snapshot = Snapshot(kind, walk.isolation)
        /\ walk'.shown = walk.shown /\ walk'.start = walk.start
    BY <1>3, <1>7, <2>1
  <2>4. WalkTyped'
    <3>1. walk.page + 1 \in Nat \ {0}
      BY <1>2
    <3> QED
      BY <1>3, <2>1, <2>2, <3>1 DEF WalkTyped
  <2>5. InPage'
    BY <2>3 DEF InPage
  <2>6. Turned' = Turned
    <3>1. Turned' = (walk'.page - 1) * walk'.size
      BY <2>5 DEF Turned
    <3>2. walk'.page - 1 = walk.page
      BY <1>2, <2>3
    <3> QED
      BY <1>4, <2>3, <3>1, <3>2
  <2>7. Turned < walk.total
    BY <1>2, <1>4, <1>5, <1>9
  <2>8. SinceStart'
    BY <1>6, <1>7, <1>8, <2>3 DEF SinceStart
  <2>9. ShownBehind'
    BY <1>6, <1>7, <1>8, <2>3, <2>6 DEF ShownBehind
  <2>10. ShownBegins'
    <3> SUFFICES ASSUME Rows(kind) = walk.start
                 PROVE  /\ \A j \in DOMAIN walk.shown :
                              /\ walk.shown[j] \in walk.start
                              /\ Place(kind, walk.shown[j])' = j - 1
                        /\ Len(walk.shown) = Turned /\ Turned <= Cardinality(walk.start)
      BY <1>8, <2>3, <2>5, <2>6 DEF ShownBegins
    <3>1. /\ \A j \in DOMAIN walk.shown :
                walk.shown[j] \in walk.start /\ Place(kind, walk.shown[j]) = j - 1
          /\ walk.total = Cardinality(walk.start)
          /\ Len(walk.shown) = Min2(Turned, Cardinality(walk.start))
      BY <1>1, <1>6, <1>7 DEF ShownBegins
    <3>2. Len(walk.shown) = Turned /\ Turned <= Cardinality(walk.start)
      BY <1>2, <1>4, <2>7, <3>1 DEF Min2
    <3>3. \A x : Place(kind, x)' = Place(kind, x)
      BY <1>8
    <3>4. ASSUME NEW j \in DOMAIN walk.shown
          PROVE  Place(kind, walk.shown[j])' = j - 1
      <4>1. PICK x : x = walk.shown[j] /\ x = walk'.shown[j]
        BY <2>3
      <4>2. Place(kind, x)' = j - 1
        BY <3>1, <3>3, <4>1
      <4> QED
        BY <4>1, <4>2
    <3> QED
      BY <3>1, <3>2, <3>4
  <2>11. ShownHistory'
    <3> SUFFICES ASSUME IsHistory(kind)
                 PROVE  /\ \A j \in DOMAIN walk.shown : walk.shown[j] = j
                        /\ Len(walk.shown) = Turned
      BY <1>2, <1>4, <2>3, <2>5, <2>6 DEF ShownHistory
    <3>1. /\ \A j \in DOMAIN walk.shown : walk.shown[j] = j
          /\ Len(walk.shown) <= Turned
          /\ walk.total <= Len(walk.shown) \/ Len(walk.shown) = Turned
      BY <1>1, <1>6, <1>7 DEF ShownHistory
    <3> QED
      BY <1>2, <1>4, <2>7, <3>1
  <2>12. SnapshotSees'
    <3>1. walk.isolation = "REPEATABLE READ" => walk'.snapshot = Orders(kind)'
      BY <1>8, <2>3 DEF Snapshot
    <3>2. Orders(walk.kind)' = Orders(kind)'
      BY <2>3
    <3> QED
      BY <1>1, <2>3, <2>4, <2>8, <2>9, <3>1, <3>2, SnapshotTaken
  <2>13. DoneTurned' /\ PageFitsCount'
    BY <2>3 DEF DoneTurned, PageFitsCount
  <2> QED
    BY <2>4, <2>8, <2>9, <2>10, <2>11, <2>12, <2>13 DEF WalkInv
<1>10. CASE ~ (walk.page < pages)
  <2>1. walk' = [walk EXCEPT !.phase = "done"]
    BY <1>10 DEF Turn
  <2>2. /\ walk'.phase = "done" /\ walk'.kind = kind /\ walk'.size = walk.size
        /\ walk'.page = walk.page /\ walk'.total = walk.total
        /\ walk'.shown = walk.shown /\ walk'.start = walk.start
    BY <1>3, <1>7, <2>1
  <2>3. WalkTyped'
    BY <1>3, <2>1 DEF WalkTyped
  <2>4. ~ InPage' /\ Turned' = Turned
    BY <1>1, <2>2 DEF InPage, Turned
  <2>5. SinceStart'
    BY <1>6, <1>7, <1>8, <2>2 DEF SinceStart
  <2>6. ShownBehind'
    BY <1>6, <1>7, <1>8, <2>2, <2>4 DEF ShownBehind
  <2>7. ShownBegins'
    BY <1>1, <1>6, <1>7, <1>8, <2>2, <2>4 DEF ShownBegins
  <2>8. ShownHistory'
    BY <1>1, <1>6, <1>7, <1>8, <2>2, <2>4 DEF ShownHistory
  <2>9. DoneTurned'
    BY <1>2, <1>4, <1>5, <1>10, <2>2, <2>4 DEF DoneTurned
  <2>10. SnapshotSees' /\ PageFitsCount'
    BY <2>2, <2>4 DEF SnapshotSees, PageFitsCount
  <2> QED
    BY <2>3, <2>5, <2>6, <2>7, <2>8, <2>9, <2>10 DEF WalkInv
<1> QED
  BY <1>9, <1>10

\* How many rows the second statement sees, against the number that the first
\* one counted.
LEMMA FetchAgainstCount ==
    ASSUME WalkKnown, walk.phase = "counted", NEW s \in Visible
    PROVE  /\ walk.isolation = "REPEATABLE READ" => Len(s) = walk.total
           /\ IsHistory(walk.kind) => walk.total <= Len(s)
<1> USE DEF WalkKnown
<1>1. SnapshotSees /\ ShownHistory /\ InPage
  BY DEF WalkInv, InPage
<1>2. walk.kind \in Kinds /\ walk.total \in Nat
  <2>1. walk.phase # "idle"
    OBVIOUS
  <2> QED
    BY <2>1, WalkColumns
<1>3. CASE walk.isolation = "REPEATABLE READ"
  <2>1. Len(s) = walk.total
    BY <1>1, <1>3 DEF SnapshotSees, Visible
  <2> QED
    BY <1>2, <2>1
<1>4. CASE walk.isolation # "REPEATABLE READ"
  <2>1. ASSUME IsHistory(walk.kind) PROVE walk.total <= Len(s)
    <3> DEFINE n == Len(incident_histories[walk.kind.of])
    <3>1. s \in Orders(walk.kind)
      BY <1>4 DEF Visible
    <3>2. Len(s) = Cardinality(Rows(walk.kind))
      BY <1>2, <3>1, OrderPlaces
    <3>3. n \in Nat /\ Rows(walk.kind) = 1..n
      BY <1>2, <2>1, RowsAreNumbers
    <3>4. walk.total <= n
      BY <1>1, <2>1 DEF ShownHistory
    <3> HIDE DEF n
    <3>5. Len(s) = n
      BY <3>2, <3>3, FS_Interval
    <3> QED
      BY <3>4, <3>5
  <2> QED
    BY <1>4, <2>1
<1> QED
  BY <1>3, <1>4

\* There is a page for every item, and none without rows.
LEMMA PageCounted ==
    ASSUME NEW total \in Nat, NEW size \in Nat \ {0}, NEW page \in Nat \ {0},
           NEW n \in Nat, n = (page - 1) * size
    PROVE  /\ page <= TotalPages(total, size) <=> n < total
           /\ TotalPages(total, size) = 0 <=> total = 0
<1>1. page - 1 \in Nat /\ (page - 1) + 1 = page
  OBVIOUS
<1>2. page <= TotalPages(total, size) <=> n < total
  <2>1. (page - 1) + 1 <= TotalPages(total, size) <=> (page - 1) * size < total
    BY <1>1, OneMorePage
  <2> QED
    BY <1>1, <2>1
<1>3. TotalPages(total, size) = 0 <=> total = 0
  <2>1. /\ TotalPages(total, size) \in Nat
        /\ 0 + 1 <= TotalPages(total, size) <=> 0 * size < total
    BY OneMorePage
  <2>2. 0 * size = 0
    OBVIOUS
  <2> QED
    BY <2>1, <2>2
<1> QED
  BY <1>2, <1>3

\* A page is appended to what was shown.
LEMMA FetchKeepsWalk ==
    ASSUME WalkKnown, Fetch
    PROVE  WalkTyped' /\ WalkInv' /\ PageFitsCount'
<1>0. TypeOK /\ rank \in [Incidents -> Ranks] /\ WalkTyped /\ WalkInv
  BY DEF WalkKnown
<1>1. /\ walk.phase = "counted" /\ walk.phase # "idle"
      /\ UNCHANGED <<vars, rank>> /\ InPage
  BY DEF Fetch, InPage
<1>2. /\ walk.kind \in Kinds /\ walk.size \in Nat \ {0} /\ walk.page \in Nat \ {0}
      /\ walk.total \in Nat /\ walk.shown \in Seq(Nat)
  BY <1>0, <1>1, WalkColumns
<1>3. PICK s \in Visible :
        walk' = [walk EXCEPT !.phase = "answered",
                    !.items = PageOf(s, walk.page, walk.size),
                    !.shown = walk.shown \o PageOf(s, walk.page, walk.size),
                    !.snapshot = {}]
  BY DEF Fetch
<1>4. PICK got : got = PageOf(s, walk.page, walk.size)
  OBVIOUS
<1>5. PICK kind \in Kinds : kind = walk.kind
  BY <1>2
<1>6. PICK n \in Nat : n = (walk.page - 1) * walk.size
  BY <1>0, <1>1, WalkColumns
<1>7. PICK width \in Nat \ {0} : width = walk.size
  BY <1>2
<1>8. PICK seen \in Seq(Nat) : seen = walk.shown
  BY <1>2
<1>9. PICK found \in Nat : found = walk.total
  BY <1>2
<1>10. PICK nth \in Nat \ {0} : nth = walk.page
  BY <1>2
<1>11. walk \in [phase : {"begun", "counted", "answered", "done"}, kind : Kinds,
                size : Sizes, isolation : Isolations, snapshot : SUBSET Seq(Nat),
                page : Nat \ {0}, total : Nat, items : Seq(Nat), shown : Seq(Nat),
                start : SUBSET Nat]
  BY <1>0, <1>1 DEF WalkTyped
<1>12. s \in Seq(Nat) /\ IsInjective(s) /\ SeesLeaving(s) /\ SeesHistory(s) /\ SeesStart(s)
  BY <1>0, <1>1, VisibleSees DEF Sees
<1> DEFINE m == Len(got)
<1>13. /\ got \in Seq(Nat)
       /\ m = OnPage(n, width, Len(s))
       /\ \A b \in 1..m : n + b \in 1..Len(s) /\ b <= width /\ got[b] = s[n + b]
  <2>1. got = PageOf(s, nth, width)
    BY <1>4, <1>7, <1>10
  <2>2. n = Offset(nth, width)
    BY <1>6, <1>7, <1>10 DEF Offset
  <2>3. s \in Seq(Nat)
    BY <1>12
  <2>4. IsPage(got, s, n, width)
    BY <2>1, <2>2, <2>3, PageItems
  <2> QED
    BY <2>4 DEF IsPage
<1>14. m \in Nat /\ Len(seen) \in Nat /\ Len(s) \in Nat /\ DOMAIN s = 1..Len(s)
       /\ DOMAIN seen = 1..Len(seen)
  BY <1>8, <1>12, <1>13
<1>15. /\ seen \o got \in Seq(Nat)
       /\ Len(seen \o got) = Len(seen) + m
       /\ \A j \in 1..Len(seen) + m :
            (seen \o got)[j] = IF j <= Len(seen) THEN seen[j]
                                  ELSE got[j - Len(seen)]
  <2>1. got \in Seq(Nat)
    BY <1>13
  <2> QED
    BY <2>1, ConcatProperties
<1> DEFINE more == seen \o got
<1>16. DOMAIN more = 1..(Len(seen) + m)
  BY <1>15
<1> HIDE DEF m, more
<1>17. /\ walk'.phase = "answered" /\ walk'.items = got /\ walk'.shown = more
       /\ walk'.kind = kind /\ walk'.size = width /\ walk'.page = walk.page
       /\ walk'.total = walk.total /\ walk'.isolation = walk.isolation
       /\ walk'.start = walk.start
  BY <1>3, <1>4, <1>5, <1>7, <1>8, <1>11 DEF more
<1>18. WalkTyped'
  <2>1. walk' = [walk EXCEPT !.phase = "answered", !.items = got, !.shown = more,
                    !.snapshot = {}]
    BY <1>3, <1>4, <1>8 DEF more
  <2>2. got \in Seq(Nat) /\ more \in Seq(Nat) /\ {} \in SUBSET Seq(Nat)
    BY <1>13, <1>15 DEF more
  <2> QED
    BY <1>11, <2>1, <2>2 DEF WalkTyped
<1>19. ~ InPage' /\ Turned = n /\ Turned' = n + width
  <2>1. ~ InPage'
    BY <1>17 DEF InPage
  <2>2. Turned = n
    BY <1>1, <1>6 DEF Turned
  <2>3. Turned' = walk.page * walk.size
    BY <1>7, <1>17, <2>1 DEF Turned
  <2>4. walk.page * walk.size = (walk.page - 1) * walk.size + walk.size
    BY <1>0, <1>1, WalkColumns
  <2> QED
    BY <1>6, <1>7, <2>1, <2>2, <2>3, <2>4
<1>20. /\ Rows(kind)' = Rows(kind) /\ incident_histories' = incident_histories
       /\ \A x : Place(kind, x)' = Place(kind, x)
  BY <1>1, TablesStay
<1>21. SinceStart /\ ShownBehind /\ ShownBegins /\ ShownHistory
  BY <1>0, <1>1 DEF WalkInv
<1>22. SinceStart'
  BY <1>5, <1>17, <1>20, <1>21 DEF SinceStart
<1>23. SnapshotSees' /\ DoneTurned'
  BY <1>17, <1>19 DEF SnapshotSees, DoneTurned
<1>24. /\ m \in Nat /\ n + m <= n + width
       /\ n <= Len(s) => n + m = Min2(n + width, Len(s))
       /\ Len(s) <= n + m \/ n + m = n + width
       /\ m = IF Len(s) <= n THEN 0 ELSE Min2(width, Len(s) - n)
       /\ m = 0 <=> Len(s) <= n
  <2>1. m = OnPage(n, width, Len(s))
    BY <1>13
  <2>2. Len(s) \in Nat
    BY <1>14
  <2> QED
    BY <2>1, <2>2 DEF Min2, OnPage
\* A row of the page is a row of s behind the offset.
<1>25. ASSUME NEW j \in DOMAIN more
       PROVE  /\ j \in Nat
              /\ \/ j \in DOMAIN seen /\ more[j] = seen[j]
                 \/ /\ j - Len(seen) \in 1..m /\ n + (j - Len(seen)) \in DOMAIN s
                    /\ j - Len(seen) <= width
                    /\ more[j] = s[n + (j - Len(seen))]
  <2>1. j \in 1..(Len(seen) + m) /\ j \in Nat
    BY <1>14, <1>16
  <2>2. CASE j <= Len(seen)
    BY <1>14, <1>15, <2>1, <2>2 DEF more
  <2>3. CASE ~ (j <= Len(seen))
    <3>1. j - Len(seen) \in 1..m
      BY <1>14, <2>1, <2>3
    <3>2. more[j] = got[j - Len(seen)]
      BY <1>15, <2>1, <2>3 DEF more
    <3> QED
      BY <1>13, <1>14, <2>1, <3>1, <3>2
  <2> QED
    BY <2>2, <2>3
<1>26. ShownBehind'
  <2> SUFFICES ASSUME OnlyLeaves(kind)
               PROVE  /\ IsInjective(more)
                      /\ \A j \in DOMAIN more : more[j] \in Rows(kind) =>
                            Place(kind, more[j]) < n + width
    <3>1. ASSUME NEW j \in DOMAIN more
          PROVE  Place(kind, walk.shown[j])' = Place(kind, more[j])
      <4>1. PICK x : x = more[j] /\ x = walk'.shown[j]
        BY <1>17
      <4>2. Place(kind, x)' = Place(kind, x)
        BY <1>20
      <4> QED
        BY <4>1, <4>2
    <3> QED
      BY <1>17, <1>19, <1>20, <3>1 DEF ShownBehind
  <2>1. /\ IsInjective(seen)
        /\ \A j \in DOMAIN seen : seen[j] \in Rows(kind) => Place(kind, seen[j]) < n
    BY <1>5, <1>8, <1>19, <1>21 DEF ShownBehind
  <2>2. \A k \in DOMAIN s : /\ \A a \in DOMAIN seen : seen[a] = s[k] => k <= n
                            /\ s[k] \in Rows(kind) => Place(kind, s[k]) < k
    BY <1>5, <1>8, <1>12, <1>19 DEF SeesLeaving
  <2>3. \A x \in Rows(kind) : Place(kind, x) \in Nat
    <3>1. \A x : {y \in Rows(kind) : Precedes(kind, y, x)} \in SUBSET Rows(kind)
      OBVIOUS
    <3>2. IsFiniteSet(Rows(kind))
      BY <1>0, RowsAreNumbers
    <3>3. \A T \in SUBSET Rows(kind) : Cardinality(T) \in Nat
      BY <3>2, FS_Subset, FS_CardinalityType
    <3> QED
      BY <3>1, <3>3 DEF Place
  <2>4. ASSUME NEW j \in DOMAIN more, more[j] \in Rows(kind)
        PROVE  Place(kind, more[j]) < n + width
    <3>1. CASE j \in DOMAIN seen /\ more[j] = seen[j]
      BY <2>1, <2>3, <2>4, <3>1
    <3>2. CASE /\ j - Len(seen) \in 1..m /\ n + (j - Len(seen)) \in DOMAIN s
               /\ j - Len(seen) <= width
               /\ more[j] = s[n + (j - Len(seen))]
      <4>1. Place(kind, more[j]) < n + (j - Len(seen))
        BY <2>2, <2>4, <3>2
      <4> QED
        BY <1>14, <1>25, <2>3, <2>4, <3>2, <4>1
    <3> QED
      BY <1>25, <3>1, <3>2
  <2>5. ASSUME NEW j \in DOMAIN more, NEW k \in DOMAIN more, more[j] = more[k]
        PROVE  j = k
    <3>1. \A a \in DOMAIN seen, b \in 1..m :
             n + b \in DOMAIN s => seen[a] # s[n + b]
      BY <1>14, <2>2
    <3>2. CASE j \in DOMAIN seen /\ k \in DOMAIN seen
               /\ more[j] = seen[j] /\ more[k] = seen[k]
      BY <2>1, <2>5, <3>2 DEF IsInjective
    <3>3. CASE /\ ~ (j \in DOMAIN seen /\ more[j] = seen[j])
               /\ ~ (k \in DOMAIN seen /\ more[k] = seen[k])
      <4>1. /\ j - Len(seen) \in 1..m /\ n + (j - Len(seen)) \in DOMAIN s
            /\ k - Len(seen) \in 1..m /\ n + (k - Len(seen)) \in DOMAIN s
            /\ s[n + (j - Len(seen))] = s[n + (k - Len(seen))]
            /\ j \in Nat /\ k \in Nat
        BY <1>25, <2>5, <3>3
      <4>2. n + (j - Len(seen)) = n + (k - Len(seen))
        BY <1>12, <4>1 DEF IsInjective
      <4> QED
        BY <1>14, <4>1, <4>2
    <3> QED
      BY <1>25, <2>5, <3>1, <3>2, <3>3
  <2> QED
    BY <2>4, <2>5 DEF IsInjective
<1>27. ShownBegins'
  <2> SUFFICES ASSUME Rows(kind) = walk.start
               PROVE  /\ \A j \in DOMAIN more :
                            more[j] \in walk.start /\ Place(kind, more[j]) = j - 1
                      /\ walk.total = Cardinality(walk.start)
                      /\ Len(more) = Min2(n + width, Cardinality(walk.start))
    <3>1. ASSUME NEW j \in DOMAIN more
          PROVE  Place(kind, walk.shown[j])' = Place(kind, more[j])
      <4>1. PICK x : x = more[j] /\ x = walk'.shown[j]
        BY <1>17
      <4>2. Place(kind, x)' = Place(kind, x)
        BY <1>20
      <4> QED
        BY <4>1, <4>2
    <3> QED
      BY <1>17, <1>19, <1>20, <3>1 DEF ShownBegins
  <2>1. /\ \A j \in DOMAIN seen :
              seen[j] \in walk.start /\ Place(kind, seen[j]) = j - 1
        /\ Len(seen) = n /\ n <= Cardinality(walk.start)
        /\ walk.total = Cardinality(walk.start)
    BY <1>1, <1>5, <1>8, <1>19, <1>21 DEF ShownBegins
  <2>2. /\ Len(s) = Cardinality(walk.start)
        /\ \A j \in DOMAIN s : s[j] \in walk.start /\ Place(kind, s[j]) = j - 1
    BY <1>5, <1>12 DEF SeesStart
  <2>3. ASSUME NEW j \in DOMAIN more
        PROVE  more[j] \in walk.start /\ Place(kind, more[j]) = j - 1
    <3>1. \/ j \in DOMAIN seen /\ more[j] = seen[j]
          \/ j \in DOMAIN s /\ more[j] = s[j]
      <4>1. j \in Nat /\ n + (j - Len(seen)) = j
        BY <1>14, <1>25, <2>1
      <4> QED
        BY <1>25, <4>1
    <3> QED
      BY <2>1, <2>2, <3>1
  <2>4. Len(more) = Min2(n + width, Cardinality(walk.start))
    <3>1. Len(more) = n + m
      BY <1>15, <2>1 DEF more
    <3> QED
      BY <1>24, <2>1, <2>2, <3>1
  <2> QED
    BY <2>1, <2>3, <2>4
<1>28. ShownHistory'
  <2> SUFFICES ASSUME IsHistory(kind)
               PROVE  /\ \A j \in DOMAIN more : more[j] = j
                      /\ Len(more) <= n + width
                      /\ walk.start \subseteq 1..walk.total
                      /\ walk.total <= Len(more) \/ Len(more) = n + width
    BY <1>17, <1>19, <1>20 DEF ShownHistory
  <2>1. /\ \A j \in DOMAIN seen : seen[j] = j
        /\ Len(seen) = n
        /\ walk.start \subseteq 1..walk.total
    BY <1>1, <1>5, <1>8, <1>19, <1>21 DEF ShownHistory
  <2>2. \A j \in DOMAIN s : s[j] = j
    BY <1>5, <1>12 DEF SeesHistory
  <2>3. ASSUME NEW j \in DOMAIN more
        PROVE  more[j] = j
    <3>1. \/ j \in DOMAIN seen /\ more[j] = seen[j]
          \/ j \in DOMAIN s /\ more[j] = s[j]
      <4>1. j \in Nat /\ n + (j - Len(seen)) = j
        BY <1>14, <1>25, <2>1
      <4> QED
        BY <1>25, <4>1
    <3> QED
      BY <2>1, <2>2, <3>1
  <2>4. walk.total <= Len(s)
    BY <1>1, <1>5, FetchAgainstCount
  <2>5. Len(more) = n + m
    BY <1>15, <2>1 DEF more
  <2>6. Len(s) <= n + m => found <= n + m
    BY <1>14, <1>9, <2>4
  <2>7. /\ Len(more) <= n + width
        /\ walk.total <= Len(more) \/ Len(more) = n + width
    BY <1>9, <1>24, <2>5, <2>6
  <2> QED
    BY <2>1, <2>3, <2>7
<1>29. PageFitsCount'
  <2>1. ASSUME Len(s) = found
        PROVE  /\ m = IF found <= n THEN 0 ELSE Min2(width, found - n)
               /\ nth <= TotalPages(found, width) <=> got # <<>>
               /\ TotalPages(found, width) = 0 <=> found = 0
    <3>1. m = IF found <= n THEN 0 ELSE Min2(width, found - n)
      BY <1>24, <2>1
    <3>2. n = (nth - 1) * width
      BY <1>6, <1>7, <1>10
    <3>3. /\ nth <= TotalPages(found, width) <=> n < found
          /\ TotalPages(found, width) = 0 <=> found = 0
      BY <3>2, PageCounted
    <3>4. got = <<>> <=> m = 0
      BY <1>13 DEF m
    <3>5. m = 0 <=> found <= n
      BY <1>24, <2>1
    <3>6. found <= n <=> ~ (n < found)
      OBVIOUS
    <3> QED
      BY <3>1, <3>3, <3>4, <3>5, <3>6
  <2>2. walk.isolation = "REPEATABLE READ" => Len(s) = found
    BY <1>1, <1>9, FetchAgainstCount
  <2>3. /\ walk'.isolation = walk.isolation /\ walk'.total = found
        /\ walk'.items = got /\ walk'.size = width /\ walk'.page = nth
        /\ n = (nth - 1) * width
    BY <1>6, <1>7, <1>9, <1>10, <1>17
  <2> QED
    BY <2>1, <2>2, <2>3 DEF PageFitsCount, m
<1> QED
  BY <1>18, <1>22, <1>23, <1>26, <1>27, <1>28, <1>29 DEF WalkInv

-----------------------------------------------------------------------------
(* The theorems.                                                           *)

\* Nothing is known of a walk before the client opens a list.
LEMMA ListInitKnown ==
    ASSUME ListInit PROVE Init /\ WalkTyped /\ WalkInv /\ PageFitsCount
           /\ rank \in [Incidents -> Ranks]
<1>1. walk.phase = "idle"
  BY DEF ListInit
<1> QED
  BY <1>1 DEF ListInit, WalkTyped, WalkInv, PageFitsCount

\* A step of the client writes no table.
LEMMA ClientLeavesTables ==
    ASSUME NEW kind \in Kinds, NEW size \in Sizes, NEW isolation \in Isolations,
           Open(kind, size, isolation) \/ Count \/ Fetch \/ Turn
    PROVE  UNCHANGED <<vars, rank>>
BY DEF Open, Count, Fetch, Turn

\* The commands are those of Lifecycle, whatever the client reads.
LEMMA ListImplementsLifecycle == ListSpec => Spec
<1>1. [ListNext]_listVars => [Next]_vars
  <2> SUFFICES ASSUME [ListNext]_listVars PROVE [Next]_vars
    OBVIOUS
  <2>1. CASE Command
    BY <2>1 DEF Command
  <2>2. CASE \E kind \in Kinds, size \in Sizes, isolation \in Isolations :
                Open(kind, size, isolation)
    BY <2>2, ClientLeavesTables
  <2>3. CASE Count \/ Fetch \/ Turn
    BY <2>3 DEF Count, Fetch, Turn
  <2>4. CASE UNCHANGED listVars
    BY <2>4 DEF listVars
  <2> QED
    BY <2>1, <2>2, <2>3, <2>4 DEF ListNext
<1>2. ListInit => Init
  BY DEF ListInit
<1> QED
  BY <1>1, <1>2, PTL DEF ListSpec, Spec

\* A walk that changes no more.
LEMMA StutterKeepsWalk ==
    ASSUME UNCHANGED listVars, WalkTyped, WalkInv, PageFitsCount,
           rank \in [Incidents -> Ranks], TypeOK, OwnershipAgrees, TypeOK'
    PROVE  WalkTyped' /\ WalkInv' /\ PageFitsCount' /\ rank' \in [Incidents -> Ranks]
<1>1. /\ [Next]_vars /\ rank' = rank /\ walk' = walk
  BY DEF listVars
<1> QED
  BY <1>1, CommandKeepsWalk DEF WalkTyped, PageFitsCount

\* Whatever commands commit between the statements of a client, what is known
\* of the pages it was shown stays true.
THEOREM WalkCorrect ==
    ListSpec => [](WalkKnown /\ PageFitsCount)
<1> DEFINE Inv == WalkTyped /\ WalkInv /\ PageFitsCount /\ rank \in [Incidents -> Ranks]
<1>1. ListInit => Inv
  BY ListInitKnown
<1>2. TypeOK /\ TypeOK' /\ OwnershipAgrees /\ Inv /\ [ListNext]_listVars => Inv'
  <2> SUFFICES ASSUME TypeOK, TypeOK', OwnershipAgrees, Inv, [ListNext]_listVars
               PROVE  Inv'
    OBVIOUS
  <2>1. WalkKnown
    BY DEF WalkKnown
  <2>2. CASE Command
    <3>1. [Next]_vars /\ rank' = rank /\ walk' = walk
      BY <2>2 DEF Command
    <3> QED
      BY <3>1, CommandKeepsWalk DEF WalkTyped, PageFitsCount
  <2>3. ASSUME NEW kind \in Kinds, NEW size \in Sizes, NEW isolation \in Isolations,
               Open(kind, size, isolation)
        PROVE  Inv'
    BY <2>1, <2>3, OpenKeepsWalk DEF Open
  <2>4. CASE Count
    BY <2>1, <2>4, CountKeepsWalk DEF Count
  <2>5. CASE Fetch
    BY <2>1, <2>5, FetchKeepsWalk DEF Fetch
  <2>6. CASE Turn
    BY <2>1, <2>6, TurnKeepsWalk DEF Turn
  <2>7. CASE UNCHANGED listVars
    BY <2>7, StutterKeepsWalk
  <2> QED
    BY <2>2, <2>3, <2>4, <2>5, <2>6, <2>7 DEF ListNext
<1>3. TypeOK /\ OwnershipAgrees /\ Inv => WalkKnown /\ PageFitsCount
  BY DEF WalkKnown
<1> QED
  BY <1>1, <1>2, <1>3, ListImplementsLifecycle, TypeCorrect, OwnershipAgreesCorrect, PTL
  DEF ListSpec

\* The total and the items of an answer fit each other at REPEATABLE READ:
\* the page is as long as the total says, and there are pages exactly when
\* there are rows.
THEOREM PageFitsCountCorrect == ListSpec => []PageFitsCount
BY WalkCorrect, PTL

\* A client that turned the pages of a list has seen nothing twice and left
\* nothing out, as far as the list can promise it.
THEOREM WalkCompleteCorrect == ListSpec => []WalkComplete
<1>1. WalkKnown => WalkComplete
  <2> SUFFICES ASSUME WalkKnown, walk.phase # "idle" PROVE WalkComplete
    BY DEF WalkComplete, WalkNeverRepeats, StableListComplete, HistoryWithoutGap
  <2>1. TypeOK /\ WalkTyped
    BY DEF WalkKnown
  <2>2. PICK kind \in Kinds : kind = walk.kind
    BY <2>1, WalkColumns
  <2>3. PICK seen \in Seq(Nat) : seen = walk.shown
    BY <2>1, WalkColumns
  <2>4. DOMAIN seen = 1..Len(seen) /\ Len(seen) \in Nat
    BY <2>3
  <2>5. ShownBehind /\ ShownBegins /\ ShownHistory /\ DoneTurned
    BY DEF WalkKnown, WalkInv
  <2>6. Turned \in Nat /\ walk.total \in Nat
    BY <2>1, WalkColumns
  <2>7. WalkNeverRepeats
    <3> SUFFICES ASSUME kind.filter # "mine_only" PROVE IsInjective(seen)
      BY <2>2, <2>3 DEF WalkNeverRepeats
    <3>1. CASE OnlyLeaves(kind)
      BY <2>2, <2>3, <2>5, <3>1 DEF ShownBehind
    <3>2. CASE ~ OnlyLeaves(kind)
      <4>1. IsHistory(kind)
        BY <3>2, KindCases
      <4>2. \A j \in DOMAIN seen : seen[j] = j
        BY <2>2, <2>3, <2>5, <4>1 DEF ShownHistory
      <4> QED
        BY <4>2 DEF IsInjective
    <3> QED
      BY <3>1, <3>2
  <2>8. StableListComplete
    <3> SUFFICES ASSUME walk.phase = "done", Rows(kind) = walk.start
                 PROVE  IsInjective(seen) /\ ToSet(seen) = Rows(kind)
      BY <2>2, <2>3 DEF StableListComplete
    <3> DEFINE R == Rows(kind)
    <3>1. IsFiniteSet(R) /\ Cardinality(R) \in Nat
      BY <2>1, RowsAreNumbers, FS_CardinalityType
    <3>2. /\ \A j \in DOMAIN seen : seen[j] \in R /\ Place(kind, seen[j]) = j - 1
          /\ walk.total = Cardinality(R)
          /\ Len(seen) = Min2(Turned, Cardinality(R))
      BY <2>2, <2>3, <2>5 DEF ShownBegins, InPage
    <3>3. walk.total <= Turned
      BY <2>5 DEF DoneTurned
    <3> HIDE DEF R
    <3>4. Len(seen) = Cardinality(R)
      BY <2>6, <3>1, <3>2, <3>3 DEF Min2
    <3>5. IsInjective(seen)
      <4> SUFFICES ASSUME NEW j \in DOMAIN seen, NEW k \in DOMAIN seen, seen[j] = seen[k]
                   PROVE  j = k
        BY DEF IsInjective
      <4>1. j - 1 = k - 1 /\ j \in Nat /\ k \in Nat
        BY <2>4, <3>2
      <4> QED
        BY <4>1
    <3>6. seen \in Injection(1..Len(seen), R)
      <4>1. seen \in [1..Len(seen) -> R]
        BY <2>3, <2>4, <3>2
      <4> QED
        BY <2>4, <3>5, <4>1 DEF Injection, IsInjective
    <3>7. Cardinality(1..Len(seen)) = Len(seen)
      <4>1. 1 \in Int /\ Len(seen) \in Int /\ Len(seen) \in Nat
        BY <2>4
      <4>2. Cardinality(1..Len(seen)) = IF 1 > Len(seen) THEN 0 ELSE Len(seen) - 1 + 1
        BY <4>1, FS_Interval, Zenon
      <4> QED
        BY <4>1, <4>2
    <3>8. seen \in Surjection(1..Len(seen), R)
      BY <3>1, <3>4, <3>6, <3>7, FS_Injection
    <3>9. ToSet(seen) = R
      BY <2>4, <3>2, <3>8 DEF ToSet, Surjection
    <3> QED
      BY <3>5, <3>9 DEF R
  <2>9. HistoryWithoutGap
    <3> SUFFICES ASSUME walk.phase = "done", IsHistory(kind)
                 PROVE  /\ seen = [k \in 1..Len(seen) |-> k]
                        /\ walk.start \subseteq DOMAIN seen
      BY <2>2, <2>3 DEF HistoryWithoutGap, IsHistory
    <3>1. /\ \A j \in DOMAIN seen : seen[j] = j
          /\ walk.start \subseteq 1..walk.total
          /\ walk.total <= Len(seen) \/ Len(seen) = Turned
      BY <2>2, <2>3, <2>5 DEF ShownHistory, InPage
    <3>2. walk.total <= Turned
      BY <2>5 DEF DoneTurned
    <3>3. walk.total <= Len(seen)
      BY <2>4, <2>6, <3>1, <3>2
    <3>4. walk.start \subseteq 1..Len(seen)
      <4>1. 1..walk.total \subseteq 1..Len(seen)
        BY <2>4, <2>6, <3>3
      <4> QED
        BY <3>1, <4>1
    <3>5. seen = [k \in 1..Len(seen) |-> k]
      <4>1. seen = [k \in 1..Len(seen) |-> seen[k]]
        BY <2>4
      <4>2. \A k \in 1..Len(seen) : seen[k] = k
        BY <2>4, <3>1
      <4> QED
        BY <4>1, <4>2, Zenon
    <3> QED
      BY <2>4, <3>4, <3>5
  <2> QED
    BY <2>7, <2>8, <2>9 DEF WalkComplete
<1> QED
  BY <1>1, WalkCorrect, PTL

=============================================================================
