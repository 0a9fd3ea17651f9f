------------------------------- MODULE ListReads -------------------------------
(***************************************************************************)
(* A client turns the pages of a list while commands commit: the incidents *)
(* of incident_query.list_incidents, all of them or those that nobody or   *)
(* the client itself has claimed, and the rows of                          *)
(* incident_query.histories, oldest first.                                 *)
(*                                                                         *)
(* A page is a request of its own, and two statements: one counts, one     *)
(* fetches.  As in IncidentReads they see one state at REPEATABLE READ and *)
(* the latest one each at READ COMMITTED.  The client asks for page 1, 2,  *)
(* ... until it has the number of pages the last answer gave.              *)
(*                                                                         *)
(* Incidents are their own ids here.  A rank stands for the columns the    *)
(* incidents are sorted by in the orders priority,desc, first_detected_at, *)
(* desc, last_detected_at,desc and risk_score,desc, which no command       *)
(* writes; equal ranks are left to the tie-break.  The order status,asc is *)
(* not modelled: commands write its column, so that rows move under the    *)
(* client.                                                                 *)
(***************************************************************************)
EXTENDS Lifecycle, SequencesExt

CONSTANTS
    Isolations,     \* a subset of {"REPEATABLE READ", "READ COMMITTED"}
    Sizes,          \* page sizes a client asks for
    Ranks           \* values of the sort column

ASSUME IncidentIdsAssumption == Incidents \subseteq Nat /\ IsFiniteSet(Incidents)

ASSUME ListsAssumption ==
    /\ Isolations \subseteq {"REPEATABLE READ", "READ COMMITTED"}
    /\ Sizes \subseteq Nat \ {0} \* Query(20, ge=1, le=100)
    /\ Ranks \subseteq Nat

VARIABLES
    rank,           \* [Incidents -> Ranks]
    walk            \* the pages of the client so far

listVars == <<vars, rank, walk>>

\* The lists: of which rows, narrowed how.
Kinds == {[list |-> "incidents", filter |-> "none", of |-> NoUser],
          [list |-> "incidents", filter |-> "unclaimed_only", of |-> NoUser]}
         \cup [list : {"incidents"}, filter : {"mine_only"}, of : Controllers]
         \cup [list : {"histories"}, filter : {"none"}, of : Incidents]

-----------------------------------------------------------------------------
(* What the statements of a page return.                                   *)

\* The WHERE clause.
Rows(kind) ==
    CASE kind.list = "histories"      -> DOMAIN incident_histories[kind.of]
      [] kind.list = "incidents" /\ kind.filter = "none" -> Incidents
      [] kind.filter = "unclaimed_only" ->
            {i \in Incidents : incidents[i].controller = NoUser}
      [] kind.filter = "mine_only"      ->
            {i \in Incidents : incidents[i].controller = kind.of}

\* Mutant: the ORDER BY ends with the sort column.
AnyOfEqual(kind, x, y) == TRUE

\* The last column of the ORDER BY: incident_id.desc(), history_id.asc().
ComesFirst(kind, x, y) == IF kind.list = "histories" THEN x < y ELSE x > y

\* Row x precedes row y: the sort column, then the tie-break.  History rows
\* are written in the order of their time stamps (see Timeline), so of these
\* the position stands for both.
Precedes(kind, x, y) ==
    LET key(z) == IF kind.list = "histories" THEN z ELSE rank[z]
    IN  key(x) < key(y) \/ (key(x) = key(y) /\ ComesFirst(kind, x, y))

\* The orders in which the database may return the rows.
Orders(kind) ==
    {s \in SetToSeqs(Rows(kind)) :
        \A j, k \in DOMAIN s : j < k => Precedes(kind, s[j], s[k])}

\* Mutant: pages are counted from 0.
OffsetFromZero(page, size) == page * size

Offset(page, size) == (page - 1) * size

\* .offset(...).limit(size)
PageOf(order, page, size) ==
    LET from == Offset(page, size)
        to   == from + size
    IN  SubSeq(order, from + 1, IF to < Len(order) THEN to ELSE Len(order))

\* Mutant: a last page that is not full is not counted.
FullPages(total, size) == total \div size

\* query_common.pagination
TotalPages(total, size) ==
    IF total = 0 THEN 0 ELSE (total + size - 1) \div size

-----------------------------------------------------------------------------

\* What the next statement is answered from; the snapshot of a request was
\* taken when get_current_user read.
Visible ==
    IF walk.isolation = "REPEATABLE READ" THEN walk.snapshot ELSE Orders(walk.kind)

Snapshot(kind, isolation) ==
    IF isolation = "REPEATABLE READ" THEN Orders(kind) ELSE {}

\* The client opens the list.
Open(kind, size, isolation) ==
    /\ walk.phase \in {"idle", "done"}
    /\ walk' = [phase |-> "begun", kind |-> kind, size |-> size,
                isolation |-> isolation, snapshot |-> Snapshot(kind, isolation),
                page |-> 1, total |-> 0, items |-> <<>>, shown |-> <<>>,
                start |-> Rows(kind)]
    /\ UNCHANGED <<vars, rank>>

\* select(func.count()): the same number whatever the order.
Count ==
    /\ walk.phase = "begun"
    /\ \E order \in Visible :
          walk' = [walk EXCEPT !.phase = "counted", !.total = Len(order)]
    /\ UNCHANGED <<vars, rank>>

\* The rows of the page; the answer carries both.
Fetch ==
    /\ walk.phase = "counted"
    /\ \E order \in Visible :
          LET items == PageOf(order, walk.page, walk.size)
          IN  walk' = [walk EXCEPT !.phase = "answered", !.items = items,
                          !.shown = @ \o items, !.snapshot = {}]
    /\ UNCHANGED <<vars, rank>>

\* The client asks for the next page, or has them all.
Turn ==
    /\ walk.phase = "answered"
    /\ IF walk.page < TotalPages(walk.total, walk.size)
       THEN walk' = [walk EXCEPT !.phase = "begun", !.page = @ + 1,
                        !.snapshot = Snapshot(walk.kind, walk.isolation)]
       ELSE walk' = [walk EXCEPT !.phase = "done"]
    /\ UNCHANGED <<vars, rank>>

\* Commands commit between the requests and between their statements.
Command == Next /\ UNCHANGED <<rank, walk>>

ListInit ==
    /\ Init
    /\ rank \in [Incidents -> Ranks]
    /\ walk = [phase |-> "idle"]

ListNext ==
    \/ Command
    \/ \E kind \in Kinds, size \in Sizes, isolation \in Isolations :
          Open(kind, size, isolation)
    \/ Count
    \/ Fetch
    \/ Turn

ListSpec == ListInit /\ [][ListNext]_listVars

-----------------------------------------------------------------------------
(* Properties.                                                             *)

Min2(a, b) == IF a < b THEN a ELSE b

\* At REPEATABLE READ an answer is consistent with itself: the page has as
\* many items as the total leaves for it, none beyond the last page, and
\* there is no page exactly when there is no row (incident_query against
\* query_common.pagination, at a total of 0 and at multiples of the size).
PageFitsCount ==
    walk.phase = "answered" /\ walk.isolation = "REPEATABLE READ" =>
      LET before == (walk.page - 1) * walk.size
          pages  == TotalPages(walk.total, walk.size)
      IN  /\ Len(walk.items) =
                IF walk.total <= before THEN 0 ELSE Min2(walk.size, walk.total - before)
          /\ walk.page <= pages <=> walk.items # <<>>
          /\ pages = 0 <=> walk.total = 0

\* Turning the pages never shows an incident or a history row twice as long
\* as rows can only leave the list or join it at its end: all incidents, the
\* unclaimed ones, the history oldest first, at either isolation.  (In the
\* list of the client's own incidents a claim can move a row to a later page.)
WalkNeverRepeats ==
    walk.phase # "idle" /\ walk.kind.filter # "mine_only" =>
      IsInjective(walk.shown)

\* A client that turned all pages has seen every row exactly once if the set
\* of rows did not change meanwhile, whatever else did: the list of all
\* incidents is complete however many commands commit.
StableListComplete ==
    walk.phase = "done" /\ Rows(walk.kind) = walk.start =>
      /\ IsInjective(walk.shown)
      /\ ToSet(walk.shown) = walk.start

\* The history of an incident may grow under the reader; what it has seen at
\* the end is the history from its beginning without a gap, with all the rows
\* there were when it began (incident_query.histories).
HistoryWithoutGap ==
    walk.phase = "done" /\ walk.kind.list = "histories" =>
      /\ walk.shown = [k \in 1..Len(walk.shown) |-> k]
      /\ walk.start \subseteq DOMAIN walk.shown

\* What a client gets by turning pages with OFFSET while commands commit, where
\* the lists can promise it: nothing twice, nothing left out, no gap.
WalkComplete == WalkNeverRepeats /\ StableListComplete /\ HistoryWithoutGap

=============================================================================
