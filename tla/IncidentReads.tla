----------------------------- MODULE IncidentReads -----------------------------
(***************************************************************************)
(* GET /incidents/{id}: the detail that incident_query.get_incident puts   *)
(* together while commands commit.  It takes one statement for the row     *)
(* with what is joined to it and one more for each collection that is      *)
(* loaded with selectinload.                                               *)
(*                                                                         *)
(* What a statement sees is the database's doing: at REPEATABLE READ all   *)
(* of them see the state of the first statement of the transaction, which  *)
(* is the one of get_current_user on the same session; at READ COMMITTED   *)
(* each sees what is committed when it runs.  The code sets no level, so   *)
(* a request may run at either (Isolations).                               *)
(*                                                                         *)
(* Abstracted: what no command changes (object, risk, CCTV, evidence,      *)
(* notes) and the names of users.                                          *)
(***************************************************************************)
EXTENDS Lifecycle

CONSTANT Isolations     \* a subset of {"REPEATABLE READ", "READ COMMITTED"}

ASSUME IsolationsAssumption ==
    Isolations \subseteq {"REPEATABLE READ", "READ COMMITTED"}

VARIABLE request        \* the read request in progress, or the last one

readVars == <<vars, request>>

Statements == {"row", "decisions", "dispatches", "histories"}

Nothing == [found |-> FALSE]

Idle == [phase |-> "idle"]

\* What the statements of a request for incident i would return now.
Slice(i) ==
    [row |-> incidents[i],
     decisions |-> incident_decisions[i],
     dispatches |-> [d \in RequestsOf(i) |-> dispatch_requests[d]],
     histories |-> incident_histories[i]]

\* What the next statement of the request is answered from.
Visible ==
    IF request.isolation = "REPEATABLE READ"
    THEN request.snapshot ELSE Slice(request.incident)

-----------------------------------------------------------------------------
(* What get_incident keeps of each statement.                              *)

\* next(... if item.superseded_at is None).
ActiveDecision(decisions) ==
    {[found |-> TRUE, position |-> k, type |-> decisions[k].type] :
        k \in {k \in DOMAIN decisions : ~ decisions[k].superseded}}

\* max(active_dispatches); with two of them the later one by requested_at.
ActiveDispatch(dispatches) ==
    {[found |-> TRUE, dispatch |-> d, status |-> dispatches[d].status] :
        d \in {d \in DOMAIN dispatches :
                  dispatches[d].status \notin
                     {"REJECTED", "CANCELLED", "ACTION_COMPLETED"}}}

OneOf(S) == IF S = {} THEN {Nothing} ELSE S

\* The values the answer can take from statement s over the slice v.
Kept(s, v) ==
    CASE s = "row"        -> {v.row}
      [] s = "decisions"  -> OneOf(ActiveDecision(v.decisions))
      [] s = "dispatches" -> OneOf(ActiveDispatch(v.dispatches))
      [] s = "histories"  ->
            {\E k \in DOMAIN v.histories : v.histories[k][2] = "UNDER_REVIEW"}

\* Mutant: the collections are fetched first and the row last.
RowLast(s) == s = "row" => request.todo = {"row"}

\* selectinload needs the row before it can ask for its collections.
IsReady(s) == s = "row" \/ "row" \notin request.todo

-----------------------------------------------------------------------------

\* Mutant: the connection is in autocommit, every statement has a transaction.
BeginAutocommit(i, isolation) ==
    /\ request.phase \in {"idle", "answered"}
    /\ request' = [phase |-> "reading", incident |-> i,
                   isolation |-> "READ COMMITTED",
                   story |-> isolation = "REPEATABLE READ",
                   snapshot |-> Nothing, todo |-> Statements,
                   shown |-> [s \in Statements |-> Nothing]]
    /\ UNCHANGED vars

\* get_current_user reads on the session of the request, and permission is
\* granted.  story is for the properties: is one snapshot promised?
Begin(i, isolation) ==
    /\ request.phase \in {"idle", "answered"}
    /\ request' = [phase |-> "reading", incident |-> i, isolation |-> isolation,
                   story |-> isolation = "REPEATABLE READ",
                   snapshot |-> IF isolation = "REPEATABLE READ"
                                THEN Slice(i) ELSE Nothing,
                   todo |-> Statements,
                   shown |-> [s \in Statements |-> Nothing]]
    /\ UNCHANGED vars

\* One statement of get_incident; the last one completes the answer.
Read(s) ==
    /\ request.phase = "reading"
    /\ s \in request.todo
    /\ IsReady(s)
    /\ \E value \in Kept(s, Visible) :
          LET rest == request.todo \ {s}
          IN  request' =
                [request EXCEPT !.shown[s] = value, !.todo = rest,
                    !.phase = IF rest = {} THEN "answered" ELSE "reading",
                    !.snapshot = IF rest = {} THEN Nothing ELSE @]
    /\ UNCHANGED vars

\* Meanwhile commands commit, before the request, between its statements and
\* while the client looks at the answer.
Command == Next /\ UNCHANGED request

ReadInit == Init /\ request = Idle

ReadNext ==
    \/ Command
    \/ \E i \in Incidents, isolation \in Isolations : Begin(i, isolation)
    \/ \E s \in Statements : Read(s)

ReadSpec == ReadInit /\ [][ReadNext]_readVars

-----------------------------------------------------------------------------
(* Properties.                                                             *)

\* The answer on the screen of a client, once complete.
Shown == request.shown
IsShown == request.phase = "answered"

\* The version shown is what a client sends as expected_version_no, so it
\* must vouch for everything shown beside it: as long as the incident has
\* that version, its row, the decision in force and the request in force are
\* those on the screen, also when a statement ran after a later commit.  Of
\* the request only its identity, since depart and en-route do not raise the
\* version of the incident.
ShownStateStillCurrent ==
    IsShown =>
      LET now == Slice(request.incident)
      IN  now.row.version = Shown["row"].version =>
            /\ now.row = Shown["row"]
            /\ Shown["decisions"] \in Kept("decisions", now)
            /\ Shown["histories"] \in Kept("histories", now)
            /\ Shown["dispatches"].found <=> ActiveDispatch(now.dispatches) # {}
            /\ Shown["dispatches"].found =>
                  \E x \in ActiveDispatch(now.dispatches) :
                     x.dispatch = Shown["dispatches"].dispatch

\* A request that fits the status and is there when the status says so, a
\* decision other than NEEDS_REVIEW exactly once the incident has left the
\* review, and review_started_at exactly once it has reached it.
IsOneStory(status, decision, dispatch, reviewed) ==
    /\ dispatch.found => <<dispatch.status, status>> \in MatchingStatuses
    /\ status \in {"DISPATCHED", "ON_SCENE", "ACTION_IN_PROGRESS"} => dispatch.found
    /\ status \in {"NEW", "ACKNOWLEDGED", "CLAIMED", "UNDER_REVIEW"} <=>
          (decision.found => decision.type = "NEEDS_REVIEW")
    /\ reviewed <=> status \notin {"NEW", "ACKNOWLEDGED", "CLAIMED"}

\* At REPEATABLE READ the four statements of a detail tell one story, however
\* many commands commit between them.
DetailTellsOneStory ==
    IsShown /\ request.story =>
      IsOneStory(Shown["row"].status, Shown["decisions"], Shown["dispatches"],
                 Shown["histories"])

=============================================================================
