-------------------------------- MODULE Boards --------------------------------
(***************************************************************************)
(* What the lists and boards show of the tables of Lifecycle, each read by *)
(* one statement and so from one committed state: the summary of           *)
(* incident_query.py, the responder list of responder_query.py, the own    *)
(* dispatch requests of dispatch_query.py and the two views of             *)
(* application_views.sql.  Each of them decides anew which requests are    *)
(* active; the properties say that they come to the same answer.           *)
(*                                                                         *)
(* Reads that take several statements are in IncidentReads and ListReads.  *)
(***************************************************************************)
EXTENDS Lifecycle

\* A table has finitely many rows, and no user has NULL for a key.
ASSUME BoardsAssumption == IsFiniteSet(Incidents) /\ NoUser \notin Responders

-----------------------------------------------------------------------------
(* incident_query.summary: one GROUP BY, summed up by status.              *)

StatusCount(status) == Cardinality({i \in Incidents : incidents[i].status = status})

\* Mutant: an incident on whose scene a responder is falls out of the sum.
CountsWithoutScene ==
    [total_count |-> Cardinality(Incidents),
     new_count |-> StatusCount("NEW"),
     acknowledged_count |-> StatusCount("ACKNOWLEDGED"),
     claimed_count |-> StatusCount("CLAIMED"),
     under_review_count |-> StatusCount("UNDER_REVIEW"),
     dispatch_requested_count |-> StatusCount("DISPATCH_REQUESTED"),
     dispatch_in_progress_count |->
        StatusCount("DISPATCHED") + StatusCount("ACTION_IN_PROGRESS"),
     action_completed_count |-> StatusCount("ACTION_COMPLETED"),
     closed_count |-> StatusCount("CLOSED"),
     false_positive_count |-> StatusCount("FALSE_POSITIVE")]

Summary ==
    [total_count |-> Cardinality(Incidents),
     new_count |-> StatusCount("NEW"),
     acknowledged_count |-> StatusCount("ACKNOWLEDGED"),
     claimed_count |-> StatusCount("CLAIMED"),
     under_review_count |-> StatusCount("UNDER_REVIEW"),
     dispatch_requested_count |-> StatusCount("DISPATCH_REQUESTED"),
     dispatch_in_progress_count |->
        StatusCount("DISPATCHED") + StatusCount("ON_SCENE")
           + StatusCount("ACTION_IN_PROGRESS"),
     action_completed_count |-> StatusCount("ACTION_COMPLETED"),
     closed_count |-> StatusCount("CLOSED"),
     false_positive_count |-> StatusCount("FALSE_POSITIVE")]

-----------------------------------------------------------------------------
(* responder_query.list_responders.                                        *)

\* The EXISTS of active_dispatch, over the generated column active_responder_id.
HasActiveDispatch(r) ==
    \E d \in Used : IsActive(d) /\ dispatch_requests[d].responder = r

\* Mutant: whoever has no active request counts as available.
FreeResponders == {r \in Dispatchable : ~ HasActiveDispatch(r)}

\* The rows with available_only; without it all of Dispatchable are listed.
AvailableResponders ==
    {r \in Dispatchable : duty_status[r] = "AVAILABLE" /\ ~ HasActiveDispatch(r)}

-----------------------------------------------------------------------------
(* dispatch_query.list_mine and dispatch_query.detail.                     *)

\* Mutant: a completed request is not terminal.
TerminalUnlessCompleted == {"REJECTED", "CANCELLED"}

\* TERMINAL_STATUSES of dispatch_query.py.
TerminalStatuses == {"REJECTED", "CANCELLED", "ACTION_COMPLETED"}

\* One item: the request joined with its incident.
Item(d) ==
    LET row == dispatch_requests[d]
    IN  [dispatch |-> d, status |-> row.status, version_no |-> row.version,
         attempt_no |-> row.attempt, incident |-> row.incident,
         incident_status |-> incidents[row.incident].status,
         stamped |-> row.stamped, previous |-> row.previous]

\* The items of responder r with active_only, which is the default.
MineActive(r) ==
    {Item(d) : d \in {e \in Used : /\ dispatch_requests[e].responder = r
                                   /\ dispatch_requests[e].status \notin TerminalStatuses}}

-----------------------------------------------------------------------------
(* The views.                                                              *)

\* Mutant: the condition on the status is missing in the join.
AnyDispatchOf(i) == RequestsOf(i)

\* The rows of dispatch_requests that the dashboard joins to incident i.
JoinedDispatches(i) ==
    {d \in RequestsOf(i) : dispatch_requests[d].status
                              \notin {"REJECTED", "CANCELLED", "ACTION_COMPLETED"}}

\* v_incident_dashboard: a LEFT JOIN, so one row at least for each incident.
DashboardRows(i) ==
    IF JoinedDispatches(i) = {}
    THEN {[incident |-> i, incident_status |-> incidents[i].status,
           dispatch |-> NoDispatch, dispatch_status |-> "NULL", responder |-> NoUser]}
    ELSE {[incident |-> i, incident_status |-> incidents[i].status,
           dispatch |-> d, dispatch_status |-> dispatch_requests[d].status,
           responder |-> dispatch_requests[d].responder] : d \in JoinedDispatches(i)}

\* v_responder_active_dispatches, the rows of responder r.
ActiveRows(r) ==
    {<<d, dispatch_requests[d].status, dispatch_requests[d].incident>> :
        d \in {e \in Used : /\ dispatch_requests[e].responder = r
                            /\ dispatch_requests[e].status
                                  \notin {"REJECTED", "CANCELLED", "ACTION_COMPLETED"}}}

-----------------------------------------------------------------------------
(* Properties.                                                             *)

\* The responders a controller is offered are those assign will take: as long
\* as an incident waits for a responder and a key for the request is left,
\* whoever is listed as available can be assigned and nobody else
\* (list_responders against the checks of assign_dispatch).
AvailableMeansAssignable ==
    \A i \in Incidents :
      /\ incidents[i].status = "DISPATCH_REQUESTED"
      /\ JoinedDispatches(i) = {}
      /\ Used # Dispatches
      => \A r \in Responders :
            r \in AvailableResponders <=> ENABLED Assign(incidents[i].controller, i, r)

\* Every incident is counted under exactly one of the names of the summary,
\* whatever statuses the commands lead it through (incident_query.summary).
SummaryAddsUp ==
    LET s == Summary
    IN  s.total_count =
          s.new_count + s.acknowledged_count + s.claimed_count
            + s.under_review_count + s.dispatch_requested_count
            + s.dispatch_in_progress_count + s.action_completed_count
            + s.closed_count + s.false_positive_count

\* The joins of the dashboard never double an incident, and the request they
\* show fits the status beside it (v_incident_dashboard).
DashboardOneRow ==
    \A i \in Incidents :
      /\ \A x, y \in DashboardRows(i) : x = y
      /\ \A x \in DashboardRows(i) :
            /\ x.dispatch # NoDispatch =>
                  <<x.dispatch_status, x.incident_status>> \in MatchingStatuses
            /\ x.incident_status \in {"DISPATCHED", "ON_SCENE", "ACTION_IN_PROGRESS"}
                  => x.dispatch # NoDispatch

\* Control room and field see the same: the one request a responder finds in
\* its list is the one the dashboard shows with its name, the view of active
\* requests has it too, and the responder list shows it as taken and BUSY
\* exactly then.
FieldSeesBoard ==
    \A r \in Responders :
      LET mine  == MineActive(r)
          board == {x \in UNION {DashboardRows(i) : i \in Incidents} : x.responder = r}
      IN  /\ \A m, n \in mine : m = n
          /\ {<<m.dispatch, m.status, m.incident, m.incident_status>> : m \in mine} =
                {<<x.dispatch, x.dispatch_status, x.incident, x.incident_status>> : x \in board}
          /\ ActiveRows(r) = {<<m.dispatch, m.status, m.incident>> : m \in mine}
          /\ HasActiveDispatch(r) <=> mine # {}
          /\ duty_status[r] = "BUSY" <=> mine # {}

\* All that is shown of one state of the tables is one picture: the numbers of
\* the summary add up, the dashboard has one row for each incident and it fits,
\* and the lists of the field agree with the dashboard of the control room.
BoardsAgree == SummaryAddsUp /\ DashboardOneRow /\ FieldSeesBoard

=============================================================================
