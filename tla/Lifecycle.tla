------------------------------ MODULE Lifecycle ------------------------------
(***************************************************************************)
(* The life of an incident and of its dispatch requests in the database:   *)
(* the twelve state-changing commands of services/incident_command.py,     *)
(* incident_decision.py, dispatch_assignment.py, dispatch_command.py,      *)
(* dispatch_progress.py, dispatch_completion.py and incident_close.py.     *)
(*                                                                         *)
(* A command is one step here: it either commits everything it writes or   *)
(* leaves no trace (the handlers commit once, at the end, and roll back on *)
(* every exception).  Module Requests takes the commands apart into the    *)
(* reads, row locks and commit of a transaction.                           *)
(*                                                                         *)
(* A variable is a table.  Abstracted: names, texts, reason codes, audit   *)
(* rows, event ids and the values of timestamps (only whether a timestamp  *)
(* column is set is kept).                                                 *)
(***************************************************************************)
EXTENDS Integers, Sequences, FiniteSets

CONSTANTS
    Incidents,      \* rows of the incidents table, created by the AI pipeline
    Dispatches,     \* primary keys a dispatch request can get
    Controllers,    \* users that hold INCIDENT.CLAIM, INCIDENT.DECIDE, ...
    Managers,       \* those with role CONTROL_MANAGER or SYSTEM_ADMIN
    Responders,     \* users that have a responder profile
    Dispatchable,   \* those with an ACTIVE account, the RESPONDER role and
                    \* is_dispatch_enabled
    NoUser,         \* NULL in a column that references a user
    NoDispatch,     \* NULL in a column that references a dispatch request
    MaxDecisions    \* bound: decisions recorded for one incident

ASSUME UsersAssumption ==
    /\ Managers \subseteq Controllers
    /\ Dispatchable \subseteq Responders
    /\ NoUser \notin Controllers

ASSUME DispatchesAssumption == NoDispatch \notin Dispatches

ASSUME BoundAssumption == MaxDecisions \in Nat

VARIABLES
    incidents,            \* [Incidents -> IncidentRow]
    incident_claims,      \* set of ClaimRow
    incident_decisions,   \* [Incidents -> Seq(DecisionRow)], in order of id
    dispatch_requests,    \* [Dispatches -> DispatchRow, or Unused]
    field_action_reports, \* dispatch requests that have a report
    duty_status,          \* [Responders -> DutyStatuses]
    incident_histories,   \* [Incidents -> Seq(<<from, to>>)]
    dispatch_histories,   \* [Dispatches -> Seq(<<from, to>>)]
    event_outbox          \* set of EventRow

vars == <<incidents, incident_claims, incident_decisions, dispatch_requests,
          field_action_reports, duty_status, incident_histories,
          dispatch_histories, event_outbox>>

-----------------------------------------------------------------------------
(* Values.                                                                 *)

IncidentStatuses ==
    {"NEW", "ACKNOWLEDGED", "CLAIMED", "UNDER_REVIEW", "FALSE_POSITIVE",
     "DISPATCH_REQUESTED", "DISPATCHED", "ON_SCENE", "ACTION_IN_PROGRESS",
     "ACTION_COMPLETED", "CLOSED"}

DispatchStatuses ==
    {"REQUESTED", "ACCEPTED", "REJECTED", "DEPARTED", "EN_ROUTE", "ARRIVED",
     "ACTION_IN_PROGRESS", "ACTION_COMPLETED", "CANCELLED"}

\* Mutant: the active keys of a request are set when it is accepted.
InactiveUntilAccepted ==
    {"REQUESTED", "REJECTED", "CANCELLED", "ACTION_COMPLETED"}

\* The statuses for which active_incident_id and active_responder_id are NULL.
InactiveStatuses == {"REJECTED", "CANCELLED", "ACTION_COMPLETED"}

DutyStatuses == {"AVAILABLE", "BUSY", "OFF_DUTY", "UNAVAILABLE"}

\* The seeded rows of incident_state_transitions.
IncidentTransitions ==
    {<<"NEW", "ACKNOWLEDGED", "CONTROLLER">>,
     <<"ACKNOWLEDGED", "CLAIMED", "CONTROLLER">>,
     <<"CLAIMED", "UNDER_REVIEW", "CONTROLLER">>,
     <<"UNDER_REVIEW", "FALSE_POSITIVE", "CONTROLLER">>,
     <<"UNDER_REVIEW", "CLOSED", "CONTROLLER">>,
     <<"UNDER_REVIEW", "DISPATCH_REQUESTED", "CONTROLLER">>,
     <<"DISPATCH_REQUESTED", "DISPATCHED", "SYSTEM">>,
     <<"DISPATCHED", "ON_SCENE", "SYSTEM">>,
     <<"ON_SCENE", "ACTION_IN_PROGRESS", "SYSTEM">>,
     <<"ACTION_IN_PROGRESS", "ACTION_COMPLETED", "SYSTEM">>,
     <<"ACTION_COMPLETED", "CLOSED", "CONTROLLER">>}

\* The seeded rows of dispatch_state_transitions.
DispatchTransitions ==
    {<<"REQUESTED", "ACCEPTED", "RESPONDER">>,
     <<"REQUESTED", "REJECTED", "RESPONDER">>,
     <<"REQUESTED", "CANCELLED", "CONTROLLER">>,
     <<"ACCEPTED", "DEPARTED", "RESPONDER">>,
     <<"DEPARTED", "EN_ROUTE", "RESPONDER">>,
     <<"EN_ROUTE", "ARRIVED", "RESPONDER">>,
     <<"ARRIVED", "ACTION_IN_PROGRESS", "RESPONDER">>,
     <<"ACTION_IN_PROGRESS", "ACTION_COMPLETED", "RESPONDER">>}

\* DECISION_TARGETS: the status each type of decision takes the incident to.
DecisionTargets ==
    [REAL_RISK |-> "DISPATCH_REQUESTED", FALSE_POSITIVE |-> "FALSE_POSITIVE",
     NEEDS_REVIEW |-> "UNDER_REVIEW", NO_DISPATCH |-> "CLOSED"]

DecisionTypes == {"REAL_RISK", "FALSE_POSITIVE", "NEEDS_REVIEW", "NO_DISPATCH"}

\* Mutant: start-action repeats the timestamp column of arrive.
ProgressRestampsArrival ==
    {[dispatch_from |-> "ACCEPTED", dispatch_to |-> "DEPARTED",
      timestamp |-> "departed_at",
      incident_from |-> "DISPATCHED", incident_to |-> "NONE"],
     [dispatch_from |-> "DEPARTED", dispatch_to |-> "EN_ROUTE",
      timestamp |-> "en_route_at",
      incident_from |-> "DISPATCHED", incident_to |-> "NONE"],
     [dispatch_from |-> "EN_ROUTE", dispatch_to |-> "ARRIVED",
      timestamp |-> "arrived_at",
      incident_from |-> "DISPATCHED", incident_to |-> "ON_SCENE"],
     [dispatch_from |-> "ARRIVED", dispatch_to |-> "ACTION_IN_PROGRESS",
      timestamp |-> "arrived_at",
      incident_from |-> "ON_SCENE", incident_to |-> "ACTION_IN_PROGRESS"]}

\* CONFIGS of dispatch_progress.py; "NONE" stands for incident_to = None.
ProgressConfigs ==
    {[dispatch_from |-> "ACCEPTED", dispatch_to |-> "DEPARTED",
      timestamp |-> "departed_at",
      incident_from |-> "DISPATCHED", incident_to |-> "NONE"],
     [dispatch_from |-> "DEPARTED", dispatch_to |-> "EN_ROUTE",
      timestamp |-> "en_route_at",
      incident_from |-> "DISPATCHED", incident_to |-> "NONE"],
     [dispatch_from |-> "EN_ROUTE", dispatch_to |-> "ARRIVED",
      timestamp |-> "arrived_at",
      incident_from |-> "DISPATCHED", incident_to |-> "ON_SCENE"],
     [dispatch_from |-> "ARRIVED", dispatch_to |-> "ACTION_IN_PROGRESS",
      timestamp |-> "action_started_at",
      incident_from |-> "ON_SCENE", incident_to |-> "ACTION_IN_PROGRESS"]}

Timestamps == {"accepted_at", "departed_at", "en_route_at", "arrived_at",
               "action_started_at", "action_completed_at"}

IncidentRow ==
    [status : IncidentStatuses, version : Nat,
     acknowledged_by : Controllers \cup {NoUser},
     controller : Controllers \cup {NoUser}, closed : BOOLEAN]

ClaimRow == [incident : Incidents, controller : Controllers]

\* superseded_by is the position of a later decision, 0 for NULL.
DecisionRow ==
    [type : DecisionTypes, decided_by : Controllers,
     superseded : BOOLEAN, superseded_by : Nat]

\* stamped is the set of timestamp columns that are not NULL.
DispatchRow ==
    [incident : Incidents, attempt : Nat, responder : Responders,
     assigned_by : Controllers, status : DispatchStatuses, version : Nat,
     previous : Dispatches \cup {NoDispatch}, stamped : SUBSET Timestamps]

\* A key that no INSERT has used yet.
Unused == [status |-> "UNUSED"]

EventRow ==
    [aggregate : {"INCIDENT"}, id : Incidents, version : Nat,
     status : IncidentStatuses]
    \cup
    [aggregate : {"DISPATCH"}, id : Dispatches, version : Nat,
     status : DispatchStatuses]

-----------------------------------------------------------------------------
(* Reads and writes shared by the commands.                                *)

Used == {d \in Dispatches : dispatch_requests[d] # Unused}

RequestsOf(i) == {d \in Used : dispatch_requests[d].incident = i}

IsActive(d) == d \in Used /\ dispatch_requests[d].status \notin InactiveStatuses

\* Mutant: ORDER BY attempt_no without DESC.
IsFirst(p, i) ==
    IF RequestsOf(i) = {}
    THEN p = NoDispatch
    ELSE /\ p \in RequestsOf(i)
         /\ \A d \in RequestsOf(i) :
               dispatch_requests[d].attempt >= dispatch_requests[p].attempt

\* p is the row that ORDER BY attempt_no DESC LIMIT 1 returns for incident i.
IsLatest(p, i) ==
    IF RequestsOf(i) = {}
    THEN p = NoDispatch
    ELSE /\ p \in RequestsOf(i)
         /\ \A d \in RequestsOf(i) :
               dispatch_requests[d].attempt <= dispatch_requests[p].attempt

\* Mutant: the version is left alone.
MovedSilently(i, status) == [incidents[i] EXCEPT !.status = status]

\* The incident row after a command: its version always goes up by one.
Moved(i, status) ==
    [incidents[i] EXCEPT !.status = status, !.version = @ + 1]

\* Mutant: a command of the responder leaves the version of the request alone.
AdvancedSilently(d, status, stamps) ==
    [dispatch_requests[d] EXCEPT !.status = status, !.stamped = @ \cup stamps]

\* The dispatch row after a command of its responder.
Advanced(d, status, stamps) ==
    [dispatch_requests[d] EXCEPT !.status = status, !.version = @ + 1,
                                 !.stamped = @ \cup stamps]

\* Mutant: the event is built with the version from before the command.
StaleIncidentEvent(i, row) ==
    [aggregate |-> "INCIDENT", id |-> i, version |-> incidents[i].version,
     status |-> row.status]

IncidentEvent(i, row) ==
    [aggregate |-> "INCIDENT", id |-> i, version |-> row.version,
     status |-> row.status]

DispatchEvent(d, row) ==
    [aggregate |-> "DISPATCH", id |-> d, version |-> row.version,
     status |-> row.status]

Publish(events) == event_outbox' = event_outbox \cup events

\* Mutant: the history row reads its from_status after the status was set.
MoveThenRecord(i, row) ==
    /\ incidents' = [incidents EXCEPT ![i] = row]
    /\ incident_histories' =
          [incident_histories EXCEPT ![i] = Append(@, <<row.status, row.status>>)]

\* The row, one history row and one STATUS_CHANGED event: what each command
\* that moves an incident to another status writes.
MoveIncident(i, row) ==
    /\ incidents' = [incidents EXCEPT ![i] = row]
    /\ incident_histories' =
          [incident_histories EXCEPT ![i] =
              Append(@, <<incidents[i].status, row.status>>)]

\* Mutant: assign and reject leave the incident row alone.
LeaveIncident(i) == UNCHANGED <<incidents, incident_histories>>

\* Only the version of the incident row changes.
TouchIncident(i) ==
    /\ incidents' = [incidents EXCEPT ![i] = Moved(i, @.status)]
    /\ UNCHANGED incident_histories

MoveDispatch(d, row) ==
    /\ dispatch_requests' = [dispatch_requests EXCEPT ![d] = row]
    /\ dispatch_histories' =
          [dispatch_histories EXCEPT ![d] =
              Append(@, <<dispatch_requests[d].status, row.status>>)]

\* Mutant: the query for the transition does not filter on from_status.
CanReach(i, target, scope) ==
    \E from \in IncidentStatuses : <<from, target, scope>> \in IncidentTransitions

CanMoveIncident(i, target, scope) ==
    <<incidents[i].status, target, scope>> \in IncidentTransitions

CanMoveDispatch(d, target) ==
    <<dispatch_requests[d].status, target, "RESPONDER">> \in DispatchTransitions

-----------------------------------------------------------------------------
(* Commands of controllers.  Each names the row version it expects; a      *)
(* request whose expectation is wrong is refused and changes nothing, so   *)
(* the version a committing command expected is the one the row has.       *)

\* incident_command.execute_command, command = "acknowledge".
Acknowledge(u, i) ==
    /\ CanMoveIncident(i, "ACKNOWLEDGED", "CONTROLLER")
    /\ LET row == [Moved(i, "ACKNOWLEDGED") EXCEPT !.acknowledged_by = u]
       IN  MoveIncident(i, row) /\ Publish({IncidentEvent(i, row)})
    /\ UNCHANGED <<incident_claims, incident_decisions, dispatch_requests,
                   field_action_reports, duty_status, dispatch_histories>>

\* Mutant: claim writes the claim row and not current_controller_user_id.
ClaimWithoutController(u, i) ==
    /\ incidents[i].status # "CLAIMED"
    /\ \A c \in incident_claims : c.incident # i
    /\ CanMoveIncident(i, "CLAIMED", "CONTROLLER")
    /\ incident_claims' =
          incident_claims \cup {[incident |-> i, controller |-> u]}
    /\ MoveIncident(i, Moved(i, "CLAIMED"))
    /\ Publish({IncidentEvent(i, Moved(i, "CLAIMED"))})
    /\ UNCHANGED <<incident_decisions, dispatch_requests,
                   field_action_reports, duty_status, dispatch_histories>>

\* incident_command.execute_command, command = "claim".  A released claim
\* would not stand in the way; nothing in the code releases one.
Claim(u, i) ==
    /\ incidents[i].status # "CLAIMED"
    /\ \A c \in incident_claims : c.incident # i
    /\ CanMoveIncident(i, "CLAIMED", "CONTROLLER")
    /\ incident_claims' =
          incident_claims \cup {[incident |-> i, controller |-> u]}
    /\ LET row == [Moved(i, "CLAIMED") EXCEPT !.controller = u]
       IN  MoveIncident(i, row) /\ Publish({IncidentEvent(i, row)})
    /\ UNCHANGED <<incident_decisions, dispatch_requests,
                   field_action_reports, duty_status, dispatch_histories>>

\* incident_command.execute_command, command = "review".
Review(u, i) ==
    /\ CanMoveIncident(i, "UNDER_REVIEW", "CONTROLLER")
    /\ incidents[i].controller = u
    /\ LET row == Moved(i, "UNDER_REVIEW")
       IN  MoveIncident(i, row) /\ Publish({IncidentEvent(i, row)})
    /\ UNCHANGED <<incident_claims, incident_decisions, dispatch_requests,
                   field_action_reports, duty_status, dispatch_histories>>

ActiveDecisions(i) ==
    {k \in DOMAIN incident_decisions[i] : ~ incident_decisions[i][k].superseded}

\* Mutant: the superseded decision is not linked to its successor.
WithUnlinkedDecision(i, t, u, active) ==
    LET old == incident_decisions[i]
        new == [type |-> t, decided_by |-> u,
                superseded |-> FALSE, superseded_by |-> 0]
    IN  Append([k \in DOMAIN old |->
                   [old[k] EXCEPT !.superseded = @ \/ k = active]], new)

\* The decisions of i once u records one of type t; active is the position of
\* the decision it supersedes, 0 if there is none.
WithDecision(i, t, u, active) ==
    LET old == incident_decisions[i]
        new == [type |-> t, decided_by |-> u,
                superseded |-> FALSE, superseded_by |-> 0]
    IN  Append([k \in DOMAIN old |->
                   IF k = active
                   THEN [old[k] EXCEPT !.superseded = TRUE,
                                       !.superseded_by = Len(old) + 1]
                   ELSE old[k]],
               new)

\* Mutant: only a false positive sets closed_at.
DecidedLeftOpen(i, t) ==
    [Moved(i, DecisionTargets[t]) EXCEPT !.closed = @ \/ t = "FALSE_POSITIVE"]

\* The incident row once a decision of type t is taken.
Decided(i, t) ==
    [Moved(i, DecisionTargets[t]) EXCEPT
        !.closed = @ \/ t \in {"FALSE_POSITIVE", "NO_DISPATCH"}]

\* incident_decision.decide_incident.  NEEDS_REVIEW leaves the status alone
\* and writes no history row; its event is INCIDENT.DECISION_RECORDED.
Decide(u, i, t) ==
    /\ Len(incident_decisions[i]) < MaxDecisions
    /\ incidents[i].status = "UNDER_REVIEW"
    /\ incidents[i].controller = u
    /\ t # "NEEDS_REVIEW" => CanMoveIncident(i, DecisionTargets[t], "CONTROLLER")
    /\ \E active \in ActiveDecisions(i) \cup {0} :
          /\ active = 0 <=> ActiveDecisions(i) = {}
          /\ ActiveDecisions(i) \subseteq {active}  \* uk_incident_decisions_active
          /\ incident_decisions' =
                [incident_decisions EXCEPT ![i] = WithDecision(i, t, u, active)]
    /\ LET row == Decided(i, t)
       IN  /\ IF t = "NEEDS_REVIEW" THEN TouchIncident(i) ELSE MoveIncident(i, row)
           /\ Publish({IncidentEvent(i, row)})
    /\ UNCHANGED <<incident_claims, dispatch_requests, field_action_reports,
                   duty_status, dispatch_histories>>

\* dispatch_assignment.assign_dispatch.
Assign(u, i, r) ==
    /\ incidents[i].status = "DISPATCH_REQUESTED"
    /\ incidents[i].controller = u
    /\ r \in Dispatchable
    /\ duty_status[r] = "AVAILABLE"
    /\ \A d \in Used : IsActive(d) =>
          dispatch_requests[d].incident # i /\ dispatch_requests[d].responder # r
    /\ \E d \in Dispatches \ Used, p \in Dispatches \cup {NoDispatch} :
          /\ IsLatest(p, i)
          /\ LET row == [incident |-> i, responder |-> r, assigned_by |-> u,
                         attempt |-> IF p = NoDispatch THEN 1
                                     ELSE dispatch_requests[p].attempt + 1,
                         status |-> "REQUESTED", version |-> 0,
                         previous |-> p, stamped |-> {}]
             IN  MoveDispatch(d, row) /\ Publish({DispatchEvent(d, row)})
    /\ duty_status' = [duty_status EXCEPT ![r] = "BUSY"]
    /\ TouchIncident(i)
    /\ UNCHANGED <<incident_claims, incident_decisions, field_action_reports>>

\* incident_close.execute.
Close(u, i) ==
    /\ incidents[i].controller = u \/ u \in Managers
    /\ incidents[i].status = "ACTION_COMPLETED"
    /\ ~ incidents[i].closed
    /\ CanMoveIncident(i, "CLOSED", "CONTROLLER")
    /\ \E d \in RequestsOf(i) :
          /\ IsLatest(d, i)
          /\ dispatch_requests[d].status = "ACTION_COMPLETED"
          /\ "action_completed_at" \in dispatch_requests[d].stamped
          /\ d \in field_action_reports
    /\ LET row == [Moved(i, "CLOSED") EXCEPT !.closed = TRUE]
       IN  MoveIncident(i, row) /\ Publish({IncidentEvent(i, row)})
    /\ UNCHANGED <<incident_claims, incident_decisions, dispatch_requests,
                   field_action_reports, duty_status, dispatch_histories>>

-----------------------------------------------------------------------------
(* Commands of the responder r a dispatch request d was sent to.           *)

IsOwn(r, d) == d \in Used /\ dispatch_requests[d].responder = r

\* dispatch_command.execute, command = "accept".
Accept(r, d) ==
    /\ IsOwn(r, d)
    /\ dispatch_requests[d].status = "REQUESTED"
    /\ CanMoveDispatch(d, "ACCEPTED")
    /\ LET i    == dispatch_requests[d].incident
           row  == Advanced(d, "ACCEPTED", {"accepted_at"})
           irow == Moved(i, "DISPATCHED")
       IN  /\ incidents[i].status = "DISPATCH_REQUESTED"
           /\ CanMoveIncident(i, "DISPATCHED", "SYSTEM")
           /\ MoveDispatch(d, row)
           /\ MoveIncident(i, irow)
           /\ Publish({DispatchEvent(d, row), IncidentEvent(i, irow)})
    /\ UNCHANGED <<incident_claims, incident_decisions, field_action_reports,
                   duty_status>>

\* Mutant: reject does not give the responder back.
RejectKeepsBusy(r, d) ==
    /\ IsOwn(r, d)
    /\ dispatch_requests[d].status = "REQUESTED"
    /\ CanMoveDispatch(d, "REJECTED")
    /\ LET row == Advanced(d, "REJECTED", {})
       IN  MoveDispatch(d, row) /\ Publish({DispatchEvent(d, row)})
    /\ TouchIncident(dispatch_requests[d].incident)
    /\ UNCHANGED <<incident_claims, incident_decisions, field_action_reports,
                   duty_status>>

\* Mutant: reject checks neither the status of the request nor the transition.
RejectAnyTime(r, d) ==
    /\ IsOwn(r, d)
    /\ IsActive(d)
    /\ LET row == Advanced(d, "REJECTED", {})
       IN  MoveDispatch(d, row) /\ Publish({DispatchEvent(d, row)})
    /\ TouchIncident(dispatch_requests[d].incident)
    /\ duty_status' = [duty_status EXCEPT ![r] = "AVAILABLE"]
    /\ UNCHANGED <<incident_claims, incident_decisions, field_action_reports>>

\* dispatch_command.execute, command = "reject".  The status of the incident
\* is not looked at.
Reject(r, d) ==
    /\ IsOwn(r, d)
    /\ dispatch_requests[d].status = "REQUESTED"
    /\ CanMoveDispatch(d, "REJECTED")
    /\ LET row == Advanced(d, "REJECTED", {})
       IN  MoveDispatch(d, row) /\ Publish({DispatchEvent(d, row)})
    /\ TouchIncident(dispatch_requests[d].incident)
    /\ duty_status' = [duty_status EXCEPT ![r] = "AVAILABLE"]
    /\ UNCHANGED <<incident_claims, incident_decisions, field_action_reports>>

\* dispatch_progress.execute for the command with configuration c: depart,
\* en-route, arrive or start-action.
Progress(r, d, c) ==
    /\ IsOwn(r, d)
    /\ dispatch_requests[d].status = c.dispatch_from
    /\ CanMoveDispatch(d, c.dispatch_to)
    /\ LET i   == dispatch_requests[d].incident
           row == Advanced(d, c.dispatch_to, {c.timestamp})
       IN  /\ incidents[i].status = c.incident_from
           /\ MoveDispatch(d, row)
           /\ IF c.incident_to = "NONE"
              THEN /\ Publish({DispatchEvent(d, row)})
                   /\ UNCHANGED <<incidents, incident_histories>>
              ELSE LET irow == Moved(i, c.incident_to)
                   IN  /\ CanMoveIncident(i, c.incident_to, "SYSTEM")
                       /\ MoveIncident(i, irow)
                       /\ Publish({DispatchEvent(d, row), IncidentEvent(i, irow)})
    /\ UNCHANGED <<incident_claims, incident_decisions, field_action_reports,
                   duty_status>>

\* dispatch_completion.execute: the report, both rows and the duty status.
Complete(r, d) ==
    /\ IsOwn(r, d)
    /\ dispatch_requests[d].status = "ACTION_IN_PROGRESS"
    /\ "action_started_at" \in dispatch_requests[d].stamped
    /\ duty_status[r] = "BUSY"
    /\ CanMoveDispatch(d, "ACTION_COMPLETED")
    /\ d \notin field_action_reports
    /\ field_action_reports' = field_action_reports \cup {d}
    /\ LET i    == dispatch_requests[d].incident
           row  == Advanced(d, "ACTION_COMPLETED", {"action_completed_at"})
           irow == Moved(i, "ACTION_COMPLETED")
       IN  /\ incidents[i].status = "ACTION_IN_PROGRESS"
           /\ CanMoveIncident(i, "ACTION_COMPLETED", "SYSTEM")
           /\ MoveDispatch(d, row)
           /\ MoveIncident(i, irow)
           /\ Publish({DispatchEvent(d, row), IncidentEvent(i, irow)})
    /\ duty_status' = [duty_status EXCEPT ![r] = "AVAILABLE"]
    /\ UNCHANGED <<incident_claims, incident_decisions>>

-----------------------------------------------------------------------------

\* Incidents arrive NEW; responders are whatever their profile says, but none
\* is BUSY before a first assignment.
Init ==
    /\ incidents = [i \in Incidents |->
          [status |-> "NEW", version |-> 0, acknowledged_by |-> NoUser,
           controller |-> NoUser, closed |-> FALSE]]
    /\ incident_claims = {}
    /\ incident_decisions = [i \in Incidents |-> <<>>]
    /\ dispatch_requests = [d \in Dispatches |-> Unused]
    /\ field_action_reports = {}
    /\ duty_status \in [Responders -> DutyStatuses \ {"BUSY"}]
    /\ incident_histories = [i \in Incidents |-> <<>>]
    /\ dispatch_histories = [d \in Dispatches |-> <<>>]
    /\ event_outbox = {}

ControllerStep(u, i) ==
    \/ Acknowledge(u, i)
    \/ Claim(u, i)
    \/ Review(u, i)
    \/ \E t \in DecisionTypes : Decide(u, i, t)
    \/ \E r \in Responders : Assign(u, i, r)
    \/ Close(u, i)

ResponderStep(r, d) ==
    \/ Accept(r, d)
    \/ Reject(r, d)
    \/ \E c \in ProgressConfigs : Progress(r, d, c)
    \/ Complete(r, d)

Next ==
    \/ \E u \in Controllers, i \in Incidents : ControllerStep(u, i)
    \/ \E r \in Responders, d \in Dispatches : ResponderStep(r, d)

Spec == Init /\ [][Next]_vars

-----------------------------------------------------------------------------
(* Properties.                                                             *)

TypeOK ==
    /\ incidents \in [Incidents -> IncidentRow]
    /\ incident_claims \subseteq ClaimRow
    /\ incident_decisions \in [Incidents -> Seq(DecisionRow)]
    /\ dispatch_requests \in [Dispatches -> DispatchRow \cup {Unused}]
    /\ field_action_reports \subseteq Used
    /\ duty_status \in [Responders -> DutyStatuses]
    /\ incident_histories \in
          [Incidents -> Seq(IncidentStatuses \X IncidentStatuses)]
    /\ dispatch_histories \in
          [Dispatches -> Seq((DispatchStatuses \cup {"UNUSED"}) \X DispatchStatuses)]
    /\ event_outbox \subseteq EventRow

\* The status of a request and the statuses its incident can have meanwhile.
MatchingStatuses ==
    {<<"REQUESTED", "DISPATCH_REQUESTED">>,
     <<"ACCEPTED", "DISPATCHED">>,
     <<"DEPARTED", "DISPATCHED">>,
     <<"EN_ROUTE", "DISPATCHED">>,
     <<"ARRIVED", "ON_SCENE">>,
     <<"ACTION_IN_PROGRESS", "ACTION_IN_PROGRESS">>,
     <<"ACTION_COMPLETED", "ACTION_COMPLETED">>,
     <<"ACTION_COMPLETED", "CLOSED">>,
     <<"REJECTED", "DISPATCH_REQUESTED">>,
     <<"REJECTED", "DISPATCHED">>,
     <<"REJECTED", "ON_SCENE">>,
     <<"REJECTED", "ACTION_IN_PROGRESS">>,
     <<"REJECTED", "ACTION_COMPLETED">>,
     <<"REJECTED", "CLOSED">>}

HasLiveRequest(i) ==
    \E d \in RequestsOf(i) : dispatch_requests[d].status # "REJECTED"

\* Two tables, twelve commands, one story: the status of every dispatch
\* request fits the status of its incident, and an incident whose status
\* says that somebody is or was on the way has a request that was not
\* rejected.
IncidentMatchesDispatch ==
    /\ \A d \in Used :
          LET row == dispatch_requests[d]
          IN  <<row.status, incidents[row.incident].status>> \in MatchingStatuses
    /\ \A i \in Incidents :
          incidents[i].status \in {"DISPATCHED", "ON_SCENE",
                                  "ACTION_IN_PROGRESS", "ACTION_COMPLETED"}
             => HasLiveRequest(i)

\* An incident never has two requests that were not rejected, and a responder
\* never two active ones: the duty status read by assign stands in for the
\* unique indexes on active_incident_id and active_responder_id.
NoDoubleBooking ==
    \A d, e \in Used :
      LET dr == dispatch_requests[d]
          er == dispatch_requests[e]
      IN  d # e =>
            /\ dr.incident = er.incident =>
                  dr.status = "REJECTED" \/ er.status = "REJECTED"
            /\ dr.responder = er.responder => ~ (IsActive(d) /\ IsActive(e))

\* A responder is BUSY exactly while one of its requests is active: assign
\* takes the responder, reject and complete-action give it back.
BusyWhileActive ==
    \A r \in Responders :
      duty_status[r] = "BUSY" <=>
        \E d \in Used : IsActive(d) /\ dispatch_requests[d].responder = r

AttemptsOf(i) == {dispatch_requests[d].attempt : d \in RequestsOf(i)}

PointsBack(i, d) ==
    LET p == dispatch_requests[d].previous
    IN  IF dispatch_requests[d].attempt = 1
        THEN p = NoDispatch
        ELSE /\ p \in RequestsOf(i)
             /\ dispatch_requests[d].attempt = dispatch_requests[p].attempt + 1

\* The requests of an incident are attempts 1, 2, ... n; each points to the
\* one before it, and only the last can be anything but REJECTED.
AttemptChain ==
    \A i \in Incidents :
      LET n == Cardinality(RequestsOf(i))
      IN  /\ AttemptsOf(i) = 1..n
          /\ \A d \in RequestsOf(i) :
                /\ PointsBack(i, d)
                /\ dispatch_requests[d].attempt < n
                      => dispatch_requests[d].status = "REJECTED"

LastDecision(i) == incident_decisions[i][Len(incident_decisions[i])]

ClosedByDecision(i, type) == LastDecision(i).type = type /\ RequestsOf(i) = {}

ClosedByReport(i) ==
    /\ LastDecision(i).type = "REAL_RISK"
    /\ \E d \in RequestsOf(i) : IsLatest(d, i) /\ d \in field_action_reports

\* An incident ends for a reason that is on record.  closed_at is set exactly
\* in the two final statuses; an incident that was dispatched is closed only
\* after its last request was completed with a report, and one that was not
\* only by the decision that says so.
ClosureJustified ==
    /\ \A i \in Incidents :
          LET s == incidents[i].status
          IN  /\ incidents[i].closed <=> s \in {"CLOSED", "FALSE_POSITIVE"}
              /\ s = "FALSE_POSITIVE" => ClosedByDecision(i, "FALSE_POSITIVE")
              /\ s = "CLOSED" =>
                    ClosedByDecision(i, "NO_DISPATCH") \/ ClosedByReport(i)
    /\ \A d \in Used :
          d \in field_action_reports <=> dispatch_requests[d].status = "ACTION_COMPLETED"

ClaimsOf(i) == {c \in incident_claims : c.incident = i}

\* One controller owns an incident from its claim on: the claim row, the
\* current_controller_user_id column, every decision and every assignment
\* name the same user, and nobody decided or assigned before a claim.
OwnershipAgrees ==
    \A i \in Incidents :
      LET owner  == incidents[i].controller
          early  == incidents[i].status \in {"NEW", "ACKNOWLEDGED"}
      IN  /\ ClaimsOf(i) = IF early THEN {} ELSE {[incident |-> i, controller |-> owner]}
          /\ early <=> owner = NoUser
          /\ \A k \in DOMAIN incident_decisions[i] :
                incident_decisions[i][k].decided_by = owner
          /\ \A d \in RequestsOf(i) : dispatch_requests[d].assigned_by = owner

IsDecisionChain(D) ==
    \A k \in DOMAIN D :
      IF k = Len(D)
      THEN ~ D[k].superseded /\ D[k].superseded_by = 0
      ELSE /\ D[k].superseded /\ D[k].superseded_by = k + 1
           /\ D[k].type = "NEEDS_REVIEW"

\* Recording a decision supersedes the one before, so the last row and no
\* other is active, the links lead from each decision to the next, and only
\* the last one can have moved the incident out of UNDER_REVIEW.
DecisionChain ==
    \A i \in Incidents :
      /\ IsDecisionChain(incident_decisions[i])
      /\ (incident_decisions[i] = <<>> \/ LastDecision(i).type = "NEEDS_REVIEW") <=>
            incidents[i].status \in {"NEW", "ACKNOWLEDGED", "CLAIMED", "UNDER_REVIEW"}

\* h leads from status a to status b along the rows of a transition table.
IsPath(h, a, b, edges) ==
    /\ \A k \in DOMAIN h :
          /\ h[k] \in edges
          /\ h[k][1] = IF k = 1 THEN a ELSE h[k - 1][2]
    /\ b = IF h = <<>> THEN a ELSE h[Len(h)][2]

Edges(transitions) == {<<t[1], t[2]>> : t \in transitions}

\* The history tables can be replayed: the rows of an incident lead from NEW
\* to its status, those of a request from its insertion to its status, and
\* each step is a seeded transition, whether or not the command checked it.
HistoryIsPath ==
    /\ \A i \in Incidents :
          IsPath(incident_histories[i], "NEW", incidents[i].status,
                 Edges(IncidentTransitions))
    /\ \A d \in Dispatches :
          IsPath(dispatch_histories[d], "UNUSED", dispatch_requests[d].status,
                 Edges(DispatchTransitions) \cup {<<"UNUSED", "REQUESTED">>})

EventsOf(aggregate, id) ==
    {e \in event_outbox : e.aggregate = aggregate /\ e.id = id}

RejectedOf(i) == {d \in RequestsOf(i) : dispatch_requests[d].status = "REJECTED"}

RequestAccounted(d) ==
    LET E == EventsOf("DISPATCH", d)
        v == dispatch_requests[d].version
    IN  /\ {e.version : e \in E} = 0..v
        /\ Cardinality(E) = v + 1
        /\ \A e \in E : e.version = v => e.status = dispatch_requests[d].status

IncidentAccounted(i) ==
    LET E == EventsOf("INCIDENT", i)
        v == incidents[i].version
    IN  /\ {e.version : e \in E} \subseteq 1..v
        /\ Cardinality(E) + Cardinality(RequestsOf(i)) + Cardinality(RejectedOf(i)) = v
        /\ \A e \in E : (\A f \in E : f.version <= e.version)
                         => e.status = incidents[i].status

\* A consumer of the outbox can order the events of an aggregate by version:
\* a request has exactly one event for each of its versions 0, 1, 2, ...; an
\* incident one for each of its versions except those that assigning or
\* rejecting a request took; and the newest event shows the current status.
OutboxAccountsForVersions ==
    /\ \A d \in Used : RequestAccounted(d)
    /\ \A i \in Incidents : IncidentAccounted(i)

FinalStatuses == {"CLOSED", "FALSE_POSITIVE"}

\* Nothing is left that no command can finish.  An active request always has
\* a command its responder can issue, whatever the other table says; an
\* incident that is not final has one its controller can issue, or an active
\* request, or waits for a responder (or has used up a bound of the model).
NeverStranded ==
    /\ \A d \in Used : IsActive(d) =>
          \E r \in Responders : ENABLED ResponderStep(r, d)
    /\ \A i \in Incidents : incidents[i].status \notin FinalStatuses =>
          \/ \E u \in Controllers : ENABLED ControllerStep(u, i)
          \/ \E d \in RequestsOf(i) : IsActive(d)
          \/ /\ incidents[i].status = "DISPATCH_REQUESTED"
             /\ \/ \A r \in Dispatchable : duty_status[r] # "AVAILABLE"
                \/ Used = Dispatches
          \/ /\ incidents[i].status = "UNDER_REVIEW"
             /\ Len(incident_decisions[i]) = MaxDecisions

\* What a client knows of an incident is stale as soon as its version moved:
\* no step changes the row, its claim, its decisions or the set of its
\* requests without raising the version by one, none changes a request
\* without raising that request's version by one, and one step is about one
\* incident only.
RowChanged(i) ==
    \/ incidents'[i] # incidents[i]
    \/ incident_decisions'[i] # incident_decisions[i]
    \/ ClaimsOf(i)' # ClaimsOf(i)
    \/ RequestsOf(i)' # RequestsOf(i)

VersionGuardsRow ==
    [][/\ \A i \in Incidents :
            RowChanged(i) => incidents'[i].version = incidents[i].version + 1
       /\ \A d \in Used :
            dispatch_requests'[d] # dispatch_requests[d] =>
               dispatch_requests'[d].version = dispatch_requests[d].version + 1
       /\ \A i, j \in Incidents : RowChanged(i) /\ RowChanged(j) => i = j]_vars

\* A closed or dismissed incident is final, and so are its decisions, its
\* requests and their reports.
FinalIsFinal ==
    [][\A i \in Incidents : incidents[i].status \in FinalStatuses =>
         /\ ~ RowChanged(i)
         /\ \A d \in RequestsOf(i) :
               /\ dispatch_requests'[d] = dispatch_requests[d]
               /\ d \in field_action_reports' <=> d \in field_action_reports]_vars

=============================================================================
