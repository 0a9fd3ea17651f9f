---------------------------- MODULE RecordsProofs ----------------------------
(***************************************************************************)
(* What the tables of Lifecycle put on record, for every value of the      *)
(* constants: who owns an incident, which decisions and attempts led to    *)
(* its status and in which order, which versions and events they left, and *)
(* that a final incident stays as it is.                                   *)
(*                                                                         *)
(* The twelve commands write in three ways, which are stated first.  The   *)
(* proof of each invariant has one case for each of them.                  *)
(***************************************************************************)
EXTENDS LifecycleProofs, FiniteSetTheorems

\* The row of incident i is written, and no other.
WritesRow(i, row) == incidents' = [incidents EXCEPT ![i] = row]

\* The status of incident i goes from s to t and leaves a history row if it is
\* another one.
RecordsMove(i, s, t) ==
    /\ incidents[i].status = s /\ incidents'[i].status = t
    /\ incident_histories' =
          IF s = t THEN incident_histories
          ELSE [incident_histories EXCEPT ![i] = Append(@, <<s, t>>)]

\* What acknowledge, claim, review, a decision and close write.
ControllerWrites(u, i, row) ==
    LET s == incidents[i].status
        t == row.status
    IN  /\ WritesRow(i, row)
        /\ RecordsMove(i, s, t)
        /\ <<s, t, "CONTROLLER">> \in IncidentTransitions \/ (s = t /\ s = "UNDER_REVIEW")
        /\ row.version = incidents[i].version + 1
        /\ row.controller = IF t = "CLAIMED" THEN u ELSE incidents[i].controller
        /\ row.closed <=> incidents[i].closed \/ t \in FinalStatuses
        /\ incident_claims' =
              IF t = "CLAIMED"
              THEN incident_claims \cup {[incident |-> i, controller |-> u]}
              ELSE incident_claims
        /\ event_outbox' =
              event_outbox \cup {[aggregate |-> "INCIDENT", id |-> i,
                                  version |-> row.version, status |-> t]}
        /\ UNCHANGED <<dispatch_requests, dispatch_histories, field_action_reports>>

\* A decision of type ty is added; every other command leaves the decisions.
RecordsDecision(u, i, ty) ==
    /\ incidents[i].status = "UNDER_REVIEW"
    /\ incidents[i].controller = u
    /\ incidents'[i].status = DecisionTargets[ty]
    /\ \E active \in ActiveDecisions(i) \cup {0} :
          /\ active = 0 <=> ActiveDecisions(i) = {}
          /\ ActiveDecisions(i) \subseteq {active}
          /\ incident_decisions' =
                [incident_decisions EXCEPT ![i] = WithDecision(i, ty, u, active)]

\* What assign writes: a request d that follows p, and the version of i.
AssignWrites(u, i, d, p, new, row) ==
    /\ incidents[i].controller = u
    /\ d \in Dispatches \ Used
    /\ IsLatest(p, i)
    /\ new = [incident |-> i, responder |-> new.responder, assigned_by |-> u,
              attempt |-> IF p = NoDispatch THEN 1
                          ELSE dispatch_requests[p].attempt + 1,
              status |-> "REQUESTED", version |-> 0,
              previous |-> p, stamped |-> {}]
    /\ dispatch_requests' = [dispatch_requests EXCEPT ![d] = new]
    /\ dispatch_histories' =
          [dispatch_histories EXCEPT ![d] = Append(@, <<"UNUSED", "REQUESTED">>)]
    /\ WritesRow(i, row)
    /\ RecordsMove(i, "DISPATCH_REQUESTED", "DISPATCH_REQUESTED")
    /\ row = [incidents[i] EXCEPT !.version = @ + 1]
    /\ event_outbox' =
          event_outbox \cup {[aggregate |-> "DISPATCH", id |-> d, version |-> 0,
                              status |-> "REQUESTED"]}
    /\ UNCHANGED <<incident_claims, incident_decisions, field_action_reports>>

\* What a command of a responder writes: the request d, its report, and what
\* the command means for the incident i.
ResponderWrites(d, new, i, row) ==
    LET old == dispatch_requests[d]
        s == incidents[i].status
        t == row.status
    IN  /\ d \in Used /\ i = old.incident
        /\ <<old.status, new.status, "RESPONDER">> \in DispatchTransitions
        /\ new.incident = i /\ new.attempt = old.attempt
        /\ new.previous = old.previous /\ new.assigned_by = old.assigned_by
        /\ new.version = old.version + 1
        /\ dispatch_requests' = [dispatch_requests EXCEPT ![d] = new]
        /\ dispatch_histories' =
              [dispatch_histories EXCEPT ![d] = Append(@, <<old.status, new.status>>)]
        /\ field_action_reports' =
              IF new.status = "ACTION_COMPLETED"
              THEN field_action_reports \cup {d} ELSE field_action_reports
        /\ WritesRow(i, row)
        /\ RecordsMove(i, s, t)
        /\ row.controller = incidents[i].controller
        /\ row.closed = incidents[i].closed
        /\ UNCHANGED <<incident_claims, incident_decisions>>
        /\ LET events == {[aggregate |-> "DISPATCH", id |-> d,
                           version |-> new.version, status |-> new.status]}
           IN  \/ /\ new.status \in {"DEPARTED", "EN_ROUTE"}
                  /\ row = incidents[i]
                  /\ event_outbox' = event_outbox \cup events
               \/ /\ new.status = "REJECTED" /\ s = t
                  /\ row.version = incidents[i].version + 1
                  /\ event_outbox' = event_outbox \cup events
               \/ /\ new.status \notin {"DEPARTED", "EN_ROUTE", "REJECTED"}
                  /\ <<s, t, "SYSTEM">> \in IncidentTransitions
                  /\ row.version = incidents[i].version + 1
                  /\ event_outbox' = event_outbox \cup events \cup
                        {[aggregate |-> "INCIDENT", id |-> i,
                          version |-> row.version, status |-> t]}

\* The decisions and guards that go with what a controller writes.
ControllerRecords(u, i, row) ==
    /\ ControllerWrites(u, i, row)
    /\ \/ /\ incidents[i].status # "UNDER_REVIEW"
          /\ incident_decisions' = incident_decisions
       \/ \E ty \in DecisionTypes : RecordsDecision(u, i, ty)
    /\ incidents[i].status = "ACTION_COMPLETED" =>
         \E d \in RequestsOf(i) : IsLatest(d, i) /\ d \in field_action_reports
    /\ row.status = "CLAIMED" => ClaimsOf(i) = {}

\* An incident with an active request is not assigned again.
AssignRecords(u, i, d, p, new, row) ==
    /\ AssignWrites(u, i, d, p, new, row)
    /\ \A e \in RequestsOf(i) : ~ IsActive(e)

-----------------------------------------------------------------------------
(* Every command writes in one of these ways.                              *)

\* The columns of an incident row after each way the commands build one.
LEMMA RowColumns ==
    ASSUME NEW m \in IncidentRow, NEW u \in Controllers
    PROVE  /\ LET row == [m EXCEPT !.acknowledged_by = u]
              IN  /\ row \in IncidentRow /\ row.status = m.status
                  /\ row.version = m.version /\ row.controller = m.controller
                  /\ row.closed = m.closed
           /\ LET row == [m EXCEPT !.controller = u]
              IN  /\ row \in IncidentRow /\ row.status = m.status
                  /\ row.version = m.version /\ row.controller = u
                  /\ row.closed = m.closed
           /\ LET row == [m EXCEPT !.closed = TRUE]
              IN  /\ row \in IncidentRow /\ row.status = m.status
                  /\ row.version = m.version /\ row.controller = m.controller
                  /\ row.closed = TRUE
<1>1. [m EXCEPT !.acknowledged_by = u] \in IncidentRow
  BY DEF IncidentRow
<1>2. [m EXCEPT !.controller = u] \in IncidentRow
  BY DEF IncidentRow
<1>3. [m EXCEPT !.closed = TRUE] \in IncidentRow
  BY DEF IncidentRow
<1>4. /\ [m EXCEPT !.acknowledged_by = u].closed = m.closed
      /\ [m EXCEPT !.controller = u].closed = m.closed
      /\ [m EXCEPT !.closed = TRUE].closed = TRUE
  BY DEF IncidentRow
<1> QED
  BY <1>1, <1>2, <1>3, <1>4 DEF IncidentRow

\* Moving a row leaves its closed_at.
LEMMA MovedClosed ==
    ASSUME TypeOK, NEW i \in Incidents, NEW s \in IncidentStatuses
    PROVE  Moved(i, s).closed = incidents[i].closed
<1>1. incidents[i] \in IncidentRow
  BY DEF TypeOK
<1> QED
  BY <1>1 DEF Moved, IncidentRow

\* acknowledge, claim, review, a decision and close.
LEMMA ControllerEffect ==
    ASSUME TypeOK, NEW u \in Controllers, NEW i \in Incidents,
           \/ Acknowledge(u, i) \/ Claim(u, i) \/ Review(u, i) \/ Close(u, i)
           \/ \E ty \in DecisionTypes : Decide(u, i, ty)
    PROVE  \E row \in IncidentRow : ControllerRecords(u, i, row)
<1> USE DEF RecordsMove, WritesRow
<1>1. incidents \in [Incidents -> IncidentRow] /\ incidents[i] \in IncidentRow
  BY DEF TypeOK
<1>2. CASE Acknowledge(u, i)
  <2> DEFINE m   == Moved(i, "ACKNOWLEDGED")
             row == [m EXCEPT !.acknowledged_by = u]
  <2>1. /\ row \in IncidentRow /\ row.status = "ACKNOWLEDGED"
        /\ row.version = incidents[i].version + 1
        /\ row.controller = incidents[i].controller
        /\ row.closed = incidents[i].closed
    <3>1. /\ m \in IncidentRow /\ m.status = "ACKNOWLEDGED"
          /\ m.version = incidents[i].version + 1
          /\ m.controller = incidents[i].controller
          /\ m.closed = incidents[i].closed
      BY MovedType, MovedClosed DEF IncidentStatuses
    <3> HIDE DEF m
    <3> QED
      BY <3>1, RowColumns
  <2>2. /\ WritesRow(i, row) /\ incidents[i].status = "NEW"
        /\ incident_histories' =
             [incident_histories EXCEPT ![i] = Append(@, <<incidents[i].status, row.status>>)]
        /\ event_outbox' = event_outbox \cup {IncidentEvent(i, row)}
    BY <1>2 DEF Acknowledge, MoveIncident, Publish, CanMoveIncident, IncidentTransitions
  <2> HIDE DEF row
  <2>3. incidents'[i] = row
    BY <1>1, <2>2
  <2>4. ControllerWrites(u, i, row)
    BY <1>2, <2>1, <2>2, <2>3
    DEF ControllerWrites, Acknowledge, IncidentEvent, IncidentTransitions, FinalStatuses
  <2> QED
    BY <1>2, <2>1, <2>2, <2>4 DEF ControllerRecords, Acknowledge
<1>3. CASE Claim(u, i)
  <2> DEFINE m   == Moved(i, "CLAIMED")
             row == [m EXCEPT !.controller = u]
  <2>1. /\ row \in IncidentRow /\ row.status = "CLAIMED"
        /\ row.version = incidents[i].version + 1
        /\ row.controller = u
        /\ row.closed = incidents[i].closed
    <3>1. /\ m \in IncidentRow /\ m.status = "CLAIMED"
          /\ m.version = incidents[i].version + 1
          /\ m.controller = incidents[i].controller
          /\ m.closed = incidents[i].closed
      BY MovedType, MovedClosed DEF IncidentStatuses
    <3> HIDE DEF m
    <3> QED
      BY <3>1, RowColumns
  <2>2. /\ WritesRow(i, row) /\ incidents[i].status = "ACKNOWLEDGED"
        /\ incident_histories' =
             [incident_histories EXCEPT ![i] = Append(@, <<incidents[i].status, row.status>>)]
        /\ event_outbox' = event_outbox \cup {IncidentEvent(i, row)}
    BY <1>3 DEF Claim, MoveIncident, Publish, CanMoveIncident, IncidentTransitions
  <2> HIDE DEF row
  <2>3. incidents'[i] = row
    BY <1>1, <2>2
  <2>4. ControllerWrites(u, i, row)
    BY <1>3, <2>1, <2>2, <2>3
    DEF ControllerWrites, Claim, IncidentEvent, IncidentTransitions, FinalStatuses
  <2> QED
    BY <1>3, <2>1, <2>2, <2>4 DEF ControllerRecords, Claim, ClaimsOf
<1>4. CASE Review(u, i)
  <2> DEFINE row == Moved(i, "UNDER_REVIEW")
  <2>1. /\ row \in IncidentRow /\ row.status = "UNDER_REVIEW"
        /\ row.version = incidents[i].version + 1
        /\ row.controller = incidents[i].controller
        /\ row.closed = incidents[i].closed
    BY MovedType, MovedClosed DEF IncidentStatuses
  <2>2. /\ WritesRow(i, row) /\ incidents[i].status = "CLAIMED"
        /\ incident_histories' =
             [incident_histories EXCEPT ![i] = Append(@, <<incidents[i].status, row.status>>)]
        /\ event_outbox' = event_outbox \cup {IncidentEvent(i, row)}
    BY <1>4 DEF Review, MoveIncident, Publish, CanMoveIncident, IncidentTransitions
  <2> HIDE DEF row
  <2>3. incidents'[i] = row
    BY <1>1, <2>2
  <2>4. ControllerWrites(u, i, row)
    BY <1>4, <2>1, <2>2, <2>3
    DEF ControllerWrites, Review, IncidentEvent, IncidentTransitions, FinalStatuses
  <2> QED
    BY <1>4, <2>1, <2>2, <2>4 DEF ControllerRecords, Review
<1>5. CASE Close(u, i)
  <2> DEFINE m   == Moved(i, "CLOSED")
             row == [m EXCEPT !.closed = TRUE]
  <2>1. /\ row \in IncidentRow /\ row.status = "CLOSED"
        /\ row.version = incidents[i].version + 1
        /\ row.controller = incidents[i].controller
        /\ row.closed = TRUE
    <3>1. /\ m \in IncidentRow /\ m.status = "CLOSED"
          /\ m.version = incidents[i].version + 1
          /\ m.controller = incidents[i].controller
          /\ m.closed = incidents[i].closed
      BY MovedType, MovedClosed DEF IncidentStatuses
    <3> HIDE DEF m
    <3> QED
      BY <3>1, RowColumns
  <2>2. /\ WritesRow(i, row) /\ incidents[i].status = "ACTION_COMPLETED"
        /\ incident_histories' =
             [incident_histories EXCEPT ![i] = Append(@, <<incidents[i].status, row.status>>)]
        /\ event_outbox' = event_outbox \cup {IncidentEvent(i, row)}
    BY <1>5 DEF Close, MoveIncident, Publish
  <2> HIDE DEF row
  <2>3. incidents'[i] = row
    BY <1>1, <2>2
  <2>4. ControllerWrites(u, i, row)
    BY <1>5, <2>1, <2>2, <2>3
    DEF ControllerWrites, Close, IncidentEvent, IncidentTransitions, FinalStatuses
  <2> QED
    BY <1>5, <2>1, <2>2, <2>4 DEF ControllerRecords, Close
<1>6. ASSUME NEW ty \in DecisionTypes, Decide(u, i, ty)
      PROVE  \E row \in IncidentRow :
               ControllerWrites(u, i, row) /\ RecordsDecision(u, i, ty)
                 /\ incidents[i].status = "UNDER_REVIEW" /\ row.status # "CLAIMED"
  <2> DEFINE row == IF ty = "NEEDS_REVIEW" THEN Moved(i, incidents[i].status)
                    ELSE Decided(i, ty)
  <2>1. incidents[i].status = "UNDER_REVIEW" /\ incidents[i].controller = u
    BY <1>6 DEF Decide
  <2>2. /\ row \in IncidentRow /\ row.status = DecisionTargets[ty]
        /\ row.version = incidents[i].version + 1
        /\ row.controller = incidents[i].controller
    BY <2>1, MovedType, DecidedType DEF DecisionTargets, IncidentStatuses
  <2>3. row.closed <=> incidents[i].closed \/ row.status \in FinalStatuses
    <3>1. /\ Moved(i, incidents[i].status).closed = incidents[i].closed
          /\ Moved(i, DecisionTargets[ty]).closed = incidents[i].closed
      BY <2>1, MovedClosed, DecidedType DEF IncidentStatuses
    <3>2. Moved(i, DecisionTargets[ty]) \in IncidentRow
      BY MovedType, DecidedType
    <3>3. Decided(i, ty).closed =
             (incidents[i].closed \/ ty \in {"FALSE_POSITIVE", "NO_DISPATCH"})
      BY <3>1, <3>2 DEF Decided, IncidentRow
    <3>4. ty \in {"FALSE_POSITIVE", "NO_DISPATCH"} <=> row.status \in FinalStatuses
      BY <2>2 DEF DecisionTypes, DecisionTargets, FinalStatuses
    <3> QED
      BY <3>1, <3>3, <3>4
  <2>4. WritesRow(i, row)
    BY <1>6 DEF Decide, TouchIncident, MoveIncident
  <2>5. event_outbox' = event_outbox \cup
                          {[aggregate |-> "INCIDENT", id |-> i,
                            version |-> row.version, status |-> row.status]}
    BY <1>6, <2>2, DecidedType DEF Decide, Publish, IncidentEvent
  <2>6. incident_histories' =
           IF ty = "NEEDS_REVIEW" THEN incident_histories
           ELSE [incident_histories EXCEPT ![i] = Append(@, <<incidents[i].status, row.status>>)]
    BY <1>6, <2>2, DecidedType DEF Decide, TouchIncident, MoveIncident
  <2>7. /\ ty = "NEEDS_REVIEW" => row.status = "UNDER_REVIEW"
        /\ ty # "NEEDS_REVIEW" => /\ row.status # "UNDER_REVIEW"
                                  /\ <<"UNDER_REVIEW", row.status, "CONTROLLER">>
                                       \in IncidentTransitions
    BY <2>2 DEF DecisionTypes, DecisionTargets, IncidentTransitions
  <2> HIDE DEF row
  <2>8. incidents'[i] = row
    BY <1>1, <2>4
  <2>9. row.status # "CLAIMED"
    BY <2>2 DEF DecisionTypes, DecisionTargets
  <2>10. ControllerWrites(u, i, row)
    BY <1>6, <2>1, <2>2, <2>3, <2>4, <2>5, <2>6, <2>7, <2>8, <2>9 DEF ControllerWrites, Decide
  <2>11. RecordsDecision(u, i, ty)
    BY <1>6, <2>1, <2>2, <2>8 DEF RecordsDecision, Decide
  <2> QED
    BY <2>1, <2>2, <2>9, <2>10, <2>11
<1> QED
  BY <1>2, <1>3, <1>4, <1>5, <1>6 DEF ControllerRecords

\* assign.
LEMMA AssignEffect ==
    ASSUME TypeOK, NEW u \in Controllers, NEW i \in Incidents,
           NEW r \in Responders, Assign(u, i, r)
    PROVE  \E d \in Dispatches \ Used, p \in Dispatches \cup {NoDispatch},
              new \in DispatchRow, row \in IncidentRow :
             AssignRecords(u, i, d, p, new, row)
<1>1. PICK d \in Dispatches \ Used, p \in Dispatches \cup {NoDispatch} :
        /\ IsLatest(p, i)
        /\ LET new == [incident |-> i, responder |-> r, assigned_by |-> u,
                       attempt |-> IF p = NoDispatch THEN 1
                                   ELSE dispatch_requests[p].attempt + 1,
                       status |-> "REQUESTED", version |-> 0,
                       previous |-> p, stamped |-> {}]
           IN  MoveDispatch(d, new) /\ Publish({DispatchEvent(d, new)})
  BY DEF Assign
<1> DEFINE n   == IF p = NoDispatch THEN 1 ELSE dispatch_requests[p].attempt + 1
           new == [incident |-> i, responder |-> r, assigned_by |-> u,
                   attempt |-> n, status |-> "REQUESTED", version |-> 0,
                   previous |-> p, stamped |-> {}]
           row == Moved(i, "DISPATCH_REQUESTED")
<1>2. n \in Nat
  <2>1. p # NoDispatch => p \in Used
    BY <1>1 DEF IsLatest, RequestsOf
  <2>2. p # NoDispatch => dispatch_requests[p] \in DispatchRow
    BY <2>1 DEF TypeOK, Used
  <2> QED
    BY <2>2 DEF DispatchRow
<1>3. new \in DispatchRow
  <2> HIDE DEF n
  <2> QED
    BY <1>2 DEF DispatchRow, DispatchStatuses
<1>4. /\ row \in IncidentRow /\ row.status = "DISPATCH_REQUESTED"
      /\ row = [incidents[i] EXCEPT !.version = @ + 1]
  <2>1. incidents[i] \in IncidentRow /\ incidents[i].status = "DISPATCH_REQUESTED"
    BY DEF Assign, TypeOK
  <2>2. row = [incidents[i] EXCEPT !.version = @ + 1]
    BY <2>1 DEF Moved, IncidentRow
  <2> QED
    BY <2>2, MovedType DEF IncidentStatuses
<1>5. /\ WritesRow(i, row) /\ incident_histories' = incident_histories
      /\ incidents[i].status = "DISPATCH_REQUESTED"
      /\ incidents[i].controller = u
  BY DEF Assign, TouchIncident, WritesRow
<1>6. incidents'[i] = row
  BY <1>5 DEF WritesRow, TypeOK
<1>7. /\ dispatch_requests' = [dispatch_requests EXCEPT ![d] = new]
      /\ dispatch_histories' =
            [dispatch_histories EXCEPT ![d] = Append(@, <<"UNUSED", "REQUESTED">>)]
      /\ event_outbox' = event_outbox \cup {[aggregate |-> "DISPATCH", id |-> d,
                                             version |-> 0, status |-> "REQUESTED"]}
  <2>1. MoveDispatch(d, new) /\ Publish({DispatchEvent(d, new)})
    BY <1>1
  <2>2. new.status = "REQUESTED" /\ new.version = 0
    OBVIOUS
  <2>3. dispatch_requests[d].status = "UNUSED"
    BY DEF Used, Unused
  <2> HIDE DEF new
  <2> QED
    BY <2>1, <2>2, <2>3 DEF MoveDispatch, Publish, DispatchEvent
<1>8. \A e \in RequestsOf(i) : ~ IsActive(e)
  BY DEF Assign, RequestsOf
<1>9. AssignWrites(u, i, d, p, new, row)
  <2>1. new = [incident |-> i, responder |-> new.responder, assigned_by |-> u,
               attempt |-> n, status |-> "REQUESTED", version |-> 0,
               previous |-> p, stamped |-> {}]
    OBVIOUS
  <2> HIDE DEF new, row
  <2> QED
    BY <1>1, <1>4, <1>5, <1>6, <1>7, <2>1 DEF AssignWrites, RecordsMove, Assign
<1> QED
  BY <1>1, <1>3, <1>4, <1>8, <1>9 DEF AssignRecords

\* What a command of its responder leaves of a request as it was.
LEMMA AdvancedColumns ==
    ASSUME TypeOK, NEW d \in Used, NEW s \in DispatchStatuses,
           NEW stamps \in SUBSET Timestamps
    PROVE  /\ Advanced(d, s, stamps).attempt = dispatch_requests[d].attempt
           /\ Advanced(d, s, stamps).previous = dispatch_requests[d].previous
           /\ Advanced(d, s, stamps).assigned_by = dispatch_requests[d].assigned_by
<1>1. dispatch_requests[d] \in DispatchRow
  BY DEF TypeOK, Used
<1> QED
  BY <1>1 DEF Advanced, DispatchRow

\* A command that also moves the incident; completing is the one that reports.
LEMMA ResponderMoves ==
    ASSUME TypeOK, NEW d \in Used, NEW s \in DispatchStatuses,
           NEW stamps \in SUBSET Timestamps, NEW t \in IncidentStatuses,
           CanMoveDispatch(d, s), s \notin {"DEPARTED", "EN_ROUTE", "REJECTED"},
           CanMoveIncident(dispatch_requests[d].incident, t, "SYSTEM"),
           MoveDispatch(d, Advanced(d, s, stamps)),
           MoveIncident(dispatch_requests[d].incident,
                        Moved(dispatch_requests[d].incident, t)),
           Publish({DispatchEvent(d, Advanced(d, s, stamps)),
                    IncidentEvent(dispatch_requests[d].incident,
                                  Moved(dispatch_requests[d].incident, t))}),
           field_action_reports' =
              IF s = "ACTION_COMPLETED" THEN field_action_reports \cup {d}
              ELSE field_action_reports,
           UNCHANGED <<incident_claims, incident_decisions>>
    PROVE  \E new \in DispatchRow, row \in IncidentRow :
             ResponderWrites(d, new, dispatch_requests[d].incident, row)
<1> DEFINE i   == dispatch_requests[d].incident
           new == Advanced(d, s, stamps)
           row == Moved(i, t)
<1>1. i \in Incidents
  BY DEF TypeOK, Used, DispatchRow
<1>2. /\ new \in DispatchRow /\ new.status = s
      /\ new.version = dispatch_requests[d].version + 1
      /\ new.incident = i /\ new.attempt = dispatch_requests[d].attempt
      /\ new.previous = dispatch_requests[d].previous
      /\ new.assigned_by = dispatch_requests[d].assigned_by
  BY AdvancedType, AdvancedColumns
<1>3. /\ row \in IncidentRow /\ row.status = t
      /\ row.version = incidents[i].version + 1
      /\ row.controller = incidents[i].controller
      /\ row.closed = incidents[i].closed
  BY <1>1, MovedType, MovedClosed
<1> HIDE DEF i, new, row
<1>4. /\ dispatch_requests' = [dispatch_requests EXCEPT ![d] = new]
      /\ dispatch_histories' =
           [dispatch_histories EXCEPT ![d] =
              Append(@, <<dispatch_requests[d].status, new.status>>)]
  BY DEF MoveDispatch, new
<1>5. /\ WritesRow(i, row)
      /\ incident_histories' =
           [incident_histories EXCEPT ![i] = Append(@, <<incidents[i].status, row.status>>)]
  BY DEF MoveIncident, WritesRow, i, row
<1>6. incidents'[i] = row
  BY <1>1, <1>5 DEF WritesRow, TypeOK
<1>7. <<incidents[i].status, t, "SYSTEM">> \in IncidentTransitions
  BY DEF CanMoveIncident, i
<1>8. incidents[i].status # t
  BY <1>7 DEF IncidentTransitions
<1>9. event_outbox' = event_outbox \cup {DispatchEvent(d, new), IncidentEvent(i, row)}
  BY DEF Publish, i, new, row
<1>10. event_outbox' = event_outbox
          \cup {[aggregate |-> "DISPATCH", id |-> d, version |-> new.version,
                 status |-> new.status]}
          \cup {[aggregate |-> "INCIDENT", id |-> i, version |-> row.version,
                 status |-> row.status]}
  BY <1>9 DEF DispatchEvent, IncidentEvent
<1>11. <<dispatch_requests[d].status, new.status, "RESPONDER">> \in DispatchTransitions
  BY <1>2 DEF CanMoveDispatch
<1>12. RecordsMove(i, incidents[i].status, row.status)
  BY <1>3, <1>5, <1>6, <1>8 DEF RecordsMove
<1>13. ResponderWrites(d, new, i, row)
  BY <1>2, <1>3, <1>4, <1>5, <1>7, <1>10, <1>11, <1>12 DEF ResponderWrites, i
<1> QED
  BY <1>2, <1>3, <1>13 DEF i

\* accept, reject, the progress commands and complete-action.
LEMMA ResponderEffect ==
    ASSUME TypeOK, NEW r \in Responders, NEW d \in Dispatches, ResponderStep(r, d)
    PROVE  /\ d \in Used
           /\ dispatch_requests[d].incident \in Incidents
           /\ \E new \in DispatchRow, row \in IncidentRow :
                ResponderWrites(d, new, dispatch_requests[d].incident, row)
<1> DEFINE i == dispatch_requests[d].incident
<1>1. d \in Used /\ i \in Incidents
  BY OwnRow DEF ResponderStep, Accept, Reject, Progress, Complete
<1>2. CASE Accept(r, d)
  <2>1. "ACCEPTED" \in DispatchStatuses /\ {"accepted_at"} \in SUBSET Timestamps
        /\ "DISPATCHED" \in IncidentStatuses
    BY DEF DispatchStatuses, Timestamps, IncidentStatuses
  <2> QED
    BY <1>1, <1>2, <2>1, ResponderMoves DEF Accept
<1>3. CASE Reject(r, d)
  <2> DEFINE new == Advanced(d, "REJECTED", {})
             row == Moved(i, incidents[i].status)
  <2>1. /\ new \in DispatchRow /\ new.status = "REJECTED"
        /\ new.version = dispatch_requests[d].version + 1
        /\ new.incident = i /\ new.attempt = dispatch_requests[d].attempt
        /\ new.previous = dispatch_requests[d].previous
        /\ new.assigned_by = dispatch_requests[d].assigned_by
    BY <1>1, AdvancedType, AdvancedColumns DEF DispatchStatuses
  <2>2. /\ row \in IncidentRow /\ row.status = incidents[i].status
        /\ row.version = incidents[i].version + 1
        /\ row.controller = incidents[i].controller
        /\ row.closed = incidents[i].closed
    <3>1. incidents[i].status \in IncidentStatuses
      BY <1>1 DEF TypeOK, IncidentRow
    <3> QED
      BY <1>1, <3>1, MovedType, MovedClosed
  <2> HIDE DEF i, new, row
  <2>3. /\ dispatch_requests' = [dispatch_requests EXCEPT ![d] = new]
        /\ dispatch_histories' =
             [dispatch_histories EXCEPT ![d] =
                Append(@, <<dispatch_requests[d].status, new.status>>)]
        /\ dispatch_requests[d].status = "REQUESTED"
    BY <1>3 DEF Reject, MoveDispatch, new
  <2>4. WritesRow(i, row) /\ incident_histories' = incident_histories
    BY <1>3 DEF Reject, TouchIncident, WritesRow, i, row
  <2>5. incidents'[i] = row
    BY <1>1, <2>4 DEF WritesRow, TypeOK
  <2>6. event_outbox' = event_outbox
          \cup {[aggregate |-> "DISPATCH", id |-> d, version |-> new.version,
                 status |-> new.status]}
    BY <1>3 DEF Reject, Publish, DispatchEvent, new
  <2>7. <<"REQUESTED", "REJECTED", "RESPONDER">> \in DispatchTransitions
    BY DEF DispatchTransitions
  <2>8. RecordsMove(i, incidents[i].status, row.status)
    BY <2>2, <2>4, <2>5 DEF RecordsMove
  <2>9. ResponderWrites(d, new, i, row)
    BY <1>1, <1>3, <2>1, <2>2, <2>3, <2>4, <2>6, <2>7, <2>8
    DEF ResponderWrites, Reject, i
  <2> QED
    BY <1>1, <2>1, <2>2, <2>9 DEF i
<1>4. ASSUME NEW c \in ProgressConfigs, Progress(r, d, c)
      PROVE  \E new \in DispatchRow, row \in IncidentRow : ResponderWrites(d, new, i, row)
  <2>1. /\ c.dispatch_to \in DispatchStatuses
        /\ {c.timestamp} \in SUBSET Timestamps
        /\ c.dispatch_to # "ACTION_COMPLETED" /\ c.dispatch_to # "REJECTED"
        /\ c.incident_to = "NONE" <=> c.dispatch_to \in {"DEPARTED", "EN_ROUTE"}
    BY ProgressConfigType DEF ProgressConfigs
  <2>2. CASE c.incident_to = "NONE"
    <3> DEFINE new == Advanced(d, c.dispatch_to, {c.timestamp})
               row == incidents[i]
    <3>1. /\ new \in DispatchRow /\ new.status = c.dispatch_to
          /\ new.version = dispatch_requests[d].version + 1
          /\ new.incident = i /\ new.attempt = dispatch_requests[d].attempt
          /\ new.previous = dispatch_requests[d].previous
          /\ new.assigned_by = dispatch_requests[d].assigned_by
      BY <1>1, <2>1, AdvancedType, AdvancedColumns
    <3>2. row \in IncidentRow /\ incidents' = incidents /\ WritesRow(i, row)
          /\ incident_histories' = incident_histories
      BY <1>1, <1>4, <2>2 DEF Progress, TypeOK, WritesRow
    <3> HIDE DEF i, new
    <3>3. /\ dispatch_requests' = [dispatch_requests EXCEPT ![d] = new]
          /\ dispatch_histories' =
               [dispatch_histories EXCEPT ![d] =
                  Append(@, <<dispatch_requests[d].status, new.status>>)]
      BY <1>4 DEF Progress, MoveDispatch, new
    <3>4. event_outbox' = event_outbox
            \cup {[aggregate |-> "DISPATCH", id |-> d, version |-> new.version,
                   status |-> new.status]}
      BY <1>4, <2>2 DEF Progress, Publish, DispatchEvent, new
    <3>5. <<dispatch_requests[d].status, new.status, "RESPONDER">> \in DispatchTransitions
      BY <1>4, <3>1 DEF Progress, CanMoveDispatch
    <3>6. RecordsMove(i, incidents[i].status, row.status)
      BY <3>2 DEF RecordsMove
    <3>7. ResponderWrites(d, new, i, row)
      BY <1>1, <1>4, <2>1, <2>2, <3>1, <3>2, <3>3, <3>4, <3>5, <3>6
      DEF ResponderWrites, Progress, i
    <3> QED
      BY <3>1, <3>2, <3>7
  <2>3. CASE c.incident_to # "NONE"
    <3>1. c.incident_to \in IncidentStatuses
      BY <2>3, ProgressConfigType
    <3> QED
      BY <1>1, <1>4, <2>1, <2>3, <3>1, ResponderMoves DEF Progress
  <2> QED
    BY <2>2, <2>3
<1>5. CASE Complete(r, d)
  <2>1. "ACTION_COMPLETED" \in DispatchStatuses
        /\ {"action_completed_at"} \in SUBSET Timestamps
        /\ "ACTION_COMPLETED" \in IncidentStatuses
    BY DEF DispatchStatuses, Timestamps, IncidentStatuses
  <2> QED
    BY <1>1, <1>5, <2>1, ResponderMoves DEF Complete
<1> QED
  BY <1>1, <1>2, <1>3, <1>4, <1>5 DEF ResponderStep

\* A step of the system writes in one of the three ways, or not at all.
LEMMA StepEffect ==
    ASSUME TypeOK, [Next]_vars
    PROVE  \/ \E u \in Controllers, i \in Incidents, row \in IncidentRow :
                ControllerRecords(u, i, row)
           \/ \E u \in Controllers, i \in Incidents, d \in Dispatches \ Used,
                 p \in Dispatches \cup {NoDispatch}, new \in DispatchRow,
                 row \in IncidentRow : AssignRecords(u, i, d, p, new, row)
           \/ \E d \in Used, i \in Incidents, new \in DispatchRow, row \in IncidentRow :
                ResponderWrites(d, new, i, row)
           \/ UNCHANGED vars
<1>1. ASSUME NEW u \in Controllers, NEW i \in Incidents, ControllerStep(u, i)
      PROVE  \/ \E row \in IncidentRow : ControllerRecords(u, i, row)
             \/ \E d \in Dispatches \ Used, p \in Dispatches \cup {NoDispatch},
                   new \in DispatchRow, row \in IncidentRow :
                  AssignRecords(u, i, d, p, new, row)
  <2>1. CASE \E r \in Responders : Assign(u, i, r)
    BY <2>1, AssignEffect
  <2>2. CASE ~ \E r \in Responders : Assign(u, i, r)
    BY <1>1, <2>2, ControllerEffect DEF ControllerStep
  <2> QED
    BY <2>1, <2>2
<1>2. ASSUME NEW r \in Responders, NEW d \in Dispatches, ResponderStep(r, d)
      PROVE  \E e \in Used, i \in Incidents, new \in DispatchRow, row \in IncidentRow :
                ResponderWrites(e, new, i, row)
  BY <1>2, ResponderEffect
<1> QED
  BY <1>1, <1>2 DEF Next

-----------------------------------------------------------------------------
(* The tables afterwards.                                                  *)

\* Only the row of incident i is another one.
LEMMA RowWritten ==
    ASSUME TypeOK, NEW i \in Incidents, NEW row, WritesRow(i, row)
    PROVE  /\ incidents'[i] = row
           /\ \A j \in Incidents \ {i} : incidents'[j] = incidents[j]
BY DEF WritesRow, TypeOK

\* While the requests stay, so do the sets and the orders read from them.
LEMMA RequestsKept ==
    ASSUME UNCHANGED dispatch_requests
    PROVE  /\ Used' = Used
           /\ \A i \in Incidents : RequestsOf(i)' = RequestsOf(i)
           /\ \A i \in Incidents : RejectedOf(i)' = RejectedOf(i)
           /\ \A i \in Incidents : \A p : IsLatest(p, i)' <=> IsLatest(p, i)
<1>1. Used' = Used
  BY DEF Used
<1>2. \A i \in Incidents : RequestsOf(i)' = RequestsOf(i)
  BY <1>1 DEF RequestsOf
<1> QED
  BY <1>1, <1>2 DEF IsLatest, RejectedOf

\* A new request is one more of its incident.
LEMMA RequestAdded ==
    ASSUME TypeOK, NEW i \in Incidents, NEW d \in Dispatches \ Used,
           NEW new \in DispatchRow, new.incident = i,
           dispatch_requests' = [dispatch_requests EXCEPT ![d] = new]
    PROVE  /\ dispatch_requests'[d] = new
           /\ \A e \in Dispatches \ {d} : dispatch_requests'[e] = dispatch_requests[e]
           /\ Used' = Used \cup {d}
           /\ RequestsOf(i)' = RequestsOf(i) \cup {d}
           /\ \A j \in Incidents \ {i} : RequestsOf(j)' = RequestsOf(j)
           /\ \A j \in Incidents \ {i} : \A p : IsLatest(p, j)' <=> IsLatest(p, j)
<1>1. new # Unused
  BY DEF DispatchRow, Unused, DispatchStatuses
<1>2. /\ dispatch_requests'[d] = new
      /\ \A e \in Dispatches \ {d} : dispatch_requests'[e] = dispatch_requests[e]
  BY DEF TypeOK
<1>3. Used' = Used \cup {d}
  BY <1>1, <1>2 DEF Used
<1>4. Used \subseteq Dispatches
  BY DEF Used
<1>5. /\ RequestsOf(i)' = RequestsOf(i) \cup {d}
      /\ \A j \in Incidents \ {i} : RequestsOf(j)' = RequestsOf(j)
  BY <1>2, <1>3, <1>4 DEF RequestsOf
<1>6. ASSUME NEW j \in Incidents \ {i}, NEW p
      PROVE  IsLatest(p, j)' <=> IsLatest(p, j)
  <2>1. RequestsOf(j) \subseteq Dispatches \ {d}
    BY DEF RequestsOf, Used
  <2> QED
    BY <1>2, <1>5, <2>1 DEF IsLatest
<1> QED
  BY <1>2, <1>3, <1>5, <1>6

\* A request that moves on stays the same attempt of the same incident.
LEMMA RequestMoved ==
    ASSUME TypeOK, NEW d \in Used, NEW new \in DispatchRow,
           new.incident = dispatch_requests[d].incident,
           new.attempt = dispatch_requests[d].attempt,
           dispatch_requests' = [dispatch_requests EXCEPT ![d] = new]
    PROVE  /\ dispatch_requests'[d] = new
           /\ \A e \in Dispatches \ {d} : dispatch_requests'[e] = dispatch_requests[e]
           /\ Used' = Used
           /\ \A i \in Incidents : RequestsOf(i)' = RequestsOf(i)
           /\ \A i \in Incidents : \A p : IsLatest(p, i)' <=> IsLatest(p, i)
<1>1. new # Unused
  BY DEF DispatchRow, Unused, DispatchStatuses
<1>2. Used \subseteq Dispatches
  BY DEF Used
<1>3. /\ dispatch_requests'[d] = new
      /\ \A e \in Dispatches \ {d} : dispatch_requests'[e] = dispatch_requests[e]
  BY <1>2 DEF TypeOK
<1>4. Used' = Used
  BY <1>1, <1>3 DEF Used
<1>5. \A i \in Incidents : RequestsOf(i)' = RequestsOf(i)
  BY <1>2, <1>3, <1>4 DEF RequestsOf
<1>6. \A e \in Used : dispatch_requests'[e].attempt = dispatch_requests[e].attempt
  BY <1>2, <1>3
<1>7. ASSUME NEW i \in Incidents, NEW p
      PROVE  IsLatest(p, i)' <=> IsLatest(p, i)
  <2>1. RequestsOf(i) \subseteq Used
    BY DEF RequestsOf
  <2> QED
    BY <1>5, <1>6, <2>1 DEF IsLatest
<1> QED
  BY <1>3, <1>4, <1>5, <1>7

-----------------------------------------------------------------------------
(* Ownership.  The claim row, the controller column, the decisions and the *)
(* assignments are inductive together: every guard that compares the user  *)
(* with the controller column keeps the other three in line with it.       *)

\* The decisions of an incident with one more: the old ones are still there,
\* and only the one at position active was written.
LEMMA WithDecisionRows ==
    ASSUME TypeOK, NEW i \in Incidents, NEW ty \in DecisionTypes,
           NEW u \in Controllers, NEW active
    PROVE  LET D == incident_decisions[i]
               W == WithDecision(i, ty, u, active)
           IN  /\ Len(D) \in Nat /\ DOMAIN D = 1..Len(D)
               /\ Len(W) = Len(D) + 1 /\ DOMAIN W = 1..(Len(D) + 1)
               /\ W[Len(D) + 1].type = ty /\ W[Len(D) + 1].decided_by = u
               /\ ~ W[Len(D) + 1].superseded /\ W[Len(D) + 1].superseded_by = 0
               /\ \A k \in 1..Len(D) :
                     /\ W[k].type = D[k].type /\ W[k].decided_by = D[k].decided_by
                     /\ k # active => W[k] = D[k]
                     /\ k = active => W[k].superseded /\ W[k].superseded_by = Len(D) + 1
<1> DEFINE D   == incident_decisions[i]
           new == [type |-> ty, decided_by |-> u,
                   superseded |-> FALSE, superseded_by |-> 0]
           upd == [k \in DOMAIN D |->
                     IF k = active
                     THEN [D[k] EXCEPT !.superseded = TRUE,
                                       !.superseded_by = Len(D) + 1]
                     ELSE D[k]]
<1>1. D \in Seq(DecisionRow)
  BY DEF TypeOK
<1> HIDE DEF D
<1>2. Len(D) \in Nat /\ DOMAIN D = 1..Len(D)
  BY <1>1
<1>3. \A k \in 1..Len(D) : D[k] \in DecisionRow
  BY <1>1, <1>2
<1>4. /\ DOMAIN upd = 1..Len(D)
      /\ \A k \in 1..Len(D) :
            /\ k # active => upd[k] = D[k]
            /\ k = active => upd[k] = [D[k] EXCEPT !.superseded = TRUE,
                                                  !.superseded_by = Len(D) + 1]
  BY <1>2
<1>5. WithDecision(i, ty, u, active) = Append(upd, new)
  BY DEF WithDecision, D
<1> HIDE DEF upd, new
<1>6. upd \in Seq(DecisionRow) /\ Len(upd) = Len(D)
  <2>1. ASSUME NEW k \in 1..Len(D) PROVE upd[k] \in DecisionRow
    <3>1. CASE k = active
      <4>1. D[k] \in DecisionRow /\ Len(D) + 1 \in Nat
        BY <1>2, <1>3
      <4>2. [D[k] EXCEPT !.superseded = TRUE, !.superseded_by = Len(D) + 1] \in DecisionRow
        BY <4>1 DEF DecisionRow
      <4> QED
        BY <1>4, <3>1, <4>2
    <3> QED
      BY <1>3, <1>4, <3>1
  <2>2. upd \in [1..Len(D) -> DecisionRow]
    BY <1>2, <2>1 DEF upd
  <2>3. upd \in Seq(DecisionRow)
    BY <1>2, <2>2
  <2>4. Len(upd) \in Nat /\ 1..Len(upd) = 1..Len(D)
    BY <1>4, <2>3, LenProperties
  <2>5. Len(upd) = Len(D)
    BY <1>2, <2>4
  <2> QED
    BY <2>3, <2>5
<1>7. /\ Len(Append(upd, new)) = Len(D) + 1
      /\ DOMAIN Append(upd, new) = 1..(Len(D) + 1)
      /\ Append(upd, new)[Len(D) + 1] = new
      /\ \A k \in 1..Len(D) : Append(upd, new)[k] = upd[k]
  <2>1. new \in DecisionRow
    BY DEF new, DecisionRow
  <2>2. Append(upd, new) \in Seq(DecisionRow)
    BY <1>6, <2>1, AppendProperties
  <2> QED
    BY <1>2, <1>6, <2>1, <2>2, AppendProperties
<1>8. /\ new.type = ty /\ new.decided_by = u
      /\ ~ new.superseded /\ new.superseded_by = 0
  BY DEF new
<1>9. ASSUME NEW k \in 1..Len(D)
      PROVE  /\ upd[k].type = D[k].type /\ upd[k].decided_by = D[k].decided_by
             /\ k # active => upd[k] = D[k]
             /\ k = active => upd[k].superseded /\ upd[k].superseded_by = Len(D) + 1
  <2>1. CASE k = active
    <3>1. D[k] \in DecisionRow
      BY <1>3
    <3>2. upd[k] = [D[k] EXCEPT !.superseded = TRUE, !.superseded_by = Len(D) + 1]
      BY <1>4, <2>1
    <3>3. upd[k].superseded
      BY <3>1, <3>2 DEF DecisionRow
    <3> QED
      BY <2>1, <3>1, <3>2, <3>3 DEF DecisionRow
  <2> QED
    BY <1>4, <2>1
<1> QED
  BY <1>2, <1>5, <1>7, <1>8, <1>9 DEF D

\* The decisions of other incidents stay, and those of i gain at most one.
LEMMA DecisionsAfter ==
    ASSUME TypeOK, NEW u \in Controllers, NEW i \in Incidents, NEW row,
           ControllerRecords(u, i, row)
    PROVE  /\ \A j \in Incidents \ {i} : incident_decisions'[j] = incident_decisions[j]
           /\ \/ /\ incidents[i].status # "UNDER_REVIEW"
                 /\ incident_decisions'[i] = incident_decisions[i]
              \/ /\ incidents[i].status = "UNDER_REVIEW"
                 /\ incidents[i].controller = u
                 /\ \E ty \in DecisionTypes, active \in ActiveDecisions(i) \cup {0} :
                      /\ row.status = DecisionTargets[ty]
                      /\ active = 0 <=> ActiveDecisions(i) = {}
                      /\ ActiveDecisions(i) \subseteq {active}
                      /\ incident_decisions'[i] = WithDecision(i, ty, u, active)
<1>1. CASE incident_decisions' = incident_decisions /\ incidents[i].status # "UNDER_REVIEW"
  BY <1>1
<1>2. ASSUME NEW ty \in DecisionTypes, RecordsDecision(u, i, ty)
      PROVE  /\ \A j \in Incidents \ {i} : incident_decisions'[j] = incident_decisions[j]
             /\ incidents[i].status = "UNDER_REVIEW"
             /\ incidents[i].controller = u
             /\ row.status = DecisionTargets[ty]
             /\ \E active \in ActiveDecisions(i) \cup {0} :
                  /\ active = 0 <=> ActiveDecisions(i) = {}
                  /\ ActiveDecisions(i) \subseteq {active}
                  /\ incident_decisions'[i] = WithDecision(i, ty, u, active)
  <2>1. row.status = DecisionTargets[ty]
    BY <1>2, RowWritten DEF RecordsDecision, ControllerRecords, ControllerWrites
  <2> QED
    BY <1>2, <2>1 DEF RecordsDecision, TypeOK
<1> QED
  BY <1>1, <1>2 DEF ControllerRecords

\* Nobody decided on or assigned an incident that nobody owns.
LEMMA UnownedUntouched ==
    ASSUME TypeOK, OwnershipAgrees, NEW i \in Incidents,
           incidents[i].status \in {"NEW", "ACKNOWLEDGED"}
    PROVE  DOMAIN incident_decisions[i] = {} /\ RequestsOf(i) = {}
<1>1. incidents[i].controller = NoUser
  BY DEF OwnershipAgrees
<1>2. ASSUME NEW k \in DOMAIN incident_decisions[i] PROVE FALSE
  <2>1. incident_decisions[i][k].decided_by = NoUser
    BY <1>1, <1>2 DEF OwnershipAgrees
  <2>2. incident_decisions[i] \in Seq(DecisionRow)
    BY DEF TypeOK
  <2>3. incident_decisions[i][k] \in DecisionRow
    BY <1>2, <2>2
  <2> QED
    BY <2>1, <2>3, UsersAssumption DEF DecisionRow
<1>3. ASSUME NEW d \in RequestsOf(i) PROVE FALSE
  <2>1. dispatch_requests[d].assigned_by = NoUser
    BY <1>1 DEF OwnershipAgrees
  <2>2. dispatch_requests[d] \in DispatchRow
    BY DEF TypeOK, RequestsOf, Used
  <2> QED
    BY <2>1, <2>2, UsersAssumption DEF DispatchRow
<1> QED
  BY <1>2, <1>3

\* A command of a controller keeps the owner.
LEMMA ControllerKeepsOwner ==
    ASSUME TypeOK, OwnershipAgrees, NEW u \in Controllers, NEW i \in Incidents,
           NEW row \in IncidentRow, ControllerRecords(u, i, row)
    PROVE  OwnershipAgrees'
<1> DEFINE s == incidents[i].status
           t == row.status
           early == {"NEW", "ACKNOWLEDGED"}
<1>1. incidents'[i] = row /\ \A j \in Incidents \ {i} : incidents'[j] = incidents[j]
  BY RowWritten DEF ControllerRecords, ControllerWrites
<1>2. /\ \A j \in Incidents : RequestsOf(j)' = RequestsOf(j)
      /\ dispatch_requests' = dispatch_requests
  BY RequestsKept DEF ControllerRecords, ControllerWrites
<1>3. \A j \in Incidents \ {i} :
        ClaimsOf(j)' = ClaimsOf(j) /\ incident_decisions'[j] = incident_decisions[j]
  BY DecisionsAfter DEF ControllerRecords, ControllerWrites, ClaimsOf
<1>4. /\ t = "CLAIMED" => s = "ACKNOWLEDGED"
      /\ t \in early <=> s \in early /\ t # "CLAIMED"
  BY DEF ControllerRecords, ControllerWrites, IncidentTransitions
<1>5. row.controller = IF t = "CLAIMED" THEN u ELSE incidents[i].controller
  BY DEF ControllerRecords, ControllerWrites
<1>6. ClaimsOf(i)' = IF t = "CLAIMED" THEN {[incident |-> i, controller |-> u]}
                     ELSE ClaimsOf(i)
  BY DEF ControllerRecords, ControllerWrites, ClaimsOf
<1>7. CASE t = "CLAIMED"
  <2>1. DOMAIN incident_decisions[i] = {} /\ RequestsOf(i) = {}
    BY <1>4, <1>7, UnownedUntouched
  <2>2. incident_decisions'[i] = incident_decisions[i]
    BY <1>4, <1>7, DecisionsAfter
  <2>3. row.controller = u /\ u # NoUser
    BY <1>5, <1>7, UsersAssumption
  <2> HIDE DEF t
  <2> QED
    BY <1>1, <1>2, <1>3, <1>4, <1>6, <1>7, <2>1, <2>2, <2>3 DEF OwnershipAgrees, t
<1>8. CASE t # "CLAIMED"
  <2>1. row.controller = incidents[i].controller
    BY <1>5, <1>8
  <2>2. ASSUME NEW k \in DOMAIN incident_decisions'[i]
        PROVE  incident_decisions'[i][k].decided_by = row.controller
    <3>1. CASE incident_decisions'[i] = incident_decisions[i]
      BY <2>1, <2>2, <3>1 DEF OwnershipAgrees
    <3>2. ASSUME NEW ty \in DecisionTypes, NEW active, incidents[i].controller = u,
                 incident_decisions'[i] = WithDecision(i, ty, u, active)
          PROVE  incident_decisions'[i][k].decided_by = row.controller
      <4> DEFINE D == incident_decisions[i]
                 W == WithDecision(i, ty, u, active)
      <4>1. /\ Len(D) \in Nat /\ DOMAIN D = 1..Len(D)
            /\ DOMAIN W = 1..(Len(D) + 1)
            /\ W[Len(D) + 1].decided_by = u
            /\ \A n \in 1..Len(D) : W[n].decided_by = D[n].decided_by
        BY WithDecisionRows
      <4>2. \A n \in 1..Len(D) : D[n].decided_by = u
        BY <3>2, <4>1 DEF OwnershipAgrees
      <4> HIDE DEF D, W
      <4>3. k \in 1..(Len(D) + 1)
        BY <2>2, <3>2, <4>1 DEF W
      <4>4. W[k].decided_by = u
        BY <4>1, <4>2, <4>3
      <4> QED
        BY <2>1, <3>2, <4>4 DEF W
    <3> QED
      BY <3>1, <3>2, DecisionsAfter
  <2> HIDE DEF t
  <2> QED
    BY <1>1, <1>2, <1>3, <1>4, <1>6, <1>8, <2>1, <2>2 DEF OwnershipAgrees, t
<1> QED
  BY <1>7, <1>8

\* The claim row, the controller column, the decisions and the assignments of
\* an incident name one user, whatever commands were issued.
THEOREM OwnershipAgreesCorrect == Spec => []OwnershipAgrees
<1>1. Init => OwnershipAgrees
  BY DEF Init, OwnershipAgrees, ClaimsOf, RequestsOf, Used
<1>2. TypeOK /\ OwnershipAgrees /\ [Next]_vars => OwnershipAgrees'
  <2> SUFFICES ASSUME TypeOK, OwnershipAgrees, [Next]_vars PROVE OwnershipAgrees'
    OBVIOUS
  <2>1. ASSUME NEW u \in Controllers, NEW i \in Incidents, NEW row \in IncidentRow,
               ControllerRecords(u, i, row)
        PROVE  OwnershipAgrees'
    BY <2>1, ControllerKeepsOwner
  <2>2. ASSUME NEW u \in Controllers, NEW i \in Incidents, NEW d \in Dispatches \ Used,
               NEW p \in Dispatches \cup {NoDispatch}, NEW new \in DispatchRow,
               NEW row \in IncidentRow, AssignRecords(u, i, d, p, new, row)
        PROVE  OwnershipAgrees'
    <3>1. /\ incidents'[i] = row /\ row.status = incidents[i].status
          /\ row.controller = u /\ incidents[i].controller = u
          /\ \A j \in Incidents \ {i} : incidents'[j] = incidents[j]
      BY <2>2, RowWritten
      DEF AssignRecords, AssignWrites, RecordsMove
    <3>2. /\ dispatch_requests'[d].assigned_by = u
          /\ \A e \in Dispatches \ {d} : dispatch_requests'[e] = dispatch_requests[e]
          /\ RequestsOf(i)' = RequestsOf(i) \cup {d}
          /\ \A j \in Incidents \ {i} : RequestsOf(j)' = RequestsOf(j)
      <4>1. new.incident = i /\ new.assigned_by = u
        BY <2>2 DEF AssignRecords, AssignWrites
      <4>2. dispatch_requests' = [dispatch_requests EXCEPT ![d] = new]
        BY <2>2 DEF AssignRecords, AssignWrites
      <4> QED
        BY <4>1, <4>2, RequestAdded
    <3>3. \A j \in Incidents : RequestsOf(j) \subseteq Dispatches \ {d}
      BY DEF RequestsOf, Used
    <3>4. UNCHANGED <<incident_claims, incident_decisions>>
      BY <2>2 DEF AssignRecords, AssignWrites
    <3> QED
      BY <3>1, <3>2, <3>3, <3>4 DEF OwnershipAgrees, ClaimsOf
  <2>3. ASSUME NEW d \in Used, NEW i \in Incidents, NEW new \in DispatchRow,
               NEW row \in IncidentRow, ResponderWrites(d, new, i, row)
        PROVE  OwnershipAgrees'
    <3>1. /\ incidents'[i] = row /\ row.controller = incidents[i].controller
          /\ row.status \in {"NEW", "ACKNOWLEDGED"} <=>
                incidents[i].status \in {"NEW", "ACKNOWLEDGED"}
          /\ \A j \in Incidents \ {i} : incidents'[j] = incidents[j]
      BY <2>3, RowWritten DEF ResponderWrites, IncidentTransitions
    <3>2. /\ dispatch_requests'[d].assigned_by = dispatch_requests[d].assigned_by
          /\ \A e \in Dispatches \ {d} : dispatch_requests'[e] = dispatch_requests[e]
          /\ \A j \in Incidents : RequestsOf(j)' = RequestsOf(j)
      BY <2>3, RequestMoved DEF ResponderWrites
    <3>3. \A j \in Incidents : RequestsOf(j) \subseteq Dispatches
      BY DEF RequestsOf, Used
    <3>4. UNCHANGED <<incident_claims, incident_decisions>>
      BY <2>3 DEF ResponderWrites
    <3> QED
      BY <3>1, <3>2, <3>3, <3>4 DEF OwnershipAgrees, ClaimsOf
  <2>4. CASE UNCHANGED vars
    BY <2>4 DEF vars, OwnershipAgrees, ClaimsOf, RequestsOf, Used
  <2> QED
    BY <2>1, <2>2, <2>3, <2>4, StepEffect
<1> QED
  BY <1>1, <1>2, TypeCorrect, PTL DEF Spec

-----------------------------------------------------------------------------
(* Decisions.  That the active decision is the last one makes the next one *)
(* supersede the right row, and that an incident under review has only     *)
(* NEEDS_REVIEW decisions makes the last one say where the incident went.  *)

\* A decision extends a chain that was not ended yet.
LEMMA ChainExtended ==
    ASSUME TypeOK, NEW i \in Incidents, NEW ty \in DecisionTypes,
           NEW u \in Controllers, NEW active \in ActiveDecisions(i) \cup {0},
           active = 0 <=> ActiveDecisions(i) = {},
           IsDecisionChain(incident_decisions[i]),
           incident_decisions[i] # <<>> => LastDecision(i).type = "NEEDS_REVIEW"
    PROVE  LET W == WithDecision(i, ty, u, active)
           IN  /\ IsDecisionChain(W)
               /\ W # <<>> /\ W[Len(W)].type = ty
<1> DEFINE D == incident_decisions[i]
           W == WithDecision(i, ty, u, active)
           n == Len(D)
<1>1. /\ n \in Nat /\ DOMAIN D = 1..n /\ Len(W) = n + 1 /\ DOMAIN W = 1..(n + 1)
      /\ W[n + 1].type = ty /\ ~ W[n + 1].superseded /\ W[n + 1].superseded_by = 0
      /\ \A k \in 1..n : /\ W[k].type = D[k].type
                         /\ k # active => W[k] = D[k]
                         /\ k = active => W[k].superseded /\ W[k].superseded_by = n + 1
  BY WithDecisionRows
<1>2. active = n
  <2>1. ActiveDecisions(i) = {k \in 1..n : ~ D[k].superseded}
    BY <1>1 DEF ActiveDecisions
  <2>2. \A k \in 1..n : D[k].superseded <=> k # n
    BY <1>1 DEF IsDecisionChain
  <2> HIDE DEF D
  <2>3. CASE n = 0
    BY <2>1, <2>3
  <2>4. CASE n # 0
    <3>1. n \in 1..n
      BY <1>1, <2>4
    <3>2. ActiveDecisions(i) = {n}
      BY <2>1, <2>2, <3>1
    <3> QED
      BY <3>2
  <2> QED
    BY <2>3, <2>4
<1>3. n # 0 => D[n].type = "NEEDS_REVIEW"
  BY <1>1 DEF LastDecision
<1>4. \A k \in 1..n : k # n => /\ D[k].superseded /\ D[k].superseded_by = k + 1
                               /\ D[k].type = "NEEDS_REVIEW"
  BY <1>1 DEF IsDecisionChain
<1> HIDE DEF D, W, n
<1>5. ASSUME NEW k \in 1..(n + 1)
      PROVE  IF k = n + 1
             THEN ~ W[k].superseded /\ W[k].superseded_by = 0
             ELSE W[k].superseded /\ W[k].superseded_by = k + 1
                    /\ W[k].type = "NEEDS_REVIEW"
  <2>1. CASE k = n + 1
    BY <1>1, <2>1
  <2>2. CASE k = n
    BY <1>1, <1>2, <1>3, <2>2
  <2>3. CASE k # n + 1 /\ k # n
    BY <1>1, <1>2, <1>4, <2>3
  <2> QED
    BY <2>1, <2>2, <2>3
<1>6. IsDecisionChain(W)
  BY <1>1, <1>5 DEF IsDecisionChain
<1>7. W # <<>>
  BY <1>1
<1> QED
  BY <1>1, <1>6, <1>7 DEF W

ReviewStatuses == {"NEW", "ACKNOWLEDGED", "CLAIMED", "UNDER_REVIEW"}

\* A command of a controller keeps the decisions a chain.
LEMMA ControllerKeepsChain ==
    ASSUME TypeOK, DecisionChain, NEW u \in Controllers, NEW i \in Incidents,
           NEW row \in IncidentRow, ControllerRecords(u, i, row)
    PROVE  DecisionChain'
<1>1. incidents'[i] = row /\ \A j \in Incidents \ {i} : incidents'[j] = incidents[j]
  BY RowWritten DEF ControllerRecords, ControllerWrites
<1>2. \A j \in Incidents \ {i} : incident_decisions'[j] = incident_decisions[j]
  BY DecisionsAfter
<1>3. CASE /\ incidents[i].status # "UNDER_REVIEW"
           /\ incident_decisions'[i] = incident_decisions[i]
  <2>1. row.status \in ReviewStatuses <=> incidents[i].status \in ReviewStatuses
    BY <1>3 DEF ControllerRecords, ControllerWrites, IncidentTransitions, ReviewStatuses
  <2> QED
    BY <1>1, <1>2, <1>3, <2>1 DEF DecisionChain, LastDecision, ReviewStatuses
<1>4. ASSUME NEW ty \in DecisionTypes, NEW active \in ActiveDecisions(i) \cup {0},
             incidents[i].status = "UNDER_REVIEW",
             row.status = DecisionTargets[ty],
             active = 0 <=> ActiveDecisions(i) = {},
             incident_decisions'[i] = WithDecision(i, ty, u, active)
      PROVE  DecisionChain'
  <2>1. /\ IsDecisionChain(incident_decisions[i])
        /\ incident_decisions[i] # <<>> => LastDecision(i).type = "NEEDS_REVIEW"
    BY <1>4 DEF DecisionChain
  <2>2. /\ IsDecisionChain(incident_decisions'[i])
        /\ incident_decisions'[i] # <<>>
        /\ LastDecision(i)'.type = ty
    BY <1>4, <2>1, ChainExtended DEF LastDecision
  <2>3. ty = "NEEDS_REVIEW" <=> row.status \in ReviewStatuses
    BY <1>4 DEF DecisionTargets, DecisionTypes, ReviewStatuses
  <2> QED
    BY <1>1, <1>2, <2>2, <2>3 DEF DecisionChain, LastDecision, ReviewStatuses
<1> QED
  BY <1>3, <1>4, DecisionsAfter

\* Each decision supersedes the one before it, and only the last can be other
\* than NEEDS_REVIEW.
THEOREM DecisionChainCorrect == Spec => []DecisionChain
<1>1. Init => DecisionChain
  BY DEF Init, DecisionChain, IsDecisionChain
<1>2. TypeOK /\ DecisionChain /\ [Next]_vars => DecisionChain'
  <2> SUFFICES ASSUME TypeOK, DecisionChain, [Next]_vars PROVE DecisionChain'
    OBVIOUS
  <2>1. ASSUME NEW u \in Controllers, NEW i \in Incidents, NEW row \in IncidentRow,
               ControllerRecords(u, i, row)
        PROVE  DecisionChain'
    BY <2>1, ControllerKeepsChain
  <2>2. ASSUME NEW u \in Controllers, NEW i \in Incidents, NEW d \in Dispatches \ Used,
               NEW p \in Dispatches \cup {NoDispatch}, NEW new \in DispatchRow,
               NEW row \in IncidentRow, AssignRecords(u, i, d, p, new, row)
        PROVE  DecisionChain'
    <3>1. /\ incidents'[i].status = incidents[i].status
          /\ \A j \in Incidents \ {i} : incidents'[j] = incidents[j]
          /\ incident_decisions' = incident_decisions
      BY <2>2, RowWritten DEF AssignRecords, AssignWrites, RecordsMove
    <3> QED
      BY <3>1 DEF DecisionChain, LastDecision
  <2>3. ASSUME NEW d \in Used, NEW i \in Incidents, NEW new \in DispatchRow,
               NEW row \in IncidentRow, ResponderWrites(d, new, i, row)
        PROVE  DecisionChain'
    <3>1. /\ incidents'[i] = row
          /\ row.status \in ReviewStatuses <=> incidents[i].status \in ReviewStatuses
          /\ \A j \in Incidents \ {i} : incidents'[j] = incidents[j]
          /\ incident_decisions' = incident_decisions
      BY <2>3, RowWritten DEF ResponderWrites, IncidentTransitions, ReviewStatuses
    <3> QED
      BY <3>1 DEF DecisionChain, LastDecision, ReviewStatuses
  <2>4. CASE UNCHANGED vars
    BY <2>4 DEF vars, DecisionChain, LastDecision
  <2> QED
    BY <2>1, <2>2, <2>3, <2>4, StepEffect
<1> QED
  BY <1>1, <1>2, TypeCorrect, PTL DEF Spec

-----------------------------------------------------------------------------
(* Histories.                                                              *)

\* A path with one more step at its end is a path.
LEMMA PathAppend ==
    ASSUME NEW S, NEW h \in Seq(S), NEW a, NEW b, NEW c, NEW edges,
           IsPath(h, a, b, edges), <<b, c>> \in edges, <<b, c>> \in S
    PROVE  IsPath(Append(h, <<b, c>>), a, c, edges)
<1> DEFINE g == Append(h, <<b, c>>)
           n == Len(h)
<1>1. n \in Nat /\ DOMAIN h = 1..n
  OBVIOUS
<1>2. /\ g \in Seq(S) /\ g # <<>> /\ Len(g) = n + 1 /\ DOMAIN g = 1..(n + 1)
      /\ \A k \in 1..n : g[k] = h[k]
      /\ g[n + 1] = <<b, c>>
  BY AppendProperties
<1>3. b = IF n = 0 THEN a ELSE h[n][2]
  BY <1>1 DEF IsPath
<1>4. \A k \in 1..n : h[k] \in edges /\ h[k][1] = IF k = 1 THEN a ELSE h[k - 1][2]
  BY <1>1 DEF IsPath
<1> HIDE DEF g, n
<1>5. ASSUME NEW k \in 1..(n + 1)
      PROVE  g[k] \in edges /\ g[k][1] = IF k = 1 THEN a ELSE g[k - 1][2]
  <2>1. CASE k = n + 1
    BY <1>1, <1>2, <1>3, <2>1
  <2>2. CASE k # n + 1
    BY <1>1, <1>2, <1>4, <2>2
  <2> QED
    BY <2>1, <2>2
<1>6. c = g[n + 1][2]
  BY <1>2
<1> QED
  BY <1>2, <1>5, <1>6 DEF IsPath, g

\* The rows a step adds to incident_histories extend the path of incident i.
LEMMA MoveExtendsPath ==
    ASSUME TypeOK, TypeOK', NEW i \in Incidents, NEW row \in IncidentRow, NEW scope,
           WritesRow(i, row), RecordsMove(i, incidents[i].status, row.status),
           \/ <<incidents[i].status, row.status, scope>> \in IncidentTransitions
           \/ incidents[i].status = row.status,
           NEW j \in Incidents,
           IsPath(incident_histories[j], "NEW", incidents[j].status,
                  Edges(IncidentTransitions))
    PROVE  IsPath(incident_histories'[j], "NEW", incidents'[j].status,
                  Edges(IncidentTransitions))
<1> DEFINE s == incidents[i].status
           t == row.status
           S == IncidentStatuses \X IncidentStatuses
<1>1. incidents'[i] = row /\ \A k \in Incidents \ {i} : incidents'[k] = incidents[k]
  BY RowWritten
<1>2. CASE j # i \/ s = t
  <2>1. incident_histories'[j] = incident_histories[j]
    BY <1>2 DEF RecordsMove, TypeOK
  <2>2. incidents'[j].status = incidents[j].status
    BY <1>1, <1>2
  <2> QED
    BY <2>1, <2>2
<1>3. CASE j = i /\ s # t
  <2>1. incident_histories'[i] = Append(incident_histories[i], <<s, t>>)
    BY <1>3 DEF RecordsMove, TypeOK
  <2>2. <<s, t>> \in Edges(IncidentTransitions)
    <3>1. <<s, t, scope>> \in IncidentTransitions
      BY <1>3
    <3> QED
      BY <3>1 DEF Edges
  <2>3. incident_histories[i] \in Seq(S) /\ <<s, t>> \in S
    BY DEF TypeOK, IncidentRow
  <2>4. IsPath(incident_histories[i], "NEW", s, Edges(IncidentTransitions))
    BY <1>3
  <2> HIDE DEF s, t, S
  <2>5. IsPath(Append(incident_histories[i], <<s, t>>), "NEW", t, Edges(IncidentTransitions))
    BY <2>2, <2>3, <2>4, PathAppend
  <2> QED
    BY <1>1, <1>3, <2>1, <2>5 DEF t
<1> QED
  BY <1>2, <1>3

DispatchEdges == Edges(DispatchTransitions) \cup {<<"UNUSED", "REQUESTED">>}

\* So does the row it adds to dispatch_histories.
LEMMA DispatchExtendsPath ==
    ASSUME TypeOK, NEW d \in Dispatches, NEW new \in DispatchRow,
           dispatch_requests' = [dispatch_requests EXCEPT ![d] = new],
           dispatch_histories' =
              [dispatch_histories EXCEPT ![d] =
                  Append(@, <<dispatch_requests[d].status, new.status>>)],
           <<dispatch_requests[d].status, new.status>> \in DispatchEdges,
           NEW e \in Dispatches,
           IsPath(dispatch_histories[e], "UNUSED", dispatch_requests[e].status,
                  DispatchEdges)
    PROVE  IsPath(dispatch_histories'[e], "UNUSED", dispatch_requests'[e].status,
                  DispatchEdges)
<1> DEFINE s == dispatch_requests[d].status
           t == new.status
           S == (DispatchStatuses \cup {"UNUSED"}) \X DispatchStatuses
<1>1. CASE e # d
  BY <1>1 DEF TypeOK
<1>2. CASE e = d
  <2>1. /\ dispatch_histories'[d] = Append(dispatch_histories[d], <<s, t>>)
        /\ dispatch_requests'[d].status = t
    BY DEF TypeOK
  <2>2. dispatch_histories[d] \in Seq(S) /\ <<s, t>> \in S
    BY DEF TypeOK, DispatchRow, Unused
  <2>3. IsPath(dispatch_histories[d], "UNUSED", s, DispatchEdges)
    BY <1>2
  <2> HIDE DEF s, t, S
  <2>4. IsPath(Append(dispatch_histories[d], <<s, t>>), "UNUSED", t, DispatchEdges)
    BY <2>2, <2>3, PathAppend DEF s, t
  <2> QED
    BY <1>2, <2>1, <2>4
<1> QED
  BY <1>1, <1>2

\* Both history tables can be replayed along seeded transitions, from the
\* first row to the current status.
THEOREM HistoryIsPathCorrect == Spec => []HistoryIsPath
<1>1. Init => HistoryIsPath
  BY DEF Init, HistoryIsPath, IsPath, Unused
<1>2. TypeOK /\ TypeOK' /\ HistoryIsPath /\ [Next]_vars => HistoryIsPath'
  <2> SUFFICES ASSUME TypeOK, TypeOK', HistoryIsPath, [Next]_vars PROVE HistoryIsPath'
    OBVIOUS
  <2>1. ASSUME NEW u \in Controllers, NEW i \in Incidents, NEW row \in IncidentRow,
               ControllerRecords(u, i, row)
        PROVE  HistoryIsPath'
    <3>1. /\ WritesRow(i, row) /\ RecordsMove(i, incidents[i].status, row.status)
          /\ \/ <<incidents[i].status, row.status, "CONTROLLER">> \in IncidentTransitions
             \/ incidents[i].status = row.status
          /\ UNCHANGED <<dispatch_requests, dispatch_histories>>
      BY <2>1 DEF ControllerRecords, ControllerWrites
    <3> QED
      BY <3>1, MoveExtendsPath DEF HistoryIsPath
  <2>2. ASSUME NEW u \in Controllers, NEW i \in Incidents, NEW d \in Dispatches \ Used,
               NEW p \in Dispatches \cup {NoDispatch}, NEW new \in DispatchRow,
               NEW row \in IncidentRow, AssignRecords(u, i, d, p, new, row)
        PROVE  HistoryIsPath'
    <3>1. /\ WritesRow(i, row) /\ RecordsMove(i, incidents[i].status, row.status)
          /\ incidents[i].status = row.status
      BY <2>2, RowWritten DEF AssignRecords, AssignWrites, RecordsMove
    <3>2. /\ dispatch_requests[d].status = "UNUSED" /\ new.status = "REQUESTED"
          /\ dispatch_requests' = [dispatch_requests EXCEPT ![d] = new]
          /\ dispatch_histories' =
               [dispatch_histories EXCEPT ![d] = Append(@, <<"UNUSED", "REQUESTED">>)]
      BY <2>2 DEF AssignRecords, AssignWrites, Used, Unused
    <3>3. <<"UNUSED", "REQUESTED">> \in DispatchEdges
      BY DEF DispatchEdges
    <3> QED
      BY <3>1, <3>2, <3>3, MoveExtendsPath, DispatchExtendsPath
      DEF HistoryIsPath, DispatchEdges
  <2>3. ASSUME NEW d \in Used, NEW i \in Incidents, NEW new \in DispatchRow,
               NEW row \in IncidentRow, ResponderWrites(d, new, i, row)
        PROVE  HistoryIsPath'
    <3>1. /\ WritesRow(i, row) /\ RecordsMove(i, incidents[i].status, row.status)
          /\ \/ <<incidents[i].status, row.status, "SYSTEM">> \in IncidentTransitions
             \/ incidents[i].status = row.status
      BY <2>3 DEF ResponderWrites
    <3>2. /\ dispatch_requests' = [dispatch_requests EXCEPT ![d] = new]
          /\ dispatch_histories' =
               [dispatch_histories EXCEPT ![d] =
                  Append(@, <<dispatch_requests[d].status, new.status>>)]
          /\ <<dispatch_requests[d].status, new.status, "RESPONDER">> \in DispatchTransitions
      BY <2>3 DEF ResponderWrites
    <3>3. <<dispatch_requests[d].status, new.status>> \in DispatchEdges
      BY <3>2 DEF DispatchEdges, Edges
    <3>4. d \in Dispatches
      BY DEF Used
    <3> QED
      BY <3>1, <3>2, <3>3, <3>4, MoveExtendsPath, DispatchExtendsPath
      DEF HistoryIsPath, DispatchEdges
  <2>4. CASE UNCHANGED vars
    BY <2>4 DEF vars, HistoryIsPath
  <2> QED
    BY <2>1, <2>2, <2>3, <2>4, StepEffect
<1> QED
  BY <1>1, <1>2, TypeCorrect, PTL DEF Spec

-----------------------------------------------------------------------------
(* Closing.  An incident is closed from ACTION_COMPLETED or by a decision; *)
(* that the former needs a REAL_RISK decision follows once every status    *)
(* after DISPATCH_REQUESTED is known to have one.                          *)

RiskStatuses == {"DISPATCH_REQUESTED"} \cup LiveStatuses

RiskDecided ==
    \A i \in Incidents :
      incidents[i].status \in RiskStatuses => LastDecision(i).type = "REAL_RISK"

Closure == Agreement /\ RiskDecided /\ ClosureJustified

\* The incident of a request that its responder still moves is not final.
LEMMA MovedIncidentIsOpen ==
    ASSUME Agreement, NEW d \in Used, NEW i \in Incidents, NEW new \in DispatchRow,
           NEW row \in IncidentRow, ResponderWrites(d, new, i, row)
    PROVE  /\ incidents[i].status \notin FinalStatuses
           /\ row.status \notin FinalStatuses
           /\ row.status \in RiskStatuses => incidents[i].status \in RiskStatuses
<1>1. <<dispatch_requests[d].status, incidents[i].status>> \in MatchingStatuses
  BY DEF ResponderWrites, Agreement, IncidentMatchesDispatch
<1>2. dispatch_requests[d].status \notin {"REJECTED", "ACTION_COMPLETED"}
  BY DEF ResponderWrites, DispatchTransitions
<1>3. incidents[i].status \notin FinalStatuses
  BY <1>1, <1>2 DEF MatchingStatuses, FinalStatuses
<1>4. \/ row.status = incidents[i].status
      \/ <<incidents[i].status, row.status, "SYSTEM">> \in IncidentTransitions
  BY DEF ResponderWrites
<1> QED
  BY <1>3, <1>4 DEF IncidentTransitions, FinalStatuses, RiskStatuses, LiveStatuses

\* A command of a controller closes an incident only with a reason.
LEMMA ControllerKeepsClosure ==
    ASSUME Closure, NEW u \in Controllers, NEW i \in Incidents,
           NEW row \in IncidentRow, ControllerRecords(u, i, row)
    PROVE  RiskDecided' /\ ClosureJustified'
<1> DEFINE s == incidents[i].status
           t == row.status
<1>1. TypeOK
  BY DEF Closure, Agreement
<1>2. incidents'[i] = row /\ \A j \in Incidents \ {i} : incidents'[j] = incidents[j]
  BY <1>1, RowWritten DEF ControllerRecords, ControllerWrites
<1>3. /\ Used' = Used /\ dispatch_requests' = dispatch_requests
      /\ field_action_reports' = field_action_reports
      /\ \A j \in Incidents : RequestsOf(j)' = RequestsOf(j)
      /\ \A j \in Incidents : \A p : IsLatest(p, j)' <=> IsLatest(p, j)
  BY RequestsKept DEF ControllerRecords, ControllerWrites
<1>4. \A j \in Incidents \ {i} : LastDecision(j)' = LastDecision(j)
  BY <1>1, DecisionsAfter DEF LastDecision
<1>5. \/ /\ s # "UNDER_REVIEW"
         /\ LastDecision(i)' = LastDecision(i)
      \/ /\ s = "UNDER_REVIEW"
         /\ \E ty \in DecisionTypes : t = DecisionTargets[ty] /\ LastDecision(i)'.type = ty
  <2>1. ASSUME NEW ty \in DecisionTypes, NEW active,
               incident_decisions'[i] = WithDecision(i, ty, u, active)
        PROVE  LastDecision(i)'.type = ty
    BY <1>1, <2>1, WithDecisionRows DEF LastDecision
  <2> QED
    BY <1>1, <2>1, DecisionsAfter DEF LastDecision
<1>6. /\ \/ <<s, t, "CONTROLLER">> \in IncidentTransitions
         \/ s = t /\ s = "UNDER_REVIEW"
      /\ row.closed <=> incidents[i].closed \/ t \in FinalStatuses
  BY DEF ControllerRecords, ControllerWrites
<1>7. s = "UNDER_REVIEW" => RequestsOf(i) = {}
  BY DEF Closure, Agreement, IncidentMatchesDispatch, RequestsOf, MatchingStatuses
<1>8. row.closed <=> t \in {"CLOSED", "FALSE_POSITIVE"}
  <2>1. incidents[i].closed <=> s \in {"CLOSED", "FALSE_POSITIVE"}
    BY DEF Closure, ClosureJustified
  <2>2. s \notin {"CLOSED", "FALSE_POSITIVE"}
    BY <1>6 DEF IncidentTransitions
  <2> QED
    BY <1>6, <2>1, <2>2 DEF FinalStatuses
<1>9. t = "FALSE_POSITIVE" => ClosedByDecision(i, "FALSE_POSITIVE")'
  <2>1. t = "FALSE_POSITIVE" => s = "UNDER_REVIEW"
    BY <1>6 DEF IncidentTransitions
  <2> QED
    BY <1>3, <1>5, <1>7, <2>1
    DEF DecisionTypes, DecisionTargets, ClosedByDecision
<1>10. t = "CLOSED" => (ClosedByDecision(i, "NO_DISPATCH") \/ ClosedByReport(i))'
  <2>1. t = "CLOSED" => s \in {"UNDER_REVIEW", "ACTION_COMPLETED"}
    BY <1>6 DEF IncidentTransitions
  <2>2. CASE t = "CLOSED" /\ s = "UNDER_REVIEW"
    BY <1>3, <1>5, <1>7, <2>2
    DEF DecisionTypes, DecisionTargets, ClosedByDecision
  <2>3. CASE t = "CLOSED" /\ s = "ACTION_COMPLETED"
    <3>1. LastDecision(i)'.type = "REAL_RISK"
      BY <1>5, <2>3 DEF Closure, RiskDecided, RiskStatuses, LiveStatuses
    <3>2. \E d \in RequestsOf(i) : IsLatest(d, i) /\ d \in field_action_reports
      BY <2>3 DEF ControllerRecords
    <3> QED
      BY <1>3, <3>1, <3>2 DEF ClosedByReport
  <2> QED
    BY <2>1, <2>2, <2>3
<1>11. t \in RiskStatuses => LastDecision(i)'.type = "REAL_RISK"
  <2>1. t \in RiskStatuses => s = "UNDER_REVIEW" /\ t = "DISPATCH_REQUESTED"
    BY <1>6 DEF IncidentTransitions, RiskStatuses, LiveStatuses
  <2> QED
    BY <1>5, <2>1 DEF DecisionTypes, DecisionTargets
<1> HIDE DEF s, t
<1>12. RiskDecided'
  BY <1>2, <1>4, <1>11 DEF Closure, RiskDecided, t
<1>13. ASSUME NEW j \in Incidents \ {i}
       PROVE  /\ \A ty : ClosedByDecision(j, ty)' <=> ClosedByDecision(j, ty)
              /\ ClosedByReport(j)' <=> ClosedByReport(j)
  BY <1>3, <1>4 DEF ClosedByDecision, ClosedByReport
<1>14. ClosureJustified'
  BY <1>2, <1>3, <1>8, <1>9, <1>10, <1>13 DEF Closure, ClosureJustified, t
<1> QED
  BY <1>12, <1>14

\* assign adds a request to an incident that is not closed.
LEMMA AssignKeepsClosure ==
    ASSUME Closure, NEW u \in Controllers, NEW i \in Incidents,
           NEW d \in Dispatches \ Used, NEW p \in Dispatches \cup {NoDispatch},
           NEW new \in DispatchRow, NEW row \in IncidentRow,
           AssignRecords(u, i, d, p, new, row)
    PROVE  RiskDecided' /\ ClosureJustified'
<1>1. TypeOK
  BY DEF Closure, Agreement
<1>2. /\ incidents'[i].status = "DISPATCH_REQUESTED"
      /\ incidents[i].status = "DISPATCH_REQUESTED"
      /\ incidents'[i].closed <=> incidents[i].closed
      /\ \A j \in Incidents \ {i} : incidents'[j] = incidents[j]
      /\ \A j \in Incidents : LastDecision(j)' = LastDecision(j)
      /\ field_action_reports' = field_action_reports
  <2>1. /\ incidents'[i] = row /\ \A j \in Incidents \ {i} : incidents'[j] = incidents[j]
    BY <1>1, RowWritten DEF AssignRecords, AssignWrites
  <2>2. row = [incidents[i] EXCEPT !.version = @ + 1] /\ incidents[i] \in IncidentRow
    BY <1>1 DEF AssignRecords, AssignWrites, TypeOK
  <2>3. row.closed = incidents[i].closed
    BY <2>2 DEF IncidentRow
  <2> QED
    BY <2>1, <2>3 DEF AssignRecords, AssignWrites, RecordsMove, LastDecision
<1>3. /\ dispatch_requests'[d].status = "REQUESTED"
      /\ \A e \in Dispatches \ {d} : dispatch_requests'[e] = dispatch_requests[e]
      /\ Used' = Used \cup {d}
      /\ \A j \in Incidents \ {i} : RequestsOf(j)' = RequestsOf(j)
      /\ \A j \in Incidents \ {i} : \A q : IsLatest(q, j)' <=> IsLatest(q, j)
  <2>1. new.incident = i /\ new.status = "REQUESTED"
    BY DEF AssignRecords, AssignWrites
  <2>2. dispatch_requests' = [dispatch_requests EXCEPT ![d] = new]
    BY DEF AssignRecords, AssignWrites
  <2> QED
    BY <1>1, <2>1, <2>2, RequestAdded
<1>4. d \notin field_action_reports
  BY <1>1 DEF TypeOK
<1>5. ASSUME NEW j \in Incidents \ {i}
      PROVE  /\ \A ty : ClosedByDecision(j, ty)' <=> ClosedByDecision(j, ty)
             /\ ClosedByReport(j)' <=> ClosedByReport(j)
  BY <1>2, <1>3 DEF ClosedByDecision, ClosedByReport
<1>6. RiskDecided'
  BY <1>2 DEF Closure, RiskDecided
<1>7. \A e \in Used' :
        e \in field_action_reports' <=> dispatch_requests'[e].status = "ACTION_COMPLETED"
  BY <1>2, <1>3, <1>4 DEF Closure, ClosureJustified, Used
<1>8. ClosureJustified'
  BY <1>2, <1>5, <1>7 DEF Closure, ClosureJustified
<1> QED
  BY <1>6, <1>8

\* A command of a responder writes a report exactly when it completes the request.
LEMMA ResponderKeepsClosure ==
    ASSUME Closure, NEW d \in Used, NEW i \in Incidents, NEW new \in DispatchRow,
           NEW row \in IncidentRow, ResponderWrites(d, new, i, row)
    PROVE  RiskDecided' /\ ClosureJustified'
<1>1. TypeOK /\ Agreement
  BY DEF Closure, Agreement
<1>2. incidents'[i] = row /\ \A j \in Incidents \ {i} : incidents'[j] = incidents[j]
  BY <1>1, RowWritten DEF ResponderWrites
<1>3. /\ row.closed <=> incidents[i].closed
      /\ \A j \in Incidents : LastDecision(j)' = LastDecision(j)
  BY DEF ResponderWrites, LastDecision
<1>4. /\ incidents[i].status \notin FinalStatuses /\ row.status \notin FinalStatuses
      /\ row.status \in RiskStatuses => incidents[i].status \in RiskStatuses
  BY <1>1, MovedIncidentIsOpen
<1>5. /\ dispatch_requests'[d] = new
      /\ \A e \in Dispatches \ {d} : dispatch_requests'[e] = dispatch_requests[e]
      /\ Used' = Used
      /\ \A j \in Incidents : RequestsOf(j)' = RequestsOf(j)
      /\ \A j \in Incidents : \A p : IsLatest(p, j)' <=> IsLatest(p, j)
  BY <1>1, RequestMoved DEF ResponderWrites
<1>6. /\ d \notin field_action_reports
      /\ field_action_reports' = IF new.status = "ACTION_COMPLETED"
                                 THEN field_action_reports \cup {d} ELSE field_action_reports
  <2>1. dispatch_requests[d].status # "ACTION_COMPLETED"
    BY DEF ResponderWrites, DispatchTransitions
  <2> QED
    BY <2>1 DEF ResponderWrites, Closure, ClosureJustified
<1>7. ASSUME NEW j \in Incidents
      PROVE  /\ \A ty : ClosedByDecision(j, ty)' <=> ClosedByDecision(j, ty)
             /\ ClosedByReport(j) => ClosedByReport(j)'
  BY <1>3, <1>5, <1>6 DEF ClosedByDecision, ClosedByReport
<1>8. RiskDecided'
  BY <1>2, <1>3, <1>4 DEF Closure, RiskDecided
<1>9. \A e \in Used' :
        e \in field_action_reports' <=> dispatch_requests'[e].status = "ACTION_COMPLETED"
  BY <1>5, <1>6 DEF Closure, ClosureJustified, Used
<1>10. ClosureJustified'
  BY <1>2, <1>3, <1>4, <1>7, <1>9 DEF Closure, ClosureJustified, FinalStatuses
<1> QED
  BY <1>8, <1>10

\* An incident is final exactly when closed_at is set, and then a decision or
\* the report of its last request says why.
THEOREM ClosureJustifiedCorrect == Spec => []ClosureJustified
<1>1. Init => RiskDecided /\ ClosureJustified
  BY DEF Init, RiskDecided, RiskStatuses, LiveStatuses, ClosureJustified, Used
<1>2. Agreement /\ RiskDecided /\ ClosureJustified /\ [Next]_vars
         => RiskDecided' /\ ClosureJustified'
  <2> SUFFICES ASSUME Agreement, RiskDecided, ClosureJustified, [Next]_vars
               PROVE  RiskDecided' /\ ClosureJustified'
    OBVIOUS
  <2>1. Closure /\ TypeOK
    BY DEF Closure, Agreement
  <2>2. CASE UNCHANGED vars
    <3>1. /\ Used' = Used /\ \A j \in Incidents : RequestsOf(j)' = RequestsOf(j)
          /\ \A j \in Incidents : \A p : IsLatest(p, j)' <=> IsLatest(p, j)
          /\ \A j \in Incidents : LastDecision(j)' = LastDecision(j)
      BY <2>2, RequestsKept DEF vars, LastDecision
    <3> QED
      BY <2>2, <3>1 DEF vars, RiskDecided, ClosureJustified, ClosedByDecision,
         ClosedByReport
  <2> QED
    BY <2>1, <2>2, StepEffect, ControllerKeepsClosure, AssignKeepsClosure,
       ResponderKeepsClosure
<1> QED
  BY <1>1, <1>2, AgreementCorrect, PTL DEF Spec

-----------------------------------------------------------------------------
(* What no step does.                                                      *)

\* No command changes a row that a client may know without raising its version.
THEOREM VersionGuardsRowCorrect == Spec => VersionGuardsRow
<1>1. TypeOK /\ [Next]_vars =>
        [/\ \A i \in Incidents :
              RowChanged(i) => incidents'[i].version = incidents[i].version + 1
         /\ \A d \in Used :
              dispatch_requests'[d] # dispatch_requests[d] =>
                 dispatch_requests'[d].version = dispatch_requests[d].version + 1
         /\ \A i, j \in Incidents : RowChanged(i) /\ RowChanged(j) => i = j]_vars
  <2> SUFFICES ASSUME TypeOK, [Next]_vars, ~ UNCHANGED vars
               PROVE  /\ \A i \in Incidents :
                           RowChanged(i) => incidents'[i].version = incidents[i].version + 1
                      /\ \A d \in Used :
                           dispatch_requests'[d] # dispatch_requests[d] =>
                              dispatch_requests'[d].version = dispatch_requests[d].version + 1
                      /\ \A i, j \in Incidents : RowChanged(i) /\ RowChanged(j) => i = j
    OBVIOUS
  <2>1. ASSUME NEW u \in Controllers, NEW i \in Incidents, NEW row \in IncidentRow,
               ControllerRecords(u, i, row)
        PROVE  /\ incidents'[i].version = incidents[i].version + 1
               /\ \A j \in Incidents \ {i} : ~ RowChanged(j)
               /\ dispatch_requests' = dispatch_requests
    <3>1. /\ incidents'[i].version = incidents[i].version + 1
          /\ \A j \in Incidents \ {i} : incidents'[j] = incidents[j]
          /\ dispatch_requests' = dispatch_requests
      BY <2>1, RowWritten DEF ControllerRecords, ControllerWrites
    <3>2. \A j \in Incidents \ {i} :
            /\ incident_decisions'[j] = incident_decisions[j]
            /\ ClaimsOf(j)' = ClaimsOf(j) /\ RequestsOf(j)' = RequestsOf(j)
      BY <2>1, <3>1, DecisionsAfter, RequestsKept
      DEF ControllerRecords, ControllerWrites, ClaimsOf
    <3> QED
      BY <3>1, <3>2 DEF RowChanged
  <2>2. ASSUME NEW u \in Controllers, NEW i \in Incidents, NEW d \in Dispatches \ Used,
               NEW p \in Dispatches \cup {NoDispatch}, NEW new \in DispatchRow,
               NEW row \in IncidentRow, AssignRecords(u, i, d, p, new, row)
        PROVE  /\ incidents'[i].version = incidents[i].version + 1
               /\ \A j \in Incidents \ {i} : ~ RowChanged(j)
               /\ \A e \in Used : dispatch_requests'[e] = dispatch_requests[e]
    <3>1. /\ incidents'[i].version = incidents[i].version + 1
          /\ \A j \in Incidents \ {i} : incidents'[j] = incidents[j]
          /\ UNCHANGED <<incident_claims, incident_decisions>>
      <4>1. /\ incidents'[i] = row
            /\ \A j \in Incidents \ {i} : incidents'[j] = incidents[j]
        BY <2>2, RowWritten DEF AssignRecords, AssignWrites
      <4>2. row.version = incidents[i].version + 1
        BY <2>2 DEF AssignRecords, AssignWrites, TypeOK, IncidentRow
      <4> QED
        BY <2>2, <4>1, <4>2 DEF AssignRecords, AssignWrites
    <3>2. /\ \A e \in Used : dispatch_requests'[e] = dispatch_requests[e]
          /\ \A j \in Incidents \ {i} : RequestsOf(j)' = RequestsOf(j)
      <4>1. new.incident = i
        BY <2>2 DEF AssignRecords, AssignWrites
      <4>2. dispatch_requests' = [dispatch_requests EXCEPT ![d] = new]
        BY <2>2 DEF AssignRecords, AssignWrites
      <4>3. Used \subseteq Dispatches \ {d}
        BY DEF Used
      <4> QED
        BY <4>1, <4>2, <4>3, RequestAdded
    <3> QED
      BY <3>1, <3>2 DEF RowChanged, ClaimsOf
  <2>3. ASSUME NEW d \in Used, NEW i \in Incidents, NEW new \in DispatchRow,
               NEW row \in IncidentRow, ResponderWrites(d, new, i, row)
        PROVE  /\ RowChanged(i) => incidents'[i].version = incidents[i].version + 1
               /\ \A j \in Incidents \ {i} : ~ RowChanged(j)
               /\ dispatch_requests'[d].version = dispatch_requests[d].version + 1
               /\ \A e \in Used \ {d} : dispatch_requests'[e] = dispatch_requests[e]
    <3>1. /\ incidents'[i] = row
          /\ row = incidents[i] \/ row.version = incidents[i].version + 1
          /\ \A j \in Incidents \ {i} : incidents'[j] = incidents[j]
          /\ UNCHANGED <<incident_claims, incident_decisions>>
      BY <2>3, RowWritten DEF ResponderWrites
    <3>2. /\ dispatch_requests'[d] = new
          /\ \A e \in Dispatches \ {d} : dispatch_requests'[e] = dispatch_requests[e]
          /\ \A j \in Incidents : RequestsOf(j)' = RequestsOf(j)
      BY <2>3, RequestMoved DEF ResponderWrites
    <3>3. new.version = dispatch_requests[d].version + 1 /\ Used \subseteq Dispatches
      BY <2>3 DEF ResponderWrites, Used
    <3> QED
      BY <3>1, <3>2, <3>3 DEF RowChanged, ClaimsOf
  <2> QED
    BY <2>1, <2>2, <2>3, StepEffect
<1> QED
  BY <1>1, TypeCorrect, PTL DEF Spec, VersionGuardsRow

\* No command touches an incident that is closed or dismissed, nor what was
\* recorded for it.
THEOREM FinalIsFinalCorrect == Spec => FinalIsFinal
<1>1. Agreement /\ [Next]_vars =>
        [\A i \in Incidents : incidents[i].status \in FinalStatuses =>
           /\ ~ RowChanged(i)
           /\ \A d \in RequestsOf(i) :
                /\ dispatch_requests'[d] = dispatch_requests[d]
                /\ d \in field_action_reports' <=> d \in field_action_reports]_vars
  <2> SUFFICES ASSUME Agreement, [Next]_vars, ~ UNCHANGED vars,
                      NEW f \in Incidents, incidents[f].status \in FinalStatuses
               PROVE  /\ ~ RowChanged(f)
                      /\ \A d \in RequestsOf(f) :
                           /\ dispatch_requests'[d] = dispatch_requests[d]
                           /\ d \in field_action_reports' <=> d \in field_action_reports
    OBVIOUS
  <2> TypeOK
    BY DEF Agreement
  <2>1. ASSUME NEW u \in Controllers, NEW i \in Incidents, NEW row \in IncidentRow,
               ControllerRecords(u, i, row)
        PROVE  /\ ~ RowChanged(f)
               /\ UNCHANGED <<dispatch_requests, field_action_reports>>
    <3>1. f # i
      BY <2>1 DEF ControllerRecords, ControllerWrites, IncidentTransitions, FinalStatuses
    <3>2. /\ incidents'[f] = incidents[f]
          /\ UNCHANGED <<dispatch_requests, field_action_reports>>
      BY <2>1, <3>1, RowWritten DEF ControllerRecords, ControllerWrites
    <3>3. /\ incident_decisions'[f] = incident_decisions[f]
          /\ ClaimsOf(f)' = ClaimsOf(f) /\ RequestsOf(f)' = RequestsOf(f)
      BY <2>1, <3>1, <3>2, DecisionsAfter, RequestsKept
      DEF ControllerRecords, ControllerWrites, ClaimsOf
    <3> QED
      BY <3>2, <3>3 DEF RowChanged
  <2>2. ASSUME NEW u \in Controllers, NEW i \in Incidents, NEW d \in Dispatches \ Used,
               NEW p \in Dispatches \cup {NoDispatch}, NEW new \in DispatchRow,
               NEW row \in IncidentRow, AssignRecords(u, i, d, p, new, row)
        PROVE  /\ ~ RowChanged(f)
               /\ \A e \in RequestsOf(f) : dispatch_requests'[e] = dispatch_requests[e]
               /\ UNCHANGED field_action_reports
    <3>1. f # i
      BY <2>2 DEF AssignRecords, AssignWrites, RecordsMove, FinalStatuses
    <3>2. /\ incidents'[f] = incidents[f]
          /\ UNCHANGED <<incident_claims, incident_decisions, field_action_reports>>
      BY <2>2, <3>1, RowWritten DEF AssignRecords, AssignWrites
    <3>3. /\ \A e \in Used : dispatch_requests'[e] = dispatch_requests[e]
          /\ RequestsOf(f)' = RequestsOf(f)
      <4>1. new.incident = i
        BY <2>2 DEF AssignRecords, AssignWrites
      <4>2. dispatch_requests' = [dispatch_requests EXCEPT ![d] = new]
        BY <2>2 DEF AssignRecords, AssignWrites
      <4>3. Used \subseteq Dispatches \ {d}
        BY DEF Used
      <4> QED
        BY <3>1, <4>1, <4>2, <4>3, RequestAdded
    <3> QED
      BY <3>2, <3>3 DEF RowChanged, ClaimsOf, RequestsOf
  <2>3. ASSUME NEW d \in Used, NEW i \in Incidents, NEW new \in DispatchRow,
               NEW row \in IncidentRow, ResponderWrites(d, new, i, row)
        PROVE  /\ ~ RowChanged(f)
               /\ \A e \in RequestsOf(f) :
                    /\ dispatch_requests'[e] = dispatch_requests[e]
                    /\ e \in field_action_reports' <=> e \in field_action_reports
    <3>1. f # i
      BY <2>3, MovedIncidentIsOpen
    <3>2. /\ incidents'[f] = incidents[f]
          /\ UNCHANGED <<incident_claims, incident_decisions>>
          /\ field_action_reports' \in {field_action_reports, field_action_reports \cup {d}}
      BY <2>3, <3>1, RowWritten DEF ResponderWrites
    <3>3. /\ \A e \in Dispatches \ {d} : dispatch_requests'[e] = dispatch_requests[e]
          /\ RequestsOf(f)' = RequestsOf(f)
      BY <2>3, RequestMoved DEF ResponderWrites
    <3>4. RequestsOf(f) \subseteq Dispatches \ {d}
      BY <2>3, <3>1 DEF ResponderWrites, RequestsOf, Used
    <3> QED
      BY <3>2, <3>3, <3>4 DEF RowChanged, ClaimsOf
  <2> QED
    BY <2>1, <2>2, <2>3, StepEffect
<1> QED
  BY <1>1, AgreementCorrect, PTL DEF Spec, FinalIsFinal

-----------------------------------------------------------------------------
(* Counting.  The tables are finite, so that what a step adds to them adds *)
(* to the numbers of attempts and of events.                               *)

TablesFinite == IsFiniteSet(Used) /\ IsFiniteSet(event_outbox)

\* What is selected from a finite table is finite.
LEMMA SelectionsFinite ==
    ASSUME TablesFinite
    PROVE  /\ \A i : IsFiniteSet(RequestsOf(i)) /\ IsFiniteSet(RejectedOf(i))
           /\ \A a, x : IsFiniteSet(EventsOf(a, x))
<1>1. \A i : RequestsOf(i) \in SUBSET Used /\ RejectedOf(i) \in SUBSET Used
  BY DEF RequestsOf, RejectedOf
<1>2. \A a, x : EventsOf(a, x) \in SUBSET event_outbox
  BY DEF EventsOf
<1> QED
  BY <1>1, <1>2, FS_Subset DEF TablesFinite

\* A step adds at most one request and two events.
LEMMA FiniteStep ==
    ASSUME TypeOK, TablesFinite, [Next]_vars
    PROVE  TablesFinite'
<1>1. \A x, y : /\ IsFiniteSet(event_outbox \cup {x})
               /\ IsFiniteSet((event_outbox \cup {x}) \cup {y})
  BY FS_AddElement DEF TablesFinite
<1>2. ASSUME NEW u \in Controllers, NEW i \in Incidents, NEW row \in IncidentRow,
             ControllerRecords(u, i, row)
      PROVE  TablesFinite'
  BY <1>1, <1>2, RequestsKept DEF TablesFinite, ControllerRecords, ControllerWrites
<1>3. ASSUME NEW u \in Controllers, NEW i \in Incidents, NEW d \in Dispatches \ Used,
             NEW p \in Dispatches \cup {NoDispatch}, NEW new \in DispatchRow,
             NEW row \in IncidentRow, AssignRecords(u, i, d, p, new, row)
      PROVE  TablesFinite'
  <2>1. new.incident = i
    BY <1>3 DEF AssignRecords, AssignWrites
  <2>2. dispatch_requests' = [dispatch_requests EXCEPT ![d] = new]
    BY <1>3 DEF AssignRecords, AssignWrites
  <2>3. Used' = Used \cup {d}
    BY <2>1, <2>2, RequestAdded
  <2>4. IsFiniteSet(Used')
    BY <2>3, FS_AddElement DEF TablesFinite
  <2>5. IsFiniteSet(event_outbox')
    BY <1>1, <1>3 DEF AssignRecords, AssignWrites
  <2> QED
    BY <2>4, <2>5 DEF TablesFinite
<1>4. ASSUME NEW d \in Used, NEW i \in Incidents, NEW new \in DispatchRow,
             NEW row \in IncidentRow, ResponderWrites(d, new, i, row)
      PROVE  TablesFinite'
  <2>1. Used' = Used
    BY <1>4, RequestMoved DEF ResponderWrites
  <2> DEFINE x == [aggregate |-> "DISPATCH", id |-> d, version |-> new.version,
                   status |-> new.status]
             y == [aggregate |-> "INCIDENT", id |-> i, version |-> row.version,
                   status |-> row.status]
  <2>2. IsFiniteSet(event_outbox')
    <3>1. \/ event_outbox' = event_outbox \cup {x}
          \/ event_outbox' = (event_outbox \cup {x}) \cup {y}
      BY <1>4 DEF ResponderWrites
    <3> HIDE DEF x, y
    <3> QED
      BY <1>1, <3>1
  <2> QED
    BY <2>1, <2>2 DEF TablesFinite
<1>5. CASE UNCHANGED vars
  BY <1>5 DEF vars, TablesFinite, Used
<1> QED
  BY <1>2, <1>3, <1>4, <1>5, StepEffect

-----------------------------------------------------------------------------
(* Attempts.                                                               *)

\* An incident that assign writes a request for has rejected ones only, and
\* the new one is the next attempt.
LEMMA NextAttempt ==
    ASSUME Agreement, TablesFinite, AttemptChain, NEW u \in Controllers,
           NEW i \in Incidents, NEW d \in Dispatches \ Used,
           NEW p \in Dispatches \cup {NoDispatch}, NEW new \in DispatchRow,
           NEW row \in IncidentRow, AssignRecords(u, i, d, p, new, row)
    PROVE  /\ \A e \in RequestsOf(i) : dispatch_requests[e].status = "REJECTED"
           /\ new.attempt = Cardinality(RequestsOf(i)) + 1
           /\ IF new.attempt = 1 THEN p = NoDispatch
              ELSE p \in RequestsOf(i) /\ new.attempt = dispatch_requests[p].attempt + 1
<1> DEFINE n == Cardinality(RequestsOf(i))
<1>1. IsFiniteSet(RequestsOf(i)) /\ n \in Nat
  BY SelectionsFinite, FS_CardinalityType
<1>2. /\ incidents[i].status = "DISPATCH_REQUESTED"
      /\ \A e \in RequestsOf(i) : ~ IsActive(e)
      /\ IsLatest(p, i)
  BY DEF AssignRecords, AssignWrites, RecordsMove
<1>3. new.attempt = IF p = NoDispatch THEN 1 ELSE dispatch_requests[p].attempt + 1
  BY DEF AssignRecords, AssignWrites
<1>4. \A e \in RequestsOf(i) : dispatch_requests[e].status = "REJECTED"
  <2> SUFFICES ASSUME NEW e \in RequestsOf(i)
               PROVE  dispatch_requests[e].status = "REJECTED"
    OBVIOUS
  <2>1. e \in Used /\ dispatch_requests[e].incident = i
    BY DEF RequestsOf
  <2>2. <<dispatch_requests[e].status, "DISPATCH_REQUESTED">> \in MatchingStatuses
    BY <1>2, <2>1 DEF Agreement, IncidentMatchesDispatch
  <2>3. dispatch_requests[e].status # "REQUESTED"
    BY <1>2, <2>1 DEF IsActive, InactiveStatuses
  <2> QED
    BY <2>2, <2>3 DEF MatchingStatuses
<1>5. AttemptsOf(i) = 1..n
  BY DEF AttemptChain
<1>6. CASE RequestsOf(i) = {}
  <2>1. n = 0
    BY <1>6, FS_EmptySet
  <2>2. p = NoDispatch
    BY <1>2, <1>6 DEF IsLatest
  <2> QED
    BY <1>3, <1>4, <2>1, <2>2
<1>7. CASE RequestsOf(i) # {}
  <2>1. /\ p \in RequestsOf(i)
        /\ \A e \in RequestsOf(i) : dispatch_requests[e].attempt <= dispatch_requests[p].attempt
    BY <1>2, <1>7 DEF IsLatest
  <2>2. p # NoDispatch
    BY <2>1, DispatchesAssumption DEF RequestsOf, Used
  <2>3. n # 0
    BY <1>1, <1>7, FS_EmptySet
  <2> HIDE DEF n
  <2>4. dispatch_requests[p].attempt \in 1..n
    BY <1>5, <2>1 DEF AttemptsOf
  <2>5. n \in AttemptsOf(i)
    BY <1>1, <1>5, <2>3
  <2>6. \E e \in RequestsOf(i) : dispatch_requests[e].attempt = n
    BY <2>5 DEF AttemptsOf
  <2>7. dispatch_requests[p].attempt = n
    BY <1>1, <2>1, <2>4, <2>6
  <2> QED
    BY <1>1, <1>3, <1>4, <2>1, <2>2, <2>3, <2>7 DEF n
<1> QED
  BY <1>6, <1>7

\* What is recorded of the attempts of one incident.
Attempts(i) ==
    LET n == Cardinality(RequestsOf(i))
    IN  /\ AttemptsOf(i) = 1..n
        /\ \A d \in RequestsOf(i) :
              /\ PointsBack(i, d)
              /\ dispatch_requests[d].attempt < n => dispatch_requests[d].status = "REJECTED"

\* assign adds the next attempt to the chain.
LEMMA AssignKeepsAttempts ==
    ASSUME Agreement, TablesFinite, AttemptChain, NEW u \in Controllers,
           NEW i \in Incidents, NEW d \in Dispatches \ Used,
           NEW p \in Dispatches \cup {NoDispatch}, NEW new \in DispatchRow,
           NEW row \in IncidentRow, AssignRecords(u, i, d, p, new, row)
    PROVE  AttemptChain'
<1> DEFINE R == RequestsOf(i)
           n == Cardinality(R)
<1>1. TypeOK /\ new.incident = i /\ new.previous = p
      /\ dispatch_requests' = [dispatch_requests EXCEPT ![d] = new]
  BY DEF Agreement, AssignRecords, AssignWrites
<1>2. /\ dispatch_requests'[d] = new
      /\ \A e \in Dispatches \ {d} : dispatch_requests'[e] = dispatch_requests[e]
      /\ RequestsOf(i)' = R \cup {d}
      /\ \A j \in Incidents \ {i} : RequestsOf(j)' = RequestsOf(j)
  BY <1>1, RequestAdded
<1>3. IsFiniteSet(R) /\ n \in Nat
  BY SelectionsFinite, FS_CardinalityType
<1>4. \A j \in Incidents : RequestsOf(j) \subseteq Dispatches \ {d}
  BY DEF RequestsOf, Used
<1>5. Cardinality(R \cup {d}) = n + 1
  BY <1>3, <1>4, FS_AddElement
<1>6. /\ \A e \in R : dispatch_requests[e].status = "REJECTED"
      /\ new.attempt = n + 1
      /\ IF new.attempt = 1 THEN p = NoDispatch
         ELSE p \in R /\ new.attempt = dispatch_requests[p].attempt + 1
  BY NextAttempt
<1>7. Attempts(i)
  BY DEF AttemptChain, Attempts
<1>8. ASSUME NEW j \in Incidents \ {i} PROVE Attempts(j)'
  <2>1. Attempts(j)
    BY DEF AttemptChain, Attempts
  <2>2. \A e \in RequestsOf(j) : dispatch_requests'[e] = dispatch_requests[e]
    BY <1>2, <1>4
  <2>3. AttemptsOf(j)' = AttemptsOf(j)
    BY <1>2, <2>2 DEF AttemptsOf
  <2>4. \A e \in RequestsOf(j) : PointsBack(j, e) => PointsBack(j, e)'
    BY <1>2, <2>2 DEF PointsBack
  <2> QED
    BY <1>2, <2>1, <2>2, <2>3, <2>4 DEF Attempts
<1>9. Attempts(i)'
  <2>1. \A e \in R : dispatch_requests'[e] = dispatch_requests[e]
    BY <1>2, <1>4
  <2>2. AttemptsOf(i) = 1..n /\ \A e \in R : PointsBack(i, e)
    BY <1>7 DEF Attempts
  <2> HIDE DEF R, n
  <2>3. AttemptsOf(i)' = AttemptsOf(i) \cup {n + 1}
    BY <1>2, <1>6, <2>1 DEF AttemptsOf, R
  <2>4. AttemptsOf(i)' = 1..(n + 1)
    BY <1>3, <2>2, <2>3
  <2>5. \A e \in R : PointsBack(i, e)'
    BY <1>2, <2>1, <2>2 DEF PointsBack, R
  <2>6. PointsBack(i, d)'
    <3>1. CASE new.attempt = 1
      BY <1>1, <1>2, <1>6, <3>1 DEF PointsBack
    <3>2. CASE new.attempt # 1
      BY <1>1, <1>2, <1>6, <2>1, <3>2 DEF PointsBack
    <3> QED
      BY <3>1, <3>2
  <2>7. \A e \in R : dispatch_requests'[e].status = "REJECTED"
    BY <1>6, <2>1
  <2> QED
    <3>1. Cardinality(RequestsOf(i)') = n + 1
      BY <1>2, <1>5 DEF R, n
    <3>2. \A e \in R \cup {d} :
            /\ PointsBack(i, e)'
            /\ dispatch_requests'[e].attempt < n + 1
                 => dispatch_requests'[e].status = "REJECTED"
      BY <1>2, <1>3, <1>6, <2>5, <2>6, <2>7
    <3> QED
      BY <1>2, <2>4, <3>1, <3>2 DEF Attempts
<1>10. \A j \in Incidents : Attempts(j)'
  BY <1>8, <1>9
<1> QED
  BY <1>10 DEF AttemptChain, Attempts

\* A command of a responder moves the last attempt only.
LEMMA ResponderKeepsAttempts ==
    ASSUME TypeOK, AttemptChain, NEW d \in Used, NEW i \in Incidents,
           NEW new \in DispatchRow, NEW row \in IncidentRow,
           ResponderWrites(d, new, i, row)
    PROVE  AttemptChain'
<1>1. /\ dispatch_requests'[d] = new
      /\ \A e \in Dispatches \ {d} : dispatch_requests'[e] = dispatch_requests[e]
      /\ \A j \in Incidents : RequestsOf(j)' = RequestsOf(j)
  BY RequestMoved DEF ResponderWrites
<1>2. /\ new.attempt = dispatch_requests[d].attempt
      /\ new.previous = dispatch_requests[d].previous
      /\ dispatch_requests[d].status # "REJECTED"
  BY DEF ResponderWrites, DispatchTransitions
<1>3. \A j \in Incidents : RequestsOf(j) \subseteq Dispatches
  BY DEF RequestsOf, Used
<1>4. \A e \in Dispatches : /\ dispatch_requests'[e].attempt = dispatch_requests[e].attempt
                           /\ dispatch_requests'[e].previous = dispatch_requests[e].previous
  BY <1>1, <1>2
<1>5. ASSUME NEW j \in Incidents PROVE Attempts(j)'
  <2>1. Attempts(j)
    BY DEF AttemptChain, Attempts
  <2>2. AttemptsOf(j)' = AttemptsOf(j)
    BY <1>1, <1>3, <1>4 DEF AttemptsOf
  <2>3. \A e \in RequestsOf(j) : PointsBack(j, e) => PointsBack(j, e)'
    BY <1>1, <1>3, <1>4 DEF PointsBack
  <2>4. \A e \in RequestsOf(j) :
          dispatch_requests[e].status = "REJECTED" => dispatch_requests'[e].status = "REJECTED"
    BY <1>1, <1>2, <1>3
  <2> QED
    BY <1>1, <1>3, <1>4, <2>1, <2>2, <2>3, <2>4 DEF Attempts
<1> QED
  BY <1>5 DEF AttemptChain, Attempts

\* The attempts at an incident are numbered without gaps, each points to the
\* one before, and only the last was not rejected.
THEOREM AttemptChainCorrect == Spec => []AttemptChain
<1>1. Init => TablesFinite /\ AttemptChain
  <2> SUFFICES ASSUME Init PROVE TablesFinite /\ AttemptChain
    OBVIOUS
  <2>1. Used = {} /\ event_outbox = {} /\ \A i \in Incidents : RequestsOf(i) = {}
    BY DEF Init, Used, RequestsOf
  <2>2. \A i \in Incidents : Cardinality(RequestsOf(i)) = 0
    BY <2>1, FS_EmptySet
  <2>3. \A i \in Incidents : AttemptsOf(i) = {}
    BY <2>1 DEF AttemptsOf
  <2>4. 1..0 = {}
    OBVIOUS
  <2>5. AttemptChain
    BY <2>1, <2>2, <2>3, <2>4 DEF AttemptChain
  <2> QED
    BY <2>1, <2>5, FS_EmptySet DEF TablesFinite
<1>2. Agreement /\ TablesFinite /\ AttemptChain /\ [Next]_vars
         => TablesFinite' /\ AttemptChain'
  <2> SUFFICES ASSUME Agreement, TablesFinite, AttemptChain, [Next]_vars
               PROVE  TablesFinite' /\ AttemptChain'
    OBVIOUS
  <2>1. TypeOK
    BY DEF Agreement
  <2>2. TablesFinite'
    BY <2>1, FiniteStep
  <2>3. ASSUME UNCHANGED dispatch_requests PROVE AttemptChain'
    <3>1. \A i \in Incidents : RequestsOf(i)' = RequestsOf(i)
      BY <2>3, RequestsKept
    <3> QED
      BY <2>3, <3>1 DEF AttemptChain, AttemptsOf, PointsBack
  <2>4. ASSUME NEW u \in Controllers, NEW i \in Incidents, NEW row \in IncidentRow,
               ControllerRecords(u, i, row)
        PROVE  AttemptChain'
    BY <2>3, <2>4 DEF ControllerRecords, ControllerWrites
  <2>5. CASE UNCHANGED vars
    <3>1. UNCHANGED dispatch_requests
      BY <2>5 DEF vars
    <3> QED
      BY <2>2, <2>3, <3>1
  <2> QED
    BY <2>1, <2>2, <2>4, <2>5, StepEffect, AssignKeepsAttempts, ResponderKeepsAttempts
<1> QED
  BY <1>1, <1>2, AgreementCorrect, PTL DEF Spec

-----------------------------------------------------------------------------
(* Events.  An event carries the version its command wrote, which is above *)
(* all versions that were published for its aggregate before.              *)

\* No event is published for a request before it exists.
EventsKnown == \A e \in event_outbox : e.aggregate = "DISPATCH" => e.id \in Used

\* An event of the next version of a request whose versions all have one.
LEMMA NextRequestEvent ==
    ASSUME NEW E, IsFiniteSet(E), NEW v \in Nat, NEW e, e.version = v + 1,
           {x.version : x \in E} = 0..v, Cardinality(E) = v + 1
    PROVE  /\ {x.version : x \in E \cup {e}} = 0..(v + 1)
           /\ Cardinality(E \cup {e}) = (v + 1) + 1
           /\ \A x \in E \cup {e} : x.version = v + 1 => x = e
<1>1. \A x \in E : x.version \in 0..v
  OBVIOUS
<1>2. e \notin E
  BY <1>1
<1>3. Cardinality(E \cup {e}) = (v + 1) + 1
  BY <1>2, FS_AddElement
<1>4. {x.version : x \in E \cup {e}} = {x.version : x \in E} \cup {v + 1}
  OBVIOUS
<1>5. {x.version : x \in E \cup {e}} = 0..(v + 1)
  BY <1>4
<1> QED
  BY <1>1, <1>3, <1>5

\* An event of the next version of an incident.
LEMMA NextIncidentEvent ==
    ASSUME NEW E, IsFiniteSet(E), NEW v \in Nat, NEW e, e.version = v + 1,
           \A x \in E : x.version \in 1..v
    PROVE  /\ \A x \in E \cup {e} : x.version \in 1..(v + 1)
           /\ Cardinality(E \cup {e}) = Cardinality(E) + 1
           /\ \A x \in E \cup {e} :
                (\A f \in E \cup {e} : f.version <= x.version) => x = e
<1>1. e \notin E
  OBVIOUS
<1>2. Cardinality(E \cup {e}) = Cardinality(E) + 1
  BY <1>1, FS_AddElement
<1>3. \A x \in E \cup {e} : x.version \in 1..(v + 1)
  OBVIOUS
<1>4. ASSUME NEW x \in E \cup {e}, \A f \in E \cup {e} : f.version <= x.version
      PROVE  x = e
  BY <1>4
<1> QED
  BY <1>2, <1>3, <1>4

\* What a step does to the account of an incident j: it leaves it alone, it
\* moves the incident and says so, or it takes a version for a request that was
\* assigned or rejected and publishes nothing about j.
Unaffected(j) ==
    /\ incidents'[j].version = incidents[j].version
    /\ incidents'[j].status = incidents[j].status
    /\ EventsOf("INCIDENT", j)' = EventsOf("INCIDENT", j)
    /\ RequestsOf(j)' = RequestsOf(j) /\ RejectedOf(j)' = RejectedOf(j)

Announced(j) ==
    /\ incidents'[j].version = incidents[j].version + 1
    /\ EventsOf("INCIDENT", j)' =
          EventsOf("INCIDENT", j) \cup {[aggregate |-> "INCIDENT", id |-> j,
                                        version |-> incidents[j].version + 1,
                                        status |-> incidents'[j].status]}
    /\ RequestsOf(j)' = RequestsOf(j) /\ RejectedOf(j)' = RejectedOf(j)

TakenByRequest(j) ==
    /\ incidents'[j].version = incidents[j].version + 1
    /\ incidents'[j].status = incidents[j].status
    /\ EventsOf("INCIDENT", j)' = EventsOf("INCIDENT", j)
    /\ \E d : \/ /\ d \notin RequestsOf(j) /\ RequestsOf(j)' = RequestsOf(j) \cup {d}
               /\ RejectedOf(j)' = RejectedOf(j)
            \/ /\ d \notin RejectedOf(j) /\ RejectedOf(j)' = RejectedOf(j) \cup {d}
               /\ RequestsOf(j)' = RequestsOf(j)

\* In each case the events still account for the versions of the incident.
LEMMA IncidentStaysAccounted ==
    ASSUME TypeOK, TablesFinite, NEW j \in Incidents, IncidentAccounted(j),
           Unaffected(j) \/ Announced(j) \/ TakenByRequest(j)
    PROVE  IncidentAccounted(j)'
<1> DEFINE E == EventsOf("INCIDENT", j)
           v == incidents[j].version
<1>1. v \in Nat
  BY DEF TypeOK, IncidentRow
<1>2. /\ IsFiniteSet(E) /\ IsFiniteSet(RequestsOf(j)) /\ IsFiniteSet(RejectedOf(j))
      /\ Cardinality(E) \in Nat /\ Cardinality(RequestsOf(j)) \in Nat
      /\ Cardinality(RejectedOf(j)) \in Nat
  BY SelectionsFinite, FS_CardinalityType
<1>3. /\ \A e \in E : e.version \in 1..v
      /\ Cardinality(E) + Cardinality(RequestsOf(j)) + Cardinality(RejectedOf(j)) = v
      /\ \A e \in E : (\A f \in E : f.version <= e.version)
                       => e.status = incidents[j].status
  BY DEF IncidentAccounted
<1>4. CASE Unaffected(j)
  BY <1>3, <1>4 DEF Unaffected, IncidentAccounted
<1>5. CASE Announced(j)
  <2> DEFINE x == [aggregate |-> "INCIDENT", id |-> j, version |-> v + 1,
                   status |-> incidents'[j].status]
  <2>1. x.version = v + 1 /\ x.status = incidents'[j].status
    OBVIOUS
  <2>2. /\ incidents'[j].version = v + 1 /\ EventsOf("INCIDENT", j)' = E \cup {x}
        /\ RequestsOf(j)' = RequestsOf(j) /\ RejectedOf(j)' = RejectedOf(j)
    BY <1>5 DEF Announced
  <2> HIDE DEF x, E, v
  <2>3. /\ \A e \in E \cup {x} : e.version \in 1..(v + 1)
        /\ Cardinality(E \cup {x}) = Cardinality(E) + 1
        /\ \A e \in E \cup {x} : (\A f \in E \cup {x} : f.version <= e.version) => e = x
    BY <1>1, <1>2, <1>3, <2>1, NextIncidentEvent
  <2>4. Cardinality(E \cup {x}) + Cardinality(RequestsOf(j)) + Cardinality(RejectedOf(j))
          = v + 1
    BY <1>1, <1>2, <1>3, <2>3
  <2> QED
    BY <2>1, <2>2, <2>3, <2>4 DEF IncidentAccounted
<1>6. CASE TakenByRequest(j)
  <2>1. /\ incidents'[j].version = v + 1
        /\ incidents'[j].status = incidents[j].status
        /\ EventsOf("INCIDENT", j)' = E
    BY <1>6 DEF TakenByRequest
  <2>2. Cardinality(RequestsOf(j)') + Cardinality(RejectedOf(j)')
          = Cardinality(RequestsOf(j)) + Cardinality(RejectedOf(j)) + 1
    <3>1. PICK d :
            \/ /\ d \notin RequestsOf(j) /\ RequestsOf(j)' = RequestsOf(j) \cup {d}
               /\ RejectedOf(j)' = RejectedOf(j)
            \/ /\ d \notin RejectedOf(j) /\ RejectedOf(j)' = RejectedOf(j) \cup {d}
               /\ RequestsOf(j)' = RequestsOf(j)
      BY <1>6 DEF TakenByRequest
    <3>2. /\ d \notin RequestsOf(j) => Cardinality(RequestsOf(j) \cup {d})
                                       = Cardinality(RequestsOf(j)) + 1
          /\ d \notin RejectedOf(j) => Cardinality(RejectedOf(j) \cup {d})
                                       = Cardinality(RejectedOf(j)) + 1
      BY <1>2, FS_AddElement
    <3>3. CASE d \notin RequestsOf(j) /\ RequestsOf(j)' = RequestsOf(j) \cup {d}
                 /\ RejectedOf(j)' = RejectedOf(j)
      BY <1>2, <3>2, <3>3
    <3>4. CASE d \notin RejectedOf(j) /\ RejectedOf(j)' = RejectedOf(j) \cup {d}
                 /\ RequestsOf(j)' = RequestsOf(j)
      BY <1>2, <3>2, <3>4
    <3> QED
      BY <3>1, <3>3, <3>4
  <2> HIDE DEF E, v
  <2>3. \A e \in E : e.version \in 1..(v + 1)
    BY <1>1, <1>3
  <2>4. Cardinality(RequestsOf(j)') \in Nat /\ Cardinality(RejectedOf(j)') \in Nat
    <3>1. IsFiniteSet(RequestsOf(j)') /\ IsFiniteSet(RejectedOf(j)')
      BY <1>2, <1>6, FS_AddElement DEF TakenByRequest
    <3> QED
      BY <3>1, FS_CardinalityType
  <2>5. Cardinality(E) + Cardinality(RequestsOf(j)') + Cardinality(RejectedOf(j)') = v + 1
    BY <1>1, <1>2, <1>3, <2>2, <2>4
  <2> QED
    BY <1>3, <2>1, <2>3, <2>5 DEF IncidentAccounted
<1> QED
  BY <1>4, <1>5, <1>6

\* The account of a request that a step leaves alone.
LEMMA RequestStaysAccounted ==
    ASSUME NEW d, RequestAccounted(d),
           EventsOf("DISPATCH", d)' = EventsOf("DISPATCH", d),
           dispatch_requests'[d] = dispatch_requests[d]
    PROVE  RequestAccounted(d)'
BY DEF RequestAccounted

\* And of one that moves on: one version and one event more.
LEMMA RequestMovesAccounted ==
    ASSUME TypeOK, TablesFinite, NEW d \in Used, RequestAccounted(d),
           NEW new \in DispatchRow, dispatch_requests'[d] = new,
           new.version = dispatch_requests[d].version + 1,
           EventsOf("DISPATCH", d)' = EventsOf("DISPATCH", d) \cup
              {[aggregate |-> "DISPATCH", id |-> d, version |-> new.version,
                status |-> new.status]}
    PROVE  RequestAccounted(d)'
<1> DEFINE E == EventsOf("DISPATCH", d)
           v == dispatch_requests[d].version
           x == [aggregate |-> "DISPATCH", id |-> d, version |-> new.version,
                 status |-> new.status]
<1>1. v \in Nat
  BY DEF TypeOK, Used, DispatchRow
<1>2. IsFiniteSet(E)
  BY SelectionsFinite
<1>3. {e.version : e \in E} = 0..v /\ Cardinality(E) = v + 1
  BY DEF RequestAccounted
<1>4. x.version = v + 1 /\ x.status = new.status
  OBVIOUS
<1>5. EventsOf("DISPATCH", d)' = E \cup {x}
  OBVIOUS
<1> HIDE DEF E, v, x
<1>6. /\ {e.version : e \in E \cup {x}} = 0..(v + 1)
      /\ Cardinality(E \cup {x}) = (v + 1) + 1
      /\ \A e \in E \cup {x} : e.version = v + 1 => e = x
  BY <1>1, <1>2, <1>3, <1>4, NextRequestEvent
<1>7. dispatch_requests'[d].version = v + 1
  BY DEF v
<1> QED
  BY <1>4, <1>5, <1>6, <1>7 DEF RequestAccounted

Accounts ==
    TypeOK /\ TablesFinite /\ EventsKnown /\ OutboxAccountsForVersions

\* A command of a controller publishes the new version of its incident.
LEMMA ControllerAccounts ==
    ASSUME Accounts, NEW u \in Controllers, NEW i \in Incidents,
           NEW row \in IncidentRow, ControllerRecords(u, i, row)
    PROVE  EventsKnown' /\ OutboxAccountsForVersions'
<1> DEFINE x == [aggregate |-> "INCIDENT", id |-> i, version |-> row.version,
                 status |-> row.status]
<1>1. TypeOK /\ TablesFinite /\ x.aggregate = "INCIDENT" /\ x.id = i
  BY DEF Accounts
<1>2. incidents'[i] = row /\ \A j \in Incidents \ {i} : incidents'[j] = incidents[j]
  BY <1>1, RowWritten DEF ControllerRecords, ControllerWrites
<1>3. /\ event_outbox' = event_outbox \cup {x}
      /\ row.version = incidents[i].version + 1
      /\ dispatch_requests' = dispatch_requests
  BY DEF ControllerRecords, ControllerWrites
<1>4. Used' = Used /\ \A j \in Incidents : /\ RequestsOf(j)' = RequestsOf(j)
                                          /\ RejectedOf(j)' = RejectedOf(j)
  BY <1>3, RequestsKept
<1>5. /\ \A d \in Used : EventsOf("DISPATCH", d)' = EventsOf("DISPATCH", d)
      /\ \A j \in Incidents \ {i} : EventsOf("INCIDENT", j)' = EventsOf("INCIDENT", j)
      /\ EventsOf("INCIDENT", i)' = EventsOf("INCIDENT", i) \cup {x}
  <2> HIDE DEF x
  <2> QED
    BY <1>1, <1>3 DEF EventsOf
<1>6. Announced(i)
  BY <1>2, <1>3, <1>4, <1>5 DEF Announced
<1>7. \A j \in Incidents \ {i} : Unaffected(j)
  BY <1>2, <1>4, <1>5 DEF Unaffected
<1> HIDE DEF x
<1>8. \A j \in Incidents : IncidentAccounted(j)'
  BY <1>1, <1>6, <1>7, IncidentStaysAccounted DEF Accounts, OutboxAccountsForVersions
<1>9. \A d \in Used : RequestAccounted(d)'
  BY <1>3, <1>5, RequestStaysAccounted DEF Accounts, OutboxAccountsForVersions
<1>10. EventsKnown'
  BY <1>1, <1>3, <1>4 DEF Accounts, EventsKnown
<1> QED
  BY <1>4, <1>8, <1>9, <1>10 DEF OutboxAccountsForVersions

\* assign publishes the first version of the request and takes a version of the
\* incident for it.
LEMMA AssignAccounts ==
    ASSUME Accounts, NEW u \in Controllers, NEW i \in Incidents,
           NEW d \in Dispatches \ Used, NEW p \in Dispatches \cup {NoDispatch},
           NEW new \in DispatchRow, NEW row \in IncidentRow,
           AssignRecords(u, i, d, p, new, row)
    PROVE  EventsKnown' /\ OutboxAccountsForVersions'
<1> DEFINE x == [aggregate |-> "DISPATCH", id |-> d, version |-> 0,
                 status |-> "REQUESTED"]
<1>1. /\ TypeOK /\ TablesFinite
      /\ x.aggregate = "DISPATCH" /\ x.id = d /\ x.version = 0 /\ x.status = "REQUESTED"
  BY DEF Accounts
<1>2. /\ incidents'[i] = row /\ row.version = incidents[i].version + 1
      /\ row.status = incidents[i].status
      /\ \A j \in Incidents \ {i} : incidents'[j] = incidents[j]
  <2>1. incidents'[i] = row /\ \A j \in Incidents \ {i} : incidents'[j] = incidents[j]
    BY <1>1, RowWritten DEF AssignRecords, AssignWrites
  <2>2. row.version = incidents[i].version + 1
    BY <1>1 DEF AssignRecords, AssignWrites, TypeOK, IncidentRow
  <2> QED
    BY <2>1, <2>2 DEF AssignRecords, AssignWrites, RecordsMove
<1>3. event_outbox' = event_outbox \cup {x}
  BY DEF AssignRecords, AssignWrites
<1>4. /\ dispatch_requests'[d] = new /\ new.status = "REQUESTED" /\ new.version = 0
      /\ \A e \in Used : dispatch_requests'[e] = dispatch_requests[e]
      /\ Used' = Used \cup {d}
      /\ RequestsOf(i)' = RequestsOf(i) \cup {d}
      /\ \A j \in Incidents \ {i} : RequestsOf(j)' = RequestsOf(j)
  <2>1. new.incident = i /\ new.status = "REQUESTED" /\ new.version = 0
    BY DEF AssignRecords, AssignWrites
  <2>2. dispatch_requests' = [dispatch_requests EXCEPT ![d] = new]
    BY DEF AssignRecords, AssignWrites
  <2>3. Used \subseteq Dispatches \ {d}
    BY DEF Used
  <2>4. /\ dispatch_requests'[d] = new
        /\ \A e \in Dispatches \ {d} : dispatch_requests'[e] = dispatch_requests[e]
        /\ Used' = Used \cup {d}
        /\ RequestsOf(i)' = RequestsOf(i) \cup {d}
        /\ \A j \in Incidents \ {i} : RequestsOf(j)' = RequestsOf(j)
    BY <1>1, <2>1, <2>2, RequestAdded
  <2> QED
    BY <2>1, <2>3, <2>4
<1>5. \A j \in Incidents : d \notin RequestsOf(j) /\ RequestsOf(j) \subseteq Used
  BY DEF RequestsOf
<1>6. \A j \in Incidents : RejectedOf(j)' = RejectedOf(j)
  <2>1. \A j \in Incidents \ {i} : RejectedOf(j)' = RejectedOf(j)
    BY <1>4, <1>5 DEF RejectedOf
  <2>2. RejectedOf(i)' = RejectedOf(i)
    BY <1>4, <1>5 DEF RejectedOf
  <2> QED
    BY <2>1, <2>2
<1> HIDE DEF x
<1>7. /\ \A e \in Used : EventsOf("DISPATCH", e)' = EventsOf("DISPATCH", e)
      /\ \A j \in Incidents : EventsOf("INCIDENT", j)' = EventsOf("INCIDENT", j)
  BY <1>1, <1>3 DEF EventsOf
<1>8. EventsOf("DISPATCH", d)' = {x}
  <2>1. EventsOf("DISPATCH", d) = {}
    BY DEF Accounts, EventsKnown, EventsOf
  <2> QED
    BY <1>1, <1>3, <2>1 DEF EventsOf
<1>9. RequestAccounted(d)'
  <2>1. {e.version : e \in {x}} = 0..0
    BY <1>1
  <2>2. Cardinality({x}) = 1
    BY FS_Singleton
  <2>3. {e.version : e \in EventsOf("DISPATCH", d)'} = 0..0
    BY <1>8, <2>1
  <2>4. Cardinality(EventsOf("DISPATCH", d)') = 0 + 1
    <3>1. Cardinality(EventsOf("DISPATCH", d)') = 1
      BY <1>8, <2>2
    <3> QED
      BY <3>1
  <2>5. /\ dispatch_requests'[d].version = 0 /\ dispatch_requests'[d].status = "REQUESTED"
        /\ \A e \in EventsOf("DISPATCH", d)' : e.status = "REQUESTED"
    BY <1>1, <1>4, <1>8
  <2> QED
    BY <2>3, <2>4, <2>5 DEF RequestAccounted
<1>10. TakenByRequest(i)
  BY <1>2, <1>4, <1>5, <1>6, <1>7 DEF TakenByRequest
<1>11. \A j \in Incidents \ {i} : Unaffected(j)
  BY <1>2, <1>4, <1>6, <1>7 DEF Unaffected
<1>12. \A j \in Incidents : IncidentAccounted(j)'
  BY <1>1, <1>10, <1>11, IncidentStaysAccounted DEF Accounts, OutboxAccountsForVersions
<1>13. \A e \in Used : RequestAccounted(e)'
  BY <1>4, <1>7, RequestStaysAccounted DEF Accounts, OutboxAccountsForVersions
<1>14. EventsKnown'
  BY <1>1, <1>3, <1>4 DEF Accounts, EventsKnown
<1> QED
  BY <1>4, <1>9, <1>12, <1>13, <1>14 DEF OutboxAccountsForVersions

\* A command of a responder publishes the new version of its request, and that
\* of the incident if it moves it.
LEMMA ResponderAccounts ==
    ASSUME Accounts, NEW d \in Used, NEW i \in Incidents, NEW new \in DispatchRow,
           NEW row \in IncidentRow, ResponderWrites(d, new, i, row)
    PROVE  EventsKnown' /\ OutboxAccountsForVersions'
<1> DEFINE x == [aggregate |-> "DISPATCH", id |-> d, version |-> new.version,
                 status |-> new.status]
           y == [aggregate |-> "INCIDENT", id |-> i, version |-> row.version,
                 status |-> row.status]
<1>1. /\ TypeOK /\ TablesFinite
      /\ x.aggregate = "DISPATCH" /\ x.id = d
      /\ y.aggregate = "INCIDENT" /\ y.id = i
  BY DEF Accounts
<1>2. incidents'[i] = row /\ \A j \in Incidents \ {i} : incidents'[j] = incidents[j]
  BY <1>1, RowWritten DEF ResponderWrites
<1>3. /\ dispatch_requests'[d] = new
      /\ \A e \in Dispatches \ {d} : dispatch_requests'[e] = dispatch_requests[e]
      /\ Used' = Used
      /\ \A j \in Incidents : RequestsOf(j)' = RequestsOf(j)
  BY <1>1, RequestMoved DEF ResponderWrites
<1>4. /\ new.version = dispatch_requests[d].version + 1
      /\ dispatch_requests[d].incident = i
      /\ dispatch_requests[d].status # "REJECTED"
  BY DEF ResponderWrites, DispatchTransitions
<1>5. \/ /\ new.status \in {"DEPARTED", "EN_ROUTE"} /\ row = incidents[i]
         /\ event_outbox' = event_outbox \cup {x}
      \/ /\ new.status = "REJECTED" /\ row.status = incidents[i].status
         /\ row.version = incidents[i].version + 1
         /\ event_outbox' = event_outbox \cup {x}
      \/ /\ new.status \notin {"DEPARTED", "EN_ROUTE", "REJECTED"}
         /\ row.version = incidents[i].version + 1
         /\ event_outbox' = event_outbox \cup {x} \cup {y}
  BY DEF ResponderWrites
<1>6. \A j \in Incidents : RequestsOf(j) \subseteq Dispatches
  BY DEF RequestsOf, Used
<1>7. /\ \A j \in Incidents \ {i} : RejectedOf(j)' = RejectedOf(j)
      /\ d \notin RejectedOf(i)
      /\ RejectedOf(i)' = IF new.status = "REJECTED" THEN RejectedOf(i) \cup {d}
                          ELSE RejectedOf(i)
  <2>1. \A j \in Incidents \ {i} : d \notin RequestsOf(j)
    BY <1>4 DEF RequestsOf
  <2>2. \A j \in Incidents \ {i} : RejectedOf(j)' = RejectedOf(j)
    BY <1>3, <1>6, <2>1 DEF RejectedOf
  <2>3. d \notin RejectedOf(i) /\ d \in RequestsOf(i)
    BY <1>4 DEF RejectedOf, RequestsOf
  <2>4. RejectedOf(i)' = IF new.status = "REJECTED" THEN RejectedOf(i) \cup {d}
                         ELSE RejectedOf(i)
    BY <1>3, <1>4, <1>6, <2>3 DEF RejectedOf
  <2> QED
    BY <2>2, <2>3, <2>4
<1>8. event_outbox' \in {event_outbox \cup {x}, event_outbox \cup {x} \cup {y}}
  BY <1>5
<1>9. row.version = incidents[i].version + 1 /\ new.status # "REJECTED" =>
        y = [aggregate |-> "INCIDENT", id |-> i, version |-> incidents[i].version + 1,
             status |-> row.status]
  OBVIOUS
<1>10. RequestAccounted(d)'
  <2>1. EventsOf("DISPATCH", d)' = EventsOf("DISPATCH", d) \cup {x}
    <3> HIDE DEF x, y
    <3> QED
      BY <1>1, <1>8 DEF EventsOf
  <2>2. RequestAccounted(d)
    BY DEF Accounts, OutboxAccountsForVersions
  <2> QED
    BY <1>1, <1>3, <1>4, <2>1, <2>2, RequestMovesAccounted
<1> HIDE DEF x, y
<1>11. /\ \A e \in Used \ {d} : EventsOf("DISPATCH", e)' = EventsOf("DISPATCH", e)
       /\ \A j \in Incidents \ {i} : EventsOf("INCIDENT", j)' = EventsOf("INCIDENT", j)
  BY <1>1, <1>8 DEF EventsOf
<1>12. \A e \in Used \ {d} : RequestAccounted(e)'
  <2>1. Used \subseteq Dispatches
    BY DEF Used
  <2> QED
    BY <1>3, <1>11, <2>1, RequestStaysAccounted DEF Accounts, OutboxAccountsForVersions
<1>13. Unaffected(i) \/ Announced(i) \/ TakenByRequest(i)
  <2>1. CASE new.status \in {"DEPARTED", "EN_ROUTE"}
    <3>1. EventsOf("INCIDENT", i)' = EventsOf("INCIDENT", i)
      BY <1>1, <1>5, <2>1 DEF EventsOf
    <3> QED
      BY <1>2, <1>3, <1>5, <1>7, <2>1, <3>1 DEF Unaffected
  <2>2. CASE new.status = "REJECTED"
    <3>1. EventsOf("INCIDENT", i)' = EventsOf("INCIDENT", i)
      BY <1>1, <1>5, <2>2 DEF EventsOf
    <3> QED
      BY <1>2, <1>3, <1>5, <1>7, <2>2, <3>1 DEF TakenByRequest
  <2>3. CASE new.status \notin {"DEPARTED", "EN_ROUTE", "REJECTED"}
    <3>1. EventsOf("INCIDENT", i)' = EventsOf("INCIDENT", i) \cup {y}
      BY <1>1, <1>5, <2>3 DEF EventsOf
    <3> QED
      BY <1>2, <1>3, <1>5, <1>7, <1>9, <2>3, <3>1 DEF Announced
  <2> QED
    BY <2>1, <2>2, <2>3
<1>14. \A j \in Incidents \ {i} : Unaffected(j)
  BY <1>2, <1>3, <1>7, <1>11 DEF Unaffected
<1>15. \A j \in Incidents : IncidentAccounted(j)'
  BY <1>1, <1>13, <1>14, IncidentStaysAccounted DEF Accounts, OutboxAccountsForVersions
<1>16. EventsKnown'
  BY <1>1, <1>3, <1>8 DEF Accounts, EventsKnown
<1> QED
  BY <1>3, <1>10, <1>12, <1>15, <1>16 DEF OutboxAccountsForVersions

\* The events of a request are numbered by its versions without gap or repeat,
\* those of an incident by its versions except the ones its requests took, and
\* the newest one shows the current status.
THEOREM OutboxAccountsForVersionsCorrect == Spec => []OutboxAccountsForVersions
<1>1. Init => TablesFinite /\ EventsKnown /\ OutboxAccountsForVersions
  <2> SUFFICES ASSUME Init PROVE TablesFinite /\ EventsKnown /\ OutboxAccountsForVersions
    OBVIOUS
  <2>1. Used = {} /\ event_outbox = {}
    BY DEF Init, Used
  <2>2. \A i \in Incidents : /\ EventsOf("INCIDENT", i) = {}
                            /\ RequestsOf(i) = {} /\ RejectedOf(i) = {}
                            /\ incidents[i].version = 0
    BY <2>1 DEF Init, EventsOf, RequestsOf, RejectedOf
  <2>3. \A i \in Incidents : IncidentAccounted(i)
    BY <2>2, FS_EmptySet DEF IncidentAccounted
  <2> QED
    BY <2>1, <2>3, FS_EmptySet DEF TablesFinite, EventsKnown, OutboxAccountsForVersions
<1>2. TypeOK /\ TablesFinite /\ EventsKnown /\ OutboxAccountsForVersions /\ [Next]_vars
         => TablesFinite' /\ EventsKnown' /\ OutboxAccountsForVersions'
  <2> SUFFICES ASSUME Accounts, [Next]_vars
               PROVE  TablesFinite' /\ EventsKnown' /\ OutboxAccountsForVersions'
    BY DEF Accounts
  <2>1. TablesFinite'
    BY FiniteStep DEF Accounts
  <2>2. CASE UNCHANGED vars
    <3>1. /\ Used' = Used /\ event_outbox' = event_outbox
          /\ dispatch_requests' = dispatch_requests /\ incidents' = incidents
          /\ \A i \in Incidents : /\ RequestsOf(i)' = RequestsOf(i)
                                 /\ RejectedOf(i)' = RejectedOf(i)
      BY <2>2, RequestsKept DEF vars
    <3>2. \A a, x : EventsOf(a, x)' = EventsOf(a, x)
      BY <3>1 DEF EventsOf
    <3>3. EventsKnown'
      BY <3>1 DEF Accounts, EventsKnown
    <3>4. \A d \in Used : RequestAccounted(d)'
      BY <3>1, <3>2 DEF Accounts, OutboxAccountsForVersions, RequestAccounted
    <3>5. \A i \in Incidents : IncidentAccounted(i)'
      BY <3>1, <3>2 DEF Accounts, OutboxAccountsForVersions, IncidentAccounted
    <3> QED
      BY <2>1, <3>1, <3>3, <3>4, <3>5 DEF OutboxAccountsForVersions
  <2>3. TypeOK
    BY DEF Accounts
  <2> QED
    BY <2>1, <2>2, <2>3, StepEffect, ControllerAccounts, AssignAccounts, ResponderAccounts
<1> QED
  BY <1>1, <1>2, TypeCorrect, PTL DEF Spec

=============================================================================
