--------------------------- MODULE LifecycleProofs ---------------------------
(* Theorems about Lifecycle, for every value of its constants, and that it *)
(* implements Booking.                                                     *)
EXTENDS LifecycleBooking, SequenceTheorems, TLAPS

\* What the writes to one row return keeps the type of the row.
LEMMA MovedType ==
    ASSUME TypeOK, NEW i \in Incidents, NEW s \in IncidentStatuses
    PROVE  /\ Moved(i, s) \in IncidentRow
           /\ Moved(i, s).status = s
           /\ Moved(i, s).version = incidents[i].version + 1
           /\ Moved(i, s).controller = incidents[i].controller
<1>1. incidents[i] \in IncidentRow
  BY DEF TypeOK
<1>2. incidents[i].version + 1 \in Nat
  BY <1>1 DEF IncidentRow
<1> QED
  BY <1>1, <1>2 DEF Moved, IncidentRow

\* A request that moves on is still a request.
LEMMA AdvancedType ==
    ASSUME TypeOK, NEW d \in Used, NEW s \in DispatchStatuses,
           NEW stamps \in SUBSET Timestamps
    PROVE  /\ Advanced(d, s, stamps) \in DispatchRow
           /\ Advanced(d, s, stamps).status = s
           /\ Advanced(d, s, stamps).version = dispatch_requests[d].version + 1
           /\ Advanced(d, s, stamps).incident = dispatch_requests[d].incident
           /\ Advanced(d, s, stamps).responder = dispatch_requests[d].responder
<1>1. dispatch_requests[d] \in DispatchRow
  BY DEF TypeOK, Used
<1>2. dispatch_requests[d].version + 1 \in Nat
  BY <1>1 DEF DispatchRow
<1>3. dispatch_requests[d].stamped \cup stamps \in SUBSET Timestamps
  BY <1>1 DEF DispatchRow
<1> QED
  BY <1>1, <1>2, <1>3 DEF Advanced, DispatchRow

\* What the shared writes do to the types of the tables they touch.
LEMMA MoveIncidentType ==
    ASSUME TypeOK, NEW i \in Incidents, NEW row \in IncidentRow,
           MoveIncident(i, row)
    PROVE  /\ incidents' \in [Incidents -> IncidentRow]
           /\ incident_histories' \in
                [Incidents -> Seq(IncidentStatuses \X IncidentStatuses)]
<1> DEFINE edge == <<incidents[i].status, row.status>>
<1>1. edge \in IncidentStatuses \X IncidentStatuses
  BY DEF TypeOK, IncidentRow
<1>2. Append(incident_histories[i], edge) \in Seq(IncidentStatuses \X IncidentStatuses)
  <2>1. incident_histories[i] \in Seq(IncidentStatuses \X IncidentStatuses)
    BY DEF TypeOK
  <2> HIDE DEF edge
  <2> QED
    BY <1>1, <2>1, AppendProperties
<1> QED
  BY <1>2 DEF TypeOK, MoveIncident

\* Raising only the version keeps the types.
LEMMA TouchIncidentType ==
    ASSUME TypeOK, NEW i \in Incidents, TouchIncident(i)
    PROVE  /\ incidents' \in [Incidents -> IncidentRow]
           /\ incident_histories' \in
                [Incidents -> Seq(IncidentStatuses \X IncidentStatuses)]
<1>1. incidents[i].status \in IncidentStatuses
  BY DEF TypeOK, IncidentRow
<1>2. Moved(i, incidents[i].status) \in IncidentRow
  BY <1>1, MovedType
<1> QED
  BY <1>2 DEF TypeOK, TouchIncident

\* A request and its history, once written, keep the types.
LEMMA MoveDispatchType ==
    ASSUME TypeOK, NEW d \in Dispatches, NEW row \in DispatchRow,
           MoveDispatch(d, row)
    PROVE  /\ dispatch_requests' \in [Dispatches -> DispatchRow \cup {Unused}]
           /\ Used' = Used \cup {d}
           /\ dispatch_histories' \in
                [Dispatches -> Seq((DispatchStatuses \cup {"UNUSED"}) \X DispatchStatuses)]
<1> DEFINE edge  == <<dispatch_requests[d].status, row.status>>
           Edge  == (DispatchStatuses \cup {"UNUSED"}) \X DispatchStatuses
<1>1. row # Unused
  BY DEF DispatchRow, Unused, DispatchStatuses
<1>2. dispatch_requests[d].status \in DispatchStatuses \cup {"UNUSED"}
  BY DEF TypeOK, DispatchRow, Unused
<1>3. edge \in Edge
  BY <1>2 DEF DispatchRow
<1>4. Append(dispatch_histories[d], edge) \in Seq(Edge)
  <2>1. dispatch_histories[d] \in Seq(Edge)
    BY DEF TypeOK
  <2> HIDE DEF edge, Edge
  <2> QED
    BY <1>3, <2>1, AppendProperties
<1>5. dispatch_histories' \in [Dispatches -> Seq(Edge)]
  BY <1>4 DEF TypeOK, MoveDispatch
<1>6. dispatch_requests' \in [Dispatches -> DispatchRow \cup {Unused}]
  BY DEF TypeOK, MoveDispatch
<1>7. Used' = Used \cup {d}
  BY <1>1 DEF TypeOK, MoveDispatch, Used
<1> QED
  BY <1>5, <1>6, <1>7

\* An event about an incident is a row of the outbox.
LEMMA IncidentEventType ==
    ASSUME NEW i \in Incidents, NEW row \in IncidentRow
    PROVE  IncidentEvent(i, row) \in EventRow
BY DEF IncidentEvent, EventRow, IncidentRow

\* An event about a dispatch request is a row of the outbox.
LEMMA DispatchEventType ==
    ASSUME NEW d \in Dispatches, NEW row \in DispatchRow
    PROVE  DispatchEvent(d, row) \in EventRow
BY DEF DispatchEvent, EventRow, DispatchRow

\* The decisions of an incident after one more is inserted.
LEMMA WithDecisionType ==
    ASSUME TypeOK, NEW i \in Incidents, NEW t \in DecisionTypes,
           NEW u \in Controllers, NEW active
    PROVE  WithDecision(i, t, u, active) \in Seq(DecisionRow)
<1> DEFINE old == incident_decisions[i]
           new == [type |-> t, decided_by |-> u,
                   superseded |-> FALSE, superseded_by |-> 0]
           upd == [k \in DOMAIN old |->
                     IF k = active
                     THEN [old[k] EXCEPT !.superseded = TRUE,
                                         !.superseded_by = Len(old) + 1]
                     ELSE old[k]]
<1>1. old \in Seq(DecisionRow)
  BY DEF TypeOK
<1>2. Len(old) \in Nat /\ DOMAIN old = 1..Len(old)
  BY <1>1
<1>3. \A k \in DOMAIN old : upd[k] \in DecisionRow
  <2> TAKE k \in DOMAIN old
  <2>1. old[k] \in DecisionRow
    BY <1>1, <1>2
  <2>2. Len(old) + 1 \in Nat
    BY <1>2
  <2> QED
    BY <2>1, <2>2 DEF DecisionRow
<1>4. upd \in Seq(DecisionRow)
  <2> HIDE DEF old
  <2>1. upd \in [1..Len(old) -> DecisionRow]
    BY <1>2, <1>3
  <2> HIDE DEF upd
  <2> QED
    BY <1>2, <2>1
<1>5. new \in DecisionRow
  BY DEF DecisionRow
<1>6. Append(upd, new) \in Seq(DecisionRow)
  <2> HIDE DEF upd, new
  <2> QED
    BY <1>4, <1>5, AppendProperties
<1> QED
  BY <1>6 DEF WithDecision

\* The outbox after events are added.
LEMMA PublishType ==
    ASSUME TypeOK, NEW events \in SUBSET EventRow, Publish(events)
    PROVE  event_outbox' \subseteq EventRow
BY DEF TypeOK, Publish

\* The tables a step about one incident row writes.
LEMMA IncidentStepType ==
    ASSUME TypeOK, NEW i \in Incidents, NEW row \in IncidentRow,
           MoveIncident(i, row) \/ TouchIncident(i),
           Publish({IncidentEvent(i, row)}),
           incident_claims' \subseteq ClaimRow,
           incident_decisions' \in [Incidents -> Seq(DecisionRow)],
           UNCHANGED <<dispatch_requests, field_action_reports, duty_status,
                       dispatch_histories>>
    PROVE  TypeOK'
<1>1. event_outbox' \subseteq EventRow
  BY IncidentEventType, PublishType
<1>2. /\ incidents' \in [Incidents -> IncidentRow]
      /\ incident_histories' \in
           [Incidents -> Seq(IncidentStatuses \X IncidentStatuses)]
  BY MoveIncidentType, TouchIncidentType
<1> QED
  BY <1>1, <1>2 DEF TypeOK, Used

\* acknowledge keeps the types.
LEMMA AcknowledgeType ==
    ASSUME TypeOK, NEW u \in Controllers, NEW i \in Incidents, Acknowledge(u, i)
    PROVE  TypeOK'
<1> DEFINE row == [Moved(i, "ACKNOWLEDGED") EXCEPT !.acknowledged_by = u]
<1>1. row \in IncidentRow
  BY MovedType DEF IncidentRow, IncidentStatuses
<1>2. MoveIncident(i, row) /\ Publish({IncidentEvent(i, row)})
  BY DEF Acknowledge
<1> HIDE DEF row
<1> QED
  BY <1>1, <1>2, IncidentStepType DEF Acknowledge, TypeOK

\* claim keeps the types.
LEMMA ClaimType ==
    ASSUME TypeOK, NEW u \in Controllers, NEW i \in Incidents, Claim(u, i)
    PROVE  TypeOK'
<1> DEFINE row == [Moved(i, "CLAIMED") EXCEPT !.controller = u]
<1>1. row \in IncidentRow
  BY MovedType DEF IncidentRow, IncidentStatuses
<1>2. MoveIncident(i, row) /\ Publish({IncidentEvent(i, row)})
  BY DEF Claim
<1>3. incident_claims' \subseteq ClaimRow
  BY DEF Claim, TypeOK, ClaimRow
<1> HIDE DEF row
<1> QED
  BY <1>1, <1>2, <1>3, IncidentStepType DEF Claim, TypeOK

\* start-review keeps the types.
LEMMA ReviewType ==
    ASSUME TypeOK, NEW u \in Controllers, NEW i \in Incidents, Review(u, i)
    PROVE  TypeOK'
<1> DEFINE row == Moved(i, "UNDER_REVIEW")
<1>1. row \in IncidentRow
  BY MovedType DEF IncidentStatuses
<1>2. MoveIncident(i, row) /\ Publish({IncidentEvent(i, row)})
  BY DEF Review
<1> HIDE DEF row
<1> QED
  BY <1>1, <1>2, IncidentStepType DEF Review, TypeOK

\* The incident row a decision writes.
LEMMA DecidedType ==
    ASSUME TypeOK, NEW i \in Incidents, NEW t \in DecisionTypes
    PROVE  /\ DecisionTargets[t] \in IncidentStatuses
           /\ Decided(i, t) \in IncidentRow
           /\ Decided(i, t).status = DecisionTargets[t]
           /\ Decided(i, t).version = incidents[i].version + 1
           /\ Decided(i, t).controller = incidents[i].controller
<1>1. DecisionTargets[t] \in IncidentStatuses
  BY DEF DecisionTargets, DecisionTypes, IncidentStatuses
<1>2. Moved(i, DecisionTargets[t]) \in IncidentRow
  BY <1>1, MovedType
<1> QED
  BY <1>1, <1>2, MovedType DEF Decided, IncidentRow

\* A decision of any type keeps the types.
LEMMA DecideType ==
    ASSUME TypeOK, NEW u \in Controllers, NEW i \in Incidents,
           NEW t \in DecisionTypes, Decide(u, i, t)
    PROVE  TypeOK'
<1> DEFINE row == Decided(i, t)
<1>1. row \in IncidentRow
  BY DecidedType
<1>2. (MoveIncident(i, row) \/ TouchIncident(i)) /\ Publish({IncidentEvent(i, row)})
  BY DEF Decide
<1>3. incident_decisions' \in [Incidents -> Seq(DecisionRow)]
  BY WithDecisionType DEF Decide, TypeOK
<1>4. incident_claims' \subseteq ClaimRow
  BY DEF Decide, TypeOK
<1> HIDE DEF row
<1> QED
  BY <1>1, <1>2, <1>3, <1>4, IncidentStepType DEF Decide

\* close keeps the types.
LEMMA CloseType ==
    ASSUME TypeOK, NEW u \in Controllers, NEW i \in Incidents, Close(u, i)
    PROVE  TypeOK'
<1> DEFINE row == [Moved(i, "CLOSED") EXCEPT !.closed = TRUE]
<1>1. row \in IncidentRow
  <2>1. Moved(i, "CLOSED") \in IncidentRow
    BY MovedType DEF IncidentStatuses
  <2>2. TRUE \in BOOLEAN
    OBVIOUS
  <2> QED
    BY <2>1, <2>2 DEF IncidentRow
<1>2. MoveIncident(i, row) /\ Publish({IncidentEvent(i, row)})
  BY DEF Close
<1> HIDE DEF row
<1> QED
  BY <1>1, <1>2, IncidentStepType DEF Close, TypeOK

\* The tables a step about one dispatch request writes.
LEMMA DispatchStepType ==
    ASSUME TypeOK, NEW d \in Dispatches, NEW row \in DispatchRow,
           MoveDispatch(d, row),
           incidents' \in [Incidents -> IncidentRow],
           incident_histories' \in
             [Incidents -> Seq(IncidentStatuses \X IncidentStatuses)],
           event_outbox' \subseteq EventRow,
           field_action_reports' \subseteq field_action_reports \cup {d},
           duty_status' \in [Responders -> DutyStatuses],
           UNCHANGED <<incident_claims, incident_decisions>>
    PROVE  TypeOK'
<1>1. /\ dispatch_requests' \in [Dispatches -> DispatchRow \cup {Unused}]
      /\ Used' = Used \cup {d}
      /\ dispatch_histories' \in
           [Dispatches -> Seq((DispatchStatuses \cup {"UNUSED"}) \X DispatchStatuses)]
  BY MoveDispatchType
<1>2. field_action_reports' \subseteq Used'
  BY <1>1 DEF TypeOK
<1> QED
  BY <1>1, <1>2 DEF TypeOK

\* What a responder may act on is a row of the request table.
LEMMA OwnRow ==
    ASSUME TypeOK, NEW r \in Responders, NEW d \in Dispatches, IsOwn(r, d)
    PROVE  /\ d \in Used
           /\ dispatch_requests[d] \in DispatchRow
           /\ dispatch_requests[d].incident \in Incidents
           /\ dispatch_requests[d].responder = r
<1>1. d \in Used /\ dispatch_requests[d].responder = r
  BY DEF IsOwn
<1>2. dispatch_requests[d] \in DispatchRow
  BY <1>1 DEF TypeOK, Used
<1> QED
  BY <1>1, <1>2 DEF DispatchRow

\* assign keeps the types.
LEMMA AssignType ==
    ASSUME TypeOK, NEW u \in Controllers, NEW i \in Incidents,
           NEW r \in Responders, Assign(u, i, r)
    PROVE  TypeOK'
<1>1. PICK d \in Dispatches \ Used, p \in Dispatches \cup {NoDispatch} :
        /\ IsLatest(p, i)
        /\ LET row == [incident |-> i, responder |-> r, assigned_by |-> u,
                       attempt |-> IF p = NoDispatch THEN 1
                                   ELSE dispatch_requests[p].attempt + 1,
                       status |-> "REQUESTED", version |-> 0,
                       previous |-> p, stamped |-> {}]
           IN  MoveDispatch(d, row) /\ Publish({DispatchEvent(d, row)})
  BY DEF Assign
<1> DEFINE n   == IF p = NoDispatch THEN 1 ELSE dispatch_requests[p].attempt + 1
           row == [incident |-> i, responder |-> r, assigned_by |-> u,
                   attempt |-> n, status |-> "REQUESTED", version |-> 0,
                   previous |-> p, stamped |-> {}]
<1>2. n \in Nat
  <2>1. p # NoDispatch => p \in Used
    BY <1>1 DEF IsLatest, RequestsOf
  <2>2. p # NoDispatch => dispatch_requests[p] \in DispatchRow
    BY <2>1 DEF TypeOK, Used
  <2> QED
    BY <2>2 DEF DispatchRow
<1>3. row \in DispatchRow
  <2> HIDE DEF n
  <2> QED
    BY <1>2 DEF DispatchRow, DispatchStatuses
<1>4. MoveDispatch(d, row) /\ event_outbox' \subseteq EventRow
  BY <1>1, <1>3, DispatchEventType, PublishType
<1>5. /\ incidents' \in [Incidents -> IncidentRow]
      /\ incident_histories' \in
           [Incidents -> Seq(IncidentStatuses \X IncidentStatuses)]
  BY TouchIncidentType DEF Assign
<1>6. duty_status' \in [Responders -> DutyStatuses]
  BY DEF Assign, TypeOK, DutyStatuses
<1> HIDE DEF row
<1> QED
  BY <1>3, <1>4, <1>5, <1>6, DispatchStepType DEF Assign

\* accept keeps the types.
LEMMA AcceptType ==
    ASSUME TypeOK, NEW r \in Responders, NEW d \in Dispatches, Accept(r, d)
    PROVE  TypeOK'
<1> DEFINE i    == dispatch_requests[d].incident
           row  == Advanced(d, "ACCEPTED", {"accepted_at"})
           irow == Moved(i, "DISPATCHED")
<1>1. d \in Used /\ i \in Incidents
  BY OwnRow DEF Accept
<1>2. row \in DispatchRow
  BY <1>1, AdvancedType DEF DispatchStatuses, Timestamps
<1>3. irow \in IncidentRow
  BY <1>1, MovedType DEF IncidentStatuses
<1>4. /\ MoveDispatch(d, row)
      /\ MoveIncident(i, irow)
      /\ Publish({DispatchEvent(d, row), IncidentEvent(i, irow)})
  BY DEF Accept
<1> HIDE DEF i, row, irow
<1>5. event_outbox' \subseteq EventRow
  BY <1>1, <1>2, <1>3, <1>4, DispatchEventType, IncidentEventType, PublishType
<1> QED
  BY <1>1, <1>2, <1>3, <1>4, <1>5, MoveIncidentType, DispatchStepType
  DEF Accept, TypeOK

\* reject keeps the types.
LEMMA RejectType ==
    ASSUME TypeOK, NEW r \in Responders, NEW d \in Dispatches, Reject(r, d)
    PROVE  TypeOK'
<1> DEFINE i    == dispatch_requests[d].incident
           row  == Advanced(d, "REJECTED", {})
<1>1. d \in Used /\ i \in Incidents
  BY OwnRow DEF Reject
<1>2. row \in DispatchRow
  BY <1>1, AdvancedType DEF DispatchStatuses
<1>3. MoveDispatch(d, row) /\ Publish({DispatchEvent(d, row)}) /\ TouchIncident(i)
  BY DEF Reject
<1>4. duty_status' \in [Responders -> DutyStatuses]
  BY DEF Reject, TypeOK, DutyStatuses
<1> HIDE DEF i, row
<1>5. event_outbox' \subseteq EventRow
  BY <1>1, <1>2, <1>3, DispatchEventType, PublishType
<1> QED
  BY <1>1, <1>2, <1>3, <1>4, <1>5, TouchIncidentType, DispatchStepType
  DEF Reject, TypeOK

\* What is used of a row of the progress table.
LEMMA ProgressConfigType ==
    ASSUME NEW c \in ProgressConfigs
    PROVE  /\ c.dispatch_from \in DispatchStatuses
           /\ c.dispatch_to \in DispatchStatuses
           /\ c.timestamp \in Timestamps
           /\ c.incident_from \in IncidentStatuses
           /\ c.incident_to # "NONE" => c.incident_to \in IncidentStatuses
BY DEF ProgressConfigs, DispatchStatuses, Timestamps, IncidentStatuses

\* Each of the four progress commands keeps the types.
LEMMA ProgressType ==
    ASSUME TypeOK, NEW r \in Responders, NEW d \in Dispatches,
           NEW c \in ProgressConfigs, Progress(r, d, c)
    PROVE  TypeOK'
<1> DEFINE i    == dispatch_requests[d].incident
           row  == Advanced(d, c.dispatch_to, {c.timestamp})
           irow == Moved(i, c.incident_to)
<1>1. d \in Used /\ i \in Incidents
  BY OwnRow DEF Progress
<1>2. row \in DispatchRow
  BY <1>1, ProgressConfigType, AdvancedType
<1>3. CASE c.incident_to = "NONE"
  <2>1. /\ MoveDispatch(d, row) /\ Publish({DispatchEvent(d, row)})
        /\ UNCHANGED <<incidents, incident_histories>>
    BY <1>3 DEF Progress
  <2> HIDE DEF i, row
  <2>2. event_outbox' \subseteq EventRow
    BY <1>1, <1>2, <2>1, DispatchEventType, PublishType
  <2> QED
    BY <1>1, <1>2, <2>1, <2>2, DispatchStepType DEF Progress, TypeOK
<1>4. CASE c.incident_to # "NONE"
  <2>1. irow \in IncidentRow
    BY <1>1, <1>4, ProgressConfigType, MovedType
  <2>2. /\ MoveDispatch(d, row)
        /\ MoveIncident(i, irow)
        /\ Publish({DispatchEvent(d, row), IncidentEvent(i, irow)})
    BY <1>4 DEF Progress
  <2> HIDE DEF i, row, irow
  <2>3. event_outbox' \subseteq EventRow
    BY <1>1, <1>2, <2>1, <2>2, DispatchEventType, IncidentEventType, PublishType
  <2> QED
    BY <1>1, <1>2, <2>1, <2>2, <2>3, MoveIncidentType, DispatchStepType
    DEF Progress, TypeOK
<1> QED
  BY <1>3, <1>4

\* complete-action keeps the types.
LEMMA CompleteType ==
    ASSUME TypeOK, NEW r \in Responders, NEW d \in Dispatches, Complete(r, d)
    PROVE  TypeOK'
<1> DEFINE i    == dispatch_requests[d].incident
           row  == Advanced(d, "ACTION_COMPLETED", {"action_completed_at"})
           irow == Moved(i, "ACTION_COMPLETED")
<1>1. d \in Used /\ i \in Incidents
  BY OwnRow DEF Complete
<1>2. row \in DispatchRow
  BY <1>1, AdvancedType DEF DispatchStatuses, Timestamps
<1>3. irow \in IncidentRow
  BY <1>1, MovedType DEF IncidentStatuses
<1>4. /\ MoveDispatch(d, row)
      /\ MoveIncident(i, irow)
      /\ Publish({DispatchEvent(d, row), IncidentEvent(i, irow)})
  BY DEF Complete
<1>5. duty_status' \in [Responders -> DutyStatuses]
  BY DEF Complete, TypeOK, DutyStatuses
<1> HIDE DEF i, row, irow
<1>6. event_outbox' \subseteq EventRow
  BY <1>1, <1>2, <1>3, <1>4, DispatchEventType, IncidentEventType, PublishType
<1> QED
  BY <1>1, <1>2, <1>3, <1>4, <1>5, <1>6, MoveIncidentType, DispatchStepType
  DEF Complete

\* The types hold of the tables before the first command.
LEMMA TypeInit ==
    ASSUME Init
    PROVE  TypeOK
<1>1. incidents \in [Incidents -> IncidentRow]
  BY DEF Init, IncidentRow, IncidentStatuses
<1>2. dispatch_requests \in [Dispatches -> DispatchRow \cup {Unused}]
  BY DEF Init
<1>3. /\ incident_decisions \in [Incidents -> Seq(DecisionRow)]
      /\ incident_histories \in
           [Incidents -> Seq(IncidentStatuses \X IncidentStatuses)]
      /\ dispatch_histories \in
           [Dispatches -> Seq((DispatchStatuses \cup {"UNUSED"}) \X DispatchStatuses)]
  BY DEF Init
<1>4. duty_status \in [Responders -> DutyStatuses]
  BY DEF Init
<1> QED
  BY <1>1, <1>2, <1>3, <1>4 DEF Init, TypeOK

\* Every step keeps the types.
LEMMA TypeStep ==
    ASSUME TypeOK, [Next]_vars
    PROVE  TypeOK'
<1>1. ASSUME NEW u \in Controllers, NEW i \in Incidents, ControllerStep(u, i)
      PROVE  TypeOK'
  BY <1>1, AcknowledgeType, ClaimType, ReviewType, DecideType, AssignType,
     CloseType DEF ControllerStep
<1>2. ASSUME NEW r \in Responders, NEW d \in Dispatches, ResponderStep(r, d)
      PROVE  TypeOK'
  BY <1>2, AcceptType, RejectType, ProgressType, CompleteType DEF ResponderStep
<1>3. CASE UNCHANGED vars
  BY <1>3 DEF vars, TypeOK, Used
<1> QED
  BY <1>1, <1>2, <1>3 DEF Next

\* Every table keeps its type (see TypeOK), whatever sequence of commands is
\* executed.
THEOREM TypeCorrect == Spec => []TypeOK
BY TypeInit, TypeStep, PTL DEF Spec

-----------------------------------------------------------------------------
(* Incidents, requests and responders agree.  None of the three properties *)
(* is inductive alone: that a rejected request leaves the incident waiting *)
(* needs the matching statuses, that completing one leaves no active       *)
(* request of its responder needs NoDoubleBooking, and that assign creates *)
(* no second active request of a responder needs BusyWhileActive.          *)

Agreement ==
    /\ TypeOK
    /\ IncidentMatchesDispatch
    /\ NoDoubleBooking
    /\ BusyWhileActive

LiveStatuses == {"DISPATCHED", "ON_SCENE", "ACTION_IN_PROGRESS", "ACTION_COMPLETED"}

\* A command of a controller that moves one incident and leaves requests and
\* responders alone keeps them in agreement if every request status that
\* matched the old incident status matches the new one.
LEMMA IncidentStepAgrees ==
    ASSUME Agreement, NEW i \in Incidents, NEW t,
           incidents' \in [Incidents -> IncidentRow],
           incidents'[i].status = t,
           \A j \in Incidents \ {i} : incidents'[j] = incidents[j],
           UNCHANGED <<dispatch_requests, duty_status>>,
           \A d \in RequestsOf(i) :
              <<dispatch_requests[d].status, t>> \in MatchingStatuses,
           t \in LiveStatuses => incidents[i].status \in LiveStatuses
    PROVE  IncidentMatchesDispatch' /\ NoDoubleBooking' /\ BusyWhileActive'
<1>1. Used' = Used /\ \A d \in Dispatches : IsActive(d)' <=> IsActive(d)
  BY DEF Used, IsActive
<1>2. \A j \in Incidents : RequestsOf(j)' = RequestsOf(j)
  BY <1>1 DEF RequestsOf
<1>3. NoDoubleBooking'
  BY <1>1 DEF Agreement, NoDoubleBooking, Used
<1>4. BusyWhileActive'
  BY <1>1 DEF Agreement, BusyWhileActive, Used
<1>5. ASSUME NEW d \in Used
      PROVE  <<dispatch_requests[d].status,
               incidents'[dispatch_requests[d].incident].status>> \in MatchingStatuses
  <2>1. dispatch_requests[d].incident \in Incidents
    BY DEF Agreement, TypeOK, Used, DispatchRow
  <2>2. CASE dispatch_requests[d].incident = i
    BY <2>2 DEF RequestsOf
  <2>3. CASE dispatch_requests[d].incident # i
    BY <2>1, <2>3 DEF Agreement, IncidentMatchesDispatch
  <2> QED
    BY <2>2, <2>3
<1>6. ASSUME NEW j \in Incidents, incidents'[j].status \in LiveStatuses
      PROVE  HasLiveRequest(j)'
  <2>1. incidents[j].status \in LiveStatuses
    BY <1>6
  <2>2. HasLiveRequest(j)
    BY <2>1 DEF Agreement, IncidentMatchesDispatch, LiveStatuses
  <2> QED
    BY <1>2, <2>2 DEF HasLiveRequest
<1>7. IncidentMatchesDispatch'
  BY <1>1, <1>5, <1>6 DEF IncidentMatchesDispatch, LiveStatuses
<1> QED
  BY <1>3, <1>4, <1>7

\* A command of the responder of an active request d that moves d to another
\* status and its incident to status t.
LEMMA DispatchStepAgrees ==
    ASSUME Agreement, NEW d \in Used, IsActive(d), NEW row \in DispatchRow, NEW t,
           row.incident = dispatch_requests[d].incident,
           row.responder = dispatch_requests[d].responder,
           dispatch_requests' = [dispatch_requests EXCEPT ![d] = row],
           incidents'[row.incident].status = t,
           \A j \in Incidents \ {row.incident} : incidents'[j] = incidents[j],
           <<row.status, t>> \in MatchingStatuses,
           <<"REJECTED", t>> \in MatchingStatuses,
           row.status = "REJECTED" => t \notin LiveStatuses,
           duty_status' = IF row.status \in InactiveStatuses
                          THEN [duty_status EXCEPT ![row.responder] = "AVAILABLE"]
                          ELSE duty_status
    PROVE  IncidentMatchesDispatch' /\ NoDoubleBooking' /\ BusyWhileActive'
<1> DEFINE i == row.incident
           r == row.responder
<1>1. /\ Used \subseteq Dispatches
      /\ \A e \in Used : dispatch_requests[e] \in DispatchRow
      /\ \A e \in Used : dispatch_requests[e].incident \in Incidents
      /\ \A e \in Used : dispatch_requests[e].responder \in Responders
  BY DEF Agreement, TypeOK, Used, DispatchRow
<1>2. row # Unused /\ i \in Incidents /\ r \in Responders
  BY DEF DispatchRow, Unused, DispatchStatuses
<1>3. /\ Used' = Used
      /\ dispatch_requests'[d] = row
      /\ \A e \in Used \ {d} : dispatch_requests'[e] = dispatch_requests[e]
  BY <1>1, <1>2 DEF Used, Agreement, TypeOK
<1>4. /\ dispatch_requests[d].status # "REJECTED"
      /\ \A e \in Used \ {d} : IsActive(e)' <=> IsActive(e)
      /\ IsActive(d)' <=> row.status \notin InactiveStatuses
  BY <1>3 DEF IsActive, InactiveStatuses
<1>5. \A e \in Used \ {d} :
         /\ dispatch_requests[e].incident = i => dispatch_requests[e].status = "REJECTED"
         /\ dispatch_requests[e].responder = r => ~ IsActive(e)
  BY <1>4 DEF Agreement, NoDoubleBooking
<1>6. ASSUME NEW e \in Used
      PROVE  <<dispatch_requests'[e].status,
               incidents'[dispatch_requests'[e].incident].status>> \in MatchingStatuses
  <2>1. CASE e = d
    BY <1>3, <2>1
  <2>2. CASE e # d /\ dispatch_requests[e].incident = i
    <3>1. dispatch_requests[e].status = "REJECTED"
      BY <1>5, <2>2
    <3>2. dispatch_requests'[e] = dispatch_requests[e]
      BY <1>3, <2>2
    <3> QED
      BY <2>2, <3>1, <3>2
  <2>3. CASE e # d /\ dispatch_requests[e].incident # i
    <3>1. dispatch_requests'[e] = dispatch_requests[e]
      BY <1>3, <2>3
    <3>2. dispatch_requests[e].incident \in Incidents \ {row.incident}
      BY <1>1, <2>3
    <3>3. <<dispatch_requests[e].status,
            incidents[dispatch_requests[e].incident].status>> \in MatchingStatuses
      BY DEF Agreement, IncidentMatchesDispatch
    <3> QED
      BY <3>1, <3>2, <3>3
  <2> QED
    BY <2>1, <2>2, <2>3
<1>7. ASSUME NEW j \in Incidents, incidents'[j].status \in LiveStatuses
      PROVE  HasLiveRequest(j)'
  <2>1. CASE j = i
    <3>1. row.status # "REJECTED"
      BY <1>7, <2>1
    <3> QED
      BY <1>3, <2>1, <3>1 DEF HasLiveRequest, RequestsOf
  <2>2. CASE j # i
    <3>1. HasLiveRequest(j)
      BY <1>7, <2>2 DEF Agreement, IncidentMatchesDispatch, LiveStatuses
    <3>2. PICK e \in Used :
            /\ dispatch_requests[e].incident = j
            /\ dispatch_requests[e].status # "REJECTED"
      BY <3>1 DEF HasLiveRequest, RequestsOf
    <3>3. dispatch_requests'[e] = dispatch_requests[e]
      BY <1>3, <2>2, <3>2
    <3> QED
      BY <1>3, <3>2, <3>3 DEF HasLiveRequest, RequestsOf
  <2> QED
    BY <2>1, <2>2
<1>8. IncidentMatchesDispatch'
  BY <1>3, <1>6, <1>7 DEF IncidentMatchesDispatch, LiveStatuses
<1>9. NoDoubleBooking'
  <2> SUFFICES ASSUME NEW e \in Used, NEW f \in Used, e # f
               PROVE  /\ dispatch_requests'[e].incident = dispatch_requests'[f].incident =>
                           \/ dispatch_requests'[e].status = "REJECTED"
                           \/ dispatch_requests'[f].status = "REJECTED"
                      /\ dispatch_requests'[e].responder = dispatch_requests'[f].responder =>
                           ~ (IsActive(e)' /\ IsActive(f)')
    BY <1>3 DEF NoDoubleBooking
  <2>1. CASE e = d
    <3>1. /\ dispatch_requests'[e].incident = i /\ dispatch_requests'[e].responder = r
          /\ dispatch_requests'[f] = dispatch_requests[f]
          /\ IsActive(f)' <=> IsActive(f)
      BY <1>3, <1>4, <2>1
    <3>2. /\ dispatch_requests[f].incident = i => dispatch_requests[f].status = "REJECTED"
          /\ dispatch_requests[f].responder = r => ~ IsActive(f)
      BY <1>5, <2>1
    <3> QED
      BY <3>1, <3>2
  <2>2. CASE f = d
    <3>1. /\ dispatch_requests'[f].incident = i /\ dispatch_requests'[f].responder = r
          /\ dispatch_requests'[e] = dispatch_requests[e]
          /\ IsActive(e)' <=> IsActive(e)
      BY <1>3, <1>4, <2>2
    <3>2. /\ dispatch_requests[e].incident = i => dispatch_requests[e].status = "REJECTED"
          /\ dispatch_requests[e].responder = r => ~ IsActive(e)
      BY <1>5, <2>2
    <3> QED
      BY <3>1, <3>2
  <2>3. CASE e # d /\ f # d
    BY <1>3, <1>4, <2>3 DEF Agreement, NoDoubleBooking
  <2> QED
    BY <2>1, <2>2, <2>3
<1>10. BusyWhileActive'
  <2> SUFFICES ASSUME NEW q \in Responders
               PROVE  duty_status'[q] = "BUSY" <=>
                        \E e \in Used : IsActive(e)' /\ dispatch_requests'[e].responder = q
    BY <1>3 DEF BusyWhileActive
  <2>1. duty_status \in [Responders -> DutyStatuses]
    BY DEF Agreement, TypeOK
  <2>2. duty_status[q] = "BUSY" <=>
          \E e \in Used : IsActive(e) /\ dispatch_requests[e].responder = q
    BY DEF Agreement, BusyWhileActive
  <2>3. CASE q # r
    <3>1. duty_status'[q] = duty_status[q]
      BY <1>2, <2>1, <2>3
    <3> QED
      BY <1>3, <1>4, <2>2, <2>3, <3>1
  <2>4. CASE q = r /\ row.status \in InactiveStatuses
    <3>1. duty_status'[q] = "AVAILABLE"
      BY <1>2, <2>1, <2>4
    <3>2. ~ IsActive(d)'
      BY <1>4, <2>4
    <3>3. ASSUME NEW e \in Used \ {d}, IsActive(e)'
          PROVE  dispatch_requests'[e].responder # q
      <4>1. IsActive(e) /\ dispatch_requests'[e] = dispatch_requests[e]
        BY <1>3, <1>4, <3>3
      <4>2. dispatch_requests[e].responder # r
        BY <1>5, <4>1
      <4> QED
        BY <2>4, <4>1, <4>2
    <3> QED
      BY <3>1, <3>2, <3>3
  <2>5. CASE q = r /\ row.status \notin InactiveStatuses
    <3>1. duty_status'[q] = duty_status[q]
      BY <2>5
    <3>2. duty_status[q] = "BUSY"
      BY <2>2, <2>5
    <3>3. IsActive(d)' /\ dispatch_requests'[d].responder = q
      BY <1>3, <1>4, <2>5
    <3> QED
      BY <3>1, <3>2, <3>3
  <2> QED
    BY <2>3, <2>4, <2>5
<1> QED
  BY <1>8, <1>9, <1>10

\* A request that assign_dispatch inserts.
LEMMA AssignAgrees ==
    ASSUME Agreement, NEW u \in Controllers, NEW i \in Incidents,
           NEW r \in Responders, Assign(u, i, r)
    PROVE  IncidentMatchesDispatch' /\ NoDoubleBooking' /\ BusyWhileActive'
<1>1. PICK d, row :
        /\ d \in Dispatches \ Used
        /\ row.incident = i /\ row.responder = r /\ row.status = "REQUESTED"
        /\ dispatch_requests' = [dispatch_requests EXCEPT ![d] = row]
  <2>1. PICK d \in Dispatches \ Used, p \in Dispatches \cup {NoDispatch} :
        LET row == [incident |-> i, responder |-> r, assigned_by |-> u,
                    attempt |-> IF p = NoDispatch THEN 1
                                ELSE dispatch_requests[p].attempt + 1,
                    status |-> "REQUESTED", version |-> 0,
                    previous |-> p, stamped |-> {}]
        IN  MoveDispatch(d, row)
    BY DEF Assign
  <2>2. WITNESS d,
          [incident |-> i, responder |-> r, assigned_by |-> u,
           attempt |-> IF p = NoDispatch THEN 1
                       ELSE dispatch_requests[p].attempt + 1,
           status |-> "REQUESTED", version |-> 0,
           previous |-> p, stamped |-> {}]
  <2> QED
    BY <2>1 DEF MoveDispatch
<1>2. row # Unused
  BY <1>1 DEF Unused
<1>3. /\ Used' = Used \cup {d}
      /\ dispatch_requests'[d] = row
      /\ \A e \in Used : dispatch_requests'[e] = dispatch_requests[e]
  BY <1>1, <1>2 DEF Used, Agreement, TypeOK
<1>4. /\ IsActive(d)'
      /\ \A e \in Used : IsActive(e)' <=> IsActive(e)
  BY <1>1, <1>3 DEF IsActive, InactiveStatuses
<1>5. \A e \in Used : IsActive(e) =>
        dispatch_requests[e].incident # i /\ dispatch_requests[e].responder # r
  BY DEF Assign
<1>6. /\ incidents[i].status = "DISPATCH_REQUESTED"
      /\ \A j \in Incidents : incidents'[j].status = incidents[j].status
  <2>1. incidents[i].status = "DISPATCH_REQUESTED"
    BY DEF Assign
  <2>2. incidents' = [incidents EXCEPT ![i] = Moved(i, incidents[i].status)]
    BY DEF Assign, TouchIncident
  <2>3. Moved(i, incidents[i].status).status = incidents[i].status
    BY <2>1, MovedType DEF Agreement, IncidentStatuses
  <2> QED
    BY <2>1, <2>2, <2>3 DEF Agreement, TypeOK
<1>7. \A e \in Used :
        dispatch_requests[e].incident = i => dispatch_requests[e].status = "REJECTED"
  <2> SUFFICES ASSUME NEW e \in Used, dispatch_requests[e].incident = i
               PROVE  dispatch_requests[e].status = "REJECTED"
    OBVIOUS
  <2>1. <<dispatch_requests[e].status, "DISPATCH_REQUESTED">> \in MatchingStatuses
    BY <1>6 DEF Agreement, IncidentMatchesDispatch
  <2>2. dispatch_requests[e].status \in {"REQUESTED", "REJECTED"}
    BY <2>1 DEF MatchingStatuses
  <2>3. ~ IsActive(e)
    BY <1>5
  <2> QED
    BY <2>2, <2>3 DEF IsActive, InactiveStatuses
<1>8. IncidentMatchesDispatch'
  <2>1. ASSUME NEW e \in Used \cup {d}
        PROVE  <<dispatch_requests'[e].status,
                 incidents'[dispatch_requests'[e].incident].status>> \in MatchingStatuses
    <3>1. CASE e = d
      BY <1>1, <1>3, <1>6, <3>1 DEF MatchingStatuses
    <3>2. CASE e \in Used
      <4>1. dispatch_requests[e].incident \in Incidents
        BY <3>2 DEF Agreement, TypeOK, Used, DispatchRow
      <4> QED
        BY <1>3, <1>6, <3>2, <4>1 DEF Agreement, IncidentMatchesDispatch
    <3> QED
      BY <3>1, <3>2
  <2>2. ASSUME NEW j \in Incidents, incidents'[j].status \in LiveStatuses
        PROVE  HasLiveRequest(j)'
    <3>1. HasLiveRequest(j)
      BY <1>6, <2>2 DEF Agreement, IncidentMatchesDispatch, LiveStatuses
    <3> QED
      BY <1>3, <3>1 DEF HasLiveRequest, RequestsOf
  <2> QED
    BY <1>3, <2>1, <2>2 DEF IncidentMatchesDispatch, LiveStatuses
<1>9. NoDoubleBooking'
  <2> SUFFICES ASSUME NEW e \in Used \cup {d}, NEW f \in Used \cup {d}, e # f
               PROVE  /\ dispatch_requests'[e].incident = dispatch_requests'[f].incident =>
                           \/ dispatch_requests'[e].status = "REJECTED"
                           \/ dispatch_requests'[f].status = "REJECTED"
                      /\ dispatch_requests'[e].responder = dispatch_requests'[f].responder =>
                           ~ (IsActive(e)' /\ IsActive(f)')
    BY <1>3 DEF NoDoubleBooking
  <2>1. CASE e = d
    BY <1>1, <1>3, <1>4, <1>5, <1>7, <2>1
  <2>2. CASE f = d
    BY <1>1, <1>3, <1>4, <1>5, <1>7, <2>2
  <2>3. CASE e # d /\ f # d
    BY <1>3, <1>4, <2>3 DEF Agreement, NoDoubleBooking
  <2> QED
    BY <2>1, <2>2, <2>3
<1>10. BusyWhileActive'
  <2> SUFFICES ASSUME NEW q \in Responders
               PROVE  duty_status'[q] = "BUSY" <=>
                        \E e \in Used \cup {d} :
                           IsActive(e)' /\ dispatch_requests'[e].responder = q
    BY <1>3 DEF BusyWhileActive
  <2>1. /\ q = r => duty_status'[q] = "BUSY"
        /\ q # r => duty_status'[q] = duty_status[q]
    BY DEF Assign, Agreement, TypeOK
  <2>2. CASE q = r
    BY <1>1, <1>3, <1>4, <2>1, <2>2
  <2>3. CASE q # r
    BY <1>1, <1>3, <1>4, <2>1, <2>3 DEF Agreement, BusyWhileActive
  <2> QED
    BY <2>2, <2>3
<1> QED
  BY <1>8, <1>9, <1>10

\* A command of a controller keeps the agreement.
LEMMA ControllerStepAgrees ==
    ASSUME Agreement, TypeOK', NEW u \in Controllers, NEW i \in Incidents,
           ControllerStep(u, i)
    PROVE  IncidentMatchesDispatch' /\ NoDoubleBooking' /\ BusyWhileActive'
<1> TypeOK
  BY DEF Agreement
<1>1. \A d \in RequestsOf(i) :
        <<dispatch_requests[d].status, incidents[i].status>> \in MatchingStatuses
  BY DEF Agreement, IncidentMatchesDispatch, RequestsOf
<1>2. incidents' \in [Incidents -> IncidentRow]
  BY DEF TypeOK
\* Before DISPATCH_REQUESTED an incident has no requests.
<1>3. ASSUME NEW t, NEW row, row.status = t,
             incidents[i].status \in {"NEW", "ACKNOWLEDGED", "CLAIMED", "UNDER_REVIEW"},
             t \notin LiveStatuses,
             incidents' = [incidents EXCEPT ![i] = row],
             UNCHANGED <<dispatch_requests, duty_status>>
      PROVE  IncidentMatchesDispatch' /\ NoDoubleBooking' /\ BusyWhileActive'
  <2>1. RequestsOf(i) = {}
    BY <1>1, <1>3 DEF MatchingStatuses
  <2>2. /\ incidents'[i].status = t
        /\ \A j \in Incidents \ {i} : incidents'[j] = incidents[j]
    BY <1>3 DEF TypeOK
  <2> QED
    BY <1>2, <1>3, <2>1, <2>2, IncidentStepAgrees
<1>4. CASE Acknowledge(u, i)
  <2> DEFINE row == [Moved(i, "ACKNOWLEDGED") EXCEPT !.acknowledged_by = u]
  <2>1. row.status = "ACKNOWLEDGED"
    BY MovedType DEF IncidentRow, IncidentStatuses
  <2>2. incidents[i].status = "NEW"
    BY <1>4 DEF Acknowledge, CanMoveIncident, IncidentTransitions
  <2>3. incidents' = [incidents EXCEPT ![i] = row]
    BY <1>4 DEF Acknowledge, MoveIncident
  <2> HIDE DEF row
  <2> QED
    BY <1>3, <1>4, <2>1, <2>2, <2>3 DEF Acknowledge, LiveStatuses
<1>5. CASE Claim(u, i)
  <2> DEFINE row == [Moved(i, "CLAIMED") EXCEPT !.controller = u]
  <2>1. row.status = "CLAIMED"
    BY MovedType DEF IncidentRow, IncidentStatuses
  <2>2. incidents[i].status = "ACKNOWLEDGED"
    BY <1>5 DEF Claim, CanMoveIncident, IncidentTransitions
  <2>3. incidents' = [incidents EXCEPT ![i] = row]
    BY <1>5 DEF Claim, MoveIncident
  <2> HIDE DEF row
  <2> QED
    BY <1>3, <1>5, <2>1, <2>2, <2>3 DEF Claim, LiveStatuses
<1>6. CASE Review(u, i)
  <2> DEFINE row == Moved(i, "UNDER_REVIEW")
  <2>1. row.status = "UNDER_REVIEW"
    BY MovedType DEF IncidentStatuses
  <2>2. incidents[i].status = "CLAIMED"
    BY <1>6 DEF Review, CanMoveIncident, IncidentTransitions
  <2>3. incidents' = [incidents EXCEPT ![i] = row]
    BY <1>6 DEF Review, MoveIncident
  <2> HIDE DEF row
  <2> QED
    BY <1>3, <1>6, <2>1, <2>2, <2>3 DEF Review, LiveStatuses
<1>7. ASSUME NEW t \in DecisionTypes, Decide(u, i, t)
      PROVE  IncidentMatchesDispatch' /\ NoDoubleBooking' /\ BusyWhileActive'
  <2>1. incidents[i].status = "UNDER_REVIEW"
    BY <1>7 DEF Decide
  <2>2. PICK row : /\ incidents' = [incidents EXCEPT ![i] = row]
                   /\ row.status = DecisionTargets[t]
    <3>1. CASE t = "NEEDS_REVIEW"
      <4>1. incidents' = [incidents EXCEPT ![i] = Moved(i, incidents[i].status)]
        BY <1>7, <3>1 DEF Decide, TouchIncident
      <4>2. Moved(i, incidents[i].status).status = "UNDER_REVIEW"
        BY <2>1, MovedType DEF IncidentStatuses
      <4>3. DecisionTargets[t] = "UNDER_REVIEW"
        BY <3>1 DEF DecisionTargets
      <4> QED
        BY <4>1, <4>2, <4>3
    <3>2. CASE t # "NEEDS_REVIEW"
      <4>1. incidents' = [incidents EXCEPT ![i] = Decided(i, t)]
        BY <1>7, <3>2 DEF Decide, MoveIncident
      <4> QED
        BY <4>1, DecidedType
    <3> QED
      BY <3>1, <3>2
  <2>3. DecisionTargets[t] \notin LiveStatuses
    BY DEF DecisionTargets, DecisionTypes, LiveStatuses
  <2> QED
    BY <1>3, <1>7, <2>1, <2>2, <2>3 DEF Decide
<1>8. CASE Close(u, i)
  <2> DEFINE row == [Moved(i, "CLOSED") EXCEPT !.closed = TRUE]
  <2>1. row.status = "CLOSED"
    BY MovedType DEF IncidentRow, IncidentStatuses
  <2>2. incidents[i].status = "ACTION_COMPLETED"
    BY <1>8 DEF Close
  <2>3. incidents' = [incidents EXCEPT ![i] = row]
    BY <1>8 DEF Close, MoveIncident
  <2> HIDE DEF row
  <2>4. \A d \in RequestsOf(i) :
          <<dispatch_requests[d].status, "CLOSED">> \in MatchingStatuses
    BY <1>1, <2>2 DEF MatchingStatuses
  <2>5. /\ incidents'[i].status = "CLOSED"
        /\ \A j \in Incidents \ {i} : incidents'[j] = incidents[j]
    BY <2>1, <2>3 DEF TypeOK
  <2> QED
    BY <1>2, <1>8, <2>4, <2>5, IncidentStepAgrees DEF Close, LiveStatuses
<1>9. ASSUME NEW r \in Responders, Assign(u, i, r)
      PROVE  IncidentMatchesDispatch' /\ NoDoubleBooking' /\ BusyWhileActive'
  BY <1>9, AssignAgrees
<1> QED
  BY <1>4, <1>5, <1>6, <1>7, <1>8, <1>9 DEF ControllerStep

\* A command of a responder keeps the agreement.
LEMMA ResponderStepAgrees ==
    ASSUME Agreement, TypeOK', NEW r \in Responders, NEW d \in Dispatches,
           ResponderStep(r, d)
    PROVE  IncidentMatchesDispatch' /\ NoDoubleBooking' /\ BusyWhileActive'
<1> DEFINE i == dispatch_requests[d].incident
           s == dispatch_requests[d].status
<1>1. TypeOK /\ IsOwn(r, d)
  BY DEF Agreement, ResponderStep, Accept, Reject, Progress, Complete
<1>2. d \in Used /\ i \in Incidents /\ dispatch_requests[d].responder = r
  BY <1>1, OwnRow
<1>3. <<s, incidents[i].status>> \in MatchingStatuses
  BY <1>2 DEF Agreement, IncidentMatchesDispatch
<1>4. \A irow : \A t \in IncidentStatuses :
        /\ irow.status = t
        /\ incidents' = [incidents EXCEPT ![i] = irow]
        => /\ incidents'[i].status = t
           /\ \A j \in Incidents \ {i} : incidents'[j] = incidents[j]
  BY <1>1, <1>2 DEF TypeOK
<1>5. CASE Accept(r, d)
  <2> DEFINE row == Advanced(d, "ACCEPTED", {"accepted_at"})
             irow == Moved(i, "DISPATCHED")
  <2>1. /\ row \in DispatchRow /\ row.status = "ACCEPTED"
        /\ row.incident = i /\ row.responder = r
    BY <1>1, <1>2, AdvancedType DEF DispatchStatuses, Timestamps
  <2>2. irow.status = "DISPATCHED"
    BY <1>1, <1>2, MovedType DEF IncidentStatuses
  <2>3. /\ dispatch_requests' = [dispatch_requests EXCEPT ![d] = row]
        /\ incidents' = [incidents EXCEPT ![i] = irow]
        /\ duty_status' = duty_status
        /\ s = "REQUESTED"
    BY <1>5 DEF Accept, MoveDispatch, MoveIncident
  <2>4. /\ incidents'[i].status = "DISPATCHED"
        /\ \A j \in Incidents \ {i} : incidents'[j] = incidents[j]
    BY <1>4, <2>2, <2>3 DEF IncidentStatuses
  <2>5. IsActive(d)
    BY <1>2, <2>3 DEF IsActive, InactiveStatuses
  <2> HIDE DEF row, irow
  <2> QED
    BY <1>2, <2>1, <2>3, <2>4, <2>5, DispatchStepAgrees
    DEF MatchingStatuses, InactiveStatuses
<1>6. CASE Reject(r, d)
  <2> DEFINE row == Advanced(d, "REJECTED", {})
  <2>1. /\ row \in DispatchRow /\ row.status = "REJECTED"
        /\ row.incident = i /\ row.responder = r
    BY <1>1, <1>2, AdvancedType DEF DispatchStatuses
  <2>2. s = "REQUESTED"
    BY <1>6 DEF Reject
  <2>3. incidents[i].status = "DISPATCH_REQUESTED"
    BY <1>3, <2>2 DEF MatchingStatuses
  <2>4. Moved(i, incidents[i].status).status = "DISPATCH_REQUESTED"
    BY <1>1, <1>2, <2>3, MovedType DEF IncidentStatuses
  <2>5. /\ dispatch_requests' = [dispatch_requests EXCEPT ![d] = row]
        /\ incidents' = [incidents EXCEPT ![i] = Moved(i, incidents[i].status)]
        /\ duty_status' = [duty_status EXCEPT ![r] = "AVAILABLE"]
    BY <1>6 DEF Reject, MoveDispatch, TouchIncident
  <2>6. /\ incidents'[i].status = "DISPATCH_REQUESTED"
        /\ \A j \in Incidents \ {i} : incidents'[j] = incidents[j]
    BY <1>4, <2>4, <2>5 DEF IncidentStatuses
  <2>7. IsActive(d)
    BY <1>2, <2>2 DEF IsActive, InactiveStatuses
  <2> HIDE DEF row
  <2> QED
    BY <1>2, <2>1, <2>5, <2>6, <2>7, DispatchStepAgrees
    DEF MatchingStatuses, InactiveStatuses, LiveStatuses
<1>7. ASSUME NEW c \in ProgressConfigs, Progress(r, d, c)
      PROVE  IncidentMatchesDispatch' /\ NoDoubleBooking' /\ BusyWhileActive'
  <2> DEFINE row == Advanced(d, c.dispatch_to, {c.timestamp})
             t   == IF c.incident_to = "NONE" THEN c.incident_from ELSE c.incident_to
  <2>1. /\ row \in DispatchRow /\ row.status = c.dispatch_to
        /\ row.incident = i /\ row.responder = r
    BY <1>1, <1>2, AdvancedType, ProgressConfigType
  <2>2. /\ dispatch_requests' = [dispatch_requests EXCEPT ![d] = row]
        /\ duty_status' = duty_status
        /\ s = c.dispatch_from
        /\ incidents[i].status = c.incident_from
    BY <1>7 DEF Progress, MoveDispatch
  <2>3. /\ <<c.dispatch_to, t>> \in MatchingStatuses
        /\ <<"REJECTED", t>> \in MatchingStatuses
        /\ c.dispatch_to \notin InactiveStatuses
        /\ c.dispatch_from \notin InactiveStatuses
    BY DEF ProgressConfigs, MatchingStatuses, InactiveStatuses
  <2>4. /\ incidents'[i].status = t
        /\ \A j \in Incidents \ {i} : incidents'[j] = incidents[j]
    <3>1. CASE c.incident_to = "NONE"
      BY <1>7, <2>2, <3>1 DEF Progress
    <3>2. CASE c.incident_to # "NONE"
      <4>1. incidents' = [incidents EXCEPT ![i] = Moved(i, c.incident_to)]
        BY <1>7, <3>2 DEF Progress, MoveIncident
      <4>2. Moved(i, c.incident_to).status = c.incident_to
        BY <1>1, <1>2, <3>2, MovedType, ProgressConfigType
      <4>3. c.incident_to \in IncidentStatuses
        BY <3>2, ProgressConfigType
      <4> QED
        BY <1>4, <3>2, <4>1, <4>2, <4>3
    <3> QED
      BY <3>1, <3>2
  <2>5. IsActive(d)
    BY <1>2, <2>2, <2>3 DEF IsActive
  <2> HIDE DEF row, t
  <2> QED
    BY <1>2, <2>1, <2>2, <2>3, <2>4, <2>5, DispatchStepAgrees DEF InactiveStatuses
<1>8. CASE Complete(r, d)
  <2> DEFINE row == Advanced(d, "ACTION_COMPLETED", {"action_completed_at"})
             irow == Moved(i, "ACTION_COMPLETED")
  <2>1. /\ row \in DispatchRow /\ row.status = "ACTION_COMPLETED"
        /\ row.incident = i /\ row.responder = r
    BY <1>1, <1>2, AdvancedType DEF DispatchStatuses, Timestamps
  <2>2. irow.status = "ACTION_COMPLETED"
    BY <1>1, <1>2, MovedType DEF IncidentStatuses
  <2>3. /\ dispatch_requests' = [dispatch_requests EXCEPT ![d] = row]
        /\ incidents' = [incidents EXCEPT ![i] = irow]
        /\ duty_status' = [duty_status EXCEPT ![r] = "AVAILABLE"]
        /\ s = "ACTION_IN_PROGRESS"
    BY <1>8 DEF Complete, MoveDispatch, MoveIncident
  <2>4. /\ incidents'[i].status = "ACTION_COMPLETED"
        /\ \A j \in Incidents \ {i} : incidents'[j] = incidents[j]
    BY <1>4, <2>2, <2>3 DEF IncidentStatuses
  <2>5. IsActive(d)
    BY <1>2, <2>3 DEF IsActive, InactiveStatuses
  <2> HIDE DEF row, irow
  <2> QED
    BY <1>2, <2>1, <2>3, <2>4, <2>5, DispatchStepAgrees
    DEF MatchingStatuses, InactiveStatuses
<1> QED
  BY <1>5, <1>6, <1>7, <1>8 DEF ResponderStep

\* After any sequence of commands, incidents, requests and responders agree:
\* the statuses of incident and request match, nothing is booked twice, and
\* exactly the responders of active requests are BUSY.
THEOREM AgreementCorrect == Spec => []Agreement
<1>1. Init => Agreement
  <2> SUFFICES ASSUME Init PROVE Agreement
    OBVIOUS
  <2>1. Used = {} /\ TypeOK
    BY TypeInit DEF Init, Used
  <2>2. IncidentMatchesDispatch
    BY <2>1 DEF Init, IncidentMatchesDispatch
  <2>3. NoDoubleBooking
    BY <2>1 DEF NoDoubleBooking
  <2>4. BusyWhileActive
    BY <2>1 DEF Init, BusyWhileActive
  <2> QED
    BY <2>1, <2>2, <2>3, <2>4 DEF Agreement
<1>2. Agreement /\ [Next]_vars => Agreement'
  <2> SUFFICES ASSUME Agreement, [Next]_vars PROVE Agreement'
    OBVIOUS
  <2>1. TypeOK'
    BY TypeStep DEF Agreement
  <2>2. ASSUME NEW u \in Controllers, NEW i \in Incidents, ControllerStep(u, i)
        PROVE  Agreement'
    BY <2>1, <2>2, ControllerStepAgrees DEF Agreement
  <2>3. ASSUME NEW r \in Responders, NEW d \in Dispatches, ResponderStep(r, d)
        PROVE  Agreement'
    BY <2>1, <2>3, ResponderStepAgrees DEF Agreement
  <2>4. CASE UNCHANGED vars
    <3>1. /\ Used' = Used
          /\ \A e \in Dispatches : IsActive(e)' <=> IsActive(e)
          /\ \A j \in Incidents : HasLiveRequest(j)' <=> HasLiveRequest(j)
      BY <2>4 DEF vars, Used, IsActive, HasLiveRequest, RequestsOf
    <3> QED
      BY <2>1, <2>4, <3>1 DEF vars, Agreement, IncidentMatchesDispatch,
         NoDoubleBooking, BusyWhileActive, Used
  <2> QED
    BY <2>2, <2>3, <2>4 DEF Next
<1> QED
  BY <1>1, <1>2, PTL DEF Spec

\* The status columns of a request and of its incident always fit together.
THEOREM IncidentMatchesDispatchCorrect == Spec => []IncidentMatchesDispatch
BY AgreementCorrect, PTL DEF Agreement

\* No incident has two requests that were not rejected, no responder two active
\* ones, whatever the commands: the guards suffice without the unique indexes.
THEOREM NoDoubleBookingCorrect == Spec => []NoDoubleBooking
BY AgreementCorrect, PTL DEF Agreement

\* assign, reject and complete-action keep the duty status right.
THEOREM BusyWhileActiveCorrect == Spec => []BusyWhileActive
BY AgreementCorrect, PTL DEF Agreement

-----------------------------------------------------------------------------
(* Lifecycle implements Booking.                                           *)

\* The initial tables are an initial state of Booking.
LEMMA InitBooks == Init => B!Init
<1> SUFFICES ASSUME Init PROVE B!Init
  OBVIOUS
<1>1. Need = [i \in Incidents |-> "unknown"]
  BY DEF Init, Need, NeedOf, ConfirmedStatuses, OverStatuses
<1>2. Used = {}
  BY DEF Init, Used
<1>3. AskedPairs = {} /\ BoundPairs = {}
  BY <1>2 DEF AskedPairs, BoundPairs
<1> QED
  BY <1>1, <1>3 DEF B!Init

\* How Need changes when one incident gets the status t.
LEMMA NeedMoves ==
    ASSUME NEW i \in Incidents, NEW t, incidents'[i].status = t,
           \A j \in Incidents \ {i} : incidents'[j].status = incidents[j].status
    PROVE  /\ Need' = [Need EXCEPT ![i] = NeedOf(t)]
           /\ NeedOf(t) = NeedOf(incidents[i].status) => Need' = Need
<1>1. \A j \in Incidents : j # i => NeedOf(incidents'[j].status) = NeedOf(incidents[j].status)
  OBVIOUS
<1>2. NeedOf(incidents'[i].status) = NeedOf(t)
  OBVIOUS
<1>3. Need' = [j \in Incidents |-> NeedOf(incidents'[j].status)]
  BY DEF Need, NeedOf
<1> HIDE DEF NeedOf
<1> QED
  BY <1>1, <1>2, <1>3 DEF Need

\* A step that leaves the dispatch requests alone leaves the people alone.
LEMMA PairsStay ==
    ASSUME UNCHANGED dispatch_requests
    PROVE  AskedPairs' = AskedPairs /\ BoundPairs' = BoundPairs
BY DEF AskedPairs, BoundPairs, Pair, IsActive, Used

\* A step that only moves an incident confirms it, dismisses it, or is none.
LEMMA IncidentStepBooks ==
    ASSUME NEW i \in Incidents, NEW s, NEW t, incidents[i].status = s,
           incidents'[i].status = t,
           \A j \in Incidents \ {i} : incidents'[j].status = incidents[j].status,
           UNCHANGED dispatch_requests,
           NeedOf(s) # NeedOf(t) => NeedOf(s) = "unknown"
    PROVE  [B!Next]_<<Need, AskedPairs, BoundPairs>>
<1>1. AskedPairs' = AskedPairs /\ BoundPairs' = BoundPairs
  BY PairsStay
<1>2. Need[i] = NeedOf(s)
  BY DEF Need
<1>3. CASE NeedOf(t) = NeedOf(s)
  BY <1>1, <1>3, NeedMoves
<1>4. CASE NeedOf(t) # NeedOf(s) /\ NeedOf(t) = "real"
  <2>1. B!Confirm(i)
    BY <1>1, <1>2, <1>4, NeedMoves DEF B!Confirm
  <2> QED
    BY <2>1 DEF B!Next
<1>5. CASE NeedOf(t) # NeedOf(s) /\ NeedOf(t) = "over"
  <2>1. B!Dismiss(i)
    BY <1>1, <1>2, <1>5, NeedMoves DEF B!Dismiss
  <2> QED
    BY <2>1 DEF B!Next
<1>6. NeedOf(t) \in {"unknown", "real", "over"}
  BY DEF NeedOf
<1> QED
  BY <1>3, <1>4, <1>5, <1>6

-----------------------------------------------------------------------------
(* Steps that change a dispatch request.                                   *)

\* The pairs of all requests but d, for a step that writes d only.
OtherAsked(d) ==
    {Pair(e) : e \in {f \in Used \ {d} : dispatch_requests[f].status = "REQUESTED"}}

OtherBound(d) ==
    {Pair(e) : e \in {f \in Used \ {d} : /\ IsActive(f)
                                         /\ dispatch_requests[f].status # "REQUESTED"}}

\* The pairs are those of a request d, by its status, and those of the others.
PairsSplit ==
    \A d \in Used :
      /\ AskedPairs = IF dispatch_requests[d].status = "REQUESTED"
                      THEN OtherAsked(d) \cup {Pair(d)} ELSE OtherAsked(d)
      /\ BoundPairs = IF /\ dispatch_requests[d].status # "REQUESTED"
                         /\ dispatch_requests[d].status \notin InactiveStatuses
                      THEN OtherBound(d) \cup {Pair(d)} ELSE OtherBound(d)

\* It holds in every state, by the definitions alone.
LEMMA SplitPairs == PairsSplit
<1> SUFFICES ASSUME NEW d \in Used
             PROVE  /\ AskedPairs = IF dispatch_requests[d].status = "REQUESTED"
                                    THEN OtherAsked(d) \cup {Pair(d)} ELSE OtherAsked(d)
                    /\ BoundPairs = IF /\ dispatch_requests[d].status # "REQUESTED"
                                       /\ dispatch_requests[d].status \notin InactiveStatuses
                                    THEN OtherBound(d) \cup {Pair(d)} ELSE OtherBound(d)
  BY DEF PairsSplit
<1>1. Used = (Used \ {d}) \cup {d}
  OBVIOUS
<1>2. IsActive(d) <=> dispatch_requests[d].status \notin InactiveStatuses
  BY DEF IsActive
<1> HIDE DEF Used, IsActive, InactiveStatuses, Pair
<1>3. AskedPairs = IF dispatch_requests[d].status = "REQUESTED"
                   THEN OtherAsked(d) \cup {Pair(d)} ELSE OtherAsked(d)
  BY <1>1 DEF AskedPairs, OtherAsked
<1>4. BoundPairs = IF /\ dispatch_requests[d].status # "REQUESTED"
                      /\ dispatch_requests[d].status \notin InactiveStatuses
                   THEN OtherBound(d) \cup {Pair(d)} ELSE OtherBound(d)
  BY <1>1, <1>2 DEF BoundPairs, OtherBound
<1> QED
  BY <1>3, <1>4

\* The pairs of the others stay when d alone is written.
LEMMA OthersStay ==
    ASSUME NEW d \in Dispatches, Used' = Used \cup {d},
           \A e \in Used \ {d} : dispatch_requests'[e] = dispatch_requests[e]
    PROVE  OtherAsked(d)' = OtherAsked(d) /\ OtherBound(d)' = OtherBound(d)
<1>1. Used' \ {d} = Used \ {d}
  OBVIOUS
<1>2. \A e \in Used \ {d} :
         /\ (Pair(e))' = Pair(e)
         /\ IsActive(e)' <=> IsActive(e)
         /\ dispatch_requests'[e].status = dispatch_requests[e].status
  BY DEF Pair, IsActive
<1> QED
  BY <1>1, <1>2 DEF OtherAsked, OtherBound

\* The pair of an active request is the pair of no other request.
LEMMA PairIsAlone ==
    ASSUME Agreement, NEW d \in Used, IsActive(d)
    PROVE  Pair(d) \notin OtherAsked(d) /\ Pair(d) \notin OtherBound(d)
<1>1. \A e \in Used \ {d} : Pair(e) = Pair(d) => ~ IsActive(e)
  BY DEF Agreement, NoDoubleBooking, Pair
<1>2. \A e \in Used : dispatch_requests[e].status = "REQUESTED" => IsActive(e)
  BY DEF IsActive, InactiveStatuses
<1> QED
  BY <1>1, <1>2 DEF OtherAsked, OtherBound

\* A command of the responder of the active request d moves d to another
\* status, and keeps its incident real unless the request is completed.
LEMMA DispatchStepBooks ==
    ASSUME Agreement, NEW d \in Used, IsActive(d), NEW row \in DispatchRow,
           row.incident = dispatch_requests[d].incident,
           row.responder = dispatch_requests[d].responder,
           dispatch_requests' = [dispatch_requests EXCEPT ![d] = row],
           \A j \in Incidents \ {row.incident} :
              incidents'[j].status = incidents[j].status,
           row.status # "REQUESTED",
           dispatch_requests[d].status # "REQUESTED" => row.status # "REJECTED",
           dispatch_requests[d].status = "REQUESTED" => row.status # "ACTION_COMPLETED",
           row.status # "CANCELLED",
           NeedOf(incidents[row.incident].status) = "real",
           NeedOf(incidents'[row.incident].status) =
              IF row.status = "ACTION_COMPLETED" THEN "over" ELSE "real"
    PROVE  [B!Next]_<<Need, AskedPairs, BoundPairs>>
<1> DEFINE i == row.incident
           r == row.responder
           old == dispatch_requests[d].status
           t == incidents'[i].status
<1>1. i \in Incidents /\ r \in Responders /\ d \in Dispatches
  BY DEF DispatchRow, Used
<1>2. /\ Used' = Used
      /\ dispatch_requests'[d] = row
      /\ \A e \in Used \ {d} : dispatch_requests'[e] = dispatch_requests[e]
  <2>1. row # Unused
    BY DEF DispatchRow, Unused, DispatchStatuses
  <2> QED
    BY <2>1 DEF Used, Agreement, TypeOK
<1>3. Pair(d) = <<r, i>> /\ (Pair(d))' = <<r, i>>
  BY <1>2 DEF Pair
<1>4. OtherAsked(d)' = OtherAsked(d) /\ OtherBound(d)' = OtherBound(d)
  BY <1>1, <1>2, OthersStay
<1>5. <<r, i>> \notin OtherAsked(d) /\ <<r, i>> \notin OtherBound(d)
  BY <1>3, PairIsAlone
<1>6. /\ old \notin InactiveStatuses
      /\ Need[i] = "real"
      /\ Need' = [Need EXCEPT ![i] = NeedOf(t)]
      /\ NeedOf(t) = "real" => Need' = Need
  BY <1>1, NeedMoves DEF IsActive, Need
<1>7. /\ AskedPairs = IF old = "REQUESTED"
                      THEN OtherAsked(d) \cup {<<r, i>>} ELSE OtherAsked(d)
      /\ BoundPairs = IF old # "REQUESTED"
                      THEN OtherBound(d) \cup {<<r, i>>} ELSE OtherBound(d)
  BY <1>3, <1>6, SplitPairs DEF PairsSplit
<1>8. /\ AskedPairs' = OtherAsked(d)
      /\ BoundPairs' = IF row.status \notin InactiveStatuses
                       THEN OtherBound(d) \cup {<<r, i>>} ELSE OtherBound(d)
  <2>1. PairsSplit'
    BY SplitPairs, PTL
  <2>2. /\ AskedPairs' = IF row.status = "REQUESTED"
                         THEN OtherAsked(d) \cup {<<r, i>>} ELSE OtherAsked(d)
        /\ BoundPairs' = IF row.status # "REQUESTED" /\ row.status \notin InactiveStatuses
                         THEN OtherBound(d) \cup {<<r, i>>} ELSE OtherBound(d)
    BY <1>2, <1>3, <1>4, <2>1 DEF PairsSplit, InactiveStatuses
  <2> QED
    BY <2>2
<1>9. CASE old = "REQUESTED" /\ row.status = "REJECTED"
  <2>1. B!Refuse(r, i)
    <3>1. AskedPairs' = AskedPairs \ {<<r, i>>}
      BY <1>5, <1>7, <1>8, <1>9
    <3>2. BoundPairs' = BoundPairs /\ Need' = Need /\ <<r, i>> \in AskedPairs
      BY <1>6, <1>7, <1>8, <1>9 DEF InactiveStatuses
    <3> QED
      BY <3>1, <3>2 DEF B!Refuse
  <2> QED
    BY <1>1, <2>1 DEF B!Next
<1>10. CASE old = "REQUESTED" /\ row.status # "REJECTED"
  <2>1. row.status \notin InactiveStatuses
    BY <1>10 DEF InactiveStatuses
  <2>2. B!Agree(r, i)
    <3>1. AskedPairs' = AskedPairs \ {<<r, i>>}
      BY <1>5, <1>7, <1>8, <1>10
    <3>2. BoundPairs' = BoundPairs \cup {<<r, i>>}
      BY <1>7, <1>8, <1>10, <2>1
    <3>3. Need' = Need /\ <<r, i>> \in AskedPairs
      BY <1>6, <1>7, <1>10
    <3> QED
      BY <3>1, <3>2, <3>3 DEF B!Agree
  <2> QED
    BY <1>1, <2>2 DEF B!Next
<1>11. CASE old # "REQUESTED" /\ row.status = "ACTION_COMPLETED"
  <2>1. B!Finish(r, i)
    <3>1. BoundPairs' = BoundPairs \ {<<r, i>>}
      BY <1>5, <1>7, <1>8, <1>11 DEF InactiveStatuses
    <3>2. AskedPairs' = AskedPairs /\ <<r, i>> \in BoundPairs
      BY <1>7, <1>8, <1>11
    <3>3. Need' = [Need EXCEPT ![i] = "over"]
      BY <1>6, <1>11
    <3> QED
      BY <1>6, <3>1, <3>2, <3>3 DEF B!Finish
  <2> QED
    BY <1>1, <2>1 DEF B!Next
<1>12. CASE old # "REQUESTED" /\ row.status # "ACTION_COMPLETED"
  <2>1. row.status \notin InactiveStatuses
    BY <1>12 DEF InactiveStatuses
  <2>2. AskedPairs' = AskedPairs /\ BoundPairs' = BoundPairs /\ Need' = Need
    BY <1>6, <1>7, <1>8, <1>12, <2>1
  <2> QED
    BY <2>2
<1> QED
  BY <1>9, <1>10, <1>11, <1>12

\* assign asks a responder about an incident.
LEMMA AssignBooks ==
    ASSUME Agreement, NEW u \in Controllers, NEW i \in Incidents,
           NEW r \in Responders, Assign(u, i, r)
    PROVE  [B!Next]_<<Need, AskedPairs, BoundPairs>>
<1>1. PICK d, row :
        /\ d \in Dispatches \ Used
        /\ row.incident = i /\ row.responder = r /\ row.status = "REQUESTED"
        /\ dispatch_requests' = [dispatch_requests EXCEPT ![d] = row]
  <2>1. PICK d \in Dispatches \ Used, p \in Dispatches \cup {NoDispatch} :
        LET row == [incident |-> i, responder |-> r, assigned_by |-> u,
                    attempt |-> IF p = NoDispatch THEN 1
                                ELSE dispatch_requests[p].attempt + 1,
                    status |-> "REQUESTED", version |-> 0,
                    previous |-> p, stamped |-> {}]
        IN  MoveDispatch(d, row)
    BY DEF Assign
  <2>2. WITNESS d,
          [incident |-> i, responder |-> r, assigned_by |-> u,
           attempt |-> IF p = NoDispatch THEN 1
                       ELSE dispatch_requests[p].attempt + 1,
           status |-> "REQUESTED", version |-> 0,
           previous |-> p, stamped |-> {}]
  <2> QED
    BY <2>1 DEF MoveDispatch
<1>2. row # Unused
  BY <1>1 DEF Unused
<1>3. /\ Used' = Used \cup {d}
      /\ dispatch_requests'[d] = row
      /\ \A e \in Used : dispatch_requests'[e] = dispatch_requests[e]
  BY <1>1, <1>2 DEF Used, Agreement, TypeOK
<1>4. OtherAsked(d)' = OtherAsked(d) /\ OtherBound(d)' = OtherBound(d)
  BY <1>1, <1>3, OthersStay
<1>5. OtherAsked(d) = AskedPairs /\ OtherBound(d) = BoundPairs
  <2>1. Used \ {d} = Used
    BY <1>1
  <2> QED
    BY <2>1 DEF OtherAsked, OtherBound, AskedPairs, BoundPairs
<1>6. (Pair(d))' = <<r, i>>
  BY <1>1, <1>3 DEF Pair
<1>7. AskedPairs' = AskedPairs \cup {<<r, i>>} /\ BoundPairs' = BoundPairs
  <2>1. PairsSplit'
    BY SplitPairs, PTL
  <2> QED
    BY <1>1, <1>3, <1>4, <1>5, <1>6, <2>1 DEF PairsSplit, InactiveStatuses
<1>8. \A s \in AskedPairs \cup BoundPairs : s[1] # r /\ s[2] # i
  <2>1. ASSUME NEW e \in Used, IsActive(e)
        PROVE  Pair(e)[1] # r /\ Pair(e)[2] # i
    BY <2>1 DEF Assign, Pair
  <2>2. \A e \in Used : dispatch_requests[e].status = "REQUESTED" => IsActive(e)
    BY DEF IsActive, InactiveStatuses
  <2> QED
    BY <2>1, <2>2 DEF AskedPairs, BoundPairs
<1>9. incidents[i].status = "DISPATCH_REQUESTED"
  BY DEF Assign
<1>10. Need[i] = "real" /\ Need' = Need
  <2>1. Moved(i, incidents[i].status).status = "DISPATCH_REQUESTED"
    BY <1>9, MovedType DEF Agreement, IncidentStatuses
  <2>2. incidents' = [incidents EXCEPT ![i] = Moved(i, incidents[i].status)]
    BY DEF Assign, TouchIncident
  <2>3. /\ incidents'[i].status = "DISPATCH_REQUESTED"
        /\ \A j \in Incidents \ {i} : incidents'[j].status = incidents[j].status
    BY <2>1, <2>2 DEF Agreement, TypeOK
  <2>4. Need' = Need
    BY <1>9, <2>3, NeedMoves
  <2> QED
    BY <1>9, <2>4 DEF Need, NeedOf, ConfirmedStatuses
<1>11. B!Ask(r, i)
  BY <1>7, <1>8, <1>10 DEF B!Ask, B!Serving
<1> QED
  BY <1>11 DEF B!Next

\* A command of a controller confirms or dismisses a risk, asks a responder,
\* or is nothing to Booking.
LEMMA ControllerStepBooks ==
    ASSUME Agreement, NEW u \in Controllers, NEW i \in Incidents,
           ControllerStep(u, i)
    PROVE  [B!Next]_<<Need, AskedPairs, BoundPairs>>
<1> TypeOK
  BY DEF Agreement
<1>1. ASSUME NEW s, NEW t, NEW row, incidents[i].status = s, row.status = t,
             incidents' = [incidents EXCEPT ![i] = row],
             UNCHANGED dispatch_requests,
             NeedOf(s) # NeedOf(t) => NeedOf(s) = "unknown"
      PROVE  [B!Next]_<<Need, AskedPairs, BoundPairs>>
  <2>1. /\ incidents'[i].status = t
        /\ \A j \in Incidents \ {i} : incidents'[j].status = incidents[j].status
    BY <1>1 DEF TypeOK
  <2> QED
    BY <1>1, <2>1, IncidentStepBooks
<1>2. \A s \in {"NEW", "ACKNOWLEDGED", "CLAIMED", "UNDER_REVIEW"} :
         NeedOf(s) = "unknown"
  BY DEF NeedOf, ConfirmedStatuses, OverStatuses
<1>3. NeedOf("ACTION_COMPLETED") = "over" /\ NeedOf("CLOSED") = "over"
  BY DEF NeedOf, ConfirmedStatuses, OverStatuses
<1> HIDE DEF NeedOf
<1>4. CASE Acknowledge(u, i)
  <2> DEFINE row == [Moved(i, "ACKNOWLEDGED") EXCEPT !.acknowledged_by = u]
  <2>1. /\ incidents[i].status = "NEW"
        /\ incidents' = [incidents EXCEPT ![i] = row]
        /\ UNCHANGED dispatch_requests
    BY <1>4 DEF Acknowledge, CanMoveIncident, IncidentTransitions, MoveIncident
  <2> HIDE DEF row
  <2> QED
    BY <1>1, <1>2, <2>1
<1>5. CASE Claim(u, i)
  <2> DEFINE row == [Moved(i, "CLAIMED") EXCEPT !.controller = u]
  <2>1. /\ incidents[i].status = "ACKNOWLEDGED"
        /\ incidents' = [incidents EXCEPT ![i] = row]
        /\ UNCHANGED dispatch_requests
    BY <1>5 DEF Claim, CanMoveIncident, IncidentTransitions, MoveIncident
  <2> HIDE DEF row
  <2> QED
    BY <1>1, <1>2, <2>1
<1>6. CASE Review(u, i)
  <2> DEFINE row == Moved(i, "UNDER_REVIEW")
  <2>1. /\ incidents[i].status = "CLAIMED"
        /\ incidents' = [incidents EXCEPT ![i] = row]
        /\ UNCHANGED dispatch_requests
    BY <1>6 DEF Review, CanMoveIncident, IncidentTransitions, MoveIncident
  <2> HIDE DEF row
  <2> QED
    BY <1>1, <1>2, <2>1
<1>7. ASSUME NEW t \in DecisionTypes, Decide(u, i, t)
      PROVE  [B!Next]_<<Need, AskedPairs, BoundPairs>>
  <2>1. PICK row : incidents' = [incidents EXCEPT ![i] = row]
    BY <1>7 DEF Decide, TouchIncident, MoveIncident
  <2>2. incidents[i].status = "UNDER_REVIEW" /\ UNCHANGED dispatch_requests
    BY <1>7 DEF Decide
  <2> QED
    BY <1>1, <1>2, <2>1, <2>2
<1>8. CASE Close(u, i)
  <2> DEFINE row == [Moved(i, "CLOSED") EXCEPT !.closed = TRUE]
  <2>1. row.status = "CLOSED"
    BY MovedType DEF IncidentRow, IncidentStatuses
  <2>2. /\ incidents[i].status = "ACTION_COMPLETED"
        /\ incidents' = [incidents EXCEPT ![i] = row]
        /\ UNCHANGED dispatch_requests
    BY <1>8 DEF Close, MoveIncident
  <2> HIDE DEF row
  <2> QED
    BY <1>1, <1>3, <2>1, <2>2
<1>9. ASSUME NEW r \in Responders, Assign(u, i, r)
      PROVE  [B!Next]_<<Need, AskedPairs, BoundPairs>>
  BY <1>9, AssignBooks
<1> QED
  BY <1>4, <1>5, <1>6, <1>7, <1>8, <1>9 DEF ControllerStep

\* A command of a responder is a refusal, an agreement, the end of the work,
\* or a step on the way that Booking does not see.
LEMMA ResponderStepBooks ==
    ASSUME Agreement, NEW r \in Responders, NEW d \in Dispatches,
           ResponderStep(r, d)
    PROVE  [B!Next]_<<Need, AskedPairs, BoundPairs>>
<1> DEFINE i == dispatch_requests[d].incident
           s == dispatch_requests[d].status
<1>1. TypeOK /\ IsOwn(r, d)
  BY DEF Agreement, ResponderStep, Accept, Reject, Progress, Complete
<1>2. d \in Used /\ i \in Incidents /\ dispatch_requests[d].responder = r
  BY <1>1, OwnRow
<1>3. <<s, incidents[i].status>> \in MatchingStatuses
  BY <1>2 DEF Agreement, IncidentMatchesDispatch
<1>4. ASSUME NEW irow, incidents' = [incidents EXCEPT ![i] = irow]
      PROVE  /\ incidents'[i].status = irow.status
             /\ \A j \in Incidents \ {i} : incidents'[j].status = incidents[j].status
  BY <1>1, <1>2, <1>4 DEF TypeOK
<1>5. /\ \A t \in ConfirmedStatuses : NeedOf(t) = "real"
      /\ NeedOf("ACTION_COMPLETED") = "over"
      /\ ConfirmedStatuses \subseteq IncidentStatuses
  BY DEF NeedOf, ConfirmedStatuses, OverStatuses, IncidentStatuses
<1> HIDE DEF NeedOf
<1>6. CASE Accept(r, d)
  <2> DEFINE row == Advanced(d, "ACCEPTED", {"accepted_at"})
             irow == Moved(i, "DISPATCHED")
  <2>1. /\ row \in DispatchRow /\ row.status = "ACCEPTED"
        /\ row.incident = i /\ row.responder = r
    BY <1>1, <1>2, AdvancedType DEF DispatchStatuses, Timestamps
  <2>2. irow.status = "DISPATCHED"
    BY <1>1, <1>2, MovedType DEF IncidentStatuses
  <2>3. /\ dispatch_requests' = [dispatch_requests EXCEPT ![d] = row]
        /\ incidents' = [incidents EXCEPT ![i] = irow]
        /\ s = "REQUESTED"
        /\ incidents[i].status = "DISPATCH_REQUESTED"
    BY <1>6 DEF Accept, MoveDispatch, MoveIncident
  <2>4. IsActive(d)
    BY <1>2, <2>3 DEF IsActive, InactiveStatuses
  <2>5. NeedOf("DISPATCHED") = "real" /\ NeedOf("DISPATCH_REQUESTED") = "real"
    BY <1>5 DEF ConfirmedStatuses
  <2> HIDE DEF row, irow
  <2> QED
    BY <1>2, <1>4, <2>1, <2>2, <2>3, <2>4, <2>5, DispatchStepBooks
<1>7. CASE Reject(r, d)
  <2> DEFINE row == Advanced(d, "REJECTED", {})
             irow == Moved(i, incidents[i].status)
  <2>1. /\ row \in DispatchRow /\ row.status = "REJECTED"
        /\ row.incident = i /\ row.responder = r
    BY <1>1, <1>2, AdvancedType DEF DispatchStatuses
  <2>2. s = "REQUESTED"
    BY <1>7 DEF Reject
  <2>3. incidents[i].status = "DISPATCH_REQUESTED"
    BY <1>3, <2>2 DEF MatchingStatuses
  <2>4. irow.status = "DISPATCH_REQUESTED"
    BY <1>1, <1>2, <2>3, MovedType DEF IncidentStatuses
  <2>5. /\ dispatch_requests' = [dispatch_requests EXCEPT ![d] = row]
        /\ incidents' = [incidents EXCEPT ![i] = irow]
    BY <1>7 DEF Reject, MoveDispatch, TouchIncident
  <2>6. IsActive(d)
    BY <1>2, <2>2 DEF IsActive, InactiveStatuses
  <2>7. NeedOf("DISPATCH_REQUESTED") = "real"
    BY <1>5 DEF ConfirmedStatuses
  <2> HIDE DEF row, irow
  <2>8. /\ incidents'[i].status = "DISPATCH_REQUESTED"
        /\ \A j \in Incidents \ {i} : incidents'[j].status = incidents[j].status
    BY <1>4, <2>4, <2>5
  <2> QED
    BY <1>2, <2>1, <2>2, <2>3, <2>5, <2>6, <2>7, <2>8, DispatchStepBooks
<1>8. ASSUME NEW c \in ProgressConfigs, Progress(r, d, c)
      PROVE  [B!Next]_<<Need, AskedPairs, BoundPairs>>
  <2> DEFINE row == Advanced(d, c.dispatch_to, {c.timestamp})
             t   == IF c.incident_to = "NONE" THEN c.incident_from ELSE c.incident_to
  <2>1. /\ row \in DispatchRow /\ row.status = c.dispatch_to
        /\ row.incident = i /\ row.responder = r
    BY <1>1, <1>2, AdvancedType, ProgressConfigType
  <2>2. /\ dispatch_requests' = [dispatch_requests EXCEPT ![d] = row]
        /\ s = c.dispatch_from
        /\ incidents[i].status = c.incident_from
    BY <1>8 DEF Progress, MoveDispatch
  <2>3. /\ t \in ConfirmedStatuses /\ c.incident_from \in ConfirmedStatuses
        /\ c.dispatch_from \notin InactiveStatuses \cup {"REQUESTED"}
        /\ c.dispatch_to \notin InactiveStatuses \cup {"REQUESTED"}
    BY DEF ProgressConfigs, ConfirmedStatuses, InactiveStatuses
  <2>4. /\ incidents'[i].status = t
        /\ \A j \in Incidents \ {i} : incidents'[j].status = incidents[j].status
    <3>1. CASE c.incident_to = "NONE"
      BY <1>8, <2>2, <3>1 DEF Progress
    <3>2. CASE c.incident_to # "NONE"
      <4>1. incidents' = [incidents EXCEPT ![i] = Moved(i, c.incident_to)]
        BY <1>8, <3>2 DEF Progress, MoveIncident
      <4>2. Moved(i, c.incident_to).status = c.incident_to
        BY <1>1, <1>2, <3>2, MovedType, ProgressConfigType
      <4> QED
        BY <1>4, <3>2, <4>1, <4>2
    <3> QED
      BY <3>1, <3>2
  <2>5. IsActive(d)
    BY <1>2, <2>2, <2>3 DEF IsActive
  <2>6. /\ row.status \notin {"REQUESTED", "REJECTED", "CANCELLED", "ACTION_COMPLETED"}
        /\ NeedOf(t) = "real" /\ NeedOf(incidents[i].status) = "real"
    BY <1>5, <2>1, <2>2, <2>3 DEF InactiveStatuses
  <2> HIDE DEF row, t
  <2> QED
    BY <1>2, <2>1, <2>2, <2>4, <2>5, <2>6, DispatchStepBooks
<1>9. CASE Complete(r, d)
  <2> DEFINE row == Advanced(d, "ACTION_COMPLETED", {"action_completed_at"})
             irow == Moved(i, "ACTION_COMPLETED")
  <2>1. /\ row \in DispatchRow /\ row.status = "ACTION_COMPLETED"
        /\ row.incident = i /\ row.responder = r
    BY <1>1, <1>2, AdvancedType DEF DispatchStatuses, Timestamps
  <2>2. irow.status = "ACTION_COMPLETED"
    BY <1>1, <1>2, MovedType DEF IncidentStatuses
  <2>3. /\ dispatch_requests' = [dispatch_requests EXCEPT ![d] = row]
        /\ incidents' = [incidents EXCEPT ![i] = irow]
        /\ s = "ACTION_IN_PROGRESS"
        /\ incidents[i].status = "ACTION_IN_PROGRESS"
    BY <1>9 DEF Complete, MoveDispatch, MoveIncident
  <2>4. IsActive(d)
    BY <1>2, <2>3 DEF IsActive, InactiveStatuses
  <2>5. NeedOf("ACTION_IN_PROGRESS") = "real"
    BY <1>5 DEF ConfirmedStatuses
  <2> HIDE DEF row, irow
  <2> QED
    BY <1>2, <1>4, <1>5, <2>1, <2>2, <2>3, <2>4, <2>5, DispatchStepBooks
<1> QED
  BY <1>6, <1>7, <1>8, <1>9 DEF ResponderStep

\* The commands on the tables implement the promise to the people, for any
\* number of incidents, requests, controllers and responders.
THEOREM LifecycleImplementsBooking == Spec => ImplementsBooking
<1>1. Agreement /\ [Next]_vars => [B!Next]_<<Need, AskedPairs, BoundPairs>>
  <2> SUFFICES ASSUME Agreement, [Next]_vars
               PROVE  [B!Next]_<<Need, AskedPairs, BoundPairs>>
    OBVIOUS
  <2>1. ASSUME NEW u \in Controllers, NEW i \in Incidents, ControllerStep(u, i)
        PROVE  [B!Next]_<<Need, AskedPairs, BoundPairs>>
    BY <2>1, ControllerStepBooks
  <2>2. ASSUME NEW r \in Responders, NEW d \in Dispatches, ResponderStep(r, d)
        PROVE  [B!Next]_<<Need, AskedPairs, BoundPairs>>
    BY <2>2, ResponderStepBooks
  <2>3. CASE UNCHANGED vars
    <3>1. Need' = Need
      BY <2>3 DEF vars, Need
    <3>2. AskedPairs' = AskedPairs /\ BoundPairs' = BoundPairs
      BY <2>3, PairsStay DEF vars
    <3> QED
      BY <3>1, <3>2
  <2> QED
    BY <2>1, <2>2, <2>3 DEF Next
<1> QED
  BY <1>1, InitBooks, AgreementCorrect, PTL DEF Spec, ImplementsBooking, B!Spec

=============================================================================
