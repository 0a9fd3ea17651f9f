----------------------------- MODULE ReadsProofs -----------------------------
(***************************************************************************)
(* What clients are shown, for every value of the constants: that lists    *)
(* and boards read from one state of the tables tell the same story, and   *)
(* that the detail of an incident, put together by several statements      *)
(* while commands commit, is covered by the version it shows.  Last, the   *)
(* time stamps that are shown: no code compares them, and the version      *)
(* check alone keeps those of one incident in order.                       *)
(***************************************************************************)
EXTENDS Boards, IncidentReads, Timeline, RecordsProofs

-----------------------------------------------------------------------------
(* The summary: its names partition the statuses.                          *)

WithStatus(T) == {i \in Incidents : incidents[i].status \in T}

\* Counting one more status adds its incidents to those counted before.
LEMMA OneMoreStatus ==
    ASSUME NEW T, NEW t, t \notin T
    PROVE  /\ Cardinality(WithStatus(T)) \in Nat
           /\ StatusCount(t) \in Nat
           /\ Cardinality(WithStatus(T \cup {t})) =
                 Cardinality(WithStatus(T)) + StatusCount(t)
<1> DEFINE Others == WithStatus(T)
           Those == {i \in Incidents : incidents[i].status = t}
<1>1. WithStatus(T \cup {t}) = Others \cup Those /\ Others \cap Those = {}
  BY DEF WithStatus
<1>2. IsFiniteSet(Others) /\ IsFiniteSet(Those)
  <2>1. Others \in SUBSET Incidents /\ Those \in SUBSET Incidents
    BY DEF WithStatus
  <2> HIDE DEF Others, Those
  <2> QED
    BY <2>1, BoardsAssumption, FS_Subset
<1>3. StatusCount(t) = Cardinality(Those)
  BY DEF StatusCount
<1> HIDE DEF Others, Those
<1>4. Cardinality(Others \cup Those) = Cardinality(Others) + Cardinality(Those) - Cardinality(Others \cap Those)
  BY <1>2, FS_Union
<1>5. Cardinality(Others \cap Those) = 0
  BY <1>1, FS_EmptySet
<1>6. Cardinality(Others) \in Nat /\ Cardinality(Those) \in Nat
  BY <1>2, FS_CardinalityType
<1>7. Cardinality(Others \cup Those) = Cardinality(Others) + Cardinality(Those)
  BY <1>4, <1>5, <1>6
<1> QED
  BY <1>1, <1>3, <1>6, <1>7 DEF Others

\* The eleven statuses, counted one after the other.
LEMMA SummaryFollows == ASSUME TypeOK PROVE SummaryAddsUp
<1> DEFINE C(T) == Cardinality(WithStatus(T))
           T1  == {"NEW"}
           T2  == T1 \cup {"ACKNOWLEDGED"}
           T3  == T2 \cup {"CLAIMED"}
           T4  == T3 \cup {"UNDER_REVIEW"}
           T5  == T4 \cup {"DISPATCH_REQUESTED"}
           T6  == T5 \cup {"DISPATCHED"}
           T7  == T6 \cup {"ON_SCENE"}
           T8  == T7 \cup {"ACTION_IN_PROGRESS"}
           T9  == T8 \cup {"ACTION_COMPLETED"}
           T10 == T9 \cup {"CLOSED"}
           T11 == T10 \cup {"FALSE_POSITIVE"}
<1>1. C({}) = 0
  <2>1. WithStatus({}) = {}
    BY DEF WithStatus
  <2> QED
    BY <2>1, FS_EmptySet
<1>2. C(T1) = C({}) + StatusCount("NEW") /\ StatusCount("NEW") \in Nat
  <2>1. T1 = {} \cup {"NEW"}
    OBVIOUS
  <2> QED
    BY <2>1, OneMoreStatus
<1>3. C(T2) = C(T1) + StatusCount("ACKNOWLEDGED") /\ StatusCount("ACKNOWLEDGED") \in Nat
  <2>1. "ACKNOWLEDGED" \notin T1
    OBVIOUS
  <2> QED
    BY <2>1, OneMoreStatus
<1>4. C(T3) = C(T2) + StatusCount("CLAIMED") /\ StatusCount("CLAIMED") \in Nat
  <2>1. "CLAIMED" \notin T2
    OBVIOUS
  <2> QED
    BY <2>1, OneMoreStatus
<1>5. C(T4) = C(T3) + StatusCount("UNDER_REVIEW") /\ StatusCount("UNDER_REVIEW") \in Nat
  <2>1. "UNDER_REVIEW" \notin T3
    OBVIOUS
  <2> QED
    BY <2>1, OneMoreStatus
<1>6. C(T5) = C(T4) + StatusCount("DISPATCH_REQUESTED") /\ StatusCount("DISPATCH_REQUESTED") \in Nat
  <2>1. "DISPATCH_REQUESTED" \notin T4
    OBVIOUS
  <2> QED
    BY <2>1, OneMoreStatus
<1>7. C(T6) = C(T5) + StatusCount("DISPATCHED") /\ StatusCount("DISPATCHED") \in Nat
  <2>1. "DISPATCHED" \notin T5
    OBVIOUS
  <2> QED
    BY <2>1, OneMoreStatus
<1>8. C(T7) = C(T6) + StatusCount("ON_SCENE") /\ StatusCount("ON_SCENE") \in Nat
  <2>1. "ON_SCENE" \notin T6
    OBVIOUS
  <2> QED
    BY <2>1, OneMoreStatus
<1>9. C(T8) = C(T7) + StatusCount("ACTION_IN_PROGRESS") /\ StatusCount("ACTION_IN_PROGRESS") \in Nat
  <2>1. "ACTION_IN_PROGRESS" \notin T7
    OBVIOUS
  <2> QED
    BY <2>1, OneMoreStatus
<1>10. C(T9) = C(T8) + StatusCount("ACTION_COMPLETED") /\ StatusCount("ACTION_COMPLETED") \in Nat
  <2>1. "ACTION_COMPLETED" \notin T8
    OBVIOUS
  <2> QED
    BY <2>1, OneMoreStatus
<1>11. C(T10) = C(T9) + StatusCount("CLOSED") /\ StatusCount("CLOSED") \in Nat
  <2>1. "CLOSED" \notin T9
    OBVIOUS
  <2> QED
    BY <2>1, OneMoreStatus
<1>12. C(T11) = C(T10) + StatusCount("FALSE_POSITIVE") /\ StatusCount("FALSE_POSITIVE") \in Nat
  <2>1. "FALSE_POSITIVE" \notin T10
    OBVIOUS
  <2> QED
    BY <2>1, OneMoreStatus
<1>13. WithStatus(T11) = Incidents
  BY DEF WithStatus, TypeOK, IncidentRow, IncidentStatuses
<1>14. Cardinality(Incidents) = C(T11)
  BY <1>13
<1> HIDE DEF C, T1, T2, T3, T4, T5, T6, T7, T8, T9, T10, T11
<1> QED
  BY <1>1, <1>2, <1>3, <1>4, <1>5, <1>6, <1>7, <1>8, <1>9, <1>10, <1>11, <1>12, <1>14
  DEF SummaryAddsUp, Summary

-----------------------------------------------------------------------------
(* The dashboard and the lists of the field.                               *)

\* What the dashboard and the lists select are the active requests: at most one
\* of an incident, at most one of a responder, and each fits its incident.
LEMMA SelectedIsActive ==
    ASSUME Agreement
    PROVE  /\ \A i \in Incidents : JoinedDispatches(i) = {d \in RequestsOf(i) : IsActive(d)}
           /\ \A i \in Incidents : \A d, e \in JoinedDispatches(i) : d = e
           /\ \A d, e \in Used :
                IsActive(d) /\ IsActive(e)
                  /\ dispatch_requests[d].responder = dispatch_requests[e].responder => d = e
           /\ \A d \in Used : /\ d # NoDispatch
                              /\ dispatch_requests[d].incident \in Incidents
                              /\ dispatch_requests[d].responder \in Responders
<1>1. \A i \in Incidents : JoinedDispatches(i) = {d \in RequestsOf(i) : IsActive(d)}
  BY DEF JoinedDispatches, RequestsOf, IsActive, InactiveStatuses
<1>2. ASSUME NEW i \in Incidents, NEW d \in JoinedDispatches(i), NEW e \in JoinedDispatches(i)
      PROVE  d = e
  <2>1. /\ d \in Used /\ e \in Used
        /\ dispatch_requests[d].incident = dispatch_requests[e].incident
        /\ dispatch_requests[d].status # "REJECTED" /\ dispatch_requests[e].status # "REJECTED"
    BY DEF JoinedDispatches, RequestsOf
  <2> QED
    BY <2>1 DEF Agreement, NoDoubleBooking
<1>3. \A d, e \in Used :
        IsActive(d) /\ IsActive(e)
          /\ dispatch_requests[d].responder = dispatch_requests[e].responder => d = e
  BY DEF Agreement, NoDoubleBooking
<1>4. ASSUME NEW d \in Used
      PROVE  /\ d # NoDispatch
             /\ dispatch_requests[d].incident \in Incidents
             /\ dispatch_requests[d].responder \in Responders
  <2>1. d \in Dispatches /\ dispatch_requests[d] \in DispatchRow
    BY DEF Used, Agreement, TypeOK
  <2> QED
    BY <2>1, DispatchesAssumption DEF DispatchRow
<1> QED
  BY <1>1, <1>2, <1>3, <1>4

\* The row of the dashboard that shows request d.
BoardRow(d) ==
    [incident |-> dispatch_requests[d].incident,
     incident_status |-> incidents[dispatch_requests[d].incident].status,
     dispatch |-> d, dispatch_status |-> dispatch_requests[d].status,
     responder |-> dispatch_requests[d].responder]

\* The dashboard has one row for each incident, and it fits.
LEMMA DashboardFollows == ASSUME Agreement PROVE DashboardOneRow
<1> SUFFICES ASSUME NEW i \in Incidents
             PROVE  /\ \A x, y \in DashboardRows(i) : x = y
                    /\ \A x \in DashboardRows(i) :
                         /\ x.dispatch # NoDispatch =>
                              <<x.dispatch_status, x.incident_status>> \in MatchingStatuses
                         /\ x.incident_status \in {"DISPATCHED", "ON_SCENE", "ACTION_IN_PROGRESS"}
                               => x.dispatch # NoDispatch
  BY DEF DashboardOneRow
<1> DEFINE s == incidents[i].status
<1>1. CASE JoinedDispatches(i) = {}
  <2>1. s \notin {"DISPATCHED", "ON_SCENE", "ACTION_IN_PROGRESS"}
    <3> SUFFICES ASSUME s \in {"DISPATCHED", "ON_SCENE", "ACTION_IN_PROGRESS"} PROVE FALSE
      OBVIOUS
    <3>1. PICK d \in RequestsOf(i) : dispatch_requests[d].status # "REJECTED"
      BY DEF Agreement, IncidentMatchesDispatch, HasLiveRequest
    <3>2. d \in Used /\ dispatch_requests[d].incident = i
      BY DEF RequestsOf
    <3>3. <<dispatch_requests[d].status, s>> \in MatchingStatuses
      BY <3>2 DEF Agreement, IncidentMatchesDispatch
    <3>4. dispatch_requests[d].status \in {"REJECTED", "CANCELLED", "ACTION_COMPLETED"}
      BY <1>1 DEF JoinedDispatches
    <3> QED
      BY <3>1, <3>3, <3>4 DEF MatchingStatuses
  <2>2. DashboardRows(i) =
          {[incident |-> i, incident_status |-> s,
            dispatch |-> NoDispatch, dispatch_status |-> "NULL", responder |-> NoUser]}
    BY <1>1 DEF DashboardRows
  <2> QED
    BY <2>1, <2>2
<1>2. CASE JoinedDispatches(i) # {}
  <2>1. PICK d \in JoinedDispatches(i) : TRUE
    BY <1>2
  <2>2. JoinedDispatches(i) = {d}
    BY <2>1, SelectedIsActive
  <2>3. d \in Used /\ dispatch_requests[d].incident = i
    BY <2>1 DEF JoinedDispatches, RequestsOf
  <2>4. DashboardRows(i) = {BoardRow(d)}
    BY <1>2, <2>2, <2>3 DEF DashboardRows, BoardRow
  <2>5. <<dispatch_requests[d].status, s>> \in MatchingStatuses
    BY <2>3 DEF Agreement, IncidentMatchesDispatch
  <2>6. d # NoDispatch
    BY <2>3, SelectedIsActive
  <2> QED
    BY <2>3, <2>4, <2>5, <2>6 DEF BoardRow
<1> QED
  BY <1>1, <1>2

\* The requests that the lists of responder r are made of.
ActiveFor(r) == {d \in Used : IsActive(d) /\ dispatch_requests[d].responder = r}

\* The rows of the dashboard with the name of a responder are those of its
\* active requests.
LEMMA BoardOfResponder ==
    ASSUME Agreement, NEW r \in Responders
    PROVE  {x \in UNION {DashboardRows(i) : i \in Incidents} : x.responder = r} =
              {BoardRow(d) : d \in ActiveFor(r)}
<1> DEFINE board == {x \in UNION {DashboardRows(i) : i \in Incidents} : x.responder = r}
<1>1. ASSUME NEW i \in Incidents, NEW x \in DashboardRows(i), x.responder = r
      PROVE  \E d \in ActiveFor(r) : x = BoardRow(d)
  <2>1. JoinedDispatches(i) # {}
    <3> SUFFICES ASSUME JoinedDispatches(i) = {} PROVE FALSE
      OBVIOUS
    <3>1. x.responder = NoUser
      BY DEF DashboardRows
    <3> QED
      BY <1>1, <3>1, BoardsAssumption
  <2>2. PICK d \in JoinedDispatches(i) :
          x = [incident |-> i, incident_status |-> incidents[i].status,
               dispatch |-> d, dispatch_status |-> dispatch_requests[d].status,
               responder |-> dispatch_requests[d].responder]
    BY <2>1 DEF DashboardRows
  <2>3. d \in Used /\ dispatch_requests[d].incident = i /\ IsActive(d)
    BY SelectedIsActive DEF RequestsOf
  <2>4. x = BoardRow(d) /\ dispatch_requests[d].responder = r
    BY <1>1, <2>2, <2>3 DEF BoardRow
  <2> QED
    BY <2>3, <2>4 DEF ActiveFor
<1>2. ASSUME NEW d \in ActiveFor(r)
      PROVE  \E i \in Incidents : BoardRow(d) \in DashboardRows(i) /\ BoardRow(d).responder = r
  <2> DEFINE i == dispatch_requests[d].incident
  <2>1. d \in Used /\ IsActive(d) /\ dispatch_requests[d].responder = r
    BY DEF ActiveFor
  <2>2. i \in Incidents
    BY <2>1, SelectedIsActive
  <2>3. d \in JoinedDispatches(i)
    BY <2>1, <2>2, SelectedIsActive DEF RequestsOf
  <2>4. BoardRow(d) \in DashboardRows(i)
    BY <2>3 DEF DashboardRows, BoardRow
  <2> QED
    BY <2>1, <2>2, <2>4 DEF BoardRow
<1> QED
  BY <1>1, <1>2

\* What a responder sees of its requests is what the control room sees of them.
LEMMA FieldFollows == ASSUME Agreement PROVE FieldSeesBoard
<1> SUFFICES ASSUME NEW r \in Responders
             PROVE  LET mine  == MineActive(r)
                        board == {x \in UNION {DashboardRows(i) : i \in Incidents} :
                                     x.responder = r}
                    IN  /\ \A m, n \in mine : m = n
                        /\ {<<m.dispatch, m.status, m.incident, m.incident_status>> : m \in mine} =
                              {<<x.dispatch, x.dispatch_status, x.incident, x.incident_status>> :
                                  x \in board}
                        /\ ActiveRows(r) = {<<m.dispatch, m.status, m.incident>> : m \in mine}
                        /\ HasActiveDispatch(r) <=> mine # {}
                        /\ duty_status[r] = "BUSY" <=> mine # {}
  BY DEF FieldSeesBoard
<1> DEFINE A == ActiveFor(r)
           board == {x \in UNION {DashboardRows(i) : i \in Incidents} : x.responder = r}
<1>1. \A d, e \in A : d = e
  BY SelectedIsActive DEF ActiveFor
<1>2. /\ MineActive(r) = {Item(d) : d \in A}
      /\ ActiveRows(r) = {<<d, dispatch_requests[d].status, dispatch_requests[d].incident>> : d \in A}
  BY DEF MineActive, ActiveRows, ActiveFor, IsActive, InactiveStatuses, TerminalStatuses
<1>3. board = {BoardRow(d) : d \in A}
  BY BoardOfResponder
<1>4. ASSUME NEW d
      PROVE  /\ Item(d).dispatch = d
             /\ Item(d).status = dispatch_requests[d].status
             /\ Item(d).incident = dispatch_requests[d].incident
             /\ Item(d).incident_status = incidents[dispatch_requests[d].incident].status
             /\ BoardRow(d).dispatch = d
             /\ BoardRow(d).dispatch_status = dispatch_requests[d].status
             /\ BoardRow(d).incident = dispatch_requests[d].incident
             /\ BoardRow(d).incident_status = incidents[dispatch_requests[d].incident].status
  BY DEF Item, BoardRow
<1>5. HasActiveDispatch(r) <=> A # {}
  BY DEF HasActiveDispatch, ActiveFor
<1>6. duty_status[r] = "BUSY" <=> A # {}
  BY DEF Agreement, BusyWhileActive, ActiveFor
<1> HIDE DEF A, board
<1>7. {<<m.dispatch, m.status, m.incident, m.incident_status>> : m \in {Item(d) : d \in A}} =
        {<<x.dispatch, x.dispatch_status, x.incident, x.incident_status>> :
            x \in {BoardRow(d) : d \in A}}
  BY <1>4
<1>8. {<<m.dispatch, m.status, m.incident>> : m \in {Item(d) : d \in A}} =
        {<<d, dispatch_requests[d].status, dispatch_requests[d].incident>> : d \in A}
  BY <1>4
<1> QED
  BY <1>1, <1>2, <1>3, <1>5, <1>6, <1>7, <1>8 DEF board

\* All boards and lists show one picture of the tables, in every state the
\* commands can lead to.
THEOREM BoardsAgreeCorrect == Spec => []BoardsAgree
<1>1. Agreement => BoardsAgree
  BY SummaryFollows, DashboardFollows, FieldFollows DEF Agreement, BoardsAgree
<1> QED
  BY <1>1, AgreementCorrect, PTL

-----------------------------------------------------------------------------
(* The detail of an incident: what one statement, and what a command, does *)
(* to the rows a client may be looking at.                                 *)

\* Reads change no table, and what commits between them are commands: all that
\* is proved of the commands holds while details are read.
THEOREM ReadCommands == ReadSpec => Spec
<1>1. ReadInit => Init
  BY DEF ReadInit
<1>2. [ReadNext]_readVars => [Next]_vars
  BY DEF ReadNext, Command, Begin, Read, readVars
<1> QED
  BY <1>1, <1>2, PTL DEF ReadSpec, Spec

\* What the version of an incident vouches for: its row, its decisions, its
\* history and which of its requests is active.
Now(i) ==
    [row |-> incidents[i], decisions |-> incident_decisions[i],
     histories |-> incident_histories[i],
     active |-> {d \in RequestsOf(i) : IsActive(d)}]

\* The same of what the statements of a transaction see.
Gist(v) ==
    [row |-> v.row, decisions |-> v.decisions, histories |-> v.histories,
     active |-> {d \in DOMAIN v.dispatches :
                    v.dispatches[d].status \notin InactiveStatuses}]

\* The value x that was kept of statement s agrees with the gist g.
Fits(s, x, g) ==
    IF s = "dispatches"
    THEN (x.found <=> g.active # {}) /\ (x.found => x.dispatch \in g.active)
    ELSE x \in Kept(s, g)

LEMMA GistOfSlice == \A i \in Incidents : Gist(Slice(i)) = Now(i)
BY DEF Gist, Slice, Now, RequestsOf, IsActive

\* Whatever get_incident keeps of a statement agrees with what it saw.
LEMMA KeptFits ==
    ASSUME NEW v, NEW s \in Statements, NEW x \in Kept(s, v)
    PROVE  Fits(s, x, Gist(v))
<1>1. CASE s = "dispatches"
  <2> DEFINE A == Gist(v).active
  <2>1. x \in OneOf(ActiveDispatch(v.dispatches))
    BY <1>1 DEF Kept
  <2>2. ActiveDispatch(v.dispatches) =
          {[found |-> TRUE, dispatch |-> d, status |-> v.dispatches[d].status] : d \in A}
    BY DEF ActiveDispatch, Gist, InactiveStatuses
  <2> HIDE DEF A
  <2>3. CASE A = {}
    <3>1. x = Nothing
      BY <2>1, <2>2, <2>3 DEF OneOf
    <3> QED
      BY <1>1, <2>3, <3>1 DEF Fits, Nothing, A
  <2>4. CASE A # {}
    <3>1. \E d \in A : x = [found |-> TRUE, dispatch |-> d, status |-> v.dispatches[d].status]
      BY <2>1, <2>2, <2>4 DEF OneOf
    <3> QED
      BY <1>1, <2>4, <3>1 DEF Fits, A
  <2> QED
    BY <2>3, <2>4
<1>2. CASE s \in {"row", "decisions", "histories"}
  BY <1>2 DEF Fits, Kept, Gist
<1> QED
  BY <1>1, <1>2 DEF Statements

\* A command raises the version of an incident, or changes nothing that the
\* version vouches for; depart and en-route leave the request active.
LEMMA VersionVouches ==
    ASSUME TypeOK, [Next]_vars, NEW j \in Incidents
    PROVE  \/ incidents'[j].version = incidents[j].version + 1
           \/ Now(j)' = Now(j)
<1>1. ASSUME NEW u \in Controllers, NEW i \in Incidents, NEW row \in IncidentRow,
             ControllerRecords(u, i, row)
      PROVE  \/ incidents'[j].version = incidents[j].version + 1
             \/ Now(j)' = Now(j)
  <2>1. /\ incidents'[i].version = incidents[i].version + 1
        /\ \A k \in Incidents \ {i} : incidents'[k] = incidents[k]
    BY <1>1, RowWritten DEF ControllerRecords, ControllerWrites
  <2>2. CASE j # i
    <3>1. incident_decisions'[j] = incident_decisions[j]
      BY <1>1, <2>2, DecisionsAfter
    <3>2. incident_histories'[j] = incident_histories[j]
      BY <1>1, <2>2 DEF ControllerRecords, ControllerWrites, RecordsMove, TypeOK
    <3>3. dispatch_requests' = dispatch_requests
      BY <1>1 DEF ControllerRecords, ControllerWrites
    <3>4. RequestsOf(j)' = RequestsOf(j) /\ Used' = Used
      BY <3>3, RequestsKept
    <3> QED
      BY <2>1, <2>2, <3>1, <3>2, <3>3, <3>4 DEF Now, IsActive
  <2> QED
    BY <2>1, <2>2
<1>2. ASSUME NEW u \in Controllers, NEW i \in Incidents, NEW d \in Dispatches \ Used,
             NEW p \in Dispatches \cup {NoDispatch}, NEW new \in DispatchRow,
             NEW row \in IncidentRow, AssignRecords(u, i, d, p, new, row)
      PROVE  \/ incidents'[j].version = incidents[j].version + 1
             \/ Now(j)' = Now(j)
  <2>1. WritesRow(i, row) /\ row = [incidents[i] EXCEPT !.version = @ + 1]
    BY <1>2 DEF AssignRecords, AssignWrites
  <2>2. /\ incidents'[i].version = incidents[i].version + 1
        /\ \A k \in Incidents \ {i} : incidents'[k] = incidents[k]
    <3>1. incidents[i] \in IncidentRow
      BY DEF TypeOK
    <3> QED
      BY <2>1, <3>1, RowWritten DEF IncidentRow
  <2>3. CASE j # i
    <3>1. incident_decisions'[j] = incident_decisions[j]
      BY <1>2 DEF AssignRecords, AssignWrites
    <3>2. incident_histories'[j] = incident_histories[j]
      BY <1>2, <2>3 DEF AssignRecords, AssignWrites, RecordsMove, TypeOK
    <3>3. /\ \A e \in Dispatches \ {d} : dispatch_requests'[e] = dispatch_requests[e]
          /\ Used' = Used \cup {d}
          /\ RequestsOf(j)' = RequestsOf(j)
      <4>1. new.incident = i
        BY <1>2 DEF AssignRecords, AssignWrites
      <4>2. dispatch_requests' = [dispatch_requests EXCEPT ![d] = new]
        BY <1>2 DEF AssignRecords, AssignWrites
      <4> QED
        BY <2>3, <4>1, <4>2, RequestAdded
    <3>4. RequestsOf(j) \subseteq Used /\ RequestsOf(j) \subseteq Dispatches \ {d}
      BY DEF RequestsOf, Used
    <3> QED
      BY <2>2, <2>3, <3>1, <3>2, <3>3, <3>4 DEF Now, IsActive
  <2> QED
    BY <2>2, <2>3
<1>3. ASSUME NEW d \in Used, NEW i \in Incidents, NEW new \in DispatchRow,
             NEW row \in IncidentRow, ResponderWrites(d, new, i, row)
      PROVE  \/ incidents'[j].version = incidents[j].version + 1
             \/ Now(j)' = Now(j)
  <2>1. /\ incidents'[i] = row
        /\ \A k \in Incidents \ {i} : incidents'[k] = incidents[k]
    BY <1>3, RowWritten DEF ResponderWrites
  <2>2. /\ dispatch_requests'[d] = new
        /\ \A e \in Dispatches \ {d} : dispatch_requests'[e] = dispatch_requests[e]
        /\ Used' = Used
        /\ RequestsOf(j)' = RequestsOf(j)
    BY <1>3, RequestMoved DEF ResponderWrites
  <2>3. RequestsOf(j) \subseteq Used /\ RequestsOf(j) \subseteq Dispatches
    BY DEF RequestsOf, Used
  <2>4. incident_decisions' = incident_decisions
    BY <1>3 DEF ResponderWrites
  <2>5. CASE j # i
    <3>1. incident_histories'[j] = incident_histories[j]
      BY <1>3, <2>5 DEF ResponderWrites, RecordsMove, TypeOK
    <3>2. d \notin RequestsOf(j)
      BY <1>3, <2>5 DEF ResponderWrites, RequestsOf
    <3> QED
      BY <2>1, <2>2, <2>3, <2>4, <2>5, <3>1, <3>2 DEF Now, IsActive
  <2>6. CASE j = i /\ new.status \in {"DEPARTED", "EN_ROUTE"}
    <3>1. row = incidents[i] /\ incident_histories' = incident_histories
      BY <1>3, <2>6 DEF ResponderWrites, RecordsMove
    <3>2. dispatch_requests[d].status \notin InactiveStatuses
      BY <1>3, <2>6 DEF ResponderWrites, DispatchTransitions, InactiveStatuses
    <3>3. \A e \in RequestsOf(j) : IsActive(e)' <=> IsActive(e)
      BY <2>2, <2>3, <2>6, <3>2 DEF IsActive, InactiveStatuses
    <3> QED
      BY <2>1, <2>2, <2>4, <2>6, <3>1, <3>3 DEF Now
  <2>7. CASE j = i /\ new.status \notin {"DEPARTED", "EN_ROUTE"}
    BY <1>3, <2>1, <2>7 DEF ResponderWrites
  <2> QED
    BY <2>5, <2>6, <2>7
<1>4. CASE UNCHANGED vars
  BY <1>4 DEF vars, Now, RequestsOf, IsActive, Used
<1> QED
  BY <1>1, <1>2, <1>3, <1>4, StepEffect

-----------------------------------------------------------------------------
(* One state of the tables tells one story.  That the history has a row    *)
(* that leads to UNDER_REVIEW exactly when the incident got that far would *)
(* follow from its being a path by induction along the path; it is stated  *)
(* as an invariant of its own instead.                                     *)

Unreviewed == {"NEW", "ACKNOWLEDGED", "CLAIMED"}

LeadsToReview(h) == \E k \in DOMAIN h : h[k][2] = "UNDER_REVIEW"

ReviewRecorded ==
    \A i \in Incidents :
      LeadsToReview(incident_histories[i]) <=> incidents[i].status \notin Unreviewed

\* One more row of the history.
LEMMA ReviewAppended ==
    ASSUME NEW S, NEW h \in Seq(S), NEW a, NEW b, <<a, b>> \in S
    PROVE  LeadsToReview(Append(h, <<a, b>>)) <=> LeadsToReview(h) \/ b = "UNDER_REVIEW"
<1> DEFINE g == Append(h, <<a, b>>)
           n == Len(h)
<1>1. n \in Nat /\ DOMAIN h = 1..n
  OBVIOUS
<1>2. /\ DOMAIN g = 1..(n + 1)
      /\ \A k \in 1..n : g[k] = h[k]
      /\ g[n + 1] = <<a, b>>
  BY AppendProperties
<1> HIDE DEF g, n
<1>3. 1..(n + 1) = (1..n) \cup {n + 1}
  BY <1>1
<1>4. g[n + 1][2] = b
  BY <1>2
<1> QED
  BY <1>1, <1>2, <1>3, <1>4 DEF LeadsToReview, g

\* A step that moves an incident, or leaves its status, keeps the history right.
LEMMA MoveRecorded ==
    ASSUME TypeOK, ReviewRecorded, NEW i \in Incidents, NEW row \in IncidentRow,
           WritesRow(i, row), RecordsMove(i, incidents[i].status, row.status),
           row.status \notin Unreviewed <=>
              (incidents[i].status \notin Unreviewed \/ row.status = "UNDER_REVIEW")
    PROVE  ReviewRecorded'
<1> DEFINE s == incidents[i].status
           t == row.status
           S == IncidentStatuses \X IncidentStatuses
<1>1. incidents'[i] = row /\ \A j \in Incidents \ {i} : incidents'[j] = incidents[j]
  BY RowWritten
<1>2. \A j \in Incidents \ {i} : incident_histories'[j] = incident_histories[j]
  BY DEF RecordsMove, TypeOK
<1>3. LeadsToReview(incident_histories'[i]) <=> t \notin Unreviewed
  <2>1. CASE s = t
    <3>1. incident_histories'[i] = incident_histories[i]
      BY <2>1 DEF RecordsMove
    <3> QED
      BY <2>1, <3>1 DEF ReviewRecorded
  <2>2. CASE s # t
    <3>1. incident_histories'[i] = Append(incident_histories[i], <<s, t>>)
      BY <2>2 DEF RecordsMove, TypeOK
    <3>2. incident_histories[i] \in Seq(S) /\ <<s, t>> \in S
      BY DEF TypeOK, IncidentRow
    <3> HIDE DEF S
    <3>3. LeadsToReview(incident_histories'[i]) <=>
             (LeadsToReview(incident_histories[i]) \/ t = "UNDER_REVIEW")
      BY <3>1, <3>2, ReviewAppended
    <3>4. LeadsToReview(incident_histories[i]) <=> s \notin Unreviewed
      BY DEF ReviewRecorded
    <3> QED
      BY <3>3, <3>4
  <2> QED
    BY <2>1, <2>2
<1>4. \A j \in Incidents : LeadsToReview(incident_histories'[j]) <=>
                              incidents'[j].status \notin Unreviewed
  BY <1>1, <1>2, <1>3 DEF ReviewRecorded
<1> QED
  BY <1>4 DEF ReviewRecorded, LeadsToReview

\* review_started_at, which is looked up in the history, is there exactly from
\* the review on.
LEMMA ReviewRecordedCorrect == Spec => []ReviewRecorded
<1>1. Init => ReviewRecorded
  BY DEF Init, ReviewRecorded, LeadsToReview, Unreviewed
<1>2. TypeOK /\ ReviewRecorded /\ [Next]_vars => ReviewRecorded'
  <2> SUFFICES ASSUME TypeOK, ReviewRecorded, [Next]_vars PROVE ReviewRecorded'
    OBVIOUS
  <2>1. ASSUME NEW u \in Controllers, NEW i \in Incidents, NEW row \in IncidentRow,
               ControllerRecords(u, i, row)
        PROVE  ReviewRecorded'
    <3>1. WritesRow(i, row) /\ RecordsMove(i, incidents[i].status, row.status)
      BY <2>1 DEF ControllerRecords, ControllerWrites
    <3>2. row.status \notin Unreviewed <=>
             (incidents[i].status \notin Unreviewed \/ row.status = "UNDER_REVIEW")
      BY <2>1 DEF ControllerRecords, ControllerWrites, IncidentTransitions, Unreviewed
    <3> QED
      BY <3>1, <3>2, MoveRecorded
  <2>2. ASSUME NEW u \in Controllers, NEW i \in Incidents, NEW d \in Dispatches \ Used,
               NEW p \in Dispatches \cup {NoDispatch}, NEW new \in DispatchRow,
               NEW row \in IncidentRow, AssignRecords(u, i, d, p, new, row)
        PROVE  ReviewRecorded'
    <3>1. /\ WritesRow(i, row) /\ RecordsMove(i, incidents[i].status, row.status)
          /\ incidents[i].status = row.status
      BY <2>2, RowWritten DEF AssignRecords, AssignWrites, RecordsMove
    <3> QED
      BY <3>1, MoveRecorded DEF Unreviewed
  <2>3. ASSUME NEW d \in Used, NEW i \in Incidents, NEW new \in DispatchRow,
               NEW row \in IncidentRow, ResponderWrites(d, new, i, row)
        PROVE  ReviewRecorded'
    <3>1. WritesRow(i, row) /\ RecordsMove(i, incidents[i].status, row.status)
      BY <2>3 DEF ResponderWrites
    <3>2. row.status \notin Unreviewed <=>
             (incidents[i].status \notin Unreviewed \/ row.status = "UNDER_REVIEW")
      BY <2>3 DEF ResponderWrites, IncidentTransitions, Unreviewed
    <3> QED
      BY <3>1, <3>2, MoveRecorded
  <2>4. CASE UNCHANGED vars
    BY <2>4 DEF vars, ReviewRecorded
  <2> QED
    BY <2>1, <2>2, <2>3, <2>4, StepEffect
<1> QED
  BY <1>1, <1>2, TypeCorrect, PTL DEF Spec

\* What the statements of one transaction see of v is one story, whichever of
\* several active requests or decisions get_incident would take.
Consistent(v) ==
    \A x \in Kept("decisions", v), y \in Kept("dispatches", v), z \in Kept("histories", v) :
      IsOneStory(v.row.status, x, y, z)

\* The one decision that is not superseded is the last.
LEMMA ActiveDecisionIsLast ==
    ASSUME NEW D \in Seq(DecisionRow), IsDecisionChain(D), NEW x \in OneOf(ActiveDecision(D))
    PROVE  IF D = <<>> THEN ~ x.found
           ELSE x.found /\ x.type = D[Len(D)].type
<1> DEFINE n == Len(D)
<1>1. n \in Nat /\ DOMAIN D = 1..n /\ (D = <<>> <=> n = 0)
  OBVIOUS
<1> HIDE DEF n
<1>2. \A k \in 1..n : D[k].superseded <=> k # n
  BY <1>1 DEF IsDecisionChain, n
<1>3. CASE D = <<>>
  <2>1. ActiveDecision(D) = {}
    BY <1>1, <1>3 DEF ActiveDecision
  <2> QED
    BY <1>3, <2>1 DEF OneOf, Nothing
<1>4. CASE D # <<>>
  <2>1. n \in 1..n
    BY <1>1, <1>4
  <2>2. ActiveDecision(D) = {[found |-> TRUE, position |-> n, type |-> D[n].type]}
    BY <1>1, <1>2, <2>1 DEF ActiveDecision
  <2>3. x = [found |-> TRUE, position |-> n, type |-> D[n].type]
    BY <2>2 DEF OneOf
  <2> QED
    BY <1>4, <2>3 DEF n
<1> QED
  BY <1>3, <1>4

\* Every state the commands can lead to tells one story of every incident.
LEMMA SliceConsistent ==
    ASSUME Agreement, DecisionChain, ReviewRecorded, NEW i \in Incidents
    PROVE  Consistent(Slice(i))
<1> DEFINE v == Slice(i)
           s == incidents[i].status
<1> SUFFICES ASSUME NEW x \in Kept("decisions", v), NEW y \in Kept("dispatches", v),
                    NEW z \in Kept("histories", v)
             PROVE  IsOneStory(s, x, y, z)
  BY DEF Consistent, Slice
<1>1. y.found => <<y.status, s>> \in MatchingStatuses
  <2> SUFFICES ASSUME y.found PROVE <<y.status, s>> \in MatchingStatuses
    OBVIOUS
  <2>1. y \in OneOf(ActiveDispatch(v.dispatches))
    BY DEF Kept
  <2>2. y \in ActiveDispatch(v.dispatches)
    BY <2>1 DEF OneOf, Nothing
  <2>3. \E d \in RequestsOf(i) : y.status = dispatch_requests[d].status
    BY <2>2 DEF ActiveDispatch, Slice
  <2> QED
    BY <2>3 DEF Agreement, IncidentMatchesDispatch, RequestsOf
<1>2. s \in {"DISPATCHED", "ON_SCENE", "ACTION_IN_PROGRESS"} => y.found
  <2> SUFFICES ASSUME s \in {"DISPATCHED", "ON_SCENE", "ACTION_IN_PROGRESS"} PROVE y.found
    OBVIOUS
  <2>1. PICK d \in RequestsOf(i) : dispatch_requests[d].status # "REJECTED"
    BY DEF Agreement, IncidentMatchesDispatch, HasLiveRequest
  <2>2. <<dispatch_requests[d].status, s>> \in MatchingStatuses
    BY <2>1 DEF Agreement, IncidentMatchesDispatch, RequestsOf
  <2>3. IsActive(d)
    BY <2>1, <2>2 DEF MatchingStatuses, IsActive, InactiveStatuses, RequestsOf
  <2>4. d \in Gist(v).active
    BY <2>3, GistOfSlice DEF Now
  <2>5. Fits("dispatches", y, Gist(v))
    BY KeptFits DEF Statements
  <2> QED
    BY <2>4, <2>5 DEF Fits
<1>3. s \in Unreviewed \cup {"UNDER_REVIEW"} <=> (x.found => x.type = "NEEDS_REVIEW")
  <2> DEFINE D == incident_decisions[i]
  <2>1. D \in Seq(DecisionRow) /\ IsDecisionChain(D)
    BY DEF Agreement, TypeOK, DecisionChain
  <2>2. x \in OneOf(ActiveDecision(D))
    BY DEF Kept, Slice
  <2>3. (D = <<>> \/ D[Len(D)].type = "NEEDS_REVIEW") <=> s \in Unreviewed \cup {"UNDER_REVIEW"}
    BY DEF DecisionChain, LastDecision, Unreviewed
  <2> HIDE DEF D
  <2>4. IF D = <<>> THEN ~ x.found ELSE x.found /\ x.type = D[Len(D)].type
    BY <2>1, <2>2, ActiveDecisionIsLast
  <2> QED
    BY <2>3, <2>4
<1>4. z <=> s \notin Unreviewed
  <2>1. z \in {LeadsToReview(incident_histories[i])}
    BY DEF Kept, Slice, LeadsToReview
  <2>2. LeadsToReview(incident_histories[i]) <=> s \notin Unreviewed
    BY DEF ReviewRecorded
  <2> HIDE DEF s
  <2> QED
    BY <2>1, <2>2
<1> HIDE DEF s
<1> QED
  BY <1>1, <1>2, <1>3, <1>4 DEF IsOneStory, Unreviewed

-----------------------------------------------------------------------------
(* The request.  Its row is read first, so whatever a later statement sees *)
(* is of the same version or of a later one; and a version that still      *)
(* stands vouches for all of them.                                         *)

IsReading == request.phase = "reading"

HasSnapshot == request.isolation = "REPEATABLE READ"

IsRead(s) == s \in Statements \ request.todo

RequestOK ==
    \/ request = Idle
    \/ /\ DOMAIN request = {"phase", "incident", "isolation", "story",
                            "snapshot", "todo", "shown"}
       /\ DOMAIN request.shown = Statements
       /\ request.incident \in Incidents
       /\ request.todo \subseteq Statements
       /\ request.phase = IF request.todo = {} THEN "answered" ELSE "reading"
       /\ "row" \in request.todo => request.todo = Statements
       /\ request.story => HasSnapshot

\* The version in the row v is or was that of incident i, and if it still is,
\* then g is what it vouches for.
Vouches(row, g, i) ==
    /\ row.version \in Nat
    /\ incidents[i].version >= row.version
    /\ incidents[i].version = row.version => g = Now(i)

SnapshotVouches ==
    IsReading /\ HasSnapshot =>
      Vouches(request.snapshot.row, Gist(request.snapshot), request.incident)

\* What was kept so far agrees with the incident as long as the version does.
KeptCurrent ==
    request # Idle /\ IsRead("row") =>
      LET i   == request.incident
          row == request.shown["row"]
      IN  /\ row.version \in Nat
          /\ incidents[i].version >= row.version
          /\ incidents[i].version = row.version =>
                \A s \in Statements : IsRead(s) => Fits(s, request.shown[s], Now(i))
          /\ IsReading /\ HasSnapshot => row = request.snapshot.row

\* With a snapshot, what was kept so far is of one consistent state.
KeptConsistent ==
    IsReading /\ HasSnapshot =>
      /\ Consistent(request.snapshot)
      /\ \A s \in Statements :
            IsRead(s) => request.shown[s] \in Kept(s, request.snapshot)

ReadInv ==
    RequestOK /\ SnapshotVouches /\ KeptCurrent /\ KeptConsistent /\ DetailTellsOneStory

\* A version that is vouched for now still is after a command.
LEMMA VouchesNext ==
    ASSUME TypeOK, [Next]_vars, NEW row, NEW g, NEW i \in Incidents, Vouches(row, g, i)
    PROVE  Vouches(row, g, i)'
<1>1. incidents[i].version \in Nat
  BY DEF TypeOK, IncidentRow
<1>2. CASE incidents'[i].version = incidents[i].version + 1
  BY <1>1, <1>2 DEF Vouches
<1>3. CASE Now(i)' = Now(i)
  <2>1. incidents'[i] = incidents[i]
    BY <1>3 DEF Now
  <2> QED
    BY <1>3, <2>1 DEF Vouches
<1> QED
  BY <1>2, <1>3, VersionVouches

\* A command while the request is in progress or its answer on the screen.
LEMMA CommandKeepsRead ==
    ASSUME TypeOK, ReadInv, [Next]_vars, UNCHANGED request
    PROVE  ReadInv'
<1>1. RequestOK' /\ KeptConsistent' /\ DetailTellsOneStory'
  BY DEF ReadInv, RequestOK, HasSnapshot, KeptConsistent, IsReading, IsRead,
         DetailTellsOneStory, IsShown, Shown
<1>2. CASE request = Idle
  <2>1. SnapshotVouches' /\ KeptCurrent'
    BY <1>2 DEF SnapshotVouches, KeptCurrent, IsReading, Idle
  <2> QED
    BY <1>1, <2>1 DEF ReadInv
<1>3. CASE request # Idle
  <2> DEFINE i == request.incident
  <2>1. i \in Incidents /\ i' = i
    BY <1>3 DEF ReadInv, RequestOK
  <2>2. SnapshotVouches'
    <3> SUFFICES ASSUME IsReading', HasSnapshot'
                 PROVE  Vouches(request.snapshot.row, Gist(request.snapshot), request.incident)'
      BY DEF SnapshotVouches
    <3> DEFINE row == request.snapshot.row
               g   == Gist(request.snapshot)
    <3>1. Vouches(row, g, i)
      BY DEF ReadInv, SnapshotVouches, IsReading, HasSnapshot
    <3>2. PICK r, h, j : r = row /\ h = g /\ j = i
      OBVIOUS
    <3>3. Vouches(r, h, j)'
      BY <2>1, <3>1, <3>2, VouchesNext
    <3>4. /\ request'.snapshot.row = r
          /\ Gist(request.snapshot)' = h
          /\ request'.incident = j
      BY <3>2 DEF Gist
    <3> QED
      BY <3>3, <3>4 DEF Vouches, Now
  <2>3. KeptCurrent'
    <3> SUFFICES ASSUME IsRead("row")
                 PROVE  KeptCurrent'
      BY DEF KeptCurrent, IsRead
    <3> DEFINE row == request.shown["row"]
    <3>1. /\ row.version \in Nat
          /\ incidents[i].version >= row.version
          /\ incidents[i].version = row.version =>
                \A s \in Statements : IsRead(s) => Fits(s, request.shown[s], Now(i))
          /\ IsReading /\ HasSnapshot => row = request.snapshot.row
      BY <1>3 DEF ReadInv, KeptCurrent
    <3>2. incidents[i].version \in Nat
      BY <2>1 DEF TypeOK, IncidentRow
    <3>3. \/ incidents'[i].version = incidents[i].version + 1
          \/ Now(i)' = Now(i) /\ incidents'[i] = incidents[i]
      <4>1. PICK j \in Incidents : j = i
        BY <2>1
      <4>2. \/ incidents'[j].version = incidents[j].version + 1
            \/ Now(j)' = Now(j)
        BY VersionVouches
      <4>3. Now(j)' = Now(j) => incidents'[j] = incidents[j]
        BY DEF Now
      <4>4. Now(i)' = Now(j)'
        BY <4>1 DEF Now
      <4> QED
        BY <4>1, <4>2, <4>3, <4>4
    <3>4. /\ incidents'[i].version >= row.version
          /\ incidents'[i].version = row.version =>
                Now(i)' = Now(i) /\ incidents[i].version = row.version
      BY <3>1, <3>2, <3>3
    <3>5. ASSUME incidents'[i].version = row.version, NEW s \in Statements, IsRead(s)'
          PROVE  Fits(s, request'.shown[s], Now(request.incident)')
      BY <3>1, <3>4, <3>5 DEF IsRead
    <3> QED
      BY <3>1, <3>4, <3>5 DEF KeptCurrent, IsReading, HasSnapshot, Fits, Kept
  <2> QED
    BY <1>1, <2>2, <2>3 DEF ReadInv
<1> QED
  BY <1>2, <1>3

\* The snapshot of a new request is of one consistent state, and current.
LEMMA BeginKeepsRead ==
    ASSUME Agreement, DecisionChain, ReviewRecorded, NEW i \in Incidents,
           NEW isolation \in Isolations, Begin(i, isolation)
    PROVE  ReadInv'
<1>1. /\ request'.incident = i /\ request'.isolation = isolation
      /\ request'.phase = "reading" /\ request'.todo = Statements
      /\ request'.story = (isolation = "REPEATABLE READ")
      /\ isolation = "REPEATABLE READ" => request'.snapshot = Slice(i)
      /\ DOMAIN request' = {"phase", "incident", "isolation", "story",
                            "snapshot", "todo", "shown"}
      /\ DOMAIN request'.shown = Statements
  BY DEF Begin
<1>2. UNCHANGED vars
  BY DEF Begin
<1>3. RequestOK'
  BY <1>1 DEF RequestOK, HasSnapshot, Statements
<1>4. KeptCurrent' /\ DetailTellsOneStory'
  BY <1>1 DEF KeptCurrent, IsRead, Statements, DetailTellsOneStory, IsShown
<1>5. SnapshotVouches'
  <2>1. Now(i)' = Now(i) /\ incidents' = incidents
    BY <1>2 DEF vars, Now, RequestsOf, IsActive, Used
  <2>2. Gist(Slice(i)) = Now(i) /\ Slice(i).row = incidents[i]
    BY GistOfSlice DEF Slice
  <2>3. incidents[i].version \in Nat
    BY DEF Agreement, TypeOK, IncidentRow
  <2>4. ASSUME isolation = "REPEATABLE READ"
        PROVE  /\ request'.snapshot.row = incidents[i]
               /\ Gist(request.snapshot)' = Now(i)
    BY <1>1, <2>2, <2>4 DEF Gist
  <2>5. Now(request.incident)' = Now(i)
    <3>1. Now(request.incident)' = Now(i)'
      BY <1>1 DEF Now, RequestsOf, IsActive, Used
    <3> QED
      BY <2>1, <3>1
  <2>6. request'.incident = i /\ request'.isolation = isolation
    BY <1>1
  <2> SUFFICES ASSUME IsReading', HasSnapshot'
               PROVE  Vouches(request.snapshot.row, Gist(request.snapshot), request.incident)'
    BY DEF SnapshotVouches
  <2>7. request'.snapshot.row = incidents[i] /\ Gist(request.snapshot)' = Now(i)
    BY <2>4, <2>6 DEF HasSnapshot
  <2>8. incidents'[request'.incident] = incidents[i]
    BY <2>1, <2>6
  <2>9. incidents[i].version >= incidents[i].version
    BY <2>3
  <2> QED
    BY <2>3, <2>5, <2>7, <2>8, <2>9 DEF Vouches
<1>6. KeptConsistent'
  <2>1. PICK v : v = Slice(i) /\ Consistent(v)
    BY SliceConsistent
  <2>2. isolation = "REPEATABLE READ" => Consistent(request.snapshot)'
    <3>1. isolation = "REPEATABLE READ" => request'.snapshot = v
      BY <1>1, <2>1
    <3> QED
      BY <2>1, <3>1 DEF Consistent, Kept
  <2> QED
    BY <1>1, <2>2 DEF KeptConsistent, HasSnapshot, IsRead
<1> QED
  BY <1>3, <1>4, <1>5, <1>6 DEF ReadInv

\* What a statement writes into the request, and that the row comes first.
LEMMA ReadEffect ==
    ASSUME ReadInv, NEW s \in Statements, Read(s)
    PROVE  /\ request # Idle /\ IsReading /\ UNCHANGED vars
           /\ s \in request.todo /\ "row" \notin request'.todo
           /\ s = "row" => request.todo = Statements
           /\ s # "row" => IsRead("row")
           /\ request'.todo = request.todo \ {s}
           /\ request'.phase = IF request'.todo = {} THEN "answered" ELSE "reading"
           /\ request'.incident = request.incident
           /\ request'.isolation = request.isolation
           /\ request'.story = request.story
           /\ request'.todo # {} => request'.snapshot = request.snapshot
           /\ request'.shown[s] \in Kept(s, Visible)
           /\ \A t \in Statements \ {s} : request'.shown[t] = request.shown[t]
           /\ DOMAIN request' = DOMAIN request
           /\ DOMAIN request'.shown = Statements
<1>1. request # Idle /\ IsReading
  BY DEF Read, Idle, IsReading
<1>2. /\ DOMAIN request = {"phase", "incident", "isolation", "story",
                           "snapshot", "todo", "shown"}
      /\ DOMAIN request.shown = Statements
      /\ request.todo \subseteq Statements
      /\ "row" \in request.todo => request.todo = Statements
  BY <1>1 DEF ReadInv, RequestOK
<1>3. PICK value \in Kept(s, Visible) :
        request' = [request EXCEPT !.shown[s] = value, !.todo = request.todo \ {s},
                      !.phase = IF request.todo \ {s} = {} THEN "answered" ELSE "reading",
                      !.snapshot = IF request.todo \ {s} = {} THEN Nothing ELSE @]
  BY DEF Read
<1>4. s \in request.todo /\ (s = "row" \/ "row" \notin request.todo) /\ UNCHANGED vars
  BY DEF Read, IsReady
<1>5. /\ request'.todo = request.todo \ {s}
      /\ request'.phase = IF request.todo \ {s} = {} THEN "answered" ELSE "reading"
      /\ request'.incident = request.incident
      /\ request'.isolation = request.isolation
      /\ request'.story = request.story
      /\ request'.snapshot = IF request.todo \ {s} = {} THEN Nothing ELSE request.snapshot
      /\ request'.shown = [request.shown EXCEPT ![s] = value]
      /\ DOMAIN request' = DOMAIN request
  BY <1>2, <1>3
<1>6. /\ request'.shown[s] = value
      /\ \A t \in Statements \ {s} : request'.shown[t] = request.shown[t]
      /\ DOMAIN request'.shown = Statements
  BY <1>2, <1>5
<1>7. /\ "row" \notin request'.todo
      /\ s = "row" => request.todo = Statements
      /\ s # "row" => IsRead("row")
  BY <1>2, <1>4, <1>5 DEF IsRead, Statements
<1> QED
  BY <1>1, <1>3, <1>4, <1>5, <1>6, <1>7

\* A statement agrees with those before it, as long as the version stands.
LEMMA StatementFits ==
    ASSUME TypeOK, ReadInv, NEW s \in Statements, Read(s), s # "row",
           NEW i \in Incidents, i = request.incident,
           incidents[i].version = request.shown["row"].version
    PROVE  Fits(s, request'.shown[s], Now(i))
<1> DEFINE x == request'.shown[s]
<1>1. x \in Kept(s, Visible) /\ request # Idle /\ IsReading /\ IsRead("row")
  BY ReadEffect
<1> HIDE DEF x
<1>2. CASE HasSnapshot
  <2>1. request.shown["row"] = request.snapshot.row
    BY <1>1, <1>2 DEF ReadInv, KeptCurrent
  <2>2. Gist(request.snapshot) = Now(i)
    BY <1>1, <1>2, <2>1 DEF ReadInv, SnapshotVouches, Vouches
  <2>3. Visible = request.snapshot
    BY <1>2 DEF Visible, HasSnapshot
  <2> QED
    BY <1>1, <2>2, <2>3, KeptFits DEF x
<1>3. CASE ~ HasSnapshot
  <2>1. Visible = Slice(i)
    BY <1>3 DEF Visible, HasSnapshot
  <2> QED
    BY <1>1, <2>1, KeptFits, GistOfSlice DEF x
<1> QED
  BY <1>2, <1>3

\* The row is of the version that is current or of an earlier one.
LEMMA RowVouches ==
    ASSUME TypeOK, ReadInv, Read("row"), NEW i \in Incidents, i = request.incident
    PROVE  LET row == request'.shown["row"]
           IN  /\ row.version \in Nat
               /\ incidents[i].version >= row.version
               /\ incidents[i].version = row.version => row = incidents[i]
               /\ HasSnapshot => row = request.snapshot.row
<1>1. request'.shown["row"] = Visible.row /\ IsReading
  BY ReadEffect DEF Statements, Kept
<1>2. CASE HasSnapshot
  <2>1. Visible = request.snapshot
    BY <1>2 DEF Visible, HasSnapshot
  <2>2. Vouches(request.snapshot.row, Gist(request.snapshot), i)
    BY <1>1, <1>2 DEF ReadInv, SnapshotVouches
  <2>3. Gist(request.snapshot).row = request.snapshot.row /\ Now(i).row = incidents[i]
    BY DEF Gist, Now
  <2> QED
    BY <1>1, <2>1, <2>2, <2>3 DEF Vouches
<1>3. CASE ~ HasSnapshot
  <2>1. Visible.row = incidents[i]
    BY <1>3 DEF Visible, HasSnapshot, Slice
  <2>2. incidents[i].version \in Nat
    BY DEF TypeOK, IncidentRow
  <2> QED
    BY <1>1, <1>3, <2>1, <2>2
<1> QED
  BY <1>2, <1>3

\* A statement keeps the invariant; the last one completes one story.
LEMMA StatementKeepsRead ==
    ASSUME TypeOK, ReadInv, NEW s \in Statements, Read(s)
    PROVE  ReadInv'
<1>1. PICK i \in Incidents : i = request.incident
  BY ReadEffect DEF ReadInv, RequestOK
<1>2. /\ request'.incident = i /\ UNCHANGED vars
      /\ HasSnapshot' <=> HasSnapshot
      /\ Now(i)' = Now(i) /\ Now(request.incident)' = Now(i)
  BY <1>1, ReadEffect DEF vars, Now, RequestsOf, IsActive, Used, HasSnapshot
<1>3. /\ request # Idle /\ IsReading
      /\ \A t \in Statements : IsRead(t)' <=> IsRead(t) \/ t = s
  BY ReadEffect DEF IsRead
<1>4. RequestOK'
  BY <1>1, <1>2, <1>3, ReadEffect DEF ReadInv, RequestOK, HasSnapshot
<1>5. SnapshotVouches'
  <2> SUFFICES ASSUME IsReading', HasSnapshot'
               PROVE  Vouches(request.snapshot.row, Gist(request.snapshot), request.incident)'
    BY DEF SnapshotVouches
  <2>1. request'.snapshot = request.snapshot
    BY ReadEffect DEF IsReading
  <2>2. Vouches(request.snapshot.row, Gist(request.snapshot), i)
    BY <1>1, <1>2, <1>3 DEF ReadInv, SnapshotVouches
  <2>3. Gist(request.snapshot)' = Gist(request.snapshot)
    BY <2>1 DEF Gist
  <2> QED
    BY <1>2, <2>1, <2>2, <2>3 DEF Vouches, vars
<1>6. KeptCurrent'
  <2> DEFINE row == request'.shown["row"]
  <2>1. /\ row.version \in Nat
        /\ incidents[i].version >= row.version
        /\ HasSnapshot => row = request.snapshot.row
        /\ incidents[i].version = row.version =>
              \A t \in Statements : IsRead(t)' => Fits(t, request'.shown[t], Now(i))
    <3>1. CASE s = "row"
      <4>1. /\ row.version \in Nat
            /\ incidents[i].version >= row.version
            /\ incidents[i].version = row.version => row = incidents[i]
            /\ HasSnapshot => row = request.snapshot.row
        BY <1>1, <3>1, RowVouches
      <4>2. \A t \in Statements : IsRead(t)' => t = "row"
        BY <3>1, ReadEffect DEF IsRead
      <4>3. row = incidents[i] => Fits("row", row, Now(i))
        BY DEF Fits, Kept, Now
      <4> QED
        BY <4>1, <4>2, <4>3
    <3>2. CASE s # "row"
      <4>1. IsRead("row") /\ row = request.shown["row"]
        BY <3>2, ReadEffect DEF Statements
      <4>2. /\ row.version \in Nat
            /\ incidents[i].version >= row.version
            /\ HasSnapshot => row = request.snapshot.row
            /\ incidents[i].version = row.version =>
                  \A t \in Statements : IsRead(t) => Fits(t, request.shown[t], Now(i))
        BY <1>1, <1>3, <4>1 DEF ReadInv, KeptCurrent
      <4>3. incidents[i].version = row.version => Fits(s, request'.shown[s], Now(i))
        BY <1>1, <3>2, <4>1, StatementFits
      <4>4. \A t \in Statements \ {s} : request'.shown[t] = request.shown[t]
        BY ReadEffect
      <4> QED
        BY <1>3, <4>2, <4>3, <4>4
    <3> QED
      BY <3>1, <3>2
  <2>2. IsReading' => request'.snapshot = request.snapshot
    BY ReadEffect DEF IsReading
  <2> QED
    BY <1>2, <2>1, <2>2 DEF KeptCurrent, Fits, Kept, vars
<1>7. ASSUME HasSnapshot
      PROVE  /\ Consistent(request.snapshot)
             /\ \A t \in Statements :
                  IsRead(t)' => request'.shown[t] \in Kept(t, request.snapshot)
  <2>1. /\ Consistent(request.snapshot)
        /\ \A t \in Statements : IsRead(t) => request.shown[t] \in Kept(t, request.snapshot)
    BY <1>3, <1>7 DEF ReadInv, KeptConsistent
  <2>2. request'.shown[s] \in Kept(s, request.snapshot)
    BY <1>7, ReadEffect DEF Visible, HasSnapshot
  <2>3. \A t \in Statements \ {s} : request'.shown[t] = request.shown[t]
    BY ReadEffect
  <2> QED
    BY <1>3, <2>1, <2>2, <2>3
<1>8. KeptConsistent'
  <2>1. IsReading' => request'.snapshot = request.snapshot
    BY ReadEffect DEF IsReading
  <2> QED
    BY <1>2, <1>7, <2>1 DEF KeptConsistent, Consistent, Kept
<1>9. DetailTellsOneStory'
  <2> SUFFICES ASSUME IsShown', request'.story
               PROVE  IsOneStory(Shown["row"].status, Shown["decisions"],
                                 Shown["dispatches"], Shown["histories"])'
    BY DEF DetailTellsOneStory
  <2>1. HasSnapshot
    BY <1>3, ReadEffect DEF ReadInv, RequestOK
  <2>2. \A t \in Statements : IsRead(t)'
    BY ReadEffect DEF IsShown, IsRead
  <2>3. \A t \in Statements : request'.shown[t] \in Kept(t, request.snapshot)
    BY <1>7, <2>1, <2>2
  <2>4. request'.shown["row"] = request.snapshot.row
    BY <2>3 DEF Statements, Kept
  <2>5. IsOneStory(request.snapshot.row.status, request'.shown["decisions"],
                   request'.shown["dispatches"], request'.shown["histories"])
    BY <1>7, <2>1, <2>3 DEF Consistent, Statements
  <2> QED
    BY <2>4, <2>5 DEF IsOneStory, Shown
<1> QED
  BY <1>4, <1>5, <1>6, <1>8, <1>9 DEF ReadInv

-----------------------------------------------------------------------------
(* The theorems.                                                           *)

\* While commands commit, what has been read of an incident is of one state,
\* or of states that its version tells apart.
THEOREM ReadInvariant == ReadSpec => []ReadInv
<1>1. ReadInit => ReadInv
  BY DEF ReadInit, ReadInv, RequestOK, SnapshotVouches, KeptCurrent, KeptConsistent,
         IsReading, DetailTellsOneStory, IsShown, Idle
<1>2. /\ Agreement /\ DecisionChain /\ ReviewRecorded
      /\ ReadInv /\ [ReadNext]_readVars
      => ReadInv'
  <2> SUFFICES ASSUME Agreement, DecisionChain, ReviewRecorded, ReadInv, [ReadNext]_readVars
               PROVE  ReadInv'
    OBVIOUS
  <2> TypeOK
    BY DEF Agreement
  <2>1. CASE Command
    BY <2>1, CommandKeepsRead DEF Command
  <2>2. ASSUME NEW i \in Incidents, NEW isolation \in Isolations, Begin(i, isolation)
        PROVE  ReadInv'
    BY <2>2, BeginKeepsRead
  <2>3. ASSUME NEW s \in Statements, Read(s)
        PROVE  ReadInv'
    BY <2>3, StatementKeepsRead
  <2>4. CASE UNCHANGED readVars
    BY <2>4, CommandKeepsRead DEF readVars
  <2> QED
    BY <2>1, <2>2, <2>3, <2>4 DEF ReadNext
<1> QED
  BY <1>1, <1>2, ReadCommands, AgreementCorrect, DecisionChainCorrect,
     ReviewRecordedCorrect, PTL DEF ReadSpec

\* The four statements of a detail read at REPEATABLE READ tell one story.
THEOREM DetailTellsOneStoryCorrect == ReadSpec => []DetailTellsOneStory
BY ReadInvariant, PTL DEF ReadInv

\* The version that a client was shown vouches for all that was shown with it,
\* at either isolation and however long the client looks at it.
THEOREM ShownStateStillCurrentCorrect == ReadSpec => []ShownStateStillCurrent
<1>1. ReadInv => ShownStateStillCurrent
  <2> SUFFICES ASSUME ReadInv, IsShown,
                      NEW i, i = request.incident,
                      incidents[i].version = Shown["row"].version
               PROVE  LET now == Slice(i)
                      IN  /\ now.row = Shown["row"]
                          /\ Shown["decisions"] \in Kept("decisions", now)
                          /\ Shown["histories"] \in Kept("histories", now)
                          /\ Shown["dispatches"].found <=> ActiveDispatch(now.dispatches) # {}
                          /\ Shown["dispatches"].found =>
                                \E x \in ActiveDispatch(now.dispatches) :
                                   x.dispatch = Shown["dispatches"].dispatch
    BY DEF ShownStateStillCurrent, Slice
  <2>1. request # Idle /\ i \in Incidents /\ \A s \in Statements : IsRead(s)
    BY DEF ReadInv, RequestOK, IsShown, Idle, IsRead
  <2>2. \A s \in Statements : Fits(s, Shown[s], Now(i))
    BY <2>1 DEF ReadInv, KeptCurrent, Shown, Statements
  <2>3. /\ Slice(i).row = Shown["row"]
        /\ Shown["decisions"] \in Kept("decisions", Slice(i))
        /\ Shown["histories"] \in Kept("histories", Slice(i))
    BY <2>2 DEF Statements, Fits, Kept, Slice, Now
  <2>4. /\ Shown["dispatches"].found <=> Now(i).active # {}
        /\ Shown["dispatches"].found => Shown["dispatches"].dispatch \in Now(i).active
    BY <2>2 DEF Statements, Fits
  <2>5. ActiveDispatch(Slice(i).dispatches) =
          {[found |-> TRUE, dispatch |-> d, status |-> Slice(i).dispatches[d].status] :
              d \in Now(i).active}
    BY <2>1, GistOfSlice DEF ActiveDispatch, Gist, InactiveStatuses
  <2>6. Shown["dispatches"].found <=> ActiveDispatch(Slice(i).dispatches) # {}
    BY <2>4, <2>5
  <2>7. ASSUME Shown["dispatches"].found
        PROVE  \E x \in ActiveDispatch(Slice(i).dispatches) :
                  x.dispatch = Shown["dispatches"].dispatch
    <3> DEFINE d == Shown["dispatches"].dispatch
               x == [found |-> TRUE, dispatch |-> d, status |-> Slice(i).dispatches[d].status]
    <3>1. x \in ActiveDispatch(Slice(i).dispatches)
      BY <2>4, <2>5, <2>7
    <3> QED
      BY <3>1
  <2> QED
    BY <2>3, <2>6, <2>7
<1> QED
  BY <1>1, ReadInvariant, PTL


-----------------------------------------------------------------------------
(* A request that executes is a command.                                   *)

\* An execution runs one command on the row it names.
LEMMA ExecuteIsCommand ==
    ASSUME NEW q \in Requests, NEW x \in Incidents \cup Used, Execute(q, x)
    PROVE  Next
<1>1. CASE x \in Incidents /\ \E u \in Controllers : ControllerStep(u, x)
  BY <1>1 DEF Next
<1>2. CASE x \in Dispatches /\ \E r \in Responders : ResponderStep(r, x)
  BY <1>2 DEF Next
<1> QED
  BY <1>1, <1>2 DEF Execute

\* Requests that arrive and wait add nothing to what commands may do: all that
\* is proved of the commands holds of the handlers with their stamps.
THEOREM TimelineCommands == TimelineSpec => Spec
<1>1. TimelineInit => Init
  BY DEF TimelineInit
<1>2. [TimelineNext]_tvars => [Next]_vars
  <2> SUFFICES ASSUME [TimelineNext]_tvars PROVE [Next]_vars
    OBVIOUS
  <2>1. CASE UNCHANGED tvars
    BY <2>1 DEF tvars
  <2>2. ASSUME NEW q \in Requests, NEW x \in Incidents \cup Used,
               Arrive(q, x) \/ Execute(q, x)
        PROVE  [Next]_vars
    BY <2>2, ExecuteIsCommand DEF Arrive
  <2>3. ASSUME NEW q \in Requests, Refuse(q)
        PROVE  [Next]_vars
    BY <2>3 DEF Refuse
  <2> QED
    BY <2>1, <2>2, <2>3 DEF TimelineNext
<1> QED
  BY <1>1, <1>2, PTL DEF TimelineSpec, Spec

-----------------------------------------------------------------------------
(* The inductive invariant.                                                *)

\* What is in an inbox: a stamp that is not in the future, and the version of a
\* row which, unless the client guessed it, the row has had.
InboxOK ==
    /\ clock \in Nat
    /\ inbox \in [Requests -> {Free} \cup
                     [now : Nat, on : Incidents \cup Dispatches, expected : Nat,
                      guessed : BOOLEAN]]
    /\ \A q \in Requests :
         inbox[q] # Free =>
            /\ inbox[q].now <= clock /\ inbox[q].on \in Incidents \cup Used
            /\ ~ inbox[q].guessed => inbox[q].expected <= VersionOf(inbox[q].on)

\* The stamps in the tables are not in the future either, and that of
\* start-action is one of them.
StampsPast ==
    /\ latest \in [Incidents -> Nat]
    /\ \A i \in Incidents : latest[i] <= clock
    /\ action_started_at \in [Dispatches -> Nat]
    /\ \A d \in Dispatches :
         IF d \in Used THEN action_started_at[d] <= latest[dispatch_requests[d].incident]
                       ELSE action_started_at[d] = 0

\* A command on row x may commit: depart and en-route do not raise the version
\* of the incident, but while they can run no command on the incident can, and
\* while a request is active no other command on its incident can.
IsOpen(x) ==
    IF x \in Incidents THEN incidents[x].status # "DISPATCHED" ELSE IsActive(x)

\* As long as the version a client was shown stands, nothing about the incident
\* was stamped after the request of the client arrived.
HonestIsLate ==
    \A q \in Requests :
      inbox[q] # Free /\ ~ inbox[q].guessed /\ VersionMatches(q) /\ IsOpen(inbox[q].on)
         => latest[IncidentOf(inbox[q].on)] <= inbox[q].now

TimelineInv == InboxOK /\ StampsPast /\ HonestIsLate

-----------------------------------------------------------------------------
(* What an execution does to the versions.                                 *)

\* The command is one of the control room: the version of incident i goes up,
\* and none of its requests was active.
ControlMoves(i) ==
    /\ incidents[i].status # "DISPATCHED"
    /\ incidents'[i].version = incidents[i].version + 1
    /\ \A j \in Incidents \ {i} : incidents'[j] = incidents[j]
    /\ \A d \in RequestsOf(i) : ~ IsActive(d)
    /\ Used \subseteq Used'
    /\ \A d \in Used : dispatch_requests'[d] = dispatch_requests[d]
    /\ \A d \in Used' \ Used : dispatch_requests'[d].incident = i

\* It is one of the field: request d was the active one of incident i, and goes
\* up in version; i does, too, or stays DISPATCHED.
FieldMoves(d, i) ==
    /\ IsActive(d) /\ dispatch_requests[d].incident = i
    /\ dispatch_requests'[d].version = dispatch_requests[d].version + 1
    /\ dispatch_requests'[d].incident = i
    /\ \A e \in RequestsOf(i) \ {d} : ~ IsActive(e)
    /\ Used' = Used
    /\ \A e \in Used \ {d} : dispatch_requests'[e] = dispatch_requests[e]
    /\ \A j \in Incidents \ {i} : incidents'[j] = incidents[j]
    /\ \/ incidents'[i] = incidents[i] /\ incidents[i].status = "DISPATCHED"
       \/ incidents'[i].version = incidents[i].version + 1

\* acknowledge, claim, review, a decision, assign and close.
LEMMA ControllerStepMoves ==
    ASSUME Agreement, NEW u \in Controllers, NEW i \in Incidents, ControllerStep(u, i)
    PROVE  ControlMoves(i)
<1> TypeOK
  BY DEF Agreement
<1>1. ASSUME NEW row \in IncidentRow, ControllerRecords(u, i, row)
      PROVE  ControlMoves(i)
  <2>1. /\ incidents'[i] = row /\ row.version = incidents[i].version + 1
        /\ \A j \in Incidents \ {i} : incidents'[j] = incidents[j]
        /\ dispatch_requests' = dispatch_requests
    BY <1>1, RowWritten DEF ControllerRecords, ControllerWrites
  <2>2. incidents[i].status \in {"NEW", "ACKNOWLEDGED", "CLAIMED", "UNDER_REVIEW",
                                "ACTION_COMPLETED"}
    BY <1>1 DEF ControllerRecords, ControllerWrites, IncidentTransitions
  <2>3. ASSUME NEW d \in RequestsOf(i)
        PROVE  ~ IsActive(d)
    <3>1. /\ d \in Used
          /\ <<dispatch_requests[d].status, incidents[i].status>> \in MatchingStatuses
      BY DEF RequestsOf, Agreement, IncidentMatchesDispatch
    <3> QED
      BY <2>2, <3>1 DEF MatchingStatuses, IsActive, InactiveStatuses
  <2>4. Used' = Used
    BY <2>1, RequestsKept
  <2> QED
    BY <2>1, <2>2, <2>3, <2>4 DEF ControlMoves
<1>2. ASSUME NEW d \in Dispatches \ Used, NEW p \in Dispatches \cup {NoDispatch},
             NEW new \in DispatchRow, NEW row \in IncidentRow,
             AssignRecords(u, i, d, p, new, row)
      PROVE  ControlMoves(i)
  <2>1. /\ incidents[i].status = "DISPATCH_REQUESTED"
        /\ row = [incidents[i] EXCEPT !.version = @ + 1]
        /\ WritesRow(i, row) /\ new.incident = i
        /\ dispatch_requests' = [dispatch_requests EXCEPT ![d] = new]
        /\ \A e \in RequestsOf(i) : ~ IsActive(e)
    BY <1>2 DEF AssignRecords, AssignWrites, RecordsMove
  <2>2. row.version = incidents[i].version + 1
    BY <2>1 DEF TypeOK, IncidentRow
  <2>3. /\ incidents'[i] = row
        /\ \A j \in Incidents \ {i} : incidents'[j] = incidents[j]
    BY <2>1, RowWritten
  <2>4. /\ dispatch_requests'[d] = new /\ Used' = Used \cup {d}
        /\ \A e \in Dispatches \ {d} : dispatch_requests'[e] = dispatch_requests[e]
    BY <2>1, RequestAdded
  <2>5. Used \subseteq Dispatches \ {d}
    BY DEF Used
  <2> QED
    BY <2>1, <2>2, <2>3, <2>4, <2>5 DEF ControlMoves
<1>3. CASE \E r \in Responders : Assign(u, i, r)
  BY <1>2, <1>3, AssignEffect
<1>4. CASE ~ \E r \in Responders : Assign(u, i, r)
  BY <1>1, <1>4, ControllerEffect DEF ControllerStep
<1> QED
  BY <1>3, <1>4

\* accept, reject, depart, en-route, arrive, start-action and complete-action.
LEMMA ResponderStepMoves ==
    ASSUME Agreement, NEW r \in Responders, NEW d \in Dispatches, ResponderStep(r, d)
    PROVE  /\ d \in Used /\ dispatch_requests[d].incident \in Incidents
           /\ FieldMoves(d, dispatch_requests[d].incident)
<1> DEFINE i == dispatch_requests[d].incident
<1> TypeOK
  BY DEF Agreement
<1>1. d \in Used /\ i \in Incidents
  BY ResponderEffect
<1>2. PICK new \in DispatchRow, row \in IncidentRow : ResponderWrites(d, new, i, row)
  BY ResponderEffect
<1> HIDE DEF i
<1>3. /\ <<dispatch_requests[d].status, new.status, "RESPONDER">> \in DispatchTransitions
      /\ dispatch_requests[d].incident = i
      /\ new.incident = i /\ new.version = dispatch_requests[d].version + 1
      /\ new.attempt = dispatch_requests[d].attempt
      /\ dispatch_requests' = [dispatch_requests EXCEPT ![d] = new]
      /\ WritesRow(i, row)
      /\ \/ row = incidents[i] /\ new.status \in {"DEPARTED", "EN_ROUTE"}
         \/ row.version = incidents[i].version + 1
  BY <1>2 DEF ResponderWrites
<1>4. IsActive(d) /\ dispatch_requests[d].status # "REJECTED"
  BY <1>1, <1>3 DEF DispatchTransitions, IsActive, InactiveStatuses
<1>5. ASSUME NEW e \in RequestsOf(i) \ {d}
      PROVE  ~ IsActive(e)
  BY <1>1, <1>3, <1>4 DEF Agreement, NoDoubleBooking, RequestsOf, IsActive, InactiveStatuses
<1>6. /\ dispatch_requests'[d] = new /\ Used' = Used
      /\ \A e \in Dispatches \ {d} : dispatch_requests'[e] = dispatch_requests[e]
  BY <1>1, <1>3, RequestMoved
<1>7. /\ incidents'[i] = row
      /\ \A j \in Incidents \ {i} : incidents'[j] = incidents[j]
  BY <1>1, <1>3, RowWritten
<1>8. new.status \in {"DEPARTED", "EN_ROUTE"} => incidents[i].status = "DISPATCHED"
  <2>1. <<dispatch_requests[d].status, incidents[i].status>> \in MatchingStatuses
    BY <1>1, <1>3 DEF Agreement, IncidentMatchesDispatch
  <2> QED
    BY <1>3, <2>1 DEF MatchingStatuses, DispatchTransitions
<1>9. Used \subseteq Dispatches
  BY DEF Used
<1> QED
  BY <1>1, <1>3, <1>4, <1>5, <1>6, <1>7, <1>8, <1>9 DEF FieldMoves, i

\* The command of an execution, by the row it names.
LEMMA ExecuteMoves ==
    ASSUME Agreement, NEW q \in Requests, NEW x \in Incidents \cup Used, Execute(q, x)
    PROVE  \/ x \in Incidents /\ x \notin Dispatches /\ ControlMoves(x)
           \/ /\ x \in Used /\ x \notin Incidents
              /\ IncidentOf(x) \in Incidents /\ FieldMoves(x, IncidentOf(x))
<1>1. Used \subseteq Dispatches
  BY DEF Used
<1>2. CASE x \in Incidents /\ \E u \in Controllers : ControllerStep(u, x)
  BY <1>2, ControllerStepMoves, KeysAssumption
<1>3. CASE x \in Dispatches /\ \E r \in Responders : ResponderStep(r, x)
  BY <1>3, ResponderStepMoves, KeysAssumption DEF IncidentOf
<1> QED
  BY <1>2, <1>3 DEF Execute

-----------------------------------------------------------------------------
(* Every step keeps the invariant.                                         *)

\* A version is a number, and a row in an inbox belongs to an incident.
LEMMA RowsTyped ==
    ASSUME TypeOK, NEW x \in Incidents \cup Used
    PROVE  VersionOf(x) \in Nat /\ IncidentOf(x) \in Incidents
<1>1. \A i \in Incidents : incidents[i].version \in Nat
  BY DEF TypeOK, IncidentRow
<1>2. \A d \in Used : /\ dispatch_requests[d].version \in Nat
                      /\ dispatch_requests[d].incident \in Incidents
  BY DEF TypeOK, Used, DispatchRow
<1> QED
  BY <1>1, <1>2 DEF VersionOf, IncidentOf

\* The request that leaves an inbox leaves the others there.
LEMMA InboxEmptied ==
    ASSUME InboxOK, NEW q \in Requests, inbox' = [inbox EXCEPT ![q] = Free]
    PROVE  /\ inbox'[q] = Free
           /\ \A p \in Requests \ {q} : inbox'[p] = inbox[p]
           /\ inbox' \in [Requests -> {Free} \cup
                            [now : Nat, on : Incidents \cup Dispatches, expected : Nat,
                             guessed : BOOLEAN]]
BY DEF InboxOK

\* The invariant after a step, for the row y that a request names.
LEMMA InboxNext ==
    ASSUME clock' \in Nat,
           inbox' \in [Requests -> {Free} \cup
                         [now : Nat, on : Incidents \cup Dispatches, expected : Nat,
                          guessed : BOOLEAN]],
           \A p \in Requests : \A y :
             inbox'[p] # Free /\ y = inbox'[p].on =>
               /\ inbox'[p].now <= clock' /\ y \in Incidents \cup Used'
               /\ ~ inbox'[p].guessed => inbox'[p].expected <= VersionOf(y)'
    PROVE  InboxOK'
BY DEF InboxOK, VersionOf

\* Likewise for the requests whose version still stands after the step.
LEMMA LateNext ==
    ASSUME \A p \in Requests : \A y :
             /\ inbox'[p] # Free /\ y = inbox'[p].on /\ ~ inbox'[p].guessed
             /\ inbox'[p].expected = VersionOf(y)' /\ IsOpen(y)'
             => latest'[IncidentOf(y)'] <= inbox'[p].now
    PROVE  HonestIsLate'
BY DEF HonestIsLate, VersionMatches, VersionOf, IncidentOf, IsOpen, IsActive

\* A request that arrives is stamped last of all.
LEMMA ArriveKeeps ==
    ASSUME TypeOK, TimelineInv, NEW q \in Requests, NEW x \in Incidents \cup Used,
           Arrive(q, x)
    PROVE  TimelineInv'
<1>1. /\ InboxOK /\ StampsPast /\ HonestIsLate
      /\ UNCHANGED <<vars, latest, action_started_at>>
  BY DEF TimelineInv, Arrive, stamps
<1>2. PICK later \in {0, 1}, ahead \in Ahead :
        /\ clock' = clock + later
        /\ inbox' = [inbox EXCEPT ![q] =
              [now |-> clock + later, on |-> x, expected |-> VersionOf(x) + ahead,
               guessed |-> ahead > 0]]
  BY DEF Arrive
<1> DEFINE m == [now |-> clock + later, on |-> x, expected |-> VersionOf(x) + ahead,
                 guessed |-> ahead > 0]
<1>3. ahead \in Nat /\ VersionOf(x) \in Nat /\ clock \in Nat
  BY <1>1, RowsTyped, TimelineAssumption DEF InboxOK
<1>4. /\ m \in [now : Nat, on : Incidents \cup Dispatches, expected : Nat, guessed : BOOLEAN]
      /\ m.now = clock' /\ m.on = x /\ m.expected = VersionOf(x) + ahead
      /\ m.guessed <=> ahead > 0
  <2>1. x \in Incidents \cup Dispatches
    BY DEF Used
  <2>2. clock + later \in Nat /\ VersionOf(x) + ahead \in Nat /\ (ahead > 0) \in BOOLEAN
    BY <1>2, <1>3
  <2> DEFINE g == ahead > 0
  <2>3. /\ m.now = clock + later /\ m.on = x /\ m.expected = VersionOf(x) + ahead
        /\ m.guessed = g
    OBVIOUS
  <2>4. \A a \in Nat, b \in Incidents \cup Dispatches, c \in Nat, e \in BOOLEAN :
          [now |-> a, on |-> b, expected |-> c, guessed |-> e] \in
            [now : Nat, on : Incidents \cup Dispatches, expected : Nat, guessed : BOOLEAN]
    OBVIOUS
  <2> HIDE DEF g
  <2>5. m \in [now : Nat, on : Incidents \cup Dispatches, expected : Nat, guessed : BOOLEAN]
    BY <2>1, <2>2, <2>4 DEF g
  <2>6. m.guessed <=> ahead > 0
    BY <2>3 DEF g
  <2> QED
    BY <1>2, <2>3, <2>5, <2>6
<1> HIDE DEF m
<1>5. /\ inbox'[q] = m /\ \A p \in Requests \ {q} : inbox'[p] = inbox[p]
      /\ inbox' \in [Requests -> {Free} \cup
                       [now : Nat, on : Incidents \cup Dispatches, expected : Nat,
                        guessed : BOOLEAN]]
  BY <1>1, <1>2, <1>4 DEF InboxOK, m
<1>6. clock' \in Nat /\ clock <= clock'
  BY <1>2, <1>3
<1>7. Used' = Used /\ \A y : /\ VersionOf(y)' = VersionOf(y)
                             /\ IncidentOf(y)' = IncidentOf(y)
                             /\ IsOpen(y)' <=> IsOpen(y)
  BY <1>1 DEF vars, Used, VersionOf, IncidentOf, IsOpen, IsActive
<1>8. InboxOK'
  <2>1. ASSUME NEW p \in Requests, NEW y, inbox'[p] # Free, y = inbox'[p].on
        PROVE  /\ inbox'[p].now <= clock' /\ y \in Incidents \cup Used'
               /\ ~ inbox'[p].guessed => inbox'[p].expected <= VersionOf(y)'
    <3>1. CASE p = q
      BY <1>3, <1>4, <1>5, <1>6, <1>7, <2>1, <3>1
    <3>2. CASE p # q
      <4>1. inbox[p] # Free /\ inbox'[p] = inbox[p] /\ inbox[p].now \in Nat
        BY <1>1, <1>5, <2>1, <3>2 DEF InboxOK
      <4> QED
        BY <1>1, <1>3, <1>6, <1>7, <2>1, <4>1 DEF InboxOK
    <3> QED
      BY <3>1, <3>2
  <2> QED
    BY <1>5, <1>6, <2>1, InboxNext
<1>9. StampsPast'
  <2>1. \A i \in Incidents : latest[i] <= clock'
    BY <1>1, <1>3, <1>6 DEF StampsPast
  <2> QED
    BY <1>1, <1>7, <2>1 DEF StampsPast, vars
<1>10. HonestIsLate'
  <2> SUFFICES ASSUME NEW p \in Requests, NEW y, inbox'[p] # Free, y = inbox'[p].on,
                      ~ inbox'[p].guessed, inbox'[p].expected = VersionOf(y)', IsOpen(y)'
               PROVE  latest'[IncidentOf(y)'] <= inbox'[p].now
    BY LateNext
  <2> latest'[IncidentOf(y)'] = latest[IncidentOf(y)]
    BY <1>1, <1>7
  <2>1. CASE p = q
    <3>1. IncidentOf(x) \in Incidents /\ latest[IncidentOf(x)] <= clock
      BY <1>1, RowsTyped DEF StampsPast
    <3>2. latest[IncidentOf(x)] \in Nat
      BY <1>1, <3>1 DEF StampsPast
    <3>3. inbox'[p].now = clock' /\ y = x
      BY <1>4, <1>5, <2>1
    <3> QED
      BY <1>3, <1>6, <3>1, <3>2, <3>3
  <2>2. CASE p # q
    <3>1. inbox'[p] = inbox[p]
      BY <1>5, <2>2
    <3>2. IsOpen(y) /\ VersionOf(y)' = VersionOf(y)
      BY <1>7
    <3> QED
      BY <1>1, <3>1, <3>2 DEF HonestIsLate, VersionMatches
  <2> QED
    BY <2>1, <2>2
<1> QED
  BY <1>8, <1>9, <1>10 DEF TimelineInv

\* A refusal takes a request out of its inbox.
LEMMA RefuseKeeps ==
    ASSUME TimelineInv, NEW q \in Requests, Refuse(q)
    PROVE  TimelineInv'
<1>1. /\ InboxOK /\ StampsPast /\ HonestIsLate
      /\ UNCHANGED <<vars, clock, latest, action_started_at>>
      /\ inbox' = [inbox EXCEPT ![q] = Free]
  BY DEF TimelineInv, Refuse, stamps
<1>2. /\ inbox'[q] = Free /\ \A p \in Requests \ {q} : inbox'[p] = inbox[p]
      /\ inbox' \in [Requests -> {Free} \cup
                       [now : Nat, on : Incidents \cup Dispatches, expected : Nat,
                        guessed : BOOLEAN]]
  BY <1>1, InboxEmptied
<1>3. Used' = Used /\ \A y : /\ VersionOf(y)' = VersionOf(y)
                             /\ IncidentOf(y)' = IncidentOf(y)
                             /\ IsOpen(y)' <=> IsOpen(y)
  BY <1>1 DEF vars, Used, VersionOf, IncidentOf, IsOpen, IsActive
<1>4. InboxOK'
  BY <1>1, <1>2, <1>3 DEF InboxOK
<1>5. StampsPast'
  BY <1>1, <1>3 DEF StampsPast, vars
<1>6. HonestIsLate'
  <2> SUFFICES ASSUME NEW p \in Requests, NEW y, inbox'[p] # Free, y = inbox'[p].on,
                      ~ inbox'[p].guessed, inbox'[p].expected = VersionOf(y)', IsOpen(y)'
               PROVE  latest'[IncidentOf(y)'] <= inbox'[p].now
    BY LateNext
  <2>1. inbox'[p] = inbox[p]
    BY <1>2
  <2>2. /\ latest'[IncidentOf(y)'] = latest[IncidentOf(y)]
        /\ IsOpen(y) /\ VersionOf(y)' = VersionOf(y)
    BY <1>1, <1>3
  <2> QED
    BY <1>1, <2>1, <2>2 DEF HonestIsLate, VersionMatches
<1> QED
  BY <1>4, <1>5, <1>6 DEF TimelineInv

\* A version never goes down, and a row that the command did not touch stays.
LEMMA RowsMoved ==
    ASSUME TypeOK, NEW i \in Incidents, NEW y \in Incidents \cup Used,
           ControlMoves(i) \/ \E d \in Used \ Incidents : FieldMoves(d, i)
    PROVE  /\ Used \subseteq Used'
           /\ VersionOf(y)' >= VersionOf(y)
           /\ IncidentOf(y)' = IncidentOf(y)
           /\ IsOpen(y)' /\ VersionOf(y)' = VersionOf(y) =>
                IncidentOf(y) # i /\ IsOpen(y)
<1>1. Used \subseteq Dispatches /\ Incidents \cap Dispatches = {}
  BY KeysAssumption DEF Used
<1>2. VersionOf(y) \in Nat /\ IncidentOf(y) \in Incidents
  BY RowsTyped
<1>3. CASE ControlMoves(i)
  <2>1. CASE y = i
    BY <1>2, <1>3, <2>1 DEF ControlMoves, VersionOf, IncidentOf
  <2>2. CASE y \in Incidents \ {i}
    BY <1>2, <1>3, <2>2 DEF ControlMoves, VersionOf, IncidentOf, IsOpen
  <2>3. CASE y \in Used
    <3>1. dispatch_requests'[y] = dispatch_requests[y] /\ y \notin Incidents
      BY <1>1, <1>3, <2>3 DEF ControlMoves
    <3>2. IncidentOf(y) = i => ~ IsActive(y)
      BY <1>3, <2>3, <3>1 DEF ControlMoves, IncidentOf, RequestsOf
    <3>3. Used \subseteq Used'
      BY <1>3 DEF ControlMoves
    <3> QED
      BY <1>2, <2>3, <3>1, <3>2, <3>3 DEF VersionOf, IncidentOf, IsOpen, IsActive
  <2> QED
    BY <2>1, <2>2, <2>3
<1>4. ASSUME NEW d \in Used \ Incidents, FieldMoves(d, i)
      PROVE  /\ Used \subseteq Used'
             /\ VersionOf(y)' >= VersionOf(y)
             /\ IncidentOf(y)' = IncidentOf(y)
             /\ IsOpen(y)' /\ VersionOf(y)' = VersionOf(y) =>
                  IncidentOf(y) # i /\ IsOpen(y)
  <2>1. CASE y = i
    BY <1>2, <1>4, <2>1 DEF FieldMoves, VersionOf, IncidentOf, IsOpen
  <2>2. CASE y \in Incidents \ {i}
    BY <1>2, <1>4, <2>2 DEF FieldMoves, VersionOf, IncidentOf, IsOpen
  <2>3. CASE y = d
    BY <1>1, <1>2, <1>4, <2>3 DEF FieldMoves, VersionOf, IncidentOf
  <2>4. CASE y \in Used \ {d}
    <3>1. dispatch_requests'[y] = dispatch_requests[y] /\ y \notin Incidents /\ Used' = Used
      BY <1>1, <1>4, <2>4 DEF FieldMoves
    <3>2. IncidentOf(y) = i => ~ IsActive(y)
      BY <1>4, <2>4, <3>1 DEF FieldMoves, IncidentOf, RequestsOf
    <3> QED
      BY <1>2, <2>4, <3>1, <3>2 DEF VersionOf, IncidentOf, IsOpen, IsActive
  <2> QED
    BY <2>1, <2>2, <2>3, <2>4
<1> QED
  BY <1>3, <1>4

\* An execution outdates the versions it does not lock out.
LEMMA ExecuteKeeps ==
    ASSUME Agreement, Agreement', TimelineInv, NEW q \in Requests,
           NEW x \in Incidents \cup Used, Execute(q, x)
    PROVE  TimelineInv'
<1> DEFINE i == IncidentOf(x)
           now == inbox[q].now
<1>1. TypeOK /\ TypeOK' /\ InboxOK /\ StampsPast /\ HonestIsLate
  BY DEF Agreement, TimelineInv
<1>2. /\ inbox[q] # Free /\ inbox[q].on = x
      /\ latest' = [latest EXCEPT ![i] = IF now > @ THEN now ELSE @]
      /\ action_started_at' \in {action_started_at, [action_started_at EXCEPT ![x] = now]}
      /\ x \notin Dispatches => action_started_at' = action_started_at
      /\ inbox' = [inbox EXCEPT ![q] = Free] /\ clock' = clock
  BY DEF Execute
<1>3. i \in Incidents
  BY <1>1, RowsTyped
<1>4. now \in Nat /\ clock \in Nat /\ now <= clock
  BY <1>1, <1>2 DEF InboxOK
<1>5. \/ x \in Incidents /\ x \notin Dispatches /\ ControlMoves(i)
      \/ x \in Used \ Incidents /\ FieldMoves(x, i)
  BY ExecuteMoves DEF IncidentOf
<1>6. \A y \in Incidents \cup Used :
        /\ VersionOf(y)' >= VersionOf(y) /\ VersionOf(y)' \in Nat
        /\ VersionOf(y) \in Nat /\ IncidentOf(y) \in Incidents
        /\ IncidentOf(y)' = IncidentOf(y)
        /\ IsOpen(y)' /\ VersionOf(y)' = VersionOf(y) => IncidentOf(y) # i /\ IsOpen(y)
  <2> SUFFICES ASSUME NEW y \in Incidents \cup Used
               PROVE  /\ VersionOf(y)' >= VersionOf(y) /\ VersionOf(y)' \in Nat
                      /\ VersionOf(y) \in Nat /\ IncidentOf(y) \in Incidents
                      /\ IncidentOf(y)' = IncidentOf(y)
                      /\ IsOpen(y)' /\ VersionOf(y)' = VersionOf(y) =>
                           IncidentOf(y) # i /\ IsOpen(y)
    OBVIOUS
  <2> HIDE DEF i, now
  <2>1. ControlMoves(i) \/ \E d \in Used \ Incidents : FieldMoves(d, i)
    BY <1>5
  <2>2. VersionOf(y) \in Nat /\ IncidentOf(y) \in Incidents
    BY <1>1, RowsTyped
  <2>3. /\ VersionOf(y)' >= VersionOf(y) /\ IncidentOf(y)' = IncidentOf(y)
        /\ IsOpen(y)' /\ VersionOf(y)' = VersionOf(y) => IncidentOf(y) # i /\ IsOpen(y)
    BY <1>1, <1>3, <2>1, RowsMoved
  <2>4. VersionOf(y)' \in Nat
    <3>1. y \in Incidents \/ y \in Used'
      BY <1>1, <1>3, <2>1, RowsMoved
    <3>2. \A j \in Incidents : incidents'[j].version \in Nat
      BY <1>1 DEF TypeOK, IncidentRow
    <3>3. \A d \in Used' : dispatch_requests'[d].version \in Nat
      BY <1>1 DEF TypeOK, Used, DispatchRow
    <3> QED
      BY <3>1, <3>2, <3>3 DEF VersionOf
  <2> QED
    BY <2>2, <2>3, <2>4
<1>7. /\ Used \subseteq Used' /\ Used' \subseteq Dispatches
      /\ \A d \in Used : dispatch_requests'[d].incident = dispatch_requests[d].incident
      /\ \A d \in Used' \ Used : dispatch_requests'[d].incident \in Incidents
      /\ \A d \in Used : dispatch_requests[d].incident \in Incidents
  <2>1. \A d \in Used' : dispatch_requests'[d].incident \in Incidents
    BY <1>1 DEF TypeOK, Used, DispatchRow
  <2>2. \A d \in Used : dispatch_requests[d].incident \in Incidents
    BY <1>1 DEF TypeOK, Used, DispatchRow
  <2>3. Used' \subseteq Dispatches
    BY DEF Used
  <2> QED
    BY <1>5, <2>1, <2>2, <2>3 DEF ControlMoves, FieldMoves
<1> HIDE DEF i, now
<1>8. /\ inbox'[q] = Free /\ \A p \in Requests \ {q} : inbox'[p] = inbox[p]
      /\ inbox' \in [Requests -> {Free} \cup
                       [now : Nat, on : Incidents \cup Dispatches, expected : Nat,
                        guessed : BOOLEAN]]
  BY <1>1, <1>2, InboxEmptied
<1>9. /\ latest' \in [Incidents -> Nat]
      /\ \A j \in Incidents : latest[j] <= latest'[j] /\ latest'[j] <= clock
      /\ \A j \in Incidents \ {i} : latest'[j] = latest[j]
      /\ now <= latest'[i]
  BY <1>1, <1>2, <1>3, <1>4 DEF StampsPast
<1>10. InboxOK'
  <2>1. ASSUME NEW p \in Requests, NEW y, inbox'[p] # Free, y = inbox'[p].on
        PROVE  /\ inbox'[p].now <= clock' /\ y \in Incidents \cup Used'
               /\ ~ inbox'[p].guessed => inbox'[p].expected <= VersionOf(y)'
    <3>1. inbox'[p] = inbox[p] /\ inbox[p] # Free /\ inbox[p] \in [now : Nat,
             on : Incidents \cup Dispatches, expected : Nat, guessed : BOOLEAN]
      BY <1>1, <1>8, <2>1 DEF InboxOK
    <3>2. /\ y \in Incidents \cup Used /\ inbox[p].expected \in Nat
          /\ inbox[p].now <= clock
          /\ ~ inbox[p].guessed => inbox[p].expected <= VersionOf(y)
      BY <1>1, <2>1, <3>1 DEF InboxOK
    <3>3. ~ inbox[p].guessed => inbox[p].expected <= VersionOf(y)'
      <4>1. /\ VersionOf(y)' >= VersionOf(y) /\ VersionOf(y)' \in Nat
            /\ VersionOf(y) \in Nat
        BY <1>6, <3>2
      <4> QED
        BY <3>2, <4>1
    <3> QED
      BY <1>2, <1>7, <3>1, <3>2, <3>3
  <2> QED
    BY <1>2, <1>4, <1>8, <2>1, InboxNext
<1>11. StampsPast'
  <2>1. action_started_at' \in [Dispatches -> Nat]
    BY <1>1, <1>2, <1>4 DEF StampsPast
  <2>2. ASSUME NEW d \in Used'
        PROVE  action_started_at'[d] <= latest'[dispatch_requests'[d].incident]
    <3>1. CASE d \in Used /\ action_started_at'[d] = action_started_at[d]
      <4> DEFINE j == dispatch_requests[d].incident
      <4>1. j \in Incidents /\ action_started_at[d] <= latest[j] /\ d \in Dispatches
        BY <1>1, <1>7, <3>1 DEF StampsPast
      <4>2. action_started_at[d] \in Nat /\ latest[j] \in Nat /\ latest'[j] \in Nat
        BY <1>1, <1>9, <4>1 DEF StampsPast
      <4>3. latest[j] <= latest'[j] /\ dispatch_requests'[d].incident = j
        BY <1>7, <1>9, <3>1, <4>1
      <4> HIDE DEF j
      <4> QED
        BY <3>1, <4>1, <4>2, <4>3
    <3>2. CASE d \in Used /\ action_started_at'[d] # action_started_at[d]
      <4>1. x = d /\ action_started_at'[d] = now
        BY <1>1, <1>2, <1>7, <3>2 DEF StampsPast
      <4>2. dispatch_requests'[d].incident = i
        BY <1>5, <3>2, <4>1, KeysAssumption DEF FieldMoves, Used
      <4> QED
        BY <1>9, <4>1, <4>2
    <3>3. CASE d \notin Used
      <4>1. action_started_at[d] = 0 /\ d \in Dispatches
        BY <1>1, <1>7, <3>3 DEF StampsPast
      <4>2. d # x \/ action_started_at' = action_started_at
        BY <1>2, <1>5, <3>3
      <4>3. action_started_at'[d] = 0
        BY <1>1, <1>2, <4>1, <4>2 DEF StampsPast
      <4>4. latest'[dispatch_requests'[d].incident] \in Nat
        BY <1>7, <1>9, <3>3
      <4> QED
        BY <4>3, <4>4
    <3> QED
      BY <3>1, <3>2, <3>3
  <2>3. ASSUME NEW d \in Dispatches \ Used'
        PROVE  action_started_at'[d] = 0
    <3>1. d \notin Used /\ action_started_at[d] = 0
      BY <1>1, <1>7 DEF StampsPast
    <3>2. d # x \/ action_started_at' = action_started_at
      BY <1>2, <1>5, <3>1
    <3> QED
      BY <1>1, <1>2, <3>1, <3>2 DEF StampsPast
  <2> QED
    BY <1>2, <1>9, <2>1, <2>2, <2>3 DEF StampsPast
<1>12. HonestIsLate'
  <2> SUFFICES ASSUME NEW p \in Requests, NEW y, inbox'[p] # Free, y = inbox'[p].on,
                      ~ inbox'[p].guessed, inbox'[p].expected = VersionOf(y)', IsOpen(y)'
               PROVE  latest'[IncidentOf(y)'] <= inbox'[p].now
    BY LateNext
  <2>1. /\ inbox'[p] = inbox[p] /\ inbox[p] # Free
        /\ inbox[p].on = y /\ ~ inbox[p].guessed /\ inbox[p].expected = VersionOf(y)'
    BY <1>8
  <2>2. y \in Incidents \cup Used /\ inbox[p].expected <= VersionOf(y)
    BY <1>1, <2>1 DEF InboxOK
  <2>3. VersionOf(y)' = VersionOf(y)
    <3>1. /\ VersionOf(y)' >= VersionOf(y) /\ VersionOf(y)' \in Nat
          /\ VersionOf(y) \in Nat
      BY <1>6, <2>2
    <3> QED
      BY <2>1, <2>2, <3>1
  <2>4. /\ IncidentOf(y) # i /\ IsOpen(y) /\ IncidentOf(y)' = IncidentOf(y)
        /\ IncidentOf(y) \in Incidents
    BY <1>6, <2>2, <2>3
  <2>5. latest[IncidentOf(y)] <= inbox[p].now
    BY <1>1, <2>1, <2>3, <2>4 DEF HonestIsLate, VersionMatches
  <2>6. latest'[IncidentOf(y)] = latest[IncidentOf(y)]
    BY <1>9, <2>4
  <2> QED
    BY <2>1, <2>4, <2>5, <2>6
<1> QED
  BY <1>10, <1>11, <1>12 DEF TimelineInv

\* A step that changes nothing keeps it, too.
LEMMA StutterKeeps ==
    ASSUME TimelineInv, UNCHANGED tvars
    PROVE  TimelineInv'
<1>1. UNCHANGED <<vars, clock, inbox, latest, action_started_at>>
  BY DEF tvars, stamps
<1>2. Used' = Used /\ \A y : /\ VersionOf(y)' = VersionOf(y)
                             /\ IncidentOf(y)' = IncidentOf(y)
                             /\ IsOpen(y)' <=> IsOpen(y)
  BY <1>1 DEF vars, Used, VersionOf, IncidentOf, IsOpen, IsActive
<1>3. InboxOK'
  BY <1>1, <1>2 DEF TimelineInv, InboxOK
<1>4. StampsPast'
  BY <1>1, <1>2 DEF TimelineInv, StampsPast, vars
<1>5. HonestIsLate'
  <2> SUFFICES ASSUME NEW p \in Requests, NEW y, inbox'[p] # Free, y = inbox'[p].on,
                      ~ inbox'[p].guessed, inbox'[p].expected = VersionOf(y)', IsOpen(y)'
               PROVE  latest'[IncidentOf(y)'] <= inbox'[p].now
    BY LateNext
  <2>1. /\ latest'[IncidentOf(y)'] = latest[IncidentOf(y)] /\ inbox'[p] = inbox[p]
        /\ IsOpen(y) /\ VersionOf(y)' = VersionOf(y)
    BY <1>1, <1>2
  <2> QED
    BY <2>1 DEF TimelineInv, HonestIsLate, VersionMatches
<1> QED
  BY <1>3, <1>4, <1>5 DEF TimelineInv

\* Nothing has a stamp at first.
LEMMA TimelineInitKeeps ==
    ASSUME TimelineInit
    PROVE  TimelineInv
<1>1. Used = {}
  BY DEF TimelineInit, Init, Used
<1>2. InboxOK
  BY DEF TimelineInit, InboxOK
<1>3. StampsPast
  BY <1>1 DEF TimelineInit, StampsPast
<1>4. HonestIsLate
  BY DEF TimelineInit, HonestIsLate
<1> QED
  BY <1>2, <1>3, <1>4 DEF TimelineInv

-----------------------------------------------------------------------------

\* Whatever arrives, waits and executes: stamps are in the past, and a client
\* whose version still stands arrived after all of those of its incident.
THEOREM TimelineInvariant == TimelineSpec => [](Agreement /\ TimelineInv)
<1>1. TimelineSpec => []Agreement
  BY TimelineCommands, AgreementCorrect, PTL
<1>2. TimelineInit => TimelineInv
  BY TimelineInitKeeps
<1>3. Agreement /\ Agreement' /\ TimelineInv /\ [TimelineNext]_tvars => TimelineInv'
  <2> SUFFICES ASSUME Agreement, Agreement', TimelineInv, [TimelineNext]_tvars
               PROVE  TimelineInv'
    OBVIOUS
  <2>1. TypeOK
    BY DEF Agreement
  <2>2. ASSUME NEW q \in Requests, NEW x \in Incidents \cup Used,
               Arrive(q, x) \/ Execute(q, x)
        PROVE  TimelineInv'
    BY <2>1, <2>2, ArriveKeeps, ExecuteKeeps
  <2>3. ASSUME NEW q \in Requests, Refuse(q)
        PROVE  TimelineInv'
    BY <2>3, RefuseKeeps
  <2> QED
    BY <2>2, <2>3, StutterKeeps DEF TimelineNext
<1> QED
  BY <1>1, <1>2, <1>3, PTL DEF TimelineSpec

\* What StampsOrdered says of one step.
OrderedStep ==
    \A q \in Requests :
      (vars' # vars /\ inbox'[q] # inbox[q] /\ ~ inbox[q].guessed)
         => latest[IncidentOf(inbox[q].on)] <= inbox[q].now

\* Every handler takes `now' before it waits for its locks and compares only
\* versions; the stamps of an incident are in order all the same, unless a
\* client guessed a version.
THEOREM StampsOrderedCorrect == TimelineSpec => StampsOrdered
<1>1. Agreement /\ TimelineInv /\ [TimelineNext]_tvars => [OrderedStep]_tvars
  <2> SUFFICES ASSUME Agreement, TimelineInv, TimelineNext,
                      NEW q \in Requests, vars' # vars, inbox'[q] # inbox[q],
                      ~ inbox[q].guessed
               PROVE  latest[IncidentOf(inbox[q].on)] <= inbox[q].now
    BY DEF OrderedStep
  <2>1. PICK p \in Requests : /\ \/ \E x \in Incidents \cup Used : Arrive(p, x) \/ Execute(p, x)
                                 \/ Refuse(p)
    BY DEF TimelineNext
  <2>2. PICK x \in Incidents \cup Used : Execute(p, x)
    BY <2>1 DEF Arrive, Refuse
  <2>3. /\ inbox[p] # Free /\ inbox[p].on = x /\ VersionMatches(p)
        /\ inbox' = [inbox EXCEPT ![p] = Free]
    BY <2>2 DEF Execute
  <2>4. p = q
    BY <2>3 DEF TimelineInv, InboxOK
  <2>5. IsOpen(x)
    BY <2>2, ExecuteMoves DEF IsOpen, ControlMoves, FieldMoves
  <2> QED
    BY <2>3, <2>4, <2>5 DEF TimelineInv, HonestIsLate
<1> QED
  BY <1>1, TimelineInvariant, PTL DEF TimelineSpec, StampsOrdered, OrderedStep

\* The time check of dispatch_completion.execute never refuses a completion
\* that names the version the service has shown.
THEOREM HonestNeverTooEarlyCorrect == TimelineSpec => []HonestNeverTooEarly
<1>1. Agreement /\ TimelineInv => HonestNeverTooEarly
  <2> SUFFICES ASSUME Agreement, TimelineInv, NEW q \in Requests, inbox[q] # Free,
                      ~ inbox[q].guessed, inbox[q].on \in Dispatches, VersionMatches(q),
                      StatusOf(inbox[q].on) = "ACTION_IN_PROGRESS"
               PROVE  inbox[q].now >= action_started_at[inbox[q].on]
    BY DEF HonestNeverTooEarly, NotTooEarly
  <2> DEFINE d == inbox[q].on
             i == dispatch_requests[d].incident
  <2>1. d \in Used /\ d \notin Incidents
    BY KeysAssumption DEF TimelineInv, InboxOK
  <2>2. IsOpen(d) /\ IncidentOf(d) = i
    BY <2>1 DEF StatusOf, IsOpen, IsActive, InactiveStatuses, IncidentOf
  <2>3. latest[i] <= inbox[q].now
    BY <2>2 DEF TimelineInv, HonestIsLate
  <2>4. action_started_at[d] <= latest[i] /\ action_started_at[d] \in Nat
    BY <2>1 DEF TimelineInv, StampsPast, Used
  <2>5. i \in Incidents
    BY <2>1 DEF Agreement, TypeOK, Used, DispatchRow
  <2>6. latest[i] \in Nat /\ inbox[q].now \in Nat
    BY <2>5 DEF TimelineInv, StampsPast, InboxOK
  <2> HIDE DEF d, i
  <2>7. inbox[q].now >= action_started_at[d]
    BY <2>3, <2>4, <2>6
  <2> QED
    BY <2>7 DEF d
<1> QED
  BY <1>1, TimelineInvariant, PTL
===============================================================================
