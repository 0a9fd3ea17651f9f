---------------------------- MODULE RequestsProofs ----------------------------
(***************************************************************************)
(* Module Requests implements module Lifecycle: whatever attempts,         *)
(* retries, locks, rollbacks and deadlocks there are, the tables change by *)
(* whole commands only.                                                    *)
(***************************************************************************)
EXTENDS RequestsOncePerKey, FiniteSetTheorems, TLAPS

\* An attempt that has arrived asks for a command of one of its users.
Asked ==
    /\ phase = [q \in Attempts |-> phase[q]]
    /\ request = [q \in Attempts |-> request[q]]
    /\ \A q \in Attempts : phase[q] # "idle" => request[q].body \in Bodies

\* Every step of an attempt keeps what was asked.
LEMMA ProceedKeepsRequest ==
    ASSUME NEW q \in Attempts, Proceed(q) \/ Abort(q)
    PROVE  /\ request' = request
           /\ phase[q] # "idle"
           /\ \E p : phase' = [phase EXCEPT ![q] = p] \/ phase' = phase
<1>1. CASE Lookup(q)
  BY <1>1 DEF Lookup, Replay, Finish
<1>2. CASE Insert(q)
  BY <1>2 DEF Insert, Replay, Finish
<1>3. CASE Lock(q)
  BY <1>3 DEF Lock
<1>4. CASE Execute(q)
  BY <1>4 DEF Execute, Finish, HasAllLocks
<1>5. CASE Refuse(q)
  BY <1>5 DEF Refuse, IsRefused, RollBack, Finish
<1>6. CASE FailReusedKey(q)
  BY <1>6 DEF FailReusedKey, RollBack, Finish, HasAllLocks
<1>7. CASE Abort(q)
  BY <1>7 DEF Abort, RollBack, Finish
<1> QED
  BY <1>1, <1>2, <1>3, <1>4, <1>5, <1>6, <1>7 DEF Proceed

\* What Receive adds to what is asked is the request of one attempt.
LEMMA ReceiveAsksOne ==
    ASSUME NEW q \in Attempts, Receive(q)
    PROVE  /\ \E rq : rq.body \in Bodies /\ request' = [request EXCEPT ![q] = rq]
           /\ phase' = [phase EXCEPT ![q] = "lookup"]
<1>1. PICK m \in Bodies, k \in Keys : \E v \in Versions(m) :
         request' = [request EXCEPT ![q] = [body |-> m, expected |-> v, key |-> k]]
  BY DEF Receive
<1> PICK v \in Versions(m) :
      request' = [request EXCEPT ![q] = [body |-> m, expected |-> v, key |-> k]]
  BY <1>1
<1>2. [body |-> m, expected |-> v, key |-> k].body \in Bodies
  OBVIOUS
<1>3. phase' = [phase EXCEPT ![q] = "lookup"]
  BY DEF Receive
<1> QED
  BY <1>1, <1>2, <1>3

\* BreakDeadlock is the rollback of one attempt that was on its way.
LEMMA BreakKeepsRequest ==
    ASSUME BreakDeadlock
    PROVE  \E q \in Attempts :
             /\ phase[q] # "idle"
             /\ phase' = [phase EXCEPT ![q] = "answered"]
             /\ request' = request /\ UNCHANGED tables
<1>1. PICK W \in SUBSET Attempts : Cycle(W) /\ \E q \in W : RollBack(q, "error")
  BY DEF BreakDeadlock
<1>2. PICK q \in W : RollBack(q, "error")
  BY <1>1
<1>3. phase[q] # "idle"
  <2>1. PICK p \in W : WaitsFor(q, p)
    BY <1>1 DEF Cycle
  <2> QED
    BY <2>1 DEF WaitsFor, HasAllLocks
<1> QED
  BY <1>1, <1>2, <1>3 DEF RollBack, Finish

\* No attempt asks anything at first.
LEMMA AskedInit == Init => Asked
  BY DEF Init, Asked

\* Every step keeps what is asked one of the bodies a client sends.
LEMMA AskedStep == Asked /\ [Next]_vars => Asked'
<1> SUFFICES ASSUME Asked, [Next]_vars
             PROVE  Asked'
  OBVIOUS
<1>1. CASE UNCHANGED vars
  BY <1>1 DEF Asked, vars
<1>2. CASE History
  BY <1>2 DEF Asked, History
<1>3. ASSUME NEW q \in Attempts, Receive(q)
      PROVE  Asked'
  BY <1>3, ReceiveAsksOne DEF Asked
<1>4. ASSUME NEW q \in Attempts, Proceed(q) \/ Abort(q)
      PROVE  Asked'
  BY <1>4, ProceedKeepsRequest DEF Asked
<1>5. CASE BreakDeadlock
  BY <1>5, BreakKeepsRequest DEF Asked
<1> QED
  BY <1>1, <1>2, <1>3, <1>4, <1>5 DEF Next

\* What a handler writes is the command of that name, of a user of that kind.
LEMMA CommandIsStep ==
    ASSUME NEW m \in Bodies, Command(m)
    PROVE  DB!Next
<1>1. ASSUME m.actor \in Controllers, m.target \in Incidents,
             DB!ControllerStep(m.actor, m.target)
      PROVE  DB!Next
  BY <1>1 DEF DB!Next
<1>2. ASSUME m.actor \in Responders, m.target \in Dispatches,
             DB!ResponderStep(m.actor, m.target)
      PROVE  DB!Next
  BY <1>2 DEF DB!Next
<1>3. CASE /\ m.cmd \in {"acknowledge", "claim", "review", "close", "decide", "assign"}
           /\ m.actor \in Controllers /\ m.target \in Incidents
           /\ m.cmd = "decide" => m.arg \in DB!DecisionTypes
           /\ m.cmd = "assign" => m.arg \in Responders
  <2>1. DB!ControllerStep(m.actor, m.target)
    BY <1>3 DEF Command, DB!ControllerStep, ProgressCommands
  <2> QED
    BY <1>1, <1>3, <2>1
<1>4. CASE /\ m.cmd \in ResponderCommands
           /\ m.actor \in Responders /\ m.target \in Dispatches
  <2>1. DB!ResponderStep(m.actor, m.target)
    BY <1>4 DEF Command, DB!ResponderStep, ResponderCommands, ProgressCommands
  <2> QED
    BY <1>2, <1>4, <2>1
<1> QED
  BY <1>3, <1>4 DEF Bodies

\* Every step of the requests is a step of the commands or leaves the tables
\* alone.
LEMMA StepRefines == Asked /\ [Next]_vars => [DB!Next]_DB!vars
<1> SUFFICES ASSUME Asked, [Next]_vars
             PROVE  DB!Next \/ UNCHANGED tables
  BY DEF tables, DB!vars
<1>1. CASE UNCHANGED vars
  BY <1>1 DEF vars
<1>2. CASE History
  BY <1>2 DEF History
<1>3. ASSUME NEW q \in Attempts, Receive(q)
      PROVE  UNCHANGED tables
  BY <1>3 DEF Receive
<1>4. ASSUME NEW q \in Attempts, Proceed(q) \/ Abort(q)
      PROVE  DB!Next \/ UNCHANGED tables
  <2>1. CASE Execute(q)
    <3>1. request[q].body \in Bodies
      BY <1>4, ProceedKeepsRequest DEF Asked
    <3> QED
      BY <2>1, <3>1, CommandIsStep DEF Execute
  <2>2. CASE ~ Execute(q)
    BY <1>4, <2>2 DEF Proceed, Lookup, Insert, Replay, Lock, Refuse,
                      FailReusedKey, Abort, RollBack
  <2> QED
    BY <2>1, <2>2
<1>5. CASE BreakDeadlock
  BY <1>5, BreakKeepsRequest
<1> QED
  BY <1>1, <1>2, <1>3, <1>4, <1>5 DEF Next

\* Requests that are retried, interleaved, refused, rolled back or lost do to
\* the tables what some sequence of whole commands does.
THEOREM RequestsAreCommands == Spec => TablesMoveByCommands
<1>1. Init => DB!Init
  BY DEF Init
<1> QED
  BY <1>1, AskedInit, AskedStep, StepRefines, PTL DEF Spec, DB!Spec, TablesMoveByCommands

-----------------------------------------------------------------------------
(* What Lifecycle promises of the tables holds here too.  R is Lifecycle   *)
(* with its proofs; R and DB define the same operators of the same tables. *)

R == INSTANCE RecordsProofs

\* The values of columns and the transitions.
LEMMA SameValues ==
    /\ DB!Unused = R!Unused /\ DB!Used = R!Used
    /\ DB!DecisionTypes = R!DecisionTypes
    /\ DB!ProgressConfigs = R!ProgressConfigs
    /\ DB!vars = R!vars
BY DEF DB!Unused, R!Unused, DB!Used, R!Used, DB!DecisionTypes, R!DecisionTypes,
       DB!ProgressConfigs, R!ProgressConfigs, DB!vars, R!vars

\* What the commands read.
LEMMA SameReads ==
    ASSUME NEW i, NEW d, NEW s, NEW x
    PROVE  /\ DB!RequestsOf(i) = R!RequestsOf(i)
           /\ DB!IsActive(d) <=> R!IsActive(d)
           /\ DB!IsLatest(d, i) <=> R!IsLatest(d, i)
           /\ DB!IsOwn(x, d) <=> R!IsOwn(x, d)
           /\ DB!CanMoveDispatch(d, s) <=> R!CanMoveDispatch(d, s)
           /\ DB!CanMoveIncident(i, s, x) <=> R!CanMoveIncident(i, s, x)
BY SameValues
   DEF DB!RequestsOf, R!RequestsOf, DB!IsActive, R!IsActive, DB!IsLatest, R!IsLatest,
       DB!IsOwn, R!IsOwn, DB!InactiveStatuses, R!InactiveStatuses,
       DB!CanMoveDispatch, R!CanMoveDispatch, DB!CanMoveIncident, R!CanMoveIncident,
       DB!DispatchTransitions, R!DispatchTransitions,
       DB!IncidentTransitions, R!IncidentTransitions

\* The rows and events they build.
LEMMA SameRows ==
    ASSUME NEW i, NEW d, NEW s, NEW x, NEW y
    PROVE  /\ DB!Moved(i, s) = R!Moved(i, s)
           /\ DB!Advanced(d, s, x) = R!Advanced(d, s, x)
           /\ DB!DispatchEvent(d, x) = R!DispatchEvent(d, x)
           /\ DB!IncidentEvent(i, x) = R!IncidentEvent(i, x)
           /\ DB!Decided(i, s) = R!Decided(i, s)
           /\ DB!WithDecision(i, s, x, y) = R!WithDecision(i, s, x, y)
           /\ DB!ActiveDecisions(i) = R!ActiveDecisions(i)
BY DEF DB!Moved, R!Moved, DB!Advanced, R!Advanced, DB!DispatchEvent, R!DispatchEvent,
       DB!IncidentEvent, R!IncidentEvent, DB!Decided, R!Decided,
       DB!WithDecision, R!WithDecision, DB!ActiveDecisions, R!ActiveDecisions,
       DB!DecisionTargets, R!DecisionTargets

\* The writes they share.
LEMMA SameWrites ==
    ASSUME NEW i, NEW d, NEW row
    PROVE  /\ DB!Publish(row) <=> R!Publish(row)
           /\ DB!MoveDispatch(d, row) <=> R!MoveDispatch(d, row)
           /\ DB!MoveIncident(i, row) <=> R!MoveIncident(i, row)
           /\ DB!TouchIncident(i) <=> R!TouchIncident(i)
BY SameRows DEF DB!Publish, R!Publish, DB!MoveDispatch, R!MoveDispatch,
      DB!MoveIncident, R!MoveIncident, DB!TouchIncident, R!TouchIncident, DB!Moved, R!Moved

\* The commands of controllers.
LEMMA SameControllerCommands ==
    ASSUME NEW u, NEW i, NEW x
    PROVE  /\ DB!Acknowledge(u, i) <=> R!Acknowledge(u, i)
           /\ DB!Claim(u, i) <=> R!Claim(u, i)
           /\ DB!Review(u, i) <=> R!Review(u, i)
           /\ DB!Decide(u, i, x) <=> R!Decide(u, i, x)
           /\ DB!Assign(u, i, x) <=> R!Assign(u, i, x)
           /\ DB!Close(u, i) <=> R!Close(u, i)
<1> USE SameValues, SameReads, SameRows, SameWrites
<1>1. DB!Acknowledge(u, i) <=> R!Acknowledge(u, i)
  BY DEF DB!Acknowledge, R!Acknowledge
<1>2. DB!Claim(u, i) <=> R!Claim(u, i)
  BY DEF DB!Claim, R!Claim
<1>3. DB!Review(u, i) <=> R!Review(u, i)
  BY DEF DB!Review, R!Review
<1>4. DB!Decide(u, i, x) <=> R!Decide(u, i, x)
  <2>1. /\ DB!ActiveDecisions(i) = R!ActiveDecisions(i)
        /\ DB!Decided(i, x) = R!Decided(i, x)
        /\ DB!DecisionTargets = R!DecisionTargets
        /\ \A active : DB!WithDecision(i, x, u, active) = R!WithDecision(i, x, u, active)
    BY DEF DB!DecisionTargets, R!DecisionTargets
  <2>2. /\ DB!TouchIncident(i) <=> R!TouchIncident(i)
        /\ \A row : DB!MoveIncident(i, row) <=> R!MoveIncident(i, row)
        /\ \A row : DB!Publish(row) <=> R!Publish(row)
        /\ \A row : DB!IncidentEvent(i, row) = R!IncidentEvent(i, row)
        /\ \A s : DB!CanMoveIncident(i, s, "CONTROLLER") <=> R!CanMoveIncident(i, s, "CONTROLLER")
    OBVIOUS
  <2> QED
    BY ONLY <2>1, <2>2 DEF DB!Decide, R!Decide
<1>5. DB!Assign(u, i, x) <=> R!Assign(u, i, x)
  <2>1. /\ DB!Used = R!Used
        /\ \A d : DB!IsActive(d) <=> R!IsActive(d)
        /\ \A p : DB!IsLatest(p, i) <=> R!IsLatest(p, i)
        /\ DB!TouchIncident(i) <=> R!TouchIncident(i)
        /\ \A d, row : DB!MoveDispatch(d, row) <=> R!MoveDispatch(d, row)
        /\ \A row : DB!Publish(row) <=> R!Publish(row)
        /\ \A d, row : DB!DispatchEvent(d, row) = R!DispatchEvent(d, row)
    OBVIOUS
  <2> QED
    BY ONLY <2>1 DEF DB!Assign, R!Assign
<1>6. DB!Close(u, i) <=> R!Close(u, i)
  BY DEF DB!Close, R!Close
<1> QED
  BY <1>1, <1>2, <1>3, <1>4, <1>5, <1>6

\* The commands of responders.
LEMMA SameResponderCommands ==
    ASSUME NEW r, NEW d, NEW x
    PROVE  /\ DB!Accept(r, d) <=> R!Accept(r, d)
           /\ DB!Reject(r, d) <=> R!Reject(r, d)
           /\ DB!Progress(r, d, x) <=> R!Progress(r, d, x)
           /\ DB!Complete(r, d) <=> R!Complete(r, d)
<1> USE SameValues, SameReads, SameRows, SameWrites
<1>1. DB!Accept(r, d) <=> R!Accept(r, d)
  BY DEF DB!Accept, R!Accept
<1>2. DB!Reject(r, d) <=> R!Reject(r, d)
  BY DEF DB!Reject, R!Reject
<1>3. DB!Progress(r, d, x) <=> R!Progress(r, d, x)
  BY DEF DB!Progress, R!Progress
<1>4. DB!Complete(r, d) <=> R!Complete(r, d)
  BY DEF DB!Complete, R!Complete
<1> QED
  BY <1>1, <1>2, <1>3, <1>4

\* The steps, and the types of the tables.
LEMMA SameSpec == /\ DB!Init <=> R!Init
                  /\ DB!Next <=> R!Next
                  /\ DB!vars = R!vars
                  /\ DB!TypeOK <=> R!TypeOK
<1>1. DB!Init <=> R!Init
  BY SameValues DEF DB!Init, R!Init, DB!DutyStatuses, R!DutyStatuses
<1>2. DB!Next <=> R!Next
  BY SameValues, SameControllerCommands, SameResponderCommands
     DEF DB!Next, R!Next, DB!ControllerStep, R!ControllerStep,
         DB!ResponderStep, R!ResponderStep
<1>3. DB!TypeOK <=> R!TypeOK
  BY SameValues
     DEF DB!TypeOK, R!TypeOK, DB!IncidentRow, R!IncidentRow, DB!ClaimRow, R!ClaimRow,
         DB!DecisionRow, R!DecisionRow, DB!DispatchRow, R!DispatchRow,
         DB!EventRow, R!EventRow, DB!IncidentStatuses, R!IncidentStatuses,
         DB!DispatchStatuses, R!DispatchStatuses, DB!DutyStatuses, R!DutyStatuses,
         DB!Timestamps, R!Timestamps
<1> QED
  BY <1>1, <1>2, <1>3, SameValues
\* What Lifecycle promises of the tables.
LEMMA SameProperties ==
    /\ DB!IncidentMatchesDispatch <=> R!IncidentMatchesDispatch
    /\ DB!NoDoubleBooking <=> R!NoDoubleBooking
    /\ DB!BusyWhileActive <=> R!BusyWhileActive
    /\ DB!AttemptChain <=> R!AttemptChain
    /\ DB!ClosureJustified <=> R!ClosureJustified
    /\ DB!OwnershipAgrees <=> R!OwnershipAgrees
    /\ DB!DecisionChain <=> R!DecisionChain
    /\ DB!HistoryIsPath <=> R!HistoryIsPath
    /\ DB!OutboxAccountsForVersions <=> R!OutboxAccountsForVersions
<1> USE SameValues, SameReads
<1>1. DB!IncidentMatchesDispatch <=> R!IncidentMatchesDispatch
  <2>1. /\ DB!Used = R!Used /\ DB!MatchingStatuses = R!MatchingStatuses
        /\ \A i : DB!HasLiveRequest(i) <=> R!HasLiveRequest(i)
    BY DEF DB!HasLiveRequest, R!HasLiveRequest, DB!MatchingStatuses, R!MatchingStatuses
  <2> QED
    BY ONLY <2>1 DEF DB!IncidentMatchesDispatch, R!IncidentMatchesDispatch
<1>2. DB!NoDoubleBooking <=> R!NoDoubleBooking
  BY DEF DB!NoDoubleBooking, R!NoDoubleBooking
<1>3. DB!BusyWhileActive <=> R!BusyWhileActive
  BY DEF DB!BusyWhileActive, R!BusyWhileActive
<1>4. DB!AttemptChain <=> R!AttemptChain
  <2>1. /\ \A i : DB!RequestsOf(i) = R!RequestsOf(i)
        /\ \A i : DB!AttemptsOf(i) = R!AttemptsOf(i)
        /\ \A i, d : DB!PointsBack(i, d) <=> R!PointsBack(i, d)
    BY DEF DB!AttemptsOf, R!AttemptsOf, DB!PointsBack, R!PointsBack
  <2>2. \A S : DB!Cardinality(S) = R!Cardinality(S)
    BY DEF DB!Cardinality, R!Cardinality
  <2> QED
    BY ONLY <2>1, <2>2 DEF DB!AttemptChain, R!AttemptChain
<1>5. DB!ClosureJustified <=> R!ClosureJustified
  BY DEF DB!ClosureJustified, R!ClosureJustified, DB!ClosedByDecision, R!ClosedByDecision,
         DB!ClosedByReport, R!ClosedByReport, DB!LastDecision, R!LastDecision
<1>6. DB!OwnershipAgrees <=> R!OwnershipAgrees
  <2>1. /\ \A i : DB!RequestsOf(i) = R!RequestsOf(i)
        /\ \A i : DB!ClaimsOf(i) = R!ClaimsOf(i)
    BY DEF DB!ClaimsOf, R!ClaimsOf
  <2> QED
    BY ONLY <2>1 DEF DB!OwnershipAgrees, R!OwnershipAgrees
<1>7. DB!DecisionChain <=> R!DecisionChain
  BY DEF DB!DecisionChain, R!DecisionChain, DB!IsDecisionChain, R!IsDecisionChain,
         DB!LastDecision, R!LastDecision
<1>8. DB!HistoryIsPath <=> R!HistoryIsPath
  BY DEF DB!HistoryIsPath, R!HistoryIsPath, DB!IsPath, R!IsPath, DB!Edges, R!Edges,
         DB!IncidentTransitions, R!IncidentTransitions,
         DB!DispatchTransitions, R!DispatchTransitions
<1>9. DB!OutboxAccountsForVersions <=> R!OutboxAccountsForVersions
  <2>1. /\ DB!Used = R!Used
        /\ \A i : DB!RequestsOf(i) = R!RequestsOf(i) /\ DB!RejectedOf(i) = R!RejectedOf(i)
        /\ \A a, x : DB!EventsOf(a, x) = R!EventsOf(a, x)
    BY DEF DB!EventsOf, R!EventsOf, DB!RejectedOf, R!RejectedOf
  <2>2. \A S : DB!Cardinality(S) = R!Cardinality(S)
    BY DEF DB!Cardinality, R!Cardinality
  <2>3. \A d : DB!RequestAccounted(d) <=> R!RequestAccounted(d)
    BY ONLY <2>1, <2>2 DEF DB!RequestAccounted, R!RequestAccounted
  <2>4. \A i : DB!IncidentAccounted(i) <=> R!IncidentAccounted(i)
    BY ONLY <2>1, <2>2 DEF DB!IncidentAccounted, R!IncidentAccounted
  <2> QED
    BY ONLY <2>1, <2>3, <2>4 DEF DB!OutboxAccountsForVersions, R!OutboxAccountsForVersions
<1> QED
  BY <1>1, <1>2, <1>3, <1>4, <1>5, <1>6, <1>7, <1>8, <1>9

\* A behaviour of the one is a behaviour of the other.
LEMMA SpecIsSpec == DB!Spec => R!Spec
<1>1. DB!Init => R!Init
  BY SameSpec
<1>2. [DB!Next]_DB!vars => [R!Next]_R!vars
  BY SameSpec DEF DB!vars, R!vars
<1> QED
  BY <1>1, <1>2, PTL DEF DB!Spec, R!Spec

\* Everything that Lifecycle promises of the tables when each command is one
\* step stays true when its reads, locks and commit interleave with those of
\* others, and when it fails between any two of them.
THEOREM RequestsKeepRecords ==
    Spec => [](/\ DB!TypeOK
               /\ DB!IncidentMatchesDispatch /\ DB!NoDoubleBooking
               /\ DB!BusyWhileActive /\ DB!AttemptChain
               /\ DB!ClosureJustified /\ DB!OwnershipAgrees
               /\ DB!DecisionChain /\ DB!HistoryIsPath
               /\ DB!OutboxAccountsForVersions)
<1>1. R!Spec => [](R!TypeOK /\ R!IncidentMatchesDispatch /\ R!NoDoubleBooking
                   /\ R!BusyWhileActive)
  <2>1. R!Spec => []R!TypeOK
    BY R!TypeCorrect, UsersAssumption, DispatchesAssumption, BoundAssumption
  <2>2. R!Spec => []R!IncidentMatchesDispatch
    BY R!IncidentMatchesDispatchCorrect, UsersAssumption, DispatchesAssumption,
       BoundAssumption
  <2>3. R!Spec => []R!NoDoubleBooking
    BY R!NoDoubleBookingCorrect, UsersAssumption, DispatchesAssumption, BoundAssumption
  <2>4. R!Spec => []R!BusyWhileActive
    BY R!BusyWhileActiveCorrect, UsersAssumption, DispatchesAssumption, BoundAssumption
  <2> QED
    BY <2>1, <2>2, <2>3, <2>4, PTL
<1>2. R!Spec => [](R!AttemptChain /\ R!ClosureJustified /\ R!OwnershipAgrees)
  <2>1. R!Spec => []R!AttemptChain
    BY R!AttemptChainCorrect, UsersAssumption, DispatchesAssumption, BoundAssumption
  <2>2. R!Spec => []R!ClosureJustified
    BY R!ClosureJustifiedCorrect, UsersAssumption, DispatchesAssumption, BoundAssumption
  <2>3. R!Spec => []R!OwnershipAgrees
    BY R!OwnershipAgreesCorrect, UsersAssumption, DispatchesAssumption, BoundAssumption
  <2> QED
    BY <2>1, <2>2, <2>3, PTL
<1>3. R!Spec => [](R!DecisionChain /\ R!HistoryIsPath /\ R!OutboxAccountsForVersions)
  <2>1. R!Spec => []R!DecisionChain
    BY R!DecisionChainCorrect, UsersAssumption, DispatchesAssumption, BoundAssumption
  <2>2. R!Spec => []R!HistoryIsPath
    BY R!HistoryIsPathCorrect, UsersAssumption, DispatchesAssumption, BoundAssumption
  <2>3. R!Spec => []R!OutboxAccountsForVersions
    BY R!OutboxAccountsForVersionsCorrect, UsersAssumption, DispatchesAssumption,
       BoundAssumption
  <2> QED
    BY <2>1, <2>2, <2>3, PTL
<1>4. Spec => R!Spec
  BY RequestsAreCommands, SpecIsSpec DEF TablesMoveByCommands
<1>5. R!TypeOK => DB!TypeOK
  BY SameSpec
<1>6. /\ R!IncidentMatchesDispatch => DB!IncidentMatchesDispatch
      /\ R!NoDoubleBooking => DB!NoDoubleBooking
      /\ R!BusyWhileActive => DB!BusyWhileActive
      /\ R!AttemptChain => DB!AttemptChain
      /\ R!ClosureJustified => DB!ClosureJustified
      /\ R!OwnershipAgrees => DB!OwnershipAgrees
      /\ R!DecisionChain => DB!DecisionChain
      /\ R!HistoryIsPath => DB!HistoryIsPath
      /\ R!OutboxAccountsForVersions => DB!OutboxAccountsForVersions
  BY SameProperties
<1> QED
  BY <1>1, <1>2, <1>3, <1>4, <1>5, <1>6, PTL

-----------------------------------------------------------------------------
(* The steps of attempts, by what they change.                             *)

Phases == {"idle", "lookup", "insert", "locking", "answered"}

OnItsWay(q) == phase[q] \in {"lookup", "insert", "locking"}

\* The lookup finds no key, or the key is inserted.
Opens(q) ==
    /\ \/ phase[q] = "lookup" /\ phase' = [phase EXCEPT ![q] = "insert"]
       \/ /\ phase[q] = "insert" /\ Free(q)
          /\ Slot(q) \notin DOMAIN idempotency_keys
          /\ phase' = [phase EXCEPT ![q] = "locking"]
    /\ UNCHANGED <<tables, idempotency_keys, request, snapshot, held, answer>>

IsSame(q, row) == row.body = request[q].body /\ row.expected = request[q].expected

\* The answer to a request that was carried out already, or whose key was
\* used for another one.
Replayed(q) ==
    LET row == idempotency_keys[Slot(q)]
    IN  IF IsSame(q, row) THEN [kind |-> "ok", response |-> row.response]
        ELSE [kind |-> "conflict"]

\* The attempt ends and nothing but its own state changes.
Ends(q) ==
    /\ OnItsWay(q)
    /\ \/ Slot(q) \in DOMAIN idempotency_keys /\ Finish(q, Replayed(q))
       \/ Finish(q, [kind |-> "refused"])
       \/ Finish(q, [kind |-> "error"])
    /\ UNCHANGED <<tables, idempotency_keys>>

\* Every step is one of these.
LEMMA StepKinds ==
    ASSUME Next
    PROVE  \/ History
           \/ \E q \in Attempts : Receive(q) \/ Opens(q) \/ Lock(q) \/ Execute(q) \/ Ends(q)
<1>1. ASSUME NEW q \in Attempts, Lookup(q)
      PROVE  Opens(q) \/ Ends(q)
  BY <1>1 DEF Lookup, Opens, Ends, Replay, Replayed, IsSame, OnItsWay
<1>2. ASSUME NEW q \in Attempts, Insert(q)
      PROVE  Opens(q) \/ Ends(q)
  BY <1>2 DEF Insert, Opens, Ends, Replay, Replayed, IsSame, OnItsWay
<1>3. ASSUME NEW q \in Attempts, Refuse(q) \/ FailReusedKey(q) \/ Abort(q)
      PROVE  Ends(q)
  BY <1>3 DEF Refuse, FailReusedKey, Abort, IsRefused, HasAllLocks, RollBack, Ends, OnItsWay
<1>4. ASSUME BreakDeadlock
      PROVE  \E q \in Attempts : Ends(q)
  <2>1. PICK W \in SUBSET Attempts : Cycle(W) /\ \E q \in W : RollBack(q, "error")
    BY <1>4 DEF BreakDeadlock
  <2>2. PICK q \in W : RollBack(q, "error")
    BY <2>1
  <2>3. PICK p \in W : WaitsFor(q, p)
    BY <2>1 DEF Cycle
  <2>4. OnItsWay(q)
    BY <2>3 DEF WaitsFor, HasAllLocks, OnItsWay
  <2> QED
    BY <2>2, <2>4 DEF RollBack, Ends
<1> QED
  BY <1>1, <1>2, <1>3, <1>4 DEF Next, Proceed

\* The state of an attempt is a state of every attempt, and what it asks for
\* is something a client knows of.
Formed ==
    /\ phase \in [Attempts -> Phases]
    /\ request = [q \in Attempts |-> request[q]]
    /\ snapshot = [q \in Attempts |-> snapshot[q]]
    /\ held = [q \in Attempts |-> held[q]]
    /\ answer = [q \in Attempts |-> answer[q]]
    /\ \A q \in Attempts : phase[q] # "idle" =>
          /\ request[q].body \in Bodies /\ request[q].expected \in Nat
          /\ request[q].key \in Keys /\ request[q].body.cmd \in Commands
          /\ IsResponders(request[q].body) => request[q].body.target \in R!Used

\* What the end of an attempt leaves.
LEMMA FinishLeaves ==
    ASSUME Formed, NEW q \in Attempts, NEW a, Finish(q, a)
    PROVE  /\ phase'[q] = "answered" /\ answer'[q] = a /\ held'[q] = <<>>
           /\ request' = request
           /\ \A p \in Attempts \ {q} :
                 /\ phase'[p] = phase[p] /\ answer'[p] = answer[p]
                 /\ held'[p] = held[p] /\ snapshot'[p] = snapshot[p]
           /\ phase' \in [Attempts -> Phases]
           /\ snapshot' = [p \in Attempts |-> snapshot'[p]]
           /\ held' = [p \in Attempts |-> held'[p]]
           /\ answer' = [p \in Attempts |-> answer'[p]]
BY DEF Finish, Formed, Phases

-----------------------------------------------------------------------------
(* What a command does to rows, and what every step leaves of them.        *)

\* Who sends a body, and about what.
LEMMA BodyKinds ==
    ASSUME NEW m \in Bodies
    PROVE  \/ /\ IsResponders(m)
              /\ m.actor \in Responders /\ m.target \in Dispatches
           \/ /\ ~ IsResponders(m)
              /\ m.actor \in Controllers /\ m.target \in Incidents
              /\ \/ m.cmd \in {"acknowledge", "claim", "review", "close"}
                 \/ m.cmd = "decide" /\ m.arg \in R!DecisionTypes
                 \/ m.cmd = "assign" /\ m.arg \in Responders
BY SameValues DEF Bodies, IsResponders, ResponderCommands, ProgressCommands

\* The row a command names.
Named(m) == IF IsResponders(m) THEN dispatch_requests[m.target] ELSE incidents[m.target]

\* The event that tells what became of the row a command names.
OutcomeEvent(m, version, status) ==
    [aggregate |-> IF IsResponders(m) THEN "DISPATCH" ELSE "INCIDENT",
     id |-> m.target, version |-> version, status |-> status]

\* A command raises the version of the row it names by one and says so in the
\* outbox, and writes no row that its plan does not lock.
CommandWrites(m) ==
    LET i == IncidentOf(m)
    IN  /\ i \in Incidents
        /\ IsResponders(m) => m.target \in R!Used
        /\ Named(m)'.version = Named(m).version + 1
        /\ m.cmd # "assign" =>
              OutcomeEvent(m, Named(m)'.version, Named(m)'.status) \in event_outbox'
        /\ \A j \in Incidents \ {i} : incidents'[j] = incidents[j]
        /\ \A d \in R!Used :
              ~ (IsResponders(m) /\ d = m.target) =>
                 dispatch_requests'[d] = dispatch_requests[d]
        /\ \A r \in Responders :
              \/ duty_status'[r] = duty_status[r]
              \/ m.cmd = "assign" /\ r = m.arg
              \/ m.cmd \in {"reject", "complete_action"} /\ r = m.actor

\* A command of a controller but assign.
LEMMA ControllerCommandWrites ==
    ASSUME R!TypeOK, NEW m \in Bodies, Command(m), ~ IsResponders(m), m.cmd # "assign"
    PROVE  CommandWrites(m)
<1> DEFINE u == m.actor
           i == m.target
<1>1. /\ u \in Controllers /\ i \in Incidents /\ IncidentOf(m) = i
      /\ \/ m.cmd \in {"acknowledge", "claim", "review", "close"}
         \/ m.cmd = "decide" /\ m.arg \in R!DecisionTypes
  BY BodyKinds DEF IncidentOf
<1>2. \/ R!Acknowledge(u, i) \/ R!Claim(u, i) \/ R!Review(u, i) \/ R!Close(u, i)
      \/ R!Decide(u, i, m.arg)
  BY <1>1, SameControllerCommands DEF Command, ProgressCommands
<1>3. /\ \/ R!Acknowledge(u, i) \/ R!Claim(u, i) \/ R!Review(u, i) \/ R!Close(u, i)
         \/ \E ty \in R!DecisionTypes : R!Decide(u, i, ty)
      /\ duty_status' = duty_status
  <2>1. \/ R!Acknowledge(u, i) \/ R!Claim(u, i) \/ R!Review(u, i) \/ R!Close(u, i)
        \/ m.arg \in R!DecisionTypes /\ R!Decide(u, i, m.arg)
    BY <1>1, SameControllerCommands DEF Command, ProgressCommands
  <2>2. duty_status' = duty_status
    BY <1>2 DEF R!Acknowledge, R!Claim, R!Review, R!Close, R!Decide
  <2> QED
    BY <2>1, <2>2
<1>4. PICK row \in R!IncidentRow : R!ControllerRecords(u, i, row)
  BY <1>1, <1>3, R!ControllerEffect, UsersAssumption, DispatchesAssumption, BoundAssumption
<1>5. incidents'[i] = row /\ \A j \in Incidents \ {i} : incidents'[j] = incidents[j]
  <2>1. R!WritesRow(i, row)
    BY <1>4 DEF R!ControllerRecords, R!ControllerWrites
  <2> QED
    BY <1>1, <2>1, R!RowWritten, UsersAssumption, DispatchesAssumption, BoundAssumption
<1>6. /\ row.version = incidents[i].version + 1
      /\ dispatch_requests' = dispatch_requests
      /\ [aggregate |-> "INCIDENT", id |-> i, version |-> row.version,
          status |-> row.status] \in event_outbox'
  BY <1>4 DEF R!ControllerRecords, R!ControllerWrites
<1> QED
  BY <1>1, <1>3, <1>5, <1>6 DEF CommandWrites, Named, OutcomeEvent

\* Assign.
LEMMA AssignCommandWrites ==
    ASSUME R!TypeOK, NEW m \in Bodies, Command(m), m.cmd = "assign"
    PROVE  CommandWrites(m)
<1> DEFINE u == m.actor
           i == m.target
           r == m.arg
<1>1. /\ ~ IsResponders(m) /\ u \in Controllers /\ i \in Incidents /\ IncidentOf(m) = i
      /\ r \in Responders
  BY BodyKinds DEF IncidentOf, IsResponders, ResponderCommands, ProgressCommands
<1>2. R!Assign(u, i, r)
  BY <1>1, SameControllerCommands DEF Command, ProgressCommands
<1>3. duty_status' = [duty_status EXCEPT ![r] = "BUSY"]
  BY <1>2 DEF R!Assign
<1>4. PICK d \in Dispatches \ R!Used, p \in Dispatches \cup {NoDispatch},
           new \in R!DispatchRow, row \in R!IncidentRow :
             R!AssignRecords(u, i, d, p, new, row)
  BY <1>1, <1>2, R!AssignEffect, UsersAssumption, DispatchesAssumption, BoundAssumption
<1>5. incidents'[i] = row /\ \A j \in Incidents \ {i} : incidents'[j] = incidents[j]
  <2>1. R!WritesRow(i, row)
    BY <1>4 DEF R!AssignRecords, R!AssignWrites
  <2> QED
    BY <1>1, <2>1, R!RowWritten, UsersAssumption, DispatchesAssumption, BoundAssumption
<1>6. row.version = incidents[i].version + 1
  <2>1. row = [incidents[i] EXCEPT !.version = @ + 1]
    BY <1>4 DEF R!AssignRecords, R!AssignWrites
  <2>2. incidents[i] \in R!IncidentRow
    BY <1>1 DEF R!TypeOK
  <2> QED
    BY <2>1, <2>2 DEF R!IncidentRow
<1>7. \A e \in R!Used : dispatch_requests'[e] = dispatch_requests[e]
  <2>1. dispatch_requests' = [dispatch_requests EXCEPT ![d] = new]
    BY <1>4 DEF R!AssignRecords, R!AssignWrites
  <2>2. dispatch_requests \in [Dispatches -> R!DispatchRow \cup {R!Unused}]
    BY DEF R!TypeOK
  <2> QED
    BY <2>1, <2>2 DEF R!Used
<1>8. \A s \in Responders : s # r => duty_status'[s] = duty_status[s]
  BY <1>3 DEF R!TypeOK
<1> QED
  BY <1>1, <1>5, <1>6, <1>7, <1>8 DEF CommandWrites, Named

\* A command of a responder.
LEMMA ResponderCommandWrites ==
    ASSUME R!TypeOK, NEW m \in Bodies, Command(m), IsResponders(m)
    PROVE  CommandWrites(m)
<1> DEFINE r == m.actor
           d == m.target
           i == IncidentOf(m)
<1>1. r \in Responders /\ d \in Dispatches /\ i = dispatch_requests[d].incident
  BY BodyKinds DEF IncidentOf
<1>2. \/ /\ m.cmd \in {"reject", "complete_action"}
         /\ duty_status' = [duty_status EXCEPT ![r] = "AVAILABLE"]
         /\ (R!Reject(r, d) \/ R!Complete(r, d))
      \/ /\ duty_status' = duty_status
         /\ (R!Accept(r, d) \/ \E c \in R!ProgressConfigs : R!Progress(r, d, c))
  <2>1. \/ m.cmd = "accept" /\ R!Accept(r, d)
        \/ m.cmd = "reject" /\ R!Reject(r, d)
        \/ m.cmd = "complete_action" /\ R!Complete(r, d)
        \/ \E c \in R!ProgressConfigs : R!Progress(r, d, c)
    BY SameResponderCommands, SameValues
       DEF Command, IsResponders, ResponderCommands, ProgressCommands
  <2> QED
    BY <2>1 DEF R!Accept, R!Reject, R!Complete, R!Progress
<1>3. R!ResponderStep(r, d)
  BY <1>2 DEF R!ResponderStep
<1>4. /\ d \in R!Used /\ i \in Incidents
      /\ \E new \in R!DispatchRow, row \in R!IncidentRow : R!ResponderWrites(d, new, i, row)
  BY <1>1, <1>3, R!ResponderEffect, UsersAssumption, DispatchesAssumption, BoundAssumption
<1>5. PICK new \in R!DispatchRow, row \in R!IncidentRow : R!ResponderWrites(d, new, i, row)
  BY <1>4
<1>6. \A j \in Incidents \ {i} : incidents'[j] = incidents[j]
  <2>1. R!WritesRow(i, row)
    BY <1>5 DEF R!ResponderWrites
  <2> QED
    BY <1>4, <2>1, R!RowWritten, UsersAssumption, DispatchesAssumption, BoundAssumption
<1>7. /\ dispatch_requests'[d] = new
      /\ \A e \in R!Used : e # d => dispatch_requests'[e] = dispatch_requests[e]
  <2>1. dispatch_requests' = [dispatch_requests EXCEPT ![d] = new]
    BY <1>5 DEF R!ResponderWrites
  <2>2. dispatch_requests \in [Dispatches -> R!DispatchRow \cup {R!Unused}]
    BY DEF R!TypeOK
  <2> QED
    BY <1>1, <2>1, <2>2 DEF R!Used
<1>8. /\ new.version = dispatch_requests[d].version + 1
      /\ [aggregate |-> "DISPATCH", id |-> d, version |-> new.version,
          status |-> new.status] \in event_outbox'
  BY <1>5 DEF R!ResponderWrites
<1>9. \A s \in Responders :
        \/ duty_status'[s] = duty_status[s]
        \/ m.cmd \in {"reject", "complete_action"} /\ s = m.actor
  BY <1>2 DEF R!TypeOK
<1> QED
  BY <1>4, <1>6, <1>7, <1>8, <1>9 DEF CommandWrites, Named, OutcomeEvent

\* Every command.
LEMMA CommandWritten ==
    ASSUME R!TypeOK, NEW m \in Bodies, Command(m)
    PROVE  CommandWrites(m)
BY ControllerCommandWrites, AssignCommandWrites, ResponderCommandWrites

\* What never goes back: keys in use, the incident of a request, versions and
\* events; and claims and reports come with a new version of their incident.
Grown ==
    /\ R!Used \subseteq R!Used' /\ event_outbox \subseteq event_outbox'
    /\ \A d \in R!Used :
          /\ dispatch_requests'[d].incident = dispatch_requests[d].incident
          /\ dispatch_requests'[d].version >= dispatch_requests[d].version
    /\ \A i \in Incidents :
          /\ incidents'[i].version >= incidents[i].version
          /\ incidents'[i].version = incidents[i].version =>
                /\ \A c \in incident_claims' \ incident_claims : c.incident # i
                /\ field_action_reports' \cap R!RequestsOf(i)'
                      \subseteq field_action_reports \cap R!RequestsOf(i)

\* The versions of rows are numbers.
LEMMA VersionsAreNumbers ==
    ASSUME R!TypeOK
    PROVE  /\ \A i \in Incidents : incidents[i].version \in Nat
           /\ \A d \in R!Used : /\ dispatch_requests[d] \in R!DispatchRow
                                /\ dispatch_requests[d].version \in Nat
                                /\ dispatch_requests[d].incident \in Incidents
BY DEF R!TypeOK, R!Used, R!IncidentRow, R!DispatchRow

\* No step of the tables takes any of it back.
LEMMA TablesGrow ==
    ASSUME R!TypeOK, [R!Next]_R!vars
    PROVE  Grown
<1> USE UsersAssumption, DispatchesAssumption, BoundAssumption
<1>1. ASSUME NEW u \in Controllers, NEW i \in Incidents, NEW row \in R!IncidentRow,
             R!ControllerRecords(u, i, row)
      PROVE  Grown
  <2>1. incidents'[i] = row /\ \A j \in Incidents \ {i} : incidents'[j] = incidents[j]
    BY <1>1, R!RowWritten DEF R!ControllerRecords, R!ControllerWrites
  <2>2. /\ R!Used' = R!Used
        /\ \A j \in Incidents : R!RequestsOf(j)' = R!RequestsOf(j)
    BY <1>1, R!RequestsKept DEF R!ControllerRecords, R!ControllerWrites
  <2>3. /\ row.version = incidents[i].version + 1
        /\ dispatch_requests' = dispatch_requests
        /\ field_action_reports' = field_action_reports
        /\ event_outbox \subseteq event_outbox'
        /\ \A c \in incident_claims' \ incident_claims : c.incident = i
    BY <1>1 DEF R!ControllerRecords, R!ControllerWrites
  <2> QED
    BY <2>1, <2>2, <2>3, VersionsAreNumbers DEF Grown
<1>2. ASSUME NEW u \in Controllers, NEW i \in Incidents, NEW d \in Dispatches \ R!Used,
             NEW p \in Dispatches \cup {NoDispatch}, NEW new \in R!DispatchRow,
             NEW row \in R!IncidentRow, R!AssignRecords(u, i, d, p, new, row)
      PROVE  Grown
  <2>1. incidents'[i] = row /\ \A j \in Incidents \ {i} : incidents'[j] = incidents[j]
    BY <1>2, R!RowWritten DEF R!AssignRecords, R!AssignWrites
  <2>2. /\ row = [incidents[i] EXCEPT !.version = @ + 1]
        /\ new.incident = i
        /\ dispatch_requests' = [dispatch_requests EXCEPT ![d] = new]
        /\ field_action_reports' = field_action_reports
        /\ event_outbox \subseteq event_outbox'
        /\ incident_claims' = incident_claims
    BY <1>2 DEF R!AssignRecords, R!AssignWrites
  <2>3. row.version = incidents[i].version + 1
    BY <2>2 DEF R!TypeOK, R!IncidentRow
  <2>4. /\ R!Used' = R!Used \cup {d}
        /\ \A e \in Dispatches \ {d} : dispatch_requests'[e] = dispatch_requests[e]
        /\ \A j \in Incidents \ {i} : R!RequestsOf(j)' = R!RequestsOf(j)
    BY <2>2, R!RequestAdded
  <2>5. \A e \in R!Used : dispatch_requests'[e] = dispatch_requests[e]
    BY <2>4 DEF R!Used
  <2>6. /\ field_action_reports' = field_action_reports
        /\ event_outbox \subseteq event_outbox'
        /\ incident_claims' = incident_claims
    BY <2>2
  <2> QED
    BY <2>1, <2>3, <2>4, <2>5, <2>6, VersionsAreNumbers DEF Grown
<1>3. ASSUME NEW d \in R!Used, NEW i \in Incidents, NEW new \in R!DispatchRow,
             NEW row \in R!IncidentRow, R!ResponderWrites(d, new, i, row)
      PROVE  Grown
  <2>1. incidents'[i] = row /\ \A j \in Incidents \ {i} : incidents'[j] = incidents[j]
    BY <1>3, R!RowWritten DEF R!ResponderWrites
  <2>2. /\ new.incident = dispatch_requests[d].incident
        /\ new.attempt = dispatch_requests[d].attempt
        /\ i = dispatch_requests[d].incident
        /\ new.version = dispatch_requests[d].version + 1
        /\ dispatch_requests' = [dispatch_requests EXCEPT ![d] = new]
        /\ incident_claims' = incident_claims
    BY <1>3 DEF R!ResponderWrites
  <2>3. /\ R!Used' = R!Used /\ dispatch_requests'[d] = new
        /\ \A e \in Dispatches \ {d} : dispatch_requests'[e] = dispatch_requests[e]
        /\ \A j \in Incidents : R!RequestsOf(j)' = R!RequestsOf(j)
    BY <2>2, R!RequestMoved
  <2>4. /\ event_outbox \subseteq event_outbox'
        /\ \/ field_action_reports' = field_action_reports
           \/ /\ field_action_reports' = field_action_reports \cup {d}
              /\ new.status = "ACTION_COMPLETED"
        /\ \/ new.status \in {"DEPARTED", "EN_ROUTE"} /\ row = incidents[i]
           \/ row.version = incidents[i].version + 1
    BY <1>3 DEF R!ResponderWrites
  <2>5. \A e \in R!Used : e # d => dispatch_requests'[e] = dispatch_requests[e]
    BY <2>3 DEF R!Used
  <2>6. \A j \in Incidents : d \in R!RequestsOf(j) => j = i
    BY <2>2 DEF R!RequestsOf
  <2>7. /\ row.version >= incidents[i].version
        /\ row.version = incidents[i].version => field_action_reports' = field_action_reports
    BY <2>4, VersionsAreNumbers
  <2>8. \A j \in Incidents \ {i} :
          field_action_reports' \cap R!RequestsOf(j) \subseteq field_action_reports
    BY <2>4, <2>6
  <2> QED
    BY <2>1, <2>2, <2>3, <2>4, <2>5, <2>7, <2>8, VersionsAreNumbers DEF Grown
<1>4. CASE UNCHANGED R!vars
  <2>1. R!Used' = R!Used /\ \A j \in Incidents : R!RequestsOf(j)' = R!RequestsOf(j)
    BY <1>4 DEF R!vars, R!Used, R!RequestsOf
  <2> QED
    BY <1>4, <2>1, VersionsAreNumbers DEF R!vars, Grown
<1> QED
  BY <1>1, <1>2, <1>3, <1>4, R!StepEffect

-----------------------------------------------------------------------------
(* Types.                                                                  *)

\* A request as it arrives.
LEMMA ReceiveAsks ==
    ASSUME R!TypeOK, Formed, NEW q \in Attempts, Receive(q)
    PROVE  \E rq : /\ request' = [request EXCEPT ![q] = rq]
                   /\ rq.body \in Bodies /\ rq.expected \in Nat
                   /\ rq.key \in Keys /\ rq.body.cmd \in Commands
                   /\ IsResponders(rq.body) => rq.body.target \in R!Used
<1>1. PICK m \in Bodies, k \in Keys :
        /\ m.cmd \in Commands
        /\ IsResponders(m) => m.target \in DB!Used
        /\ \E v \in Versions(m) :
             request' = [request EXCEPT ![q] = [body |-> m, expected |-> v, key |-> k]]
  BY DEF Receive
<1>2. PICK v \in Versions(m) :
        request' = [request EXCEPT ![q] = [body |-> m, expected |-> v, key |-> k]]
  BY <1>1
<1>3. v \in Nat
  <2>1. \A n \in Nat, g \in Guesses : n + g \in Nat
    BY GuessesAssumption
  <2>2. IF IsResponders(m) THEN dispatch_requests[m.target].version \in Nat
        ELSE incidents[m.target].version \in Nat
    BY <1>1, BodyKinds, VersionsAreNumbers, SameValues
  <2> QED
    BY <2>1, <2>2 DEF Versions
<1> DEFINE rq == [body |-> m, expected |-> v, key |-> k]
<1>4. rq.body = m /\ rq.expected = v /\ rq.key = k
  OBVIOUS
<1>5. request' = [request EXCEPT ![q] = rq]
  BY <1>2
<1> HIDE DEF rq
<1> QED
  BY <1>1, <1>3, <1>4, <1>5, SameValues

\* Every step keeps the form of the requests and of the attempts.
LEMMA FormedStep ==
    ASSUME R!TypeOK, [R!Next]_R!vars, Formed, [Next]_vars
    PROVE  Formed'
<1>1. R!Used \subseteq R!Used'
  BY TablesGrow DEF Grown
<1>2. CASE UNCHANGED vars
  BY <1>1, <1>2 DEF vars, Formed
<1>3. CASE History
  BY <1>1, <1>3 DEF History, Formed
<1>4. ASSUME NEW q \in Attempts, Receive(q)
      PROVE  Formed'
  <2>1. PICK rq : /\ request' = [request EXCEPT ![q] = rq]
                  /\ rq.body \in Bodies /\ rq.expected \in Nat
                  /\ rq.key \in Keys /\ rq.body.cmd \in Commands
                  /\ IsResponders(rq.body) => rq.body.target \in R!Used
    BY <1>4, ReceiveAsks
  <2>2. /\ phase' = [phase EXCEPT ![q] = "lookup"]
        /\ held' = held /\ answer' = answer
        /\ \E x : snapshot' = [snapshot EXCEPT ![q] = x]
    BY <1>4 DEF Receive
  <2>3. /\ phase' \in [Attempts -> Phases]
        /\ \A p \in Attempts \ {q} : phase'[p] = phase[p] /\ request'[p] = request[p]
        /\ request'[q] = rq
        /\ request' = [p \in Attempts |-> request'[p]]
    BY <2>1, <2>2 DEF Formed, Phases
  <2>4. /\ snapshot' = [p \in Attempts |-> snapshot'[p]]
        /\ held' = [p \in Attempts |-> held'[p]]
        /\ answer' = [p \in Attempts |-> answer'[p]]
    BY <2>2 DEF Formed
  <2>5. \A p \in Attempts \ {q} : phase'[p] # "idle" =>
          /\ request'[p].body \in Bodies /\ request'[p].expected \in Nat
          /\ request'[p].key \in Keys /\ request'[p].body.cmd \in Commands
          /\ IsResponders(request'[p].body) => request'[p].body.target \in R!Used'
    BY <1>1, <2>3 DEF Formed
  <2>6. /\ request'[q].body \in Bodies /\ request'[q].expected \in Nat
        /\ request'[q].key \in Keys /\ request'[q].body.cmd \in Commands
        /\ IsResponders(request'[q].body) => request'[q].body.target \in R!Used'
    BY <1>1, <2>1, <2>3
  <2> QED
    BY <2>3, <2>4, <2>5, <2>6 DEF Formed
<1>5. ASSUME NEW q \in Attempts, Opens(q) \/ Lock(q)
      PROVE  Formed'
  <2>1. /\ request' = request /\ snapshot' = snapshot /\ answer' = answer
        /\ phase' \in [Attempts -> Phases]
        /\ \A p \in Attempts : phase'[p] # "idle" => phase[p] # "idle"
    BY <1>5 DEF Opens, Lock, Formed, Phases
  <2>2. held' = [p \in Attempts |-> held'[p]]
    BY <1>5 DEF Opens, Lock, Formed
  <2> QED
    BY <1>1, <2>1, <2>2 DEF Formed
<1>6. ASSUME NEW q \in Attempts, NEW a, Finish(q, a), phase[q] # "idle"
      PROVE  Formed'
  BY <1>1, <1>6, FinishLeaves DEF Formed
<1>7. ASSUME NEW q \in Attempts, Execute(q) \/ Ends(q)
      PROVE  phase[q] # "idle" /\ \E a : Finish(q, a)
  BY <1>7 DEF Execute, Ends, HasAllLocks, OnItsWay
<1> QED
  BY <1>2, <1>3, <1>4, <1>5, <1>6, <1>7, StepKinds

\* Keys are stored for commands, locks are held while locking, and the answer
\* comes last.
LEMMA TypeStep ==
    ASSUME Formed, TypeOK, Formed', [Next]_vars
    PROVE  TypeOK'
<1> DEFINE Kinds == {"none", "ok", "conflict", "refused", "error"}
           Typed(q) == /\ phase[q] # "locking" => held[q] = <<>>
                       /\ answer[q].kind \in Kinds
                       /\ answer[q].kind # "none" <=> phase[q] = "answered"
<1>1. SUFFICES /\ DOMAIN idempotency_keys' \subseteq Commands \X Keys
               /\ \A q \in Attempts : Typed(q)'
  <2>1. /\ phase' \in [Attempts -> {"idle", "lookup", "insert", "locking", "answered"}]
        /\ \A q \in Attempts :
              phase'[q] # "idle" => request'[q].body \in Bodies /\ request'[q].expected \in Nat
    BY DEF Formed, Phases
  <2> QED
    BY <2>1 DEF TypeOK
<1>2. \A q \in Attempts : Typed(q)
  BY DEF TypeOK
<1>3. CASE UNCHANGED vars
  BY <1>2, <1>3 DEF vars, TypeOK
<1>4. CASE History
  BY <1>2, <1>4 DEF History, TypeOK
<1>5. ASSUME NEW q \in Attempts, Receive(q) \/ Opens(q) \/ Lock(q)
      PROVE  /\ DOMAIN idempotency_keys' \subseteq Commands \X Keys
             /\ \A p \in Attempts : Typed(p)'
  <2>1. /\ idempotency_keys' = idempotency_keys /\ answer' = answer
        /\ \/ held' = held
           \/ /\ phase[q] = "locking"
              /\ \E f : held' = [held EXCEPT ![q] = f]
        /\ phase' = phase \/ \E y \in {"lookup", "insert", "locking"} :
              phase[q] \in {"idle", "lookup", "insert"} /\ phase' = [phase EXCEPT ![q] = y]
        /\ phase' # phase => held' = held
    BY <1>5 DEF Receive, Opens, Lock
  <2>2. \A p \in Attempts : /\ phase'[p] = "answered" <=> phase[p] = "answered"
                            /\ phase[p] = "locking" => phase'[p] = "locking"
    BY <2>1 DEF Formed, Phases
  <2>3. \A p \in Attempts : phase'[p] # "locking" => held'[p] = <<>>
    BY <1>2, <2>1, <2>2 DEF Formed
  <2> QED
    BY <1>2, <2>1, <2>2, <2>3 DEF TypeOK
<1>6. ASSUME NEW q \in Attempts, NEW a, Finish(q, a), a.kind \in Kinds \ {"none"}
      PROVE  \A p \in Attempts : Typed(p)'
  BY <1>2, <1>6, FinishLeaves
<1>7. ASSUME NEW q \in Attempts, Execute(q)
      PROVE  /\ DOMAIN idempotency_keys' \subseteq Commands \X Keys
             /\ \A p \in Attempts : Typed(p)'
  <2>1. /\ DOMAIN idempotency_keys' = DOMAIN idempotency_keys \cup {Slot(q)}
        /\ \E x : Finish(q, [kind |-> "ok", response |-> x])
        /\ phase[q] = "locking"
    BY <1>7 DEF Execute, With, HasAllLocks
  <2>2. Slot(q) \in Commands \X Keys
    BY <2>1 DEF Formed, Slot
  <2> QED
    BY <1>6, <2>1, <2>2 DEF TypeOK
<1>8. ASSUME NEW q \in Attempts, Ends(q)
      PROVE  /\ DOMAIN idempotency_keys' \subseteq Commands \X Keys
             /\ \A p \in Attempts : Typed(p)'
  <2>1. /\ idempotency_keys' = idempotency_keys
        /\ \E a : a.kind \in Kinds \ {"none"} /\ Finish(q, a)
    BY <1>8 DEF Ends, Replayed
  <2> QED
    BY <1>6, <2>1 DEF TypeOK
<1> QED
  BY <1>3, <1>4, <1>5, <1>7, <1>8, StepKinds

-----------------------------------------------------------------------------
(* Locks.                                                                  *)

\* Attempt q holds the first n rows of its plan.
HoldsFirst(q, n) ==
    /\ DOMAIN held[q] = {Plan(q)[k] : k \in 1..n}
    /\ IsFiniteSet(DOMAIN held[q]) /\ Locked(q) = n

LocksInOrder ==
    \A q \in Attempts : phase[q] = "locking" =>
       \E n \in 0..Len(Plan(q)) : HoldsFirst(q, n)

\* A row that a command may lock.
IsLockable(x) ==
    \/ \E i \in Incidents : x = <<"incident", i>>
    \/ \E r \in Responders : x = <<"profile", r>> \/ x = <<"user", r>>
    \/ \E d \in R!Used : x = <<"dispatch", d>>

\* The commands with a configuration in dispatch_progress.
LEMMA ProgressNames ==
    DOMAIN ProgressCommands = {"depart", "en_route", "arrive", "start_action"}
BY DEF ProgressCommands

\* A plan starts with the incident, names no row twice, and leads from the
\* incident over users to requests.
LEMMA PlanShape ==
    ASSUME R!TypeOK, NEW m \in Bodies, IsResponders(m) => m.target \in R!Used
    PROVE  LET P == LockPlan(m)
           IN  /\ Len(P) \in 1..3 /\ IncidentOf(m) \in Incidents
               /\ P[1] = <<"incident", IncidentOf(m)>>
               /\ \A j, k \in 1..Len(P) : j # k => P[j] # P[k]
               /\ \A k \in 1..Len(P) : IsLockable(P[k])
<1> DEFINE i == IncidentOf(m)
           P == LockPlan(m)
<1>1. i \in Incidents
  BY BodyKinds, VersionsAreNumbers DEF IncidentOf
<1>2. CASE m.cmd = "assign"
  <2>1. P = <<<<"incident", i>>, <<"user", m.arg>>, <<"profile", m.arg>>>>
    BY <1>2, ProgressNames DEF LockPlan
  <2>2. m.arg \in Responders
    BY <1>2, BodyKinds DEF IsResponders, ResponderCommands, ProgressCommands
  <2> QED
    BY <1>1, <2>1, <2>2 DEF IsLockable
<1>3. CASE m.cmd \in {"reject", "complete_action"}
  <2>1. P = <<<<"incident", i>>, <<"profile", m.actor>>, <<"dispatch", m.target>>>>
    BY <1>3, ProgressNames DEF LockPlan
  <2>2. m.actor \in Responders /\ m.target \in R!Used
    BY <1>3, BodyKinds DEF IsResponders, ResponderCommands
  <2> QED
    BY <1>1, <2>1, <2>2 DEF IsLockable
<1>4. CASE m.cmd \in {"accept"} \cup DOMAIN ProgressCommands
  <2>1. P = <<<<"incident", i>>, <<"dispatch", m.target>>>>
    BY <1>4, ProgressNames DEF LockPlan
  <2>2. m.target \in R!Used
    BY <1>4, BodyKinds DEF IsResponders, ResponderCommands
  <2> QED
    BY <1>1, <2>1, <2>2 DEF IsLockable
<1>5. CASE m.cmd \notin {"assign", "reject", "complete_action", "accept"}
                          \cup DOMAIN ProgressCommands
  <2>1. P = <<<<"incident", i>>>>
    BY <1>5, ProgressNames DEF LockPlan
  <2> QED
    BY <1>1, <2>1 DEF IsLockable
<1> QED
  BY <1>2, <1>3, <1>4, <1>5

\* The row under a name.
LEMMA RowNamed ==
    /\ \A i : Row(<<"incident", i>>) = incidents[i]
    /\ \A r : Row(<<"profile", r>>) = duty_status[r]
    /\ \A d : Row(<<"dispatch", d>>) = dispatch_requests[d]
    /\ \A r : Row(<<"user", r>>) = "unchanged"
    /\ \A i : Row(<<"incident", i>>)' = incidents'[i]
    /\ \A r : Row(<<"profile", r>>)' = duty_status'[r]
    /\ \A d : Row(<<"dispatch", d>>)' = dispatch_requests'[d]
    /\ \A r : Row(<<"user", r>>)' = "unchanged"
BY DEF Row

\* A command writes no row but those of its plan.
LEMMA RowsOfPlan ==
    ASSUME R!TypeOK, NEW m \in Bodies, CommandWrites(m), NEW x, IsLockable(x),
           \A k \in 1..Len(LockPlan(m)) : LockPlan(m)[k] # x
    PROVE  Row(x)' = Row(x)
<1> DEFINE i == IncidentOf(m)
           P == LockPlan(m)
<1>1. IsResponders(m) => m.target \in R!Used
  BY DEF CommandWrites
<1>2. \A j : x = <<"incident", j>> => j # i
  BY <1>1, PlanShape
<1>3. \A r : x = <<"profile", r>> =>
        /\ m.cmd = "assign" => r # m.arg
        /\ m.cmd \in {"reject", "complete_action"} => r # m.actor
  BY ProgressNames DEF LockPlan
<1>4. \A d : x = <<"dispatch", d>> => ~ (IsResponders(m) /\ d = m.target)
  <2>1. CASE m.cmd \in {"reject", "complete_action"}
    <3>1. P = <<<<"incident", i>>, <<"profile", m.actor>>, <<"dispatch", m.target>>>>
      BY <2>1, ProgressNames DEF LockPlan
    <3>2. P[3] = <<"dispatch", m.target>> /\ 3 \in 1..Len(P)
      BY <3>1
    <3> QED
      BY <3>2
  <2>2. CASE m.cmd \in {"accept"} \cup DOMAIN ProgressCommands
    <3>1. P = <<<<"incident", i>>, <<"dispatch", m.target>>>>
      BY <2>2, ProgressNames DEF LockPlan
    <3>2. P[2] = <<"dispatch", m.target>> /\ 2 \in 1..Len(P)
      BY <3>1
    <3> QED
      BY <3>2
  <2> QED
    BY <2>1, <2>2 DEF IsResponders, ResponderCommands
<1> QED
  <2>1. ASSUME NEW j \in Incidents, x = <<"incident", j>> PROVE Row(x)' = Row(x)
    BY <1>2, <2>1, RowNamed DEF CommandWrites
  <2>2. ASSUME NEW r \in Responders, x = <<"profile", r>> PROVE Row(x)' = Row(x)
    BY <1>3, <2>2, RowNamed DEF CommandWrites
  <2>3. ASSUME NEW r \in Responders, x = <<"user", r>> PROVE Row(x)' = Row(x)
    BY <2>3, RowNamed
  <2>4. ASSUME NEW d \in R!Used, x = <<"dispatch", d>> PROVE Row(x)' = Row(x)
    BY <1>4, <2>4, RowNamed DEF CommandWrites
  <2> QED
    BY <2>1, <2>2, <2>3, <2>4 DEF IsLockable

\* The plan of an attempt is settled when it arrives.
LEMMA PlanStays ==
    ASSUME Formed, Grown, NEW q \in Attempts, phase[q] # "idle",
           request'[q] = request[q]
    PROVE  /\ Plan(q)' = Plan(q)
           /\ IncidentOf(request[q].body)' = IncidentOf(request[q].body)
<1> DEFINE m == request[q].body
<1>1. IsResponders(m) => m.target \in R!Used
  BY DEF Formed
<1>2. IncidentOf(m)' = IncidentOf(m)
  BY <1>1 DEF IncidentOf, Grown
<1> QED
  BY <1>2 DEF Plan, LockPlan

\* The plan of an attempt that has arrived has the shape of a plan.
LEMMA PlanOf ==
    ASSUME R!TypeOK, Formed, NEW q \in Attempts, phase[q] # "idle"
    PROVE  /\ Len(Plan(q)) \in 1..3
           /\ IncidentOf(request[q].body) \in Incidents
           /\ Plan(q)[1] = <<"incident", IncidentOf(request[q].body)>>
           /\ \A j, k \in 1..Len(Plan(q)) : j # k => Plan(q)[j] # Plan(q)[k]
           /\ \A k \in 1..Len(Plan(q)) : IsLockable(Plan(q)[k])
BY PlanShape DEF Formed, Plan

\* Every step but those below leaves the locks of those who hold some.
LocksKept(q) ==
    \A p \in Attempts \ {q} :
       /\ held'[p] = held[p] /\ (phase'[p] = "locking" <=> phase[p] = "locking")
       /\ phase[p] # "idle" => request'[p] = request[p]

\* A step of one attempt leaves the others their requests and their locks.
LEMMA OthersKept ==
    ASSUME Formed, NEW q \in Attempts,
           Receive(q) \/ Opens(q) \/ Lock(q) \/ Execute(q) \/ Ends(q)
    PROVE  LocksKept(q)
<1>1. CASE Receive(q)
  BY <1>1 DEF Receive, Formed, LocksKept
<1>2. CASE Opens(q)
  BY <1>2 DEF Opens, Formed, LocksKept
<1>3. CASE Lock(q)
  BY <1>3 DEF Lock, Formed, LocksKept
<1>4. CASE Execute(q) \/ Ends(q)
  <2>1. \E a : Finish(q, a)
    BY <1>4 DEF Execute, Ends
  <2> QED
    BY <2>1, FinishLeaves DEF LocksKept
<1> QED
  BY <1>1, <1>2, <1>3, <1>4

\* Whoever keeps its locks and its plan keeps holding the first rows of it.
LEMMA FirstKept ==
    ASSUME NEW q \in Attempts, NEW n, HoldsFirst(q, n),
           held'[q] = held[q], Plan(q)' = Plan(q)
    PROVE  HoldsFirst(q, n)'
BY DEF HoldsFirst, Locked

\* What the next SELECT ... FOR UPDATE adds to the rows that are locked.
LEMMA LockAddsNext ==
    ASSUME R!TypeOK, Formed, NEW q \in Attempts, NEW n \in 0..Len(Plan(q)),
           HoldsFirst(q, n), Lock(q)
    PROVE  /\ n + 1 \in 1..Len(Plan(q)) /\ NextLock(q) = Plan(q)[n + 1]
           /\ NextLock(q) \notin DOMAIN held[q]
           /\ DOMAIN held'[q] = DOMAIN held[q] \cup {NextLock(q)}
           /\ held'[q][NextLock(q)] = Row(NextLock(q))
           /\ \A x \in DOMAIN held[q] : held'[q][x] = held[q][x]
           /\ Plan(q)' = Plan(q) => HoldsFirst(q, n + 1)'
<1>1. phase[q] = "locking" /\ n # Len(Plan(q)) /\ Len(Plan(q)) \in 1..3
  BY PlanOf DEF Lock, HasAllLocks, HoldsFirst
<1>2. n + 1 \in 1..Len(Plan(q)) /\ NextLock(q) = Plan(q)[n + 1]
  BY <1>1 DEF NextLock, HoldsFirst
<1>3. NextLock(q) \notin DOMAIN held[q]
  <2>1. \A k \in 1..n : k \in 1..Len(Plan(q)) /\ k # n + 1
    BY <1>1
  <2>2. \A k \in 1..n : Plan(q)[k] # Plan(q)[n + 1]
    BY <1>1, <1>2, <2>1, PlanOf
  <2> QED
    BY <1>2, <2>2 DEF HoldsFirst
<1>4. held'[q] = With(held[q], NextLock(q), Row(NextLock(q)))
  BY DEF Lock, Formed
<1>5. /\ DOMAIN held'[q] = DOMAIN held[q] \cup {NextLock(q)}
      /\ held'[q][NextLock(q)] = Row(NextLock(q))
      /\ \A x \in DOMAIN held[q] : held'[q][x] = held[q][x]
  BY <1>3, <1>4 DEF With
<1>6. IsFiniteSet(DOMAIN held'[q]) /\ Cardinality(DOMAIN held'[q]) = n + 1
  <2>1. IsFiniteSet(DOMAIN held[q]) /\ Cardinality(DOMAIN held[q]) = n
    BY DEF HoldsFirst, Locked
  <2> DEFINE H == DOMAIN held[q]
             x == NextLock(q)
  <2>2. IsFiniteSet(H \cup {x}) /\ Cardinality(H \cup {x}) = n + 1
    <3> HIDE DEF H, x
    <3>1. x \notin H
      BY <1>3 DEF H, x
    <3>2. IsFiniteSet(H) /\ Cardinality(H) = n
      BY <2>1 DEF H
    <3> QED
      BY <3>1, <3>2, FS_AddElement
  <2> QED
    BY <1>5, <2>2
<1>7. {Plan(q)[k] : k \in 1..(n + 1)} = {Plan(q)[k] : k \in 1..n} \cup {Plan(q)[n + 1]}
  <2>1. 1..(n + 1) = 1..n \cup {n + 1}
    BY <1>1
  <2> QED
    BY <2>1
<1> QED
  BY <1>2, <1>3, <1>5, <1>6, <1>7 DEF HoldsFirst, Locked

\* Locks are taken in the order of the plan.
LEMMA LocksStep ==
    ASSUME R!TypeOK, Grown, Formed, TypeOK, LocksInOrder, [Next]_vars
    PROVE  LocksInOrder'
<1>1. ASSUME NEW p \in Attempts, phase[p] = "locking", held'[p] = held[p],
             request'[p] = request[p]
      PROVE  \E n \in 0..Len(Plan(p)') : HoldsFirst(p, n)'
  BY <1>1, FirstKept, PlanStays DEF LocksInOrder
<1>2. CASE UNCHANGED vars \/ History
  BY <1>1, <1>2 DEF vars, History, LocksInOrder
<1>3. ASSUME NEW q \in Attempts, LocksKept(q),
             phase'[q] = "locking" => \E n \in 0..Len(Plan(q)') : HoldsFirst(q, n)'
      PROVE  LocksInOrder'
  BY <1>1, <1>3 DEF LocksKept, LocksInOrder
<1>4. ASSUME NEW q \in Attempts, Receive(q)
      PROVE  phase'[q] # "locking"
  BY <1>4 DEF Receive, Formed
<1>5. ASSUME NEW q \in Attempts, Opens(q), phase'[q] = "locking"
      PROVE  \E n \in 0..Len(Plan(q)') : HoldsFirst(q, n)'
  <2>1. phase[q] = "insert" /\ held'[q] = held[q] /\ request' = request
    BY <1>5 DEF Opens, Formed
  <2>2. held[q] = <<>>
    BY <2>1 DEF TypeOK
  <2>3. DOMAIN held'[q] = {} /\ {Plan(q)'[k] : k \in 1..0} = {}
    BY <2>1, <2>2
  <2>4. HoldsFirst(q, 0)'
    BY <2>3, FS_EmptySet DEF HoldsFirst, Locked
  <2>5. Plan(q)' = Plan(q) /\ Len(Plan(q)) \in 1..3
    BY <2>1, PlanStays, PlanOf
  <2> QED
    BY <2>4, <2>5
<1>6. ASSUME NEW q \in Attempts, Lock(q)
      PROVE  \E n \in 0..Len(Plan(q)') : HoldsFirst(q, n)'
  <2>1. phase[q] = "locking" /\ request' = request
    BY <1>6 DEF Lock
  <2>2. PICK n \in 0..Len(Plan(q)) : HoldsFirst(q, n)
    BY <2>1 DEF LocksInOrder
  <2>3. Plan(q)' = Plan(q) /\ Len(Plan(q)) \in 1..3
    BY <2>1, PlanStays, PlanOf
  <2>4. n + 1 \in 1..Len(Plan(q)) /\ HoldsFirst(q, n + 1)'
    BY <1>6, <2>2, <2>3, LockAddsNext
  <2> QED
    BY <2>3, <2>4
<1>7. ASSUME NEW q \in Attempts, Execute(q) \/ Ends(q)
      PROVE  phase'[q] # "locking"
  <2>1. \E a : Finish(q, a)
    BY <1>7 DEF Execute, Ends
  <2> QED
    BY <2>1, FinishLeaves
<1> QED
  BY <1>2, <1>3, <1>4, <1>5, <1>6, <1>7, StepKinds, OthersKept

\* Whoever holds a row is locking, and the row is one of its plan.
LEMMA HeldRows ==
    ASSUME R!TypeOK, Formed, TypeOK, LocksInOrder, NEW q \in Attempts
    PROVE  /\ \A x \in DOMAIN held[q] : phase[q] = "locking" /\ IsLockable(x)
           /\ HasAllLocks(q) => \A k \in 1..Len(Plan(q)) : Plan(q)[k] \in DOMAIN held[q]
<1>1. CASE phase[q] # "locking"
  <2>1. held[q] = <<>>
    BY <1>1 DEF TypeOK
  <2>2. DOMAIN held[q] = {}
    BY <2>1
  <2> QED
    BY <1>1, <2>2 DEF HasAllLocks
<1>2. CASE phase[q] = "locking"
  <2>1. PICK n \in 0..Len(Plan(q)) : HoldsFirst(q, n)
    BY <1>2 DEF LocksInOrder
  <2>2. /\ Len(Plan(q)) \in 1..3
        /\ \A k \in 1..Len(Plan(q)) : IsLockable(Plan(q)[k])
    BY <1>2, PlanOf
  <2>3. \A k \in 1..n : k \in 1..Len(Plan(q))
    BY <2>2
  <2> QED
    BY <1>2, <2>1, <2>2, <2>3 DEF HoldsFirst, HasAllLocks
<1> QED
  BY <1>1, <1>2

\* A read under a lock stays what the table says.
LEMMA FreshStep ==
    ASSUME R!TypeOK, Grown, Formed, TypeOK, LocksInOrder, CopiesFresh, [Next]_vars
    PROVE  CopiesFresh'
<1>1. ASSUME UNCHANGED tables,
             \A p \in Attempts : held'[p] = held[p] \/ DOMAIN held'[p] = {}
      PROVE  CopiesFresh'
  <2>1. \A x : Row(x)' = Row(x)
    BY <1>1 DEF tables, Row
  <2> QED
    BY <1>1, <2>1 DEF CopiesFresh
<1>2. CASE UNCHANGED vars
  BY <1>1, <1>2 DEF vars
<1>3. CASE History
  <2>1. \A p \in Attempts : DOMAIN held'[p] = {}
    <3>1. \A p \in Attempts : held'[p] = held[p] /\ held[p] = <<>>
      BY <1>3 DEF History, TypeOK
    <3> QED
      BY <3>1
  <2> QED
    BY <2>1 DEF CopiesFresh
<1>4. ASSUME NEW q \in Attempts, Receive(q) \/ Opens(q)
      PROVE  CopiesFresh'
  BY <1>1, <1>4 DEF Receive, Opens
<1>5. ASSUME NEW q \in Attempts, Ends(q)
      PROVE  CopiesFresh'
  <2>1. /\ held'[q] = <<>> /\ \A p \in Attempts \ {q} : held'[p] = held[p]
        /\ UNCHANGED tables
    BY <1>5, FinishLeaves DEF Ends
  <2>2. DOMAIN held'[q] = {}
    BY <2>1
  <2> QED
    BY <1>1, <2>1, <2>2
<1>6. ASSUME NEW q \in Attempts, Lock(q)
      PROVE  CopiesFresh'
  <2>1. /\ phase[q] = "locking" /\ ~ HasAllLocks(q) /\ Free(q) /\ UNCHANGED tables
        /\ \A p \in Attempts \ {q} : held'[p] = held[p]
    BY <1>6 DEF Lock, Formed
  <2>2. PICK n \in 0..Len(Plan(q)) : HoldsFirst(q, n)
    BY <2>1 DEF LocksInOrder
  <2>3. /\ DOMAIN held'[q] = DOMAIN held[q] \cup {NextLock(q)}
        /\ held'[q][NextLock(q)] = Row(NextLock(q))
        /\ \A x \in DOMAIN held[q] : held'[q][x] = held[q][x]
    BY <1>6, <2>2, LockAddsNext
  <2>4. \A p \in Attempts \ {q} : NextLock(q) \notin DOMAIN held[p]
    BY <2>1 DEF Free, WaitsFor
  <2>5. \A x : Row(x)' = Row(x)
    BY <2>1 DEF tables, Row
  <2> QED
    BY <2>1, <2>3, <2>4, <2>5 DEF CopiesFresh
<1>7. ASSUME NEW q \in Attempts, Execute(q)
      PROVE  CopiesFresh'
  <2> DEFINE m == request[q].body
  <2>1. HasAllLocks(q) /\ Command(m) /\ \E a : Finish(q, a)
    BY <1>7 DEF Execute
  <2>2. held'[q] = <<>> /\ \A p \in Attempts \ {q} : held'[p] = held[p]
    BY <2>1, FinishLeaves
  <2>3. phase[q] = "locking" /\ m \in Bodies
    BY <2>1 DEF HasAllLocks, Formed
  <2>4. CommandWrites(m)
    BY <2>1, <2>3, CommandWritten
  <2>5. \A k \in 1..Len(LockPlan(m)) : LockPlan(m)[k] \in DOMAIN held[q]
    BY <2>1, HeldRows DEF Plan
  <2>6. ASSUME NEW p \in Attempts \ {q}, NEW x \in DOMAIN held[p]
        PROVE  Row(x)' = Row(x)
    <3>1. IsLockable(x)
      BY <2>6, HeldRows
    <3>2. x \notin DOMAIN held[q]
      BY <2>6 DEF CopiesFresh
    <3> QED
      BY <2>3, <2>4, <2>5, <3>1, <3>2, RowsOfPlan
  <2>7. DOMAIN held'[q] = {}
    BY <2>2
  <2> QED
    BY <2>2, <2>6, <2>7 DEF CopiesFresh
<1> QED
  BY <1>2, <1>3, <1>4, <1>5, <1>6, <1>7, StepKinds

-----------------------------------------------------------------------------
(* Keys.                                                                   *)

\* The key of an attempt that is locking is inserted and not committed, and no
\* other attempt has inserted it.
SlotsApart ==
    \A q \in Attempts : phase[q] = "locking" =>
       /\ Slot(q) \notin DOMAIN idempotency_keys
       /\ \A p \in Attempts \ {q} : phase[p] = "locking" => Slot(p) # Slot(q)

\* A key was committed by an attempt that was told of its success.
KeysHonest ==
    \A s \in DOMAIN idempotency_keys :
       /\ idempotency_keys[s].by \in Attempts
       /\ answer[idempotency_keys[s].by].kind = "ok"

\* What an attempt is told is what its key says.
Told(q) ==
    LET row == idempotency_keys[Slot(q)]
    IN  /\ answer[q].kind \in {"ok", "conflict"} => Slot(q) \in DOMAIN idempotency_keys
        /\ answer[q].kind = "ok" => IsSame(q, row) /\ row.response = answer[q].response
        /\ answer[q].kind = "conflict" => ~ IsSame(q, row)

KeysTrue == SlotsApart /\ KeysHonest /\ \A q \in Attempts : Told(q)

\* No committed key is touched again.
KeysGrow ==
    \A s \in DOMAIN idempotency_keys :
       s \in DOMAIN idempotency_keys' /\ idempotency_keys'[s] = idempotency_keys[s]

\* An execution commits one key, that of its attempt.
LEMMA ExecuteAddsKey ==
    ASSUME SlotsApart, NEW q \in Attempts, Execute(q)
    PROVE  /\ phase[q] = "locking" /\ Slot(q) \notin DOMAIN idempotency_keys
           /\ DOMAIN idempotency_keys' = DOMAIN idempotency_keys \cup {Slot(q)}
           /\ KeysGrow
           /\ idempotency_keys'[Slot(q)].by = q
           /\ idempotency_keys'[Slot(q)].body = request[q].body
           /\ idempotency_keys'[Slot(q)].expected = request[q].expected
           /\ Finish(q, [kind |-> "ok", response |-> idempotency_keys'[Slot(q)].response])
<1>1. phase[q] = "locking"
  BY DEF Execute, HasAllLocks
<1>2. Slot(q) \notin DOMAIN idempotency_keys
  BY <1>1 DEF SlotsApart
<1>3. PICK x : /\ idempotency_keys' =
                     With(idempotency_keys, Slot(q),
                          [body |-> request[q].body, expected |-> request[q].expected,
                           response |-> x, by |-> q])
               /\ Finish(q, [kind |-> "ok", response |-> x])
  BY DEF Execute
<1> QED
  BY <1>1, <1>2, <1>3 DEF With, KeysGrow

\* No other step touches the keys.
LEMMA OnlyExecuteAddsKeys ==
    ASSUME [Next]_vars
    PROVE  idempotency_keys' = idempotency_keys \/ \E q \in Attempts : Execute(q)
BY StepKinds DEF vars, History, Receive, Opens, Lock, Ends

\* Two attempts with one key never both insert it.
LEMMA SlotsStep ==
    ASSUME Formed, SlotsApart, [Next]_vars
    PROVE  SlotsApart'
<1>1. ASSUME idempotency_keys' = idempotency_keys,
             \A q \in Attempts : phase'[q] = "locking" =>
                phase[q] = "locking" /\ request'[q] = request[q]
      PROVE  SlotsApart'
  BY <1>1 DEF SlotsApart, Slot
<1>2. CASE UNCHANGED vars \/ History
  BY <1>1, <1>2 DEF vars, History
<1>3. ASSUME NEW q \in Attempts, Receive(q) \/ Lock(q) \/ Ends(q)
      PROVE  SlotsApart'
  <2>1. CASE Receive(q)
    BY <1>1, <2>1 DEF Receive, Formed
  <2>2. CASE Lock(q)
    BY <1>1, <2>2 DEF Lock
  <2>3. CASE Ends(q)
    BY <1>1, <2>3, FinishLeaves DEF Ends
  <2> QED
    BY <1>3, <2>1, <2>2, <2>3
<1>4. ASSUME NEW q \in Attempts, Opens(q)
      PROVE  SlotsApart'
  <2>1. CASE phase' = [phase EXCEPT ![q] = "insert"]
    BY <1>1, <1>4, <2>1 DEF Opens, Formed
  <2>2. CASE phase' = [phase EXCEPT ![q] = "locking"]
    <3>1. /\ phase[q] = "insert" /\ Free(q) /\ Slot(q) \notin DOMAIN idempotency_keys
          /\ request' = request /\ idempotency_keys' = idempotency_keys
      BY <1>4, <2>2 DEF Opens, Formed
    <3>2. \A p \in Attempts \ {q} : phase[p] = "locking" => Slot(p) # Slot(q)
      BY <3>1 DEF Free, WaitsFor, HasInserted
    <3>3. \A p \in Attempts : Slot(p)' = Slot(p)
      BY <3>1 DEF Slot
    <3>4. \A p \in Attempts \ {q} : phase'[p] = phase[p]
      BY <2>2 DEF Formed
    <3> QED
      BY <3>1, <3>2, <3>3, <3>4 DEF SlotsApart
  <2> QED
    BY <1>4, <2>1, <2>2 DEF Opens
<1>5. ASSUME NEW q \in Attempts, Execute(q)
      PROVE  SlotsApart'
  <2>1. /\ DOMAIN idempotency_keys' = DOMAIN idempotency_keys \cup {Slot(q)}
        /\ phase[q] = "locking" /\ \E a : Finish(q, a)
    BY <1>5, ExecuteAddsKey
  <2>2. /\ phase'[q] = "answered" /\ request' = request
        /\ \A p \in Attempts \ {q} : phase'[p] = phase[p]
    BY <2>1, FinishLeaves
  <2>3. \A p \in Attempts : Slot(p)' = Slot(p)
    BY <2>2 DEF Slot
  <2> QED
    BY <2>1, <2>2, <2>3 DEF SlotsApart
<1> QED
  BY <1>2, <1>3, <1>4, <1>5, StepKinds

\* What attempts were told stays true, and is true of the next one.
LEMMA KeysStep ==
    ASSUME Formed, TypeOK, KeysTrue, [Next]_vars
    PROVE  KeysTrue'
<1>1. SlotsApart'
  BY SlotsStep DEF KeysTrue
<1>2. ASSUME NEW p \in Attempts, KeysGrow, Told(p), answer'[p] = answer[p],
             phase[p] = "idle" \/ request'[p] = request[p]
      PROVE  Told(p)'
  <2>1. CASE phase[p] = "idle"
    <3>1. answer'[p].kind = "none"
      BY <1>2, <2>1 DEF TypeOK
    <3> QED
      BY <3>1 DEF Told
  <2>2. CASE request'[p] = request[p]
    BY <1>2, <2>2 DEF Told, KeysGrow, Slot, IsSame
  <2> QED
    BY <1>2, <2>1, <2>2
<1>3. ASSUME idempotency_keys' = idempotency_keys, answer' = answer,
             \A p \in Attempts : phase[p] = "idle" \/ request'[p] = request[p]
      PROVE  KeysTrue'
  BY <1>1, <1>2, <1>3 DEF KeysTrue, KeysGrow, KeysHonest
<1>4. CASE UNCHANGED vars \/ History
  BY <1>3, <1>4 DEF vars, History
<1>5. ASSUME NEW q \in Attempts, Receive(q) \/ Opens(q) \/ Lock(q)
      PROVE  KeysTrue'
  BY <1>3, <1>5 DEF Receive, Opens, Lock, Formed
<1>6. ASSUME NEW q \in Attempts, Ends(q)
      PROVE  KeysTrue'
  <2>1. PICK a : /\ Finish(q, a)
                 /\ \/ Slot(q) \in DOMAIN idempotency_keys /\ a = Replayed(q)
                    \/ a = [kind |-> "refused"] \/ a = [kind |-> "error"]
    BY <1>6 DEF Ends
  <2>2. /\ answer'[q] = a /\ request' = request /\ idempotency_keys' = idempotency_keys
        /\ \A p \in Attempts \ {q} : answer'[p] = answer[p]
    BY <1>6, <2>1, FinishLeaves DEF Ends
  <2>3. answer[q].kind = "none"
    BY <1>6 DEF Ends, OnItsWay, TypeOK
  <2>4. \A s \in DOMAIN idempotency_keys : idempotency_keys[s].by # q
    BY <2>3 DEF KeysTrue, KeysHonest
  <2>5. Told(q)'
    BY <2>1, <2>2 DEF Told, Replayed, Slot, IsSame
  <2>6. \A p \in Attempts \ {q} : Told(p)'
    BY <1>2, <2>2 DEF KeysTrue, KeysGrow
  <2> QED
    BY <1>1, <2>2, <2>4, <2>5, <2>6 DEF KeysTrue, KeysHonest
<1>7. ASSUME NEW q \in Attempts, Execute(q)
      PROVE  KeysTrue'
  <2> DEFINE new == idempotency_keys'[Slot(q)]
  <2>1. /\ DOMAIN idempotency_keys' = DOMAIN idempotency_keys \cup {Slot(q)}
        /\ phase[q] = "locking" /\ KeysGrow
        /\ new.by = q /\ new.body = request[q].body /\ new.expected = request[q].expected
        /\ Finish(q, [kind |-> "ok", response |-> new.response])
    BY <1>7, ExecuteAddsKey DEF KeysTrue
  <2>2. /\ answer'[q] = [kind |-> "ok", response |-> new.response] /\ request' = request
        /\ \A p \in Attempts \ {q} : answer'[p] = answer[p]
    BY <2>1, FinishLeaves
  <2>3. answer[q].kind = "none"
    BY <2>1 DEF TypeOK
  <2>4. \A s \in DOMAIN idempotency_keys : idempotency_keys[s].by # q
    BY <2>3 DEF KeysTrue, KeysHonest
  <2>5. Told(q)'
    BY <2>1, <2>2 DEF Told, Slot, IsSame
  <2>6. \A p \in Attempts \ {q} : Told(p)'
    BY <1>2, <2>1, <2>2 DEF KeysTrue
  <2>7. KeysHonest'
    BY <2>1, <2>2, <2>4 DEF KeysTrue, KeysHonest, KeysGrow
  <2> QED
    BY <1>1, <2>5, <2>6, <2>7 DEF KeysTrue
<1> QED
  BY <1>4, <1>5, <1>6, <1>7, StepKinds

\* So every answer can be trusted.
LEMMA KeysTrueAnswers == KeysTrue => AnswersTrue
BY DEF KeysTrue, KeysHonest, Told, IsSame, AnswersTrue

-----------------------------------------------------------------------------
(* Versions as witnesses of effects.                                       *)

\* What key row k stands for happened: it took the version after the one that
\* was named, which its row has reached by now.
IsSpent(k) ==
    /\ k.body \in Bodies /\ k.expected \in Nat
    /\ IsResponders(k.body) => k.body.target \in R!Used
    /\ k.response.version = k.expected + 1
    /\ k.response.version <= Named(k.body).version
    /\ k.body.cmd # "assign" =>
          OutcomeEvent(k.body, k.response.version, k.response.status) \in event_outbox

VersionsSpent == \A s \in DOMAIN idempotency_keys : IsSpent(idempotency_keys[s])

EffectsApart ==
    \A s, t \in DOMAIN idempotency_keys :
       LET k == idempotency_keys[s]
           l == idempotency_keys[t]
       IN  s # t /\ Target(k.body) = Target(l.body) =>
              k.expected # l.expected /\ k.response.version # l.response.version

\* The version of the row that a body names is a number, and never falls.
LEMMA NamedVersions ==
    ASSUME R!TypeOK, NEW m \in Bodies, IsResponders(m) => m.target \in R!Used
    PROVE  /\ Named(m).version \in Nat
           /\ Grown => Named(m)'.version >= Named(m).version
BY BodyKinds, VersionsAreNumbers DEF Named, Grown

\* What is spent stays spent.
LEMMA SpentStays ==
    ASSUME R!TypeOK, R!TypeOK', Grown, NEW k, IsSpent(k)
    PROVE  IsSpent(k)'
<1> DEFINE m == k.body
<1>1. m \in Bodies /\ (IsResponders(m) => m.target \in R!Used)
  BY DEF IsSpent
<1>2. IsResponders(m) => m.target \in R!Used'
  BY <1>1 DEF Grown
<1>3. Named(m).version \in Nat /\ Named(m)'.version >= Named(m).version
  BY <1>1, NamedVersions
<1>4. Named(m)'.version \in Nat
  BY <1>1, <1>2, BodyKinds DEF Named, R!TypeOK, R!Used, R!IncidentRow, R!DispatchRow
<1>5. k.response.version <= Named(m)'.version
  BY <1>3, <1>4 DEF IsSpent
<1> QED
  BY <1>2, <1>5 DEF IsSpent, Grown, OutcomeEvent

\* A command that is carried out finds the version its request named.
LEMMA ExecuteFindsVersion ==
    ASSUME R!TypeOK, Formed, TypeOK, LocksInOrder, CopiesFresh,
           NEW q \in Attempts, Execute(q)
    PROVE  Named(request[q].body).version = request[q].expected
<1> DEFINE m == request[q].body
           x == <<IF IsResponders(m) THEN "dispatch" ELSE "incident", m.target>>
<1>1. HasAllLocks(q) /\ VersionRead(q) = request[q].expected
  BY DEF Execute, Valid
<1>2. /\ phase[q] = "locking" /\ m \in Bodies
      /\ IsResponders(m) => m.target \in R!Used
  BY <1>1 DEF HasAllLocks, Formed
<1>3. \E k \in 1..Len(Plan(q)) : Plan(q)[k] = x
  <2>1. CASE ~ IsResponders(m)
    <3>1. Plan(q)[1] = <<"incident", m.target>> /\ Len(Plan(q)) \in 1..3
      BY <1>2, <2>1, PlanOf DEF IncidentOf
    <3> QED
      BY <2>1, <3>1
  <2>2. CASE m.cmd \in {"reject", "complete_action"}
    <3>1. Plan(q) = <<<<"incident", IncidentOf(m)>>, <<"profile", m.actor>>,
                      <<"dispatch", m.target>>>>
      BY <2>2, ProgressNames DEF Plan, LockPlan
    <3>2. Plan(q)[3] = <<"dispatch", m.target>> /\ 3 \in 1..Len(Plan(q))
      BY <3>1
    <3> QED
      BY <2>2, <3>2 DEF IsResponders, ResponderCommands
  <2>3. CASE m.cmd \in {"accept"} \cup DOMAIN ProgressCommands
    <3>1. Plan(q) = <<<<"incident", IncidentOf(m)>>, <<"dispatch", m.target>>>>
      BY <2>3, ProgressNames DEF Plan, LockPlan
    <3>2. Plan(q)[2] = <<"dispatch", m.target>> /\ 2 \in 1..Len(Plan(q))
      BY <3>1
    <3> QED
      BY <2>3, <3>2 DEF IsResponders, ResponderCommands
  <2> QED
    BY <2>1, <2>2, <2>3 DEF IsResponders, ResponderCommands
<1>4. x \in DOMAIN held[q]
  BY <1>1, <1>3, HeldRows
<1>5. held[q][x] = Row(x)
  BY <1>4 DEF CopiesFresh
<1>6. Row(x) = Named(m)
  BY RowNamed DEF Named
<1> QED
  BY <1>1, <1>5, <1>6 DEF VersionRead

\* The new key stands for an effect of its own.
LEMMA ExecuteSpends ==
    ASSUME R!TypeOK, R!TypeOK', Formed, TypeOK, LocksInOrder, CopiesFresh, SlotsApart,
           NEW q \in Attempts, Execute(q),
           NEW m, m = request[q].body, NEW s, s = Slot(q)
    PROVE  LET k == idempotency_keys[s]
           IN  /\ IsSpent(k)' /\ k'.body = m
               /\ k'.expected = Named(m).version
               /\ k'.response.version = Named(m).version + 1
<1> DEFINE k == idempotency_keys[s]
<1>1. k'.body = m /\ k'.expected = request[q].expected
  BY ExecuteAddsKey
<1>2. k'.response.status = Named(m)'.status /\ k'.response.version = Named(m)'.version
  <2> DEFINE row == IF IsResponders(m) THEN dispatch_requests'[m.target]
                    ELSE incidents'[m.target]
             response == [status |-> row.status, version |-> row.version]
  <2>1. idempotency_keys' =
            With(idempotency_keys, s,
                 [body |-> m, expected |-> request[q].expected,
                  response |-> response, by |-> q])
    BY DEF Execute
  <2>2. k'.response = response
    <3> HIDE DEF response
    <3> QED
      BY <2>1 DEF With
  <2>3. row = Named(m)'
    BY DEF Named
  <2> QED
    BY <2>2, <2>3
<1>3. /\ m \in Bodies /\ request[q].expected \in Nat /\ Command(m)
      /\ IsResponders(m) => m.target \in R!Used
  BY DEF Execute, HasAllLocks, Formed
<1>4. CommandWrites(m)
  BY <1>3, CommandWritten
<1>5. k'.expected = Named(m).version
  BY <1>1, ExecuteFindsVersion
<1>6. Named(m)'.version = Named(m).version + 1
  BY <1>4 DEF CommandWrites
<1>7. IsResponders(m) => m.target \in R!Used'
  BY <1>3, SameSpec, CommandIsStep, TablesGrow DEF Grown
<1>8. m.cmd # "assign" => OutcomeEvent(m, Named(m)'.version, Named(m)'.status) \in event_outbox'
  BY <1>4 DEF CommandWrites
<1>9. k'.response.version = k'.expected + 1 /\ k'.response.version <= Named(m)'.version
      /\ k'.expected \in Nat
  <2>1. Named(m).version \in Nat
    BY <1>3, NamedVersions
  <2> QED
    BY <1>2, <1>5, <1>6, <2>1
<1>10. IsSpent(k)'
  <2>1. k.body' = m
    BY <1>1
  <2> HIDE DEF k
  <2>2. /\ IsResponders(k.body)' <=> IsResponders(m)
        /\ Named(k.body)' = Named(m)'
        /\ \A v, t : OutcomeEvent(k.body, v, t)' = OutcomeEvent(m, v, t)
    BY <2>1 DEF IsResponders, Named, OutcomeEvent
  <2>3. m.cmd # "assign" =>
           OutcomeEvent(k.body, k.response.version, k.response.status)' \in event_outbox'
    BY <1>2, <1>8, <2>1 DEF OutcomeEvent, IsResponders
  <2> QED
    BY <1>3, <1>7, <1>9, <2>1, <2>2, <2>3 DEF IsSpent
<1> QED
  BY <1>1, <1>2, <1>5, <1>6, <1>10

\* A key that is not touched stays spent.
LEMMA SpentKept ==
    ASSUME R!TypeOK, R!TypeOK', Grown, VersionsSpent, KeysGrow,
           NEW s \in DOMAIN idempotency_keys
    PROVE  IsSpent(idempotency_keys[s])'
<1>1. PICK k : k = idempotency_keys[s]
  OBVIOUS
<1>2. IsSpent(k)
  BY <1>1 DEF VersionsSpent
<1>3. IsSpent(k)'
  BY <1>2, SpentStays
<1>4. idempotency_keys'[s] = k
  BY <1>1 DEF KeysGrow
<1> QED
  BY <1>3, <1>4 DEF IsSpent, Named, OutcomeEvent, IsResponders

\* No two keys ever stand for one effect.
LEMMA SpentStep ==
    ASSUME R!TypeOK, R!TypeOK', Grown, Formed, TypeOK, LocksInOrder, CopiesFresh,
           SlotsApart, VersionsSpent, EffectsApart, [Next]_vars
    PROVE  VersionsSpent' /\ EffectsApart'
<1>1. CASE idempotency_keys' = idempotency_keys
  <2>1. KeysGrow
    BY <1>1 DEF KeysGrow
  <2> QED
    BY <1>1, <2>1, SpentKept DEF VersionsSpent, EffectsApart, Target
<1>2. ASSUME NEW q \in Attempts, Execute(q)
      PROVE  VersionsSpent' /\ EffectsApart'
  <2>1. PICK m, new : m = request[q].body /\ new = Slot(q)
    OBVIOUS
  <2>2. /\ DOMAIN idempotency_keys' = DOMAIN idempotency_keys \cup {new}
        /\ new \notin DOMAIN idempotency_keys /\ KeysGrow
    BY <1>2, <2>1, ExecuteAddsKey
  <2>3. /\ IsSpent(idempotency_keys[new])'
        /\ idempotency_keys'[new].body = m
        /\ idempotency_keys'[new].expected = Named(m).version
        /\ idempotency_keys'[new].response.version = Named(m).version + 1
    BY <1>2, <2>1, ExecuteSpends
  <2>4. \A s \in DOMAIN idempotency_keys : IsSpent(idempotency_keys[s])'
    BY <2>2, SpentKept
  <2>5. VersionsSpent'
    BY <2>2, <2>3, <2>4 DEF VersionsSpent
  <2>6. ASSUME NEW s \in DOMAIN idempotency_keys,
               Target(idempotency_keys[s].body) = Target(m)
        PROVE  /\ idempotency_keys[s].expected # Named(m).version
               /\ idempotency_keys[s].response.version # Named(m).version + 1
    <3> DEFINE k == idempotency_keys[s]
    <3>1. IsSpent(k)
      BY DEF VersionsSpent
    <3>2. Named(k.body) = Named(m)
      BY <2>6 DEF Target, Named
    <3>3. Named(k.body).version \in Nat
      BY <3>1, NamedVersions DEF IsSpent
    <3>4. /\ k.expected \in Nat /\ k.response.version = k.expected + 1
          /\ k.response.version <= Named(m).version
      BY <3>1, <3>2 DEF IsSpent
    <3> QED
      BY <3>2, <3>3, <3>4
  <2>7. \A s \in DOMAIN idempotency_keys : idempotency_keys'[s] = idempotency_keys[s]
    BY <2>2 DEF KeysGrow
  <2>8. \A s, t \in DOMAIN idempotency_keys' :
          LET k == idempotency_keys'[s]
              l == idempotency_keys'[t]
          IN  s # t /\ Target(k.body) = Target(l.body) =>
                 k.expected # l.expected /\ k.response.version # l.response.version
    BY <2>2, <2>3, <2>6, <2>7 DEF EffectsApart
  <2> QED
    BY <2>5, <2>8 DEF EffectsApart, Target, IsResponders
<1> QED
  BY <1>1, <1>2, OnlyExecuteAddsKeys

\* Both together are the property.
LEMMA SpentIsOneEffect == VersionsSpent /\ EffectsApart => OneEffectPerKey
BY DEF VersionsSpent, IsSpent, OutcomeEvent, EffectsApart, OneEffectPerKey

-----------------------------------------------------------------------------
(* Reads without locks.                                                    *)

\* A snapshot misses claims and reports of incident i only if it shows an
\* older version of it.
ShowsAll(v, i) ==
    /\ v.versions[i] \in Nat /\ v.versions[i] <= incidents[i].version
    /\ v.versions[i] = incidents[i].version =>
          /\ \A c \in incident_claims \ v.claims : c.incident # i
          /\ field_action_reports \cap R!RequestsOf(i) \subseteq v.reports

SnapshotsPast ==
    \A q \in Attempts : RepeatableRead /\ OnItsWay(q) =>
       \A i \in Incidents : ShowsAll(snapshot[q], i)

\* The state as it is misses nothing.
LEMMA UnlockedShowsAll ==
    ASSUME R!TypeOK, NEW i \in Incidents
    PROVE  ShowsAll(Unlocked, i)
<1>1. /\ Unlocked.versions[i] = incidents[i].version
      /\ Unlocked.claims = incident_claims /\ Unlocked.reports = field_action_reports
  BY DEF Unlocked
<1>2. incidents[i].version \in Nat
  BY VersionsAreNumbers
<1> QED
  BY <1>1, <1>2 DEF ShowsAll

\* What a snapshot shows ages only with a version.
LEMMA ShownStays ==
    ASSUME R!TypeOK, Grown, NEW v, NEW i \in Incidents, ShowsAll(v, i),
           incidents'[i].version \in Nat
    PROVE  ShowsAll(v, i)'
<1>1. incidents[i].version \in Nat /\ incidents'[i].version >= incidents[i].version
  BY VersionsAreNumbers DEF Grown
<1>2. v.versions[i] \in Nat /\ v.versions[i] <= incidents[i].version
  BY DEF ShowsAll
<1>3. CASE incidents'[i].version = incidents[i].version
  BY <1>1, <1>2, <1>3 DEF ShowsAll, Grown
<1>4. CASE incidents'[i].version # incidents[i].version
  <2>1. v.versions[i] < incidents'[i].version
    BY <1>1, <1>2, <1>4
  <2> QED
    BY <1>1, <1>2, <2>1 DEF ShowsAll
<1> QED
  BY <1>3, <1>4

\* Snapshots are of the past, and of nothing else.
LEMMA SnapshotsStep ==
    ASSUME R!TypeOK, R!TypeOK', Grown, Formed, SnapshotsPast, [Next]_vars
    PROVE  SnapshotsPast'
<1>1. \A i \in Incidents : incidents'[i].version \in Nat
  BY DEF R!TypeOK, R!IncidentRow
<1>2. ASSUME NEW p \in Attempts, RepeatableRead, OnItsWay(p), snapshot'[p] = snapshot[p],
             NEW i \in Incidents
      PROVE  ShowsAll(snapshot[p], i)'
  <2>1. PICK v : v = snapshot[p]
    OBVIOUS
  <2>2. ShowsAll(v, i)'
    BY <1>1, <1>2, <2>1, ShownStays DEF SnapshotsPast
  <2> QED
    BY <1>2, <2>1, <2>2 DEF ShowsAll
<1>3. ASSUME \A p \in Attempts : OnItsWay(p)' => OnItsWay(p) /\ snapshot'[p] = snapshot[p]
      PROVE  SnapshotsPast'
  BY <1>2, <1>3 DEF SnapshotsPast, RepeatableRead
<1>4. CASE UNCHANGED vars \/ History
  BY <1>3, <1>4 DEF vars, History, OnItsWay
<1>5. ASSUME NEW q \in Attempts, Opens(q) \/ Lock(q)
      PROVE  SnapshotsPast'
  BY <1>3, <1>5 DEF Opens, Lock, OnItsWay, Formed
<1>6. ASSUME NEW q \in Attempts, Execute(q) \/ Ends(q)
      PROVE  SnapshotsPast'
  <2>1. \E a : Finish(q, a)
    BY <1>6 DEF Execute, Ends
  <2>2. /\ phase'[q] = "answered"
        /\ \A p \in Attempts \ {q} : phase'[p] = phase[p] /\ snapshot'[p] = snapshot[p]
    BY <2>1, FinishLeaves
  <2> QED
    BY <1>3, <2>2 DEF OnItsWay
<1>7. ASSUME NEW q \in Attempts, Receive(q)
      PROVE  SnapshotsPast'
  <2>1. /\ RepeatableRead => snapshot'[q] = Unlocked
        /\ \A p \in Attempts \ {q} : phase'[p] = phase[p] /\ snapshot'[p] = snapshot[p]
        /\ UNCHANGED tables
    BY <1>7 DEF Receive, Formed
  <2>2. ASSUME RepeatableRead, NEW i \in Incidents
        PROVE  ShowsAll(snapshot[q], i)'
    <3>1. ShowsAll(Unlocked, i)
      BY UnlockedShowsAll
    <3>2. R!RequestsOf(i)' = R!RequestsOf(i)
      BY <2>1 DEF tables, R!RequestsOf, R!Used
    <3> QED
      BY <2>1, <2>2, <3>1, <3>2 DEF ShowsAll, tables
  <2>3. \A p \in Attempts \ {q} : OnItsWay(p)' => OnItsWay(p) /\ snapshot'[p] = snapshot[p]
    BY <2>1 DEF OnItsWay
  <2> QED
    BY <1>2, <2>2, <2>3 DEF SnapshotsPast, RepeatableRead
<1> QED
  BY <1>4, <1>5, <1>6, <1>7, StepKinds

\* So a version that did not move vouches for what was read without a lock.
LEMMA PastIsCurrent ==
    ASSUME R!TypeOK, Formed, SnapshotsPast
    PROVE  UnlockedReadsCurrent
<1> SUFFICES ASSUME NEW q \in Attempts, HasAllLocks(q),
                    View(q).versions[IncidentOf(request[q].body)]
                       = incidents[IncidentOf(request[q].body)].version
             PROVE  LET i == IncidentOf(request[q].body)
                    IN  /\ \A c \in incident_claims \ View(q).claims : c.incident # i
                        /\ field_action_reports \cap DB!RequestsOf(i) \subseteq View(q).reports
  BY DEF UnlockedReadsCurrent
<1> DEFINE i == IncidentOf(request[q].body)
<1>1. phase[q] = "locking" /\ i \in Incidents
  BY PlanOf DEF HasAllLocks
<1>2. ShowsAll(View(q), i)
  BY <1>1, UnlockedShowsAll DEF View, SnapshotsPast, OnItsWay
<1>3. DB!RequestsOf(i) = R!RequestsOf(i)
  BY SameReads
<1> QED
  BY <1>2, <1>3 DEF ShowsAll

-----------------------------------------------------------------------------
(* Deadlocks.                                                              *)

\* The place of a row in the order in which commands lock.
Rank(x) == IF x[1] = "incident" THEN 1 ELSE IF x[1] = "dispatch" THEN 3 ELSE 2

\* Plans but that of assign follow the order, and name no user.
LEMMA PlanFollowsOrder ==
    ASSUME NEW m \in Bodies, m.cmd # "assign"
    PROVE  LET P == LockPlan(m)
           IN  /\ Len(P) \in 1..3
               /\ \A k \in 1..Len(P) : Rank(P[k]) \in 1..3
               /\ \A j, k \in 1..Len(P) : j < k => Rank(P[j]) < Rank(P[k])
               /\ \A k \in 1..Len(P) : P[k][1] # "user"
<1> DEFINE P == LockPlan(m)
           incident == <<"incident", IncidentOf(m)>>
<1>1. CASE m.cmd \in {"reject", "complete_action"}
  <2>1. P = <<incident, <<"profile", m.actor>>, <<"dispatch", m.target>>>>
    BY <1>1, ProgressNames DEF LockPlan
  <2> QED
    BY <2>1 DEF Rank
<1>2. CASE m.cmd \in {"accept"} \cup DOMAIN ProgressCommands
  <2>1. P = <<incident, <<"dispatch", m.target>>>>
    BY <1>2, ProgressNames DEF LockPlan
  <2> QED
    BY <2>1 DEF Rank
<1>3. CASE m.cmd \notin {"reject", "complete_action", "accept"} \cup DOMAIN ProgressCommands
  <2>1. P = <<incident>>
    BY <1>3, ProgressNames DEF LockPlan
  <2> QED
    BY <2>1 DEF Rank
<1> QED
  BY <1>1, <1>2, <1>3

\* Among commands that follow the order, who waits for a row waits for someone
\* who can only wait for a later one.
LEMMA WaitClimbs ==
    ASSUME R!TypeOK, Formed, LocksInOrder, NEW q \in Attempts, NEW p \in Attempts,
           phase[q] = "locking", phase[p] = "locking",
           request[p].body.cmd # "assign", request[q].body.cmd # "assign",
           WaitsFor(q, p), ~ HasAllLocks(p)
    PROVE  /\ ~ HasAllLocks(q)
           /\ Rank(NextLock(q)) \in 1..3 /\ Rank(NextLock(p)) \in 1..3
           /\ Rank(NextLock(q)) < Rank(NextLock(p))
<1>1. PICK n \in 0..Len(Plan(p)) : HoldsFirst(p, n)
  BY DEF LocksInOrder
<1>2. PICK j \in 0..Len(Plan(q)) : HoldsFirst(q, j)
  BY DEF LocksInOrder
<1>3. /\ Len(Plan(p)) \in 1..3
      /\ \A k \in 1..Len(Plan(p)) : Rank(Plan(p)[k]) \in 1..3
      /\ \A i, k \in 1..Len(Plan(p)) : i < k => Rank(Plan(p)[i]) < Rank(Plan(p)[k])
      /\ \A k \in 1..Len(Plan(p)) : Plan(p)[k][1] # "user"
  BY PlanFollowsOrder DEF Formed, Plan
<1>4. /\ Len(Plan(q)) \in 1..3
      /\ \A k \in 1..Len(Plan(q)) : Rank(Plan(q)[k]) \in 1..3
  BY PlanFollowsOrder DEF Formed, Plan
<1>5. n + 1 \in 1..Len(Plan(p)) /\ NextLock(p) = Plan(p)[n + 1]
  BY <1>1, <1>3 DEF HasAllLocks, HoldsFirst, NextLock
<1>6. \A x \in DOMAIN held[p] : x[1] # "user" /\ Rank(x) < Rank(NextLock(p))
  <2> SUFFICES ASSUME NEW k \in 1..n
               PROVE  Plan(p)[k][1] # "user" /\ Rank(Plan(p)[k]) < Rank(NextLock(p))
    BY <1>1 DEF HoldsFirst
  <2>1. k \in 1..Len(Plan(p)) /\ k < n + 1
    BY <1>3
  <2> QED
    BY <1>3, <1>5, <2>1
<1>7. ~ HasAllLocks(q) /\ NextLock(q) \in DOMAIN held[p]
  <2>1. <<"user", request[q].body.actor>> \notin DOMAIN held[p]
    BY <1>6
  <2> QED
    BY <2>1 DEF WaitsFor
<1>8. Rank(NextLock(q)) \in 1..3
  <2>1. j + 1 \in 1..Len(Plan(q)) /\ NextLock(q) = Plan(q)[j + 1]
    BY <1>2, <1>4, <1>7 DEF HasAllLocks, HoldsFirst, NextLock
  <2> QED
    BY <1>4, <2>1
<1> QED
  BY <1>3, <1>5, <1>6, <1>7, <1>8

\* Who holds all its rows waits for the row of its user only, which none of
\* these commands locks.
LEMMA CompleteWaitsForAssign ==
    ASSUME Formed, LocksInOrder, NEW q \in Attempts, NEW p \in Attempts,
           phase[p] = "locking", request[p].body.cmd # "assign",
           HasAllLocks(q)
    PROVE  ~ WaitsFor(q, p)
<1>1. PICK n \in 0..Len(Plan(p)) : HoldsFirst(p, n)
  BY DEF LocksInOrder
<1>2. /\ Len(Plan(p)) \in 1..3
      /\ \A k \in 1..Len(Plan(p)) : Plan(p)[k][1] # "user"
  BY PlanFollowsOrder DEF Formed, Plan
<1>3. \A x \in DOMAIN held[p] : x[1] # "user"
  <2>1. \A k \in 1..n : k \in 1..Len(Plan(p))
    BY <1>2
  <2> QED
    BY <1>1, <1>2, <2>1 DEF HoldsFirst
<1>4. <<"user", request[q].body.actor>> \notin DOMAIN held[p]
  BY <1>3
<1> QED
  BY <1>4 DEF WaitsFor, HasAllLocks

\* A cycle without an assign would climb for ever, and there are three ranks.
LEMMA OrderPreventsCycles ==
    ASSUME R!TypeOK, Formed, LocksInOrder
    PROVE  OnlyAssignDeadlocks
<1> SUFFICES ASSUME NEW W \in SUBSET Attempts, Cycle(W),
                    \A q \in W : phase[q] = "locking",
                    \A q \in W : request[q].body.cmd # "assign"
             PROVE  FALSE
  BY DEF OnlyAssignDeadlocks
<1>1. \A q \in W : \E p \in W : WaitsFor(q, p)
  BY DEF Cycle
<1>2. \A q \in W : ~ HasAllLocks(q)
  BY <1>1, CompleteWaitsForAssign
<1>3. \A q, p \in W : WaitsFor(q, p) =>
        /\ Rank(NextLock(q)) \in 1..3 /\ Rank(NextLock(p)) \in 1..3
        /\ Rank(NextLock(q)) < Rank(NextLock(p))
  BY <1>2, WaitClimbs
<1>4. PICK a \in W : TRUE
  BY DEF Cycle
<1>5. PICK b \in W : WaitsFor(a, b)
  BY <1>1
<1>6. PICK c \in W : WaitsFor(b, c)
  BY <1>1
<1>7. PICK d \in W : WaitsFor(c, d)
  BY <1>1
<1> QED
  BY <1>3, <1>5, <1>6, <1>7

-----------------------------------------------------------------------------
(* The theorems.                                                           *)

RequestsInv ==
    /\ Formed /\ TypeOK
    /\ LocksInOrder /\ CopiesFresh
    /\ KeysTrue
    /\ VersionsSpent /\ EffectsApart
    /\ SnapshotsPast

\* It holds before the first request.
LEMMA RequestsInvInit == Init => RequestsInv
<1> SUFFICES ASSUME Init PROVE RequestsInv
  OBVIOUS
<1>1. /\ idempotency_keys = <<>> /\ \A q \in Attempts : phase[q] = "idle"
      /\ \A q \in Attempts : held[q] = <<>> /\ answer[q].kind = "none"
  BY DEF Init, NoAnswer
<1>2. DOMAIN idempotency_keys = {} /\ \A q \in Attempts : DOMAIN held[q] = {}
  BY <1>1
<1>3. Formed
  BY DEF Init, Formed, Phases
<1>4. TypeOK
  BY <1>1, <1>2 DEF Init, TypeOK
<1>5. LocksInOrder /\ CopiesFresh
  BY <1>1, <1>2 DEF LocksInOrder, CopiesFresh
<1>6. KeysTrue
  BY <1>1, <1>2 DEF KeysTrue, SlotsApart, KeysHonest, Told
<1>7. VersionsSpent /\ EffectsApart /\ SnapshotsPast
  BY <1>1, <1>2 DEF VersionsSpent, EffectsApart, SnapshotsPast, OnItsWay
<1> QED
  BY <1>3, <1>4, <1>5, <1>6, <1>7 DEF RequestsInv

\* The invariant of the requests, on which all theorems below rest: locks in
\* the order of the plan with rows as they are, keys that are inserted by one
\* attempt and spent on one version, snapshots of the past.
THEOREM RequestsInvariant == Spec => [](R!TypeOK /\ RequestsInv)
<1>1. R!TypeOK /\ R!TypeOK' /\ [R!Next]_R!vars /\ RequestsInv /\ [Next]_vars
         => RequestsInv'
  <2> SUFFICES ASSUME R!TypeOK, R!TypeOK', [R!Next]_R!vars, RequestsInv, [Next]_vars
               PROVE  RequestsInv'
    OBVIOUS
  <2>1. Grown
    BY TablesGrow
  <2>2. Formed'
    BY FormedStep DEF RequestsInv
  <2>3. TypeOK'
    BY <2>2, TypeStep DEF RequestsInv
  <2>4. LocksInOrder' /\ CopiesFresh'
    BY <2>1, LocksStep, FreshStep DEF RequestsInv
  <2>5. KeysTrue'
    BY KeysStep DEF RequestsInv
  <2>6. VersionsSpent' /\ EffectsApart'
    BY <2>1, SpentStep DEF RequestsInv, KeysTrue
  <2>7. SnapshotsPast'
    BY <2>1, SnapshotsStep DEF RequestsInv
  <2> QED
    BY <2>2, <2>3, <2>4, <2>5, <2>6, <2>7 DEF RequestsInv
<1>2. Spec => R!Spec
  BY RequestsAreCommands, SpecIsSpec DEF TablesMoveByCommands
<1>3. R!Spec => []R!TypeOK
  BY R!TypeCorrect, UsersAssumption, DispatchesAssumption, BoundAssumption
<1>4. R!Spec => [][R!Next]_R!vars
  BY DEF R!Spec
<1> QED
  BY RequestsInvInit, <1>1, <1>2, <1>3, <1>4, PTL DEF Spec

\* Keys, phases, requests, locks and answers have their types.
THEOREM RequestsTyped == Spec => []TypeOK
<1>1. RequestsInv => TypeOK
  BY DEF RequestsInv
<1> QED
  BY RequestsInvariant, <1>1, PTL

\* No lost update: the rows read under locks stay the rows of the tables until
\* the transaction is over.
THEOREM CopiesFreshCorrect == Spec => []CopiesFresh
<1>1. RequestsInv => CopiesFresh
  BY DEF RequestsInv
<1> QED
  BY RequestsInvariant, <1>1, PTL

\* Every answer can be trusted, whichever attempt of a retried request it is
\* given to.
THEOREM AnswersTrueCorrect == Spec => []AnswersTrue
<1>1. RequestsInv => AnswersTrue
  BY KeysTrueAnswers DEF RequestsInv
<1> QED
  BY RequestsInvariant, <1>1, PTL

\* No two keys stand for one effect, whatever their scope, and what a key
\* answers is what the outbox says.
THEOREM OneEffectPerKeyCorrect == Spec => []OneEffectPerKey
<1>1. RequestsInv => OneEffectPerKey
  BY SpentIsOneEffect DEF RequestsInv
<1> QED
  BY RequestsInvariant, <1>1, PTL

\* The version check makes up for the reads that lock nothing, at either
\* isolation level.
THEOREM UnlockedReadsCurrentCorrect == Spec => []UnlockedReadsCurrent
<1>1. R!TypeOK /\ RequestsInv => UnlockedReadsCurrent
  BY PastIsCurrent DEF RequestsInv
<1> QED
  BY RequestsInvariant, <1>1, PTL

\* The order of the row locks rules out every deadlock about rows in which no
\* assign takes part.
THEOREM OnlyAssignDeadlocksCorrect == Spec => []OnlyAssignDeadlocks
<1>1. R!TypeOK /\ RequestsInv => OnlyAssignDeadlocks
  BY OrderPreventsCycles DEF RequestsInv
<1> QED
  BY RequestsInvariant, <1>1, PTL

\* Once attempts have begun, an effect comes with a key that was not there.
THEOREM EffectNeedsFreshKeyCorrect == Spec => EffectNeedsFreshKey
<1>1. RequestsInv /\ [Next]_vars =>
        [/\ \A s \in DOMAIN idempotency_keys :
               s \in DOMAIN idempotency_keys' /\ idempotency_keys'[s] = idempotency_keys[s]
         /\ (\E q \in Attempts : phase[q] # "idle") =>
               \/ UNCHANGED tables
               \/ \E q \in Attempts :
                     /\ phase[q] # "idle"
                     /\ Slot(q) \notin DOMAIN idempotency_keys
                     /\ DOMAIN idempotency_keys' = DOMAIN idempotency_keys \cup {Slot(q)}]_vars
  <2> SUFFICES ASSUME RequestsInv, [Next]_vars
               PROVE  /\ KeysGrow
                      /\ (\E q \in Attempts : phase[q] # "idle") =>
                            \/ UNCHANGED tables
                            \/ \E q \in Attempts :
                                  /\ phase[q] # "idle"
                                  /\ Slot(q) \notin DOMAIN idempotency_keys
                                  /\ DOMAIN idempotency_keys' =
                                        DOMAIN idempotency_keys \cup {Slot(q)}
    BY DEF KeysGrow
  <2>1. CASE \E q \in Attempts : Execute(q)
    BY <2>1, ExecuteAddsKey DEF RequestsInv, KeysTrue
  <2>2. CASE ~ \E q \in Attempts : Execute(q)
    <3>1. KeysGrow
      BY <2>2, OnlyExecuteAddsKeys DEF KeysGrow
    <3>2. (\E q \in Attempts : phase[q] # "idle") => UNCHANGED tables
      BY <2>2, StepKinds DEF vars, History, Receive, Opens, Lock, Ends
    <3> QED
      BY <3>1, <3>2
  <2> QED
    BY <2>1, <2>2
<1> QED
  BY RequestsInvariant, <1>1, PTL DEF Spec, EffectNeedsFreshKey

-----------------------------------------------------------------------------
(* Requests implements OncePerKey.                                         *)

\* A step of OncePerKey, or none.
KeyStep == [K!Next]_<<AskedFor, ToldTo, Done, tables>>

\* Attempts that go on without an answer are not seen.
LEMMA UnansweredStep ==
    ASSUME UNCHANGED <<tables, idempotency_keys, request, answer>>,
           \A q \in Attempts : /\ phase'[q] = "idle" <=> phase[q] = "idle"
                               /\ phase'[q] = "answered" <=> phase[q] = "answered"
    PROVE  KeyStep
<1>1. \A q \in Attempts : Slot(q)' = Slot(q)
  BY DEF Slot
<1>2. AskedFor' = AskedFor
  BY <1>1 DEF AskedFor, AskOf, Target, IsResponders
<1>3. ToldTo' = ToldTo
  BY DEF ToldTo
<1>4. Done' = Done
  BY DEF Done, AskOf, Target, IsResponders
<1> QED
  BY <1>2, <1>3, <1>4 DEF KeyStep

\* What an attempt has asked when it is on its way.
LEMMA PendingAsks ==
    ASSUME NEW q \in Attempts, OnItsWay(q)
    PROVE  /\ q \in K!Pending /\ AskedFor[q].slot = Slot(q)
           /\ AskedFor[q] = AskOf(Slot(q), request[q].body, request[q].expected)
BY DEF OnItsWay, K!Pending, AskedFor, ToldTo, AskOf

\* Two requests under one key ask the same if they are the same.
LEMMA SameAsk ==
    ASSUME NEW s, NEW b, NEW v, NEW c, NEW w
    PROVE  AskOf(s, b, v) = AskOf(s, c, w) <=> (b = c /\ v = w)
<1>1. /\ AskOf(s, b, v).body = b /\ AskOf(s, b, v).version = v
      /\ AskOf(s, c, w).body = c /\ AskOf(s, c, w).version = w
  BY DEF AskOf
<1> QED
  BY <1>1

\* The end of an attempt is its answer.
LEMMA FinishTells ==
    ASSUME Formed, NEW q \in Attempts, OnItsWay(q), NEW a, Finish(q, a)
    PROVE  AskedFor' = AskedFor /\ K!Tell(q, a)
<1>1. /\ phase'[q] = "answered" /\ answer'[q] = a /\ request' = request
      /\ \A p \in Attempts \ {q} : phase'[p] = phase[p] /\ answer'[p] = answer[p]
  BY FinishLeaves
<1>2. \A p \in Attempts : Slot(p)' = Slot(p)
  BY <1>1 DEF Slot
<1>3. AskedFor' = AskedFor
  <2>1. \A p \in Attempts : phase'[p] # "idle" <=> phase[p] # "idle"
    BY <1>1 DEF OnItsWay
  <2> QED
    BY <1>1, <1>2, <2>1 DEF AskedFor, AskOf, Target, IsResponders
<1>4. ToldTo' = K!With(ToldTo, q, a)
  <2>1. {p \in Attempts : phase'[p] = "answered"}
          = {p \in Attempts : phase[p] = "answered"} \cup {q}
    BY <1>1
  <2>2. ToldTo' = [p \in {p \in Attempts : phase'[p] = "answered"} |-> answer'[p]]
    BY DEF ToldTo
  <2> QED
    BY <1>1, <2>1, <2>2 DEF ToldTo, K!With
<1> QED
  BY <1>3, <1>4 DEF K!Tell

\* _replay_or_reject answers from memory; a refusal or a rollback answers that
\* nothing was done.
LEMMA EndsImplements ==
    ASSUME Formed, NEW q \in Attempts, Ends(q)
    PROVE  KeyStep
<1> DEFINE s == Slot(q)
           row == idempotency_keys[s]
<1>1. OnItsWay(q) /\ UNCHANGED <<tables, idempotency_keys>>
  BY DEF Ends
<1>2. Done' = Done
  BY <1>1 DEF Done, AskOf, Target, IsResponders
<1>3. CASE s \in DOMAIN idempotency_keys /\ Finish(q, Replayed(q))
  <2>1. /\ s \in DOMAIN Done /\ Done[s].response = row.response
        /\ Done[s].ask = AskOf(s, row.body, row.expected)
    BY <1>3 DEF Done
  <2>2. Done[s].ask = AskedFor[q] <=> IsSame(q, row)
    <3>1. AskedFor[q] = AskOf(s, request[q].body, request[q].expected)
      BY <1>1, PendingAsks
    <3>2. AskOf(s, row.body, row.expected) = AskOf(s, request[q].body, request[q].expected)
            <=> (row.body = request[q].body /\ row.expected = request[q].expected)
      BY SameAsk
    <3> QED
      BY <2>1, <3>1, <3>2 DEF IsSame
  <2>3. Replayed(q) = IF Done[s].ask = AskedFor[q]
                      THEN [kind |-> "ok", response |-> Done[s].response]
                      ELSE [kind |-> "conflict"]
    BY <2>1, <2>2 DEF Replayed
  <2>4. K!Tell(q, Replayed(q)) /\ AskedFor' = AskedFor
    BY <1>1, <1>3, FinishTells
  <2>5. K!Repeat(q)
    BY <1>1, <1>2, <2>1, <2>3, <2>4, PendingAsks DEF K!Repeat
  <2> QED
    BY <2>5 DEF KeyStep, K!Next
<1>4. ASSUME NEW kind \in {"refused", "error"}, Finish(q, [kind |-> kind])
      PROVE  KeyStep
  <2>1. K!Tell(q, [kind |-> kind]) /\ AskedFor' = AskedFor
    BY <1>1, <1>4, FinishTells
  <2>2. K!Decline(q)
    BY <1>1, <1>2, <2>1, PendingAsks DEF K!Decline
  <2> QED
    BY <2>2 DEF KeyStep, K!Next
<1> QED
  BY <1>3, <1>4 DEF Ends

\* A request arrives.
LEMMA ReceiveImplements ==
    ASSUME Formed, Formed', NEW q \in Attempts, Receive(q)
    PROVE  KeyStep
<1>1. /\ phase[q] = "idle" /\ phase'[q] = "lookup"
      /\ \A p \in Attempts \ {q} : phase'[p] = phase[p] /\ request'[p] = request[p]
      /\ UNCHANGED <<tables, idempotency_keys, answer>>
  BY DEF Receive, Formed
<1>2. \A p \in Attempts \ {q} : Slot(p)' = Slot(p)
  BY <1>1 DEF Slot
<1>3. {p \in Attempts : phase'[p] # "idle"} = {p \in Attempts : phase[p] # "idle"} \cup {q}
  BY <1>1
<1>4. AskedFor' = [p \in {p \in Attempts : phase'[p] # "idle"} |->
                     AskOf(Slot(p)', request'[p].body, request'[p].expected)]
  BY DEF AskedFor, AskOf, Target, IsResponders
<1>5. /\ q \notin DOMAIN AskedFor /\ DOMAIN AskedFor' = DOMAIN AskedFor \cup {q}
      /\ \A p \in DOMAIN AskedFor : AskedFor'[p] = AskedFor[p]
  BY <1>1, <1>2, <1>3, <1>4 DEF AskedFor
<1>6. ToldTo' = ToldTo
  <2>1. {p \in Attempts : phase'[p] = "answered"} = {p \in Attempts : phase[p] = "answered"}
    BY <1>1
  <2> QED
    BY <1>1, <2>1 DEF ToldTo
<1>7. Done' = Done
  BY <1>1 DEF Done, AskOf, Target, IsResponders
<1>8. AskedFor'[q] \in [slot : Commands \X Keys,
                        target : BOOLEAN \X (Incidents \cup Dispatches),
                        body : Bodies, version : Nat]
  <2> DEFINE m == request'[q].body
  <2>1. /\ m \in Bodies /\ request'[q].expected \in Nat
        /\ request'[q].key \in Keys /\ m.cmd \in Commands
    BY <1>1 DEF Formed
  <2>2. Slot(q)' \in Commands \X Keys
    BY <2>1 DEF Slot
  <2>3. Target(m) \in BOOLEAN \X (Incidents \cup Dispatches)
    <3>1. m.target \in Incidents \cup Dispatches
      BY <2>1, BodyKinds
    <3>2. IsResponders(m) \in BOOLEAN
      BY DEF IsResponders
    <3> QED
      BY <3>1, <3>2 DEF Target
  <2>4. AskedFor'[q] = AskOf(Slot(q)', m, request'[q].expected)
    BY <1>1, <1>4
  <2> HIDE DEF m
  <2> QED
    BY <2>1, <2>2, <2>3, <2>4 DEF AskOf
<1>9. K!Ask(q)
  BY <1>1, <1>5, <1>6, <1>7, <1>8 DEF K!Ask
<1> QED
  BY <1>9 DEF KeyStep, K!Next

\* What a new key stands for: what was asked, and the row that came of it.
LEMMA ExecuteStores ==
    ASSUME R!TypeOK, R!TypeOK', Formed, TypeOK, LocksInOrder, CopiesFresh, SlotsApart,
           NEW q \in Attempts, Execute(q), NEW m, m = request[q].body
    PROVE  \E status \in DB!IncidentStatuses \cup DB!DispatchStatuses :
             LET response == [status |-> status, version |-> request[q].expected + 1]
             IN  /\ idempotency_keys' =
                       With(idempotency_keys, Slot(q),
                            [body |-> m, expected |-> request[q].expected,
                             response |-> response, by |-> q])
                 /\ Finish(q, [kind |-> "ok", response |-> response])
<1>1. /\ m \in Bodies /\ Command(m)
      /\ IsResponders(m) => m.target \in R!Used
  BY DEF Execute, HasAllLocks, Formed
<1>2. Named(m)'.version = request[q].expected + 1
  BY <1>1, CommandWritten, ExecuteFindsVersion DEF CommandWrites
<1>3. Named(m)'.status \in DB!IncidentStatuses \cup DB!DispatchStatuses
  <2>1. CASE IsResponders(m)
    <3>1. m.target \in R!Used'
      BY <1>1, <2>1, SameSpec, CommandIsStep, TablesGrow DEF Grown
    <3>2. dispatch_requests'[m.target] \in R!DispatchRow
      BY <3>1 DEF R!TypeOK, R!Used
    <3>3. Named(m)' = dispatch_requests'[m.target]
      BY <2>1 DEF Named, IsResponders
    <3> QED
      BY <3>2, <3>3 DEF R!DispatchRow, R!DispatchStatuses, DB!DispatchStatuses
  <2>2. CASE ~ IsResponders(m)
    <3>1. m.target \in Incidents
      BY <1>1, <2>2, BodyKinds
    <3>2. incidents'[m.target] \in R!IncidentRow
      BY <3>1 DEF R!TypeOK
    <3>3. Named(m)' = incidents'[m.target]
      BY <2>2 DEF Named, IsResponders
    <3> QED
      BY <3>2, <3>3 DEF R!IncidentRow, R!IncidentStatuses, DB!IncidentStatuses
  <2> QED
    BY <2>1, <2>2
<1> DEFINE row == IF IsResponders(m) THEN dispatch_requests'[m.target]
                  ELSE incidents'[m.target]
           response == [status |-> row.status, version |-> row.version]
<1>4. /\ idempotency_keys' =
            With(idempotency_keys, Slot(q),
                 [body |-> m, expected |-> request[q].expected,
                  response |-> response, by |-> q])
      /\ Finish(q, [kind |-> "ok", response |-> response])
  BY DEF Execute
<1>5. row = Named(m)'
  BY DEF Named, IsResponders
<1>6. response = [status |-> Named(m)'.status, version |-> request[q].expected + 1]
  BY <1>2, <1>5
<1> HIDE DEF row, response
<1> QED
  BY <1>3, <1>4, <1>6

\* An execution carries out what was asked under a slot and a version that no
\* other has used.
LEMMA ExecuteImplements ==
    ASSUME R!TypeOK, R!TypeOK', RequestsInv, EffectsApart', NEW q \in Attempts, Execute(q)
    PROVE  KeyStep
<1> DEFINE m == request[q].body
           s == Slot(q)
           ask == AskedFor[q]
<1> USE DEF RequestsInv, KeysTrue
<1>1. OnItsWay(q) /\ s \notin DOMAIN idempotency_keys /\ KeysGrow
      /\ s \in DOMAIN idempotency_keys'
  BY ExecuteAddsKey DEF OnItsWay
<1>2. /\ q \in K!Pending /\ ask.slot = s
      /\ ask = AskOf(s, m, request[q].expected)
  BY <1>1, PendingAsks
<1>3. PICK status \in DB!IncidentStatuses \cup DB!DispatchStatuses :
         LET response == [status |-> status, version |-> request[q].expected + 1]
         IN  /\ idempotency_keys' =
                   With(idempotency_keys, s,
                        [body |-> m, expected |-> request[q].expected,
                         response |-> response, by |-> q])
             /\ Finish(q, [kind |-> "ok", response |-> response])
  BY ExecuteStores
<1> DEFINE response == [status |-> status, version |-> request[q].expected + 1]
<1>4. /\ idempotency_keys'[s].body = m /\ idempotency_keys'[s].expected = request[q].expected
      /\ idempotency_keys'[s].response = response
  BY <1>3 DEF With
<1>5. ask.version = request[q].expected /\ ask.target = Target(m)
  BY <1>2 DEF AskOf
<1>6. AskedFor' = AskedFor /\ K!Tell(q, [kind |-> "ok", response |-> response])
  BY <1>1, <1>3, FinishTells
<1>7. Done' = K!With(Done, s, [ask |-> ask, response |-> response])
  <2>1. DOMAIN idempotency_keys' = DOMAIN idempotency_keys \cup {s}
    BY ExecuteAddsKey
  <2>2. Done' = [t \in DOMAIN idempotency_keys' |->
                   [ask |-> AskOf(t, idempotency_keys'[t].body, idempotency_keys'[t].expected),
                    response |-> idempotency_keys'[t].response]]
    BY DEF Done, AskOf, Target, IsResponders
  <2>3. \A t \in DOMAIN idempotency_keys :
           /\ idempotency_keys'[t] = idempotency_keys[t] /\ t # s
           /\ Done[t] = [ask |-> AskOf(t, idempotency_keys[t].body,
                                       idempotency_keys[t].expected),
                         response |-> idempotency_keys[t].response]
    BY <1>1 DEF KeysGrow, Done
  <2>4. DOMAIN Done = DOMAIN idempotency_keys
    BY DEF Done
  <2> HIDE DEF response, ask, s, m
  <2> QED
    BY <1>2, <1>4, <2>1, <2>2, <2>3, <2>4 DEF K!With
<1>8. ASSUME NEW t \in DOMAIN Done, Done[t].ask.target = ask.target
      PROVE  Done[t].ask.version # ask.version
  <2>1. /\ t \in DOMAIN idempotency_keys /\ t \in DOMAIN idempotency_keys' /\ t # s
        /\ idempotency_keys'[t] = idempotency_keys[t]
        /\ Done[t].ask = AskOf(t, idempotency_keys[t].body, idempotency_keys[t].expected)
    BY <1>1, <1>8 DEF Done, KeysGrow
  <2>2. /\ Done[t].ask.target = Target(idempotency_keys[t].body)
        /\ Done[t].ask.version = idempotency_keys[t].expected
    BY <2>1 DEF AskOf
  <2>3. \A b : Target(b)' = Target(b)
    BY DEF Target, IsResponders
  <2>4. Target(idempotency_keys'[t].body) = Target(idempotency_keys'[s].body)
    BY <1>4, <1>5, <1>8, <2>1, <2>2
  <2>5. idempotency_keys'[t].expected # idempotency_keys'[s].expected
    BY <1>1, <2>1, <2>3, <2>4 DEF EffectsApart
  <2> QED
    BY <1>4, <1>5, <2>1, <2>2, <2>5
<1>9. tables' # tables
  <2> PICK n : n = request[q].body
    OBVIOUS
  <2>1. n \in Bodies /\ Command(n) /\ (IsResponders(n) => n.target \in R!Used)
    BY DEF Execute, HasAllLocks, Formed
  <2>2. Named(n)'.version = Named(n).version + 1 /\ Named(n).version \in Nat
    BY <2>1, CommandWritten, NamedVersions DEF CommandWrites
  <2>3. Named(n)' # Named(n)
    BY <2>2
  <2> QED
    BY <2>3 DEF Named, IsResponders, tables
<1>10. ask.slot \notin DOMAIN Done
  BY <1>1, <1>2 DEF Done
<1>11. K!Perform(q)
  <2> HIDE DEF ask
  <2> QED
    BY <1>2, <1>3, <1>5, <1>6, <1>7, <1>8, <1>9, <1>10 DEF K!Perform, ask
<1> QED
  BY <1>11 DEF KeyStep, K!Next

\* Every step is one that OncePerKey allows, or is not seen.
LEMMA EveryStepImplements ==
    ASSUME R!TypeOK, R!TypeOK', RequestsInv, RequestsInv', [Next]_vars
    PROVE  KeyStep
<1>1. Formed /\ Formed' /\ EffectsApart'
  BY DEF RequestsInv
<1>2. CASE UNCHANGED vars
  BY <1>2, UnansweredStep DEF vars, tables
<1>3. CASE History
  <2>1. DOMAIN AskedFor = {} /\ UNCHANGED <<idempotency_keys, phase, request, answer>>
    BY <1>3 DEF History, AskedFor
  <2>2. \A q \in Attempts : Slot(q)' = Slot(q)
    BY <2>1 DEF Slot
  <2>3. AskedFor' = AskedFor /\ ToldTo' = ToldTo /\ Done' = Done
    BY <2>1, <2>2 DEF AskedFor, ToldTo, Done, AskOf, Target, IsResponders
  <2> QED
    BY <2>1, <2>3 DEF KeyStep, K!Next, K!Before
<1>4. ASSUME NEW q \in Attempts, Opens(q)
      PROVE  KeyStep
  <2>1. /\ phase[q] \notin {"idle", "answered"} /\ phase'[q] \notin {"idle", "answered"}
        /\ \A p \in Attempts \ {q} : phase'[p] = phase[p]
    BY <1>1, <1>4 DEF Opens, Formed
  <2> QED
    BY <1>4, <2>1, UnansweredStep DEF Opens
<1>5. ASSUME NEW q \in Attempts, Lock(q)
      PROVE  KeyStep
  BY <1>5, UnansweredStep DEF Lock
<1> QED
  BY <1>1, <1>2, <1>3, <1>4, <1>5, StepKinds,
     ReceiveImplements, EndsImplements, ExecuteImplements

\* What clients are told and what becomes of the tables is a behaviour of
\* OncePerKey, which knows nothing of lookups, locks, snapshots, rollbacks
\* and deadlocks.
THEOREM RequestsImplementOncePerKey == Spec => ImplementsOncePerKey
<1>1. Init => K!Init
  BY DEF Init, K!Init, AskedFor, ToldTo, Done
<1>2. /\ R!TypeOK /\ RequestsInv /\ R!TypeOK' /\ RequestsInv' /\ [Next]_vars
         => [K!Next]_<<AskedFor, ToldTo, Done, tables>>
  BY EveryStepImplements DEF KeyStep
<1> QED
  BY <1>1, <1>2, RequestsInvariant, PTL DEF Spec, ImplementsOncePerKey, K!Spec

=============================================================================
