------------------------------ MODULE Timeline ------------------------------
(***************************************************************************)
(* The time stamps of the commands.  Every handler takes `now' on its      *)
(* first line, before it waits for the rows it locks, and writes that      *)
(* value into every column it stamps (changed_at, decided_at, claimed_at,  *)
(* requested_at, accepted_at, ..., closed_at).  Two requests may therefore *)
(* commit in the opposite order of their stamps.                           *)
(*                                                                         *)
(* The commands are those of Lifecycle; a request is split here into its   *)
(* arrival, which fixes `now' and the row version it expects, and its      *)
(* execution.  Which command it is stays open until it executes.           *)
(***************************************************************************)
EXTENDS Lifecycle

CONSTANTS
    Requests,   \* requests that can be under way at once
    Ahead,      \* how far past the version of the row a client may guess: {0}
                \* if clients only send versions the service has shown them
    MaxClock    \* bound on the clock of the service

ASSUME TimelineAssumption == 0 \in Ahead /\ Ahead \subseteq Nat /\ MaxClock \in Nat

\* A request names a row of one of the two tables.
ASSUME KeysAssumption == Incidents \cap Dispatches = {}

VARIABLES
    clock,      \* the clock of the service, which does not run backwards
    inbox,      \* [Requests -> the request under way, or Free]
    latest,     \* [Incidents -> the latest stamp in any row about it]
    action_started_at   \* [Dispatches -> the stamp of start-action, 0 if none]

stamps == <<latest, action_started_at>>

tvars == <<vars, clock, inbox, stamps>>

Free == [now |-> 0, on |-> "nothing", expected |-> 0, guessed |-> FALSE]

VersionOf(x) == IF x \in Incidents THEN incidents[x].version
                                   ELSE dispatch_requests[x].version

IncidentOf(x) == IF x \in Incidents THEN x ELSE dispatch_requests[x].incident

StatusOf(x) == IF x \in Incidents THEN incidents[x].status
                                  ELSE dispatch_requests[x].status

\* The handler is entered.  A client that expects an older version than the
\* row has now is refused whenever it executes, so it is left out.
Arrive(q, x) ==
    /\ inbox[q] = Free
    /\ \E later \in {0, 1}, ahead \in Ahead :
          /\ clock + later <= MaxClock
          /\ clock' = clock + later
          /\ inbox' = [inbox EXCEPT ![q] =
                [now |-> clock + later, on |-> x, expected |-> VersionOf(x) + ahead,
                 guessed |-> ahead > 0]]
    /\ UNCHANGED <<vars, stamps>>

\* Mutant: the row may also be newer than the body expects.
AnyVersion(q) == inbox[q].expected <= VersionOf(inbox[q].on)

\* if row.version_no != expected_version: 409
VersionMatches(q) == inbox[q].expected = VersionOf(inbox[q].on)

\* if now < dispatch.action_started_at: 409
NotTooEarly(d, now) == now >= action_started_at[d]

\* The handler has its locks, commits, and answers.
Execute(q, x) ==
    LET now == inbox[q].now
    IN  /\ inbox[q] # Free /\ inbox[q].on = x
        /\ VersionMatches(q)
        /\ \/ x \in Incidents /\ \E u \in Controllers : ControllerStep(u, x)
           \/ /\ x \in Dispatches
              /\ \E r \in Responders : ResponderStep(r, x)
              /\ dispatch_requests'[x].status = "ACTION_COMPLETED" => NotTooEarly(x, now)
        /\ latest' = [latest EXCEPT ![IncidentOf(x)] = IF now > @ THEN now ELSE @]
        /\ action_started_at' =
              IF x \in Dispatches /\ dispatch_requests'[x].status = "ACTION_IN_PROGRESS"
              THEN [action_started_at EXCEPT ![x] = now] ELSE action_started_at
        /\ inbox' = [inbox EXCEPT ![q] = Free]
        /\ UNCHANGED clock

\* Any refusal or error: nothing is written.
Refuse(q) ==
    /\ inbox[q] # Free
    /\ inbox' = [inbox EXCEPT ![q] = Free]
    /\ UNCHANGED <<vars, clock, stamps>>

TimelineInit ==
    /\ Init
    /\ clock = 0
    /\ inbox = [q \in Requests |-> Free]
    /\ latest = [i \in Incidents |-> 0]
    /\ action_started_at = [d \in Dispatches |-> 0]

TimelineNext ==
    \E q \in Requests :
        \/ \E x \in Incidents \cup Used : Arrive(q, x) \/ Execute(q, x)
        \/ Refuse(q)

TimelineSpec == TimelineInit /\ [][TimelineNext]_tvars

-----------------------------------------------------------------------------
(* Properties.                                                             *)

\* Nobody compares the stamps, and each was taken before its locks.  Even so a
\* command whose client sent the version it was shown is never stamped earlier
\* than any command before it, over all attempts of an incident; only a client
\* that guessed the version another command would leave can write a stamp that
\* goes back.
StampsOrdered ==
    [][\A q \in Requests :
          (vars' # vars /\ inbox'[q] # inbox[q] /\ ~ inbox[q].guessed)
             => latest[IncidentOf(inbox[q].on)] <= inbox[q].now]_tvars

\* The time check of complete-action refuses only such guesses: a completion
\* that names the version its client saw of a started request carries a later
\* stamp than the start, whoever guessed before it.
HonestNeverTooEarly ==
    \A q \in Requests :
        ( /\ inbox[q] # Free /\ ~ inbox[q].guessed /\ inbox[q].on \in Dispatches
          /\ VersionMatches(q) /\ StatusOf(inbox[q].on) = "ACTION_IN_PROGRESS" )
        => NotTooEarly(inbox[q].on, inbox[q].now)

=============================================================================
