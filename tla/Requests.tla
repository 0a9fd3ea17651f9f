------------------------------ MODULE Requests -------------------------------
(***************************************************************************)
(* What happens between the arrival of a command and its answer: the       *)
(* lookup and the insertion of its idempotency key, the row locks it takes *)
(* with SELECT ... FOR UPDATE in the order its handler takes them, and the *)
(* commit or the rollback that ends the transaction.  What a command       *)
(* writes is the step of module Lifecycle of the same name.                *)
(*                                                                         *)
(* The handlers run in worker threads, one session and one transaction     *)
(* each, so their statements interleave.  core/database.py sets no         *)
(* isolation level: it is a parameter here.  Waiting for locks, gap locks  *)
(* and the choice of a deadlock victim are InnoDB's and external to the    *)
(* code.                                                                   *)
(***************************************************************************)
EXTENDS Integers, Sequences, FiniteSets

CONSTANTS Incidents, Dispatches, Controllers, Managers, Responders,
          Dispatchable, NoUser, NoDispatch, MaxDecisions

VARIABLES incidents, incident_claims, incident_decisions, dispatch_requests,
          field_action_reports, duty_status, incident_histories,
          dispatch_histories, event_outbox

DB == INSTANCE Lifecycle

CONSTANTS
    Attempts,     \* HTTP requests that arrive, a retry being one of its own
    Keys,         \* values of the Idempotency-Key header
    CrowdedKeys,  \* keys that fall in one gap of the index on the keys
    Isolation,    \* isolation level the database server defaults to
    Commands,     \* bound: the commands that clients send
    Stages,       \* bound: statuses of incidents when the first request arrives
    Guesses       \* bound: how far clients add to the version they were shown

\* What Lifecycle assumes of the constants it shares with this module.
ASSUME UsersAssumption ==
    /\ Managers \subseteq Controllers
    /\ Dispatchable \subseteq Responders
    /\ NoUser \notin Controllers

ASSUME DispatchesAssumption == NoDispatch \notin Dispatches

ASSUME BoundAssumption == MaxDecisions \in Nat

RepeatableRead == Isolation = "REPEATABLE READ"

ASSUME IsolationAssumption == Isolation \in {"REPEATABLE READ", "READ COMMITTED"}

ASSUME KeysAssumption == CrowdedKeys \subseteq Keys

ASSUME GuessesAssumption == Guesses \subseteq Nat

VARIABLES
    idempotency_keys,  \* committed rows: <<scope, key>> -> KeyRow
    phase,             \* [Attempts -> Phases]
    request,           \* [Attempts -> what was asked, with which key]
    snapshot,          \* [Attempts -> what reads that lock nothing return]
    held,              \* [Attempts -> the locked rows as they were read]
    answer             \* [Attempts -> what the client is told]

tables == <<incidents, incident_claims, incident_decisions, dispatch_requests,
            field_action_reports, duty_status, incident_histories,
            dispatch_histories, event_outbox>>

vars == <<tables, idempotency_keys, phase, request, snapshot, held, answer>>

\* The function f with y at x.
With(f, x, y) == [z \in DOMAIN f \cup {x} |-> IF z = x THEN y ELSE f[z]]

-----------------------------------------------------------------------------
(* Requests.                                                               *)

ProgressCommands ==
    [depart |-> "DEPARTED", en_route |-> "EN_ROUTE", arrive |-> "ARRIVED",
     start_action |-> "ACTION_IN_PROGRESS"]

ResponderCommands ==
    {"accept", "reject", "complete_action"} \cup DOMAIN ProgressCommands

\* A request as its hash sees it.  arg is the type of a decision, or the
\* responder of an assignment.
Bodies ==
    [cmd : {"acknowledge", "claim", "review", "close"},
     actor : Controllers, target : Incidents, arg : {"none"}]
    \cup
    [cmd : {"decide"}, actor : Controllers, target : Incidents,
     arg : DB!DecisionTypes]
    \cup
    [cmd : {"assign"}, actor : Controllers, target : Incidents,
     arg : Responders]
    \cup
    [cmd : ResponderCommands, actor : Responders, target : Dispatches,
     arg : {"none"}]

IsResponders(m) == m.cmd \in ResponderCommands

IncidentOf(m) ==
    IF IsResponders(m) THEN dispatch_requests[m.target].incident ELSE m.target

\* The version a client can name: the one it was shown, or a guess.
Versions(m) ==
    LET v == IF IsResponders(m) THEN dispatch_requests[m.target].version
             ELSE incidents[m.target].version
    IN  {v + g : g \in Guesses}

\* (scope_code, idempotency_key): each command is a scope of its own.
Slot(q) == <<request[q].body.cmd, request[q].key>>

\* What the handler writes when every check has passed.
Command(m) ==
    \/ m.cmd = "acknowledge" /\ DB!Acknowledge(m.actor, m.target)
    \/ m.cmd = "claim" /\ DB!Claim(m.actor, m.target)
    \/ m.cmd = "review" /\ DB!Review(m.actor, m.target)
    \/ m.cmd = "decide" /\ DB!Decide(m.actor, m.target, m.arg)
    \/ m.cmd = "assign" /\ DB!Assign(m.actor, m.target, m.arg)
    \/ m.cmd = "close" /\ DB!Close(m.actor, m.target)
    \/ m.cmd = "accept" /\ DB!Accept(m.actor, m.target)
    \/ m.cmd = "reject" /\ DB!Reject(m.actor, m.target)
    \/ /\ m.cmd \in DOMAIN ProgressCommands
       /\ \E c \in DB!ProgressConfigs :
             /\ c.dispatch_to = ProgressCommands[m.cmd]
             /\ DB!Progress(m.actor, m.target, c)
    \/ m.cmd = "complete_action" /\ DB!Complete(m.actor, m.target)

-----------------------------------------------------------------------------
(* Locks.  A row is named by its table and its key.                        *)

Row(x) ==
    CASE x[1] = "incident" -> incidents[x[2]]
      [] x[1] = "profile"  -> duty_status[x[2]]
      [] x[1] = "dispatch" -> dispatch_requests[x[2]]
      [] x[1] = "user"     -> "unchanged"  \* no command writes a user

\* Mutant: reject, which leaves the status of the incident alone, does not lock
\* it.
RejectLocksNoIncident(m) ==
    LET incident == <<"incident", IncidentOf(m)>>
    IN  CASE m.cmd = "assign" ->
               <<incident, <<"user", m.arg>>, <<"profile", m.arg>>>>
          [] m.cmd = "complete_action" ->
               <<incident, <<"profile", m.actor>>, <<"dispatch", m.target>>>>
          [] m.cmd = "reject" ->
               <<<<"profile", m.actor>>, <<"dispatch", m.target>>>>
          [] m.cmd \in {"accept"} \cup DOMAIN ProgressCommands ->
               <<incident, <<"dispatch", m.target>>>>
          [] OTHER -> <<incident>>

\* Mutant: accept locks the request and then its incident.
AcceptLocksBackwards(m) ==
    LET incident == <<"incident", IncidentOf(m)>>
    IN  CASE m.cmd = "assign" ->
               <<incident, <<"user", m.arg>>, <<"profile", m.arg>>>>
          [] m.cmd \in {"reject", "complete_action"} ->
               <<incident, <<"profile", m.actor>>, <<"dispatch", m.target>>>>
          [] m.cmd \in {"accept"} \cup DOMAIN ProgressCommands ->
               <<<<"dispatch", m.target>>, incident>>
          [] OTHER -> <<incident>>

\* The rows a command locks, in order.  The requests of one incident that
\* close and assign lock change only under the lock on their incident, and
\* stand for themselves.
LockPlan(m) ==
    LET incident == <<"incident", IncidentOf(m)>>
    IN  CASE m.cmd = "assign" ->
               <<incident, <<"user", m.arg>>, <<"profile", m.arg>>>>
          [] m.cmd \in {"reject", "complete_action"} ->
               <<incident, <<"profile", m.actor>>, <<"dispatch", m.target>>>>
          [] m.cmd \in {"accept"} \cup DOMAIN ProgressCommands ->
               <<incident, <<"dispatch", m.target>>>>
          [] OTHER -> <<incident>>

Plan(q) == LockPlan(request[q].body)

Locked(q) == Cardinality(DOMAIN held[q])

HasAllLocks(q) == phase[q] = "locking" /\ Locked(q) = Len(Plan(q))

NextLock(q) == Plan(q)[Locked(q) + 1]

HasInserted(q) == phase[q] = "locking"

SharesGap(j, k) == j = k \/ {j, k} \subseteq CrowdedKeys

\* A locking read that finds no key leaves a gap lock, which lets other reads
\* pass but no insertion.
HoldsGap(q) == RepeatableRead /\ phase[q] \in {"insert", "locking"}

\* Why attempt q cannot take its next step before p is over.
WaitsFor(q, p) ==
    /\ p # q
    /\ \/ /\ phase[q] \in {"lookup", "insert"}
          /\ HasInserted(p) /\ Slot(p) = Slot(q)
       \/ /\ phase[q] = "insert"
          /\ HoldsGap(p) /\ SharesGap(request[p].key, request[q].key)
       \/ /\ phase[q] = "locking" /\ ~ HasAllLocks(q)
          /\ NextLock(q) \in DOMAIN held[p]
       \/ /\ HasAllLocks(q)
          \* The history row references users: a shared lock on the actor.
          /\ <<"user", request[q].body.actor>> \in DOMAIN held[p]

Free(q) == \A p \in Attempts : ~ WaitsFor(q, p)

\* A set of attempts each of which waits for one and is waited for by one.
Cycle(W) ==
    /\ W # {}
    /\ \A q \in W : /\ \E p \in W : WaitsFor(q, p)
                    /\ \E p \in W : WaitsFor(p, q)

-----------------------------------------------------------------------------
(* Checks.                                                                 *)

\* What a SELECT without FOR UPDATE returns: at REPEATABLE READ the state in
\* which get_current_user first read, in the same session, when the request
\* arrived.
Unlocked ==
    [claims |-> incident_claims, reports |-> field_action_reports,
     versions |-> [i \in Incidents |-> incidents[i].version]]

View(q) == IF RepeatableRead THEN snapshot[q] ELSE Unlocked

\* Mutant: the named version is not compared with that of the row.
VersionTrusted(q) == request[q].expected

\* The version of the row the command names, as it was read under its lock.
VersionRead(q) ==
    LET m == request[q].body
    IN  held[q][<<IF IsResponders(m) THEN "dispatch" ELSE "incident", m.target>>].version

\* The checks assign makes between locking the incident and the responder.
AdmitsAssignment(q) ==
    LET row == held[q][<<"incident", request[q].body.target>>]
    IN  /\ row.version = request[q].expected
        /\ row.status = "DISPATCH_REQUESTED"
        /\ row.controller = request[q].body.actor

\* All checks of a command that has taken its locks.
Valid(q) ==
    LET m == request[q].body
    IN  /\ VersionRead(q) = request[q].expected
        /\ m.cmd = "claim" => \A c \in View(q).claims : c.incident # m.target
        /\ m.cmd = "close" => \E d \in View(q).reports : DB!IsLatest(d, m.target)
        /\ ENABLED Command(m)

IsRefused(q) ==
    LET m == request[q].body
    IN  /\ phase[q] = "locking"
        /\ \/ Locked(q) = 0 /\ IsResponders(m) /\ ~ DB!IsOwn(m.actor, m.target)
           \/ Locked(q) = 1 /\ m.cmd = "assign" /\ ~ AdmitsAssignment(q)
           \/ HasAllLocks(q) /\ ~ Valid(q)

\* The history tables a command writes to; idempotency_key is unique in each,
\* whatever the scope.
Histories(m) ==
    (IF \/ m.cmd \in {"assign", "reject", "depart", "en_route"}
        \/ m.arg = "NEEDS_REVIEW"
     THEN {} ELSE {"incident"})
    \cup
    (IF IsResponders(m) \/ m.cmd = "assign" THEN {"dispatch"} ELSE {})

IsKeyReused(q) ==
    \E s \in DOMAIN idempotency_keys :
      /\ s[2] = request[q].key
      /\ Histories(idempotency_keys[s].body) \cap Histories(request[q].body) # {}

-----------------------------------------------------------------------------
(* Steps of one attempt.                                                   *)

NoAnswer == [kind |-> "none"]

\* The transaction is over: its locks are released.
Finish(q, a) ==
    /\ phase' = [phase EXCEPT ![q] = "answered"]
    /\ answer' = [answer EXCEPT ![q] = a]
    /\ held' = [held EXCEPT ![q] = <<>>]
    /\ snapshot' = [snapshot EXCEPT ![q] = <<>>]
    /\ UNCHANGED request

\* Mutant: statements commit one by one, and assign fails after it took the
\* responder.
RollBackPartly(q, kind) ==
    /\ Finish(q, [kind |-> kind])
    /\ IF HasAllLocks(q) /\ request[q].body.cmd = "assign"
       THEN duty_status' = [duty_status EXCEPT ![request[q].body.arg] = "BUSY"]
       ELSE UNCHANGED duty_status
    /\ UNCHANGED <<incidents, incident_claims, incident_decisions,
                   dispatch_requests, field_action_reports, incident_histories,
                   dispatch_histories, event_outbox, idempotency_keys>>

\* A rollback leaves no trace in the database.
RollBack(q, kind) ==
    /\ Finish(q, [kind |-> kind])
    /\ UNCHANGED <<tables, idempotency_keys>>

\* The endpoint with its get_db session and get_current_user: the actor has
\* the permission, and knows the row from an earlier answer.
Receive(q) ==
    /\ phase[q] = "idle"
    /\ (\A p \in Attempts : phase[p] = "idle") =>
          \A i \in Incidents : incidents[i].status \in Stages
    /\ \E m \in Bodies, k \in Keys :
          /\ m.cmd \in Commands
          /\ IsResponders(m) => m.target \in DB!Used
          /\ \E v \in Versions(m) :
                request' = [request EXCEPT ![q] =
                               [body |-> m, expected |-> v, key |-> k]]
    /\ phase' = [phase EXCEPT ![q] = "lookup"]
    /\ snapshot' = [snapshot EXCEPT ![q] = IF RepeatableRead THEN Unlocked ELSE <<>>]
    /\ UNCHANGED <<tables, idempotency_keys, held, answer>>

\* Mutant: the hash is not compared.
ReplayAny(q) ==
    /\ Finish(q, [kind |-> "ok", response |-> idempotency_keys[Slot(q)].response])
    /\ UNCHANGED <<tables, idempotency_keys>>

\* _replay_or_reject: the stored answer if the request is the same.
Replay(q) ==
    LET row == idempotency_keys[Slot(q)]
    IN  /\ Finish(q, IF row.body = request[q].body /\ row.expected = request[q].expected
                     THEN [kind |-> "ok", response |-> row.response]
                     ELSE [kind |-> "conflict"])
        /\ UNCHANGED <<tables, idempotency_keys>>

\* _existing_idempotency.
Lookup(q) ==
    /\ phase[q] = "lookup"
    /\ Free(q)
    /\ IF Slot(q) \in DOMAIN idempotency_keys
       THEN Replay(q)
       ELSE /\ phase' = [phase EXCEPT ![q] = "insert"]
            /\ UNCHANGED <<tables, idempotency_keys, request, snapshot, held, answer>>

\* The INSERT of the key, and, if it meets a committed one, the rollback and
\* the second lookup.
Insert(q) ==
    /\ phase[q] = "insert"
    /\ Free(q)
    /\ IF Slot(q) \in DOMAIN idempotency_keys
       THEN Replay(q)
       ELSE /\ phase' = [phase EXCEPT ![q] = "locking"]
            /\ UNCHANGED <<tables, idempotency_keys, request, snapshot, held, answer>>

\* The next SELECT ... FOR UPDATE.
Lock(q) ==
    /\ phase[q] = "locking"
    /\ ~ HasAllLocks(q)
    /\ ~ IsRefused(q)
    /\ Free(q)
    /\ held' = [held EXCEPT ![q] = With(@, NextLock(q), Row(NextLock(q)))]
    /\ UNCHANGED <<tables, idempotency_keys, phase, request, snapshot, answer>>

\* Mutant: the key is committed after the rest, and the process dies between.
ExecuteThenDie(q) ==
    /\ HasAllLocks(q)
    /\ Valid(q)
    /\ Free(q)
    /\ Command(request[q].body)
    /\ Finish(q, [kind |-> "error"])
    /\ UNCHANGED idempotency_keys

\* The writes and the commit.
Execute(q) ==
    LET m == request[q].body
    IN  /\ HasAllLocks(q)
        /\ Valid(q)
        /\ ~ IsKeyReused(q)
        /\ Free(q)
        /\ Command(m)
        /\ LET row == IF IsResponders(m) THEN dispatch_requests'[m.target]
                      ELSE incidents'[m.target]
               response == [status |-> row.status, version |-> row.version]
           IN  /\ idempotency_keys' =
                     With(idempotency_keys, Slot(q),
                          [body |-> m, expected |-> request[q].expected,
                           response |-> response, by |-> q])
               /\ Finish(q, [kind |-> "ok", response |-> response])

\* Mutant: an AppException leaves the transaction open, and its locks with it.
RefuseHolding(q) ==
    /\ IsRefused(q)
    /\ phase' = [phase EXCEPT ![q] = "answered"]
    /\ answer' = [answer EXCEPT ![q] = [kind |-> "refused"]]
    /\ snapshot' = [snapshot EXCEPT ![q] = <<>>]
    /\ UNCHANGED <<tables, idempotency_keys, request, held>>

\* An AppException: 403, 404 or 409.
Refuse(q) == IsRefused(q) /\ RollBack(q, "refused")

\* The unique index of a history table refuses the key: an IntegrityError
\* that nothing translates.
FailReusedKey(q) ==
    /\ HasAllLocks(q)
    /\ Valid(q)
    /\ IsKeyReused(q)
    /\ Free(q)
    /\ RollBack(q, "error")

\* Any statement may fail and the process may die: a lost connection, a lock
\* wait timeout, a restart.  An answer that is lost after the commit leaves
\* the client as ignorant, and the tables as if it had been received.
Abort(q) ==
    /\ phase[q] \in {"lookup", "insert", "locking"}
    /\ RollBack(q, "error")

\* InnoDB rolls one attempt of a cycle back.
BreakDeadlock ==
    \E W \in SUBSET Attempts : Cycle(W) /\ \E q \in W : RollBack(q, "error")

-----------------------------------------------------------------------------

Init ==
    /\ DB!Init
    /\ idempotency_keys = <<>>
    /\ phase = [q \in Attempts |-> "idle"]
    /\ request = [q \in Attempts |-> <<>>]
    /\ snapshot = [q \in Attempts |-> <<>>]
    /\ held = [q \in Attempts |-> <<>>]
    /\ answer = [q \in Attempts |-> NoAnswer]

\* Commands that were over before the first of the attempts arrived.
History ==
    /\ \A q \in Attempts : phase[q] = "idle"
    /\ DB!Next
    /\ UNCHANGED <<idempotency_keys, phase, request, snapshot, held, answer>>

Proceed(q) ==
    Lookup(q) \/ Insert(q) \/ Lock(q) \/ Execute(q) \/ Refuse(q) \/ FailReusedKey(q)

Next ==
    \/ History
    \/ \E q \in Attempts : Receive(q) \/ Proceed(q) \/ Abort(q)
    \/ BreakDeadlock

\* A thread that can proceed does, and InnoDB looks for deadlocks.
Fairness == (\A q \in Attempts : WF_vars(Proceed(q))) /\ WF_vars(BreakDeadlock)

Spec == Init /\ [][Next]_vars /\ Fairness

-----------------------------------------------------------------------------
(* Properties.                                                             *)

TypeOK ==
    /\ DOMAIN idempotency_keys \subseteq Commands \X Keys
    /\ phase \in [Attempts -> {"idle", "lookup", "insert", "locking", "answered"}]
    /\ \A q \in Attempts :
          /\ phase[q] # "idle" =>
                request[q].body \in Bodies /\ request[q].expected \in Nat
          /\ phase[q] # "locking" => held[q] = <<>>
          /\ answer[q].kind \in {"none", "ok", "conflict", "refused", "error"}
          /\ answer[q].kind # "none" <=> phase[q] = "answered"

\* No lost update: what a transaction will write is computed from the rows it
\* read under its locks; they are still the rows of the database, and no
\* other transaction has locked them.
CopiesFresh ==
    \A q \in Attempts : \A x \in DOMAIN held[q] :
      /\ held[q][x] = Row(x)
      /\ \A p \in Attempts \ {q} : x \notin DOMAIN held[p]

Target(body) == <<IsResponders(body), body.target>>

\* Exactly once: no two keys stand for one effect.  Of all the requests that
\* named the same version of a row at most one was carried out, whatever
\* their keys, and what it answered is what the outbox tells everyone else.
OneEffectPerKey ==
    /\ \A s, t \in DOMAIN idempotency_keys :
          LET k == idempotency_keys[s]
              l == idempotency_keys[t]
          IN  s # t /\ Target(k.body) = Target(l.body) =>
                 k.expected # l.expected /\ k.response.version # l.response.version
    /\ \A s \in DOMAIN idempotency_keys :
          LET k == idempotency_keys[s]
          IN  /\ k.response.version = k.expected + 1
              /\ k.body.cmd # "assign" =>
                    [aggregate |-> IF IsResponders(k.body) THEN "DISPATCH" ELSE "INCIDENT",
                     id |-> k.body.target, version |-> k.response.version,
                     status |-> k.response.status] \in event_outbox

\* An answer can be trusted: success means that this very request was carried
\* out, by this attempt or one before it with the same key, and every
\* attempt with this key is told the same; a conflict means that the key
\* belongs to another request; any other answer, that this attempt changed
\* nothing.
AnswersTrue ==
    \A q \in Attempts :
      LET row == idempotency_keys[Slot(q)]
          same == row.body = request[q].body /\ row.expected = request[q].expected
      IN  /\ answer[q].kind = "ok" =>
                /\ Slot(q) \in DOMAIN idempotency_keys
                /\ same /\ row.response = answer[q].response
          /\ answer[q].kind = "conflict" =>
                Slot(q) \in DOMAIN idempotency_keys /\ ~ same
          /\ answer[q].kind # "ok" =>
                \A s \in DOMAIN idempotency_keys : idempotency_keys[s].by # q

\* The reads that take no lock miss nothing that matters: if the version that
\* a request names was already there when its snapshot was taken and is
\* there when it holds the lock, then the claims and the reports of the
\* incident are those of the snapshot.
UnlockedReadsCurrent ==
    \A q \in Attempts :
      LET i == IncidentOf(request[q].body)
      IN  HasAllLocks(q) /\ View(q).versions[i] = incidents[i].version =>
            /\ \A c \in incident_claims \ View(q).claims : c.incident # i
            /\ field_action_reports \cap DB!RequestsOf(i) \subseteq View(q).reports

\* Commands agree on the order of their row locks, except assign, which locks
\* the responder while the responder's own commands hold the profile and are
\* about to reference the user: a deadlock either involves an assign or is
\* about the insertion of keys.
OnlyAssignDeadlocks ==
    \A W \in SUBSET Attempts :
      Cycle(W) /\ (\A q \in W : phase[q] = "locking") =>
         \E q \in W : request[q].body.cmd = "assign"

\* Once attempts have begun, nothing changes in the tables unless a key that
\* was not there is committed with it, and no key row is ever rewritten: a
\* retry, early or late, is never a second effect.
EffectNeedsFreshKey ==
    [][/\ \A s \in DOMAIN idempotency_keys :
             s \in DOMAIN idempotency_keys' /\ idempotency_keys'[s] = idempotency_keys[s]
       /\ (\E q \in Attempts : phase[q] # "idle") =>
             \/ UNCHANGED tables
             \/ \E q \in Attempts :
                   /\ phase[q] # "idle"
                   /\ Slot(q) \notin DOMAIN idempotency_keys
                   /\ DOMAIN idempotency_keys' = DOMAIN idempotency_keys \cup {Slot(q)}]_vars

\* Requests that interleave, are retried, refused or rolled back, or whose
\* answer is lost, do to the tables what some sequence of whole commands does.
TablesMoveByCommands == DB!Spec

\* Whatever waits for whatever, every request is answered in the end.
EveryRequestAnswered ==
    \A q \in Attempts : phase[q] = "lookup" ~> phase[q] = "answered"

=============================================================================
