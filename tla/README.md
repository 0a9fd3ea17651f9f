# Verification of roadbogo-api

roadbogo-api is a FastAPI service over MariaDB 10.11 (InnoDB) in which controllers
handle road incidents that an AI pipeline reports and responders drive out to
them. Paths below are relative to the repository; `services/` stands for
`app/services/`.

## The system

| Part | State | Operations |
| --- | --- | --- |
| Incident commands, `services/incident_command.py` | `incidents`, `incident_claims`, `incident_status_histories` | acknowledge, claim, review |
| Incident decisions, `services/incident_decision.py` | the same and `incident_decisions` | REAL_RISK, FALSE_POSITIVE, NEEDS_REVIEW, NO_DISPATCH |
| Dispatch assignment, `services/dispatch_assignment.py` | `dispatch_requests`, `responder_profiles.duty_status` | assign |
| Dispatch answers, `services/dispatch_command.py` | both tables and the duty status | accept, reject |
| Dispatch progress, `services/dispatch_progress.py` | both tables | depart, en-route, arrive, start-action |
| Dispatch completion, `services/dispatch_completion.py` | both tables, `field_action_reports`, duty status | complete-action |
| Incident close, `services/incident_close.py` | `incidents` | close |
| Idempotency keys, `app/models/notification.py` | `idempotency_keys` | lookup, insert, replay, in every command |
| Event outbox, `app/models/notification.py` | `event_outbox` | written by every command; no reader in the repository |
| Accounts, `services/auth.py` | `users`, `user_sessions`, `audit_logs` | register, login, refresh, logout, profile, withdraw, request and confirm a reset |
| Queries, `services/*_query.py`, `migrations/sql/application_views.sql` | none | lists, details, summaries, views |
| Sessions and pool, `app/core/database.py`, `app/dependencies/` | connections of the pool | one session per request |
| Migrations, `migrations/versions/`, `scripts/bootstrap_dev_controller.py` | the schema, `alembic_version`, the reference rows | upgrade, downgrade, bootstrap of the first account |
| Permissions, configuration, mail, storage | constants | per request |

The parts share nothing in memory. An endpoint takes a session, reads the
caller in `get_current_user`, and calls one service; the service writes the
tables in one transaction with one commit, and rolls back on every exception.
All coordination is in the database: row locks taken by `SELECT ... FOR
UPDATE`, a `version_no` on incidents and requests that the client must name,
unique indexes, and idempotency keys.

What is hard about it:

* **Three columns, twelve commands.** The status of an incident, the status of
  its request and the duty status of the responder advance in different
  services that each look at some of them.
* **Concurrency.** Handlers run in worker threads; transactions lock rows in
  handler order, but some reads take no lock and see the snapshot taken when
  the caller was authenticated.
* **Retries.** A client repeats a request when it got no answer, maybe while
  the first copy is still running or after it was rolled back.
* **Failure.** Any statement can fail (lost connection, lock wait timeout,
  deadlock victim) and the process can die between the first write and the
  commit.
* **Reads in several statements.** A detail or a page is put together while
  commands commit between its statements and between two pages.
* **Time.** Every handler takes `now` before it waits for its locks.
* **Two pools.** A request needs a worker thread for each of its parts and keeps
  its connection between them.
* **DDL.** MariaDB commits every DDL statement, so a revision that stops half-way
  is not undone.

What makes each part correct, in brief: for the commands, that the tables agree
with each other after any sequence of them (`IncidentMatchesDispatch`,
`NoDoubleBooking`, `BusyWhileActive`, `OwnershipAgrees`), that their records
tell the whole story (`AttemptChain`, `DecisionChain`, `HistoryIsPath`,
`OutboxAccountsForVersions`, `ClosureJustified`), that nothing gets stuck
(`NeverStranded`) and that versions and final states can be relied on
(`VersionGuardsRow`, `FinalIsFinal`). For the transactions, that no update is
lost (`CopiesFresh`), unlocked reads are harmless (`UnlockedReadsCurrent`), an
effect happens once per key and as answered (`OneEffectPerKey`, `AnswersTrue`,
`EffectNeedsFreshKey`, and as a whole `ImplementsOncePerKey`), deadlocks stay
where they are known (`OnlyAssignDeadlocks`) and everybody is answered
(`EveryRequestAnswered`). For the accounts, that a withdrawal happens once and
is final (`AuditMatches`, `WithdrawalIsFinal`), tokens are used once
(`TokenOnce`), sessions that ended stay ended (`LogoutSticks`,
`RotationIsCurrent`), an address has one account (`OneAccountPerAddress`), a
session opened after a withdrawal is never prolonged (`LateSessionBuysNothing`),
nobody waits in a circle (`SomebodyGoesOn`), and what happens is what a
membership may do (`ImplementsMembership`). For the queries, that everything
shown of one state is one picture (`BoardsAgree`), that who is offered can be
sent (`AvailableMeansAssignable`), that the version shown vouches for what is
shown beside it (`ShownStateStillCurrent`, `DetailTellsOneStory`), that a page
fits its total (`PageFitsCount`), and that turning pages repeats no row of a
list that only loses rows and leaves none out of a list that keeps its rows or
only grows at its end (`WalkComplete`). For time, that stamps follow commits
(`StampsOrdered`, `HonestNeverTooEarly`). For sessions and pool, that only as
many requests as threads and connections together can stall (`NoEarlyStall`) and
that all are answered. For migrations, that head means the whole schema
(`HeadIsComplete`), that rows that belong together are committed together
(`RowsBelongTogether`) and that a run let alone works (`LoneRunWorks`).
PROJECT.json lists the hazards with their lines and the properties that cover
them.

## Modules

### Lifecycle

The commands as atomic steps over the tables, one action for each:
`Acknowledge`, `Claim`, `Review`, `Decide`, `Assign`, `Close` of a controller,
`Accept`, `Reject`, `Progress`, `Complete` of a responder. A variable is a table
(or, for `duty_status`, a column). A guard of an action is a check of the
handler that ends in an `AppException`; a refused command rolls back and so is
no step at all. The writes are all those of the handler: rows, history rows,
claims, decisions, reports, duty status and outbox events. Audit rows are left
out: they repeat the history rows and nothing reads them.

* The transition tables are the rows seeded in
  `migrations/sql/reference_seed.sql`. CANCELLED is seeded as a target but no
  service performs it, so there is no action for it.
* `Progress` takes its configuration from `ProgressConfigs`, the `CONFIGS` of
  `dispatch_progress.py`. As there, the first two configurations leave the
  incident alone.
* `expected_version_no` does not appear: a command commits only if the client
  named the version that the locked row has. Module Requests has it.
* `stamped` keeps which time stamp columns of a request are set, because
  complete-action and close look at them; the values are abstracted.
* `duty_status` starts with any value but BUSY: the code changes it in assign,
  reject and complete-action only, and nothing else in the repository writes
  BUSY.
* `Dispatchable` fixes which responders have an active account, the role and
  `is_dispatch_enabled`. No endpoint changes any of these for a responder
  (withdrawal is refused to everyone but GENERAL_USER accounts).

### Requests

What lies between the arrival of a command and its answer. `Attempts` are HTTP
requests; a retry is an attempt of its own. An attempt goes through the phases
`idle`, `lookup`, `insert`, `locking`, `answered`:

* `Receive`: the endpoint has its session and `get_current_user` has read. At
  REPEATABLE READ that fixes the snapshot of the transaction.
* `Lookup`, `Insert`: the key is searched with FOR UPDATE and inserted. A
  committed key is answered with `Replay`: the stored answer if the hash is the
  same, a conflict otherwise. `Insert` includes the path that catches the
  IntegrityError, rolls back and looks again.
* `Lock`: the next row of `LockPlan`, the order in which the handler issues its
  SELECT ... FOR UPDATE. `held` keeps each row as it was read then.
* `Execute`: the checks pass and the handler writes and commits. The effect on
  the tables is the action of Lifecycle, through `DB == INSTANCE Lifecycle`.
  That the handler computes it from the rows it read is sound as long as these
  rows are still current: this is the invariant `CopiesFresh`.
* `Refuse`: an AppException. assign checks the incident before it locks the
  responder, so it can be refused between two locks (`AdmitsAssignment`).
* `FailReusedKey`: the key is new in its scope but was used in another one that
  wrote the same history table, where it must be unique over all scopes.
* `Abort`: any failure before the commit. An answer lost after the commit needs
  no action, because nothing in the service depends on it and the client may
  send any further attempt anyway.
* `BreakDeadlock`: InnoDB rolls back one attempt of a cycle.
* `History`: before the first attempt arrives, commands happen atomically.
  It takes the tables to the stage a run is about.

Waiting is one relation, `WaitsFor`: for the uncommitted row of the same key,
for a gap lock (only at REPEATABLE READ), for a row another attempt holds, and
for the shared lock on the actor's row in `users` that the foreign keys of the
history tables take. These rules are those of InnoDB and not of the code, which
sets no isolation level (`app/core/database.py`); runs use both REPEATABLE READ,
the default of the server, and READ COMMITTED.

### Accounts

The requests of `services/auth.py`. They carry no version and no key, and they
do not all lock the row they decide on, so the module has one action for each
step of a handler that others can tell apart: a read, the taking of a row lock,
the writes with the commit. An attempt is a request; its phases are `idle`,
`received`, `read`, `locked`, `stored` (a reset token is committed and the mail
is not sent yet) and `answered`.

| Handler | Actions | What is locked before the write |
| --- | --- | --- |
| `register_user` | `Register`, `InsertUser` | nothing; the unique index on the address |
| `login_user` | `Login`, `OpenSession` | nothing |
| `refresh_access_token` | `Refresh`, `Rotate` | the session, not its user |
| `logout_user` | `Logout`, `RevokeSession` | nothing |
| `update_current_user_profile` | `Authenticate`, `UpdateProfile` | nothing |
| `withdraw_current_user` | `Authenticate`, `LockAccount`, `Withdraw` | the user, read again after |
| `request_password_reset` | `RequestReset`, `StoreResetToken`, `SendMail` | nothing |
| `confirm_password_reset` | `ConfirmReset`, `ResetPassword` | the user |

* `seen` is what the handler found and works on later. `UpdateProfile` writes
  only the columns that differ from it, as SQLAlchemy does: that a concurrent
  withdrawal is not overwritten altogether depends on that.
* A write waits for the lock on its row (`Free`); those of a withdrawal or a
  reset to the sessions wait for all of them (`SessionsFree`). These rules, like
  the waiting in Requests, belong to InnoDB.
* `LockAccount` checks the current row because of `populate_existing`.
* `Refresh` reads the user of the locked session as it is then: its transaction
  has no snapshot before that read.
* A refresh token is the session and the number of its rotation, a reset token
  a number: only equality of hashes matters. Clients present only tokens that
  an answer or a mail gave to somebody, old ones included (`IsKnown`).
* Argon2, JWT, the password policy, the phone cipher and the text of the mail are
  left out. `LOCKED` is a status no code sets.
* Time is `ExpireSession` and `ExpireResetToken`.

### Booking and LifecycleBooking

`Booking` is what the commands promise to the people: a risk is confirmed or
dismissed once; an incident asks one responder at a time and a responder is
asked about one incident; it may refuse until it has agreed; a confirmed risk is
over only when the responder that agreed has finished. It has no tables,
versions or controllers. `LifecycleBooking` reads the tables as its variables:
`need` groups the statuses of an incident, `asked` and `bound` join the active
requests that are, or are no longer, REQUESTED. `ImplementsBooking` is
`B!Spec` under this mapping. Acknowledge, claim, review, NEEDS_REVIEW, depart,
en-route, arrive, start-action and close are stutters there.

### Membership and AccountsMembership

`Membership` is what the account service promises to the people: they join once
and leave once; an address is one member's at a time; only the last link issued
to a member recovers the account, and once; who leaves or recovers ends every
session there is; a session that is over is not prolonged. It has no requests,
rows, locks or clock. It says openly what the code leaves open: a login checks
who somebody is and opens the session later (`Enter`), a link may be issued too
late for somebody who has left and is then none (`Issue`). `AccountsMembership`
reads the tables as its variables: `Standing` is the status of an account,
`Address` and `Link` count for active accounts only (the findings below are about
what stays in the row of one who left), `Worth` is the number of a session's
refresh token, `Ended` the sessions that have a reason of revocation.
`ImplementsMembership` is `M!Spec` under this mapping. Logins that fail, profile
updates, refused requests and the passing of time are stutters there.

### OncePerKey and RequestsOncePerKey

`OncePerKey` is what a client that repeats its commands can rely on: under a key
one command is carried out (`Perform`), and of all commands that name one version
of a row, under whatever keys, one; the same command under the same key is told
the same (`Repeat`), another one a conflict; who is told anything else (`Decline`)
knows that this request did nothing. `RequestsOncePerKey` reads the state of
Requests as the client sees it: the attempts that arrived with what they ask,
those that were answered, the committed keys, and the tables as one value.
Lookups, inserted keys, locks, snapshots, rollbacks and deadlocks are stutters.

### Boards

What one statement shows of one committed state: `Summary`
(`incident_query.summary`), `AvailableResponders` (`list_responders`),
`MineActive` (`list_mine`), `DashboardRows` and `ActiveRows` (the two views of
`application_views.sql`). Each writes down anew which requests are active, as the
code does, and `BoardsAgree` relates them.

### IncidentReads and ListReads

Reads that take more than one statement, beside the commands of Lifecycle.
`IncidentReads` is the detail of an incident: one statement for the row and one
for each collection, in any order after the row. `ListReads` is a client that
turns the pages of a list: for each page one statement that counts and one that
fetches. A statement sees the state of the first statement of its request at
REPEATABLE READ and the latest commit at READ COMMITTED; both are run.
In `ListReads` incidents are numbers, because ids break ties
(`IncidentIdsAssumption`), and `rank` stands for the columns the list is sorted
by in every order but `status,asc`, whose column commands write and which is not
modelled. `WalkComplete` promises less for the list of unclaimed incidents than for
the list of all: rows that leave it move later ones to pages the client has
turned, so that it may miss some; it sees none twice.

### Timeline

The commands of Lifecycle with their time: `Arrive` is the first line of the
handler, which takes `now`; `Execute` is the rest of it under its locks.
`latest` is the latest stamp in any row about an incident, `action_started_at`
the column of that name. A client may send the version it was shown or guess the
version that a command under way will leave (`guessed`).

### Connections

The resources of a request. Endpoint and dependencies are plain functions, each
of which the framework runs on a worker thread (`TakeThread`, `Return`); the
session takes a connection at its first statement (`Query`, `Connect`), gives it
back at a commit or rollback (`EndTransaction`) and at the end of `get_db`
(`Close`). A wait for a connection may end in the pool's timeout (`PoolTimeout`).

### Migrations

Each revision is a sequence of statements (`ModelsUp`, `SeedUp`, `AccountUp` and
their way back), in the order of the scripts; a statement says what must exist
for it to succeed. The 44 tables are listed with the tables their foreign keys
name; the indexes that a table gets after it is created count as one object.
`CreateTables` and `DropTables` are the scripts of 0001 made from this list.
`FlattenedAssumption` states what they turn out to be, and TLC evaluates it at the
start of both runs.
`Define` is a DDL statement, which commits the rows before it; `Write` a
statement on rows; `EndRevision` the stamp of Alembic. Runners overlap, wait for
each other's rows, fail and are killed between any two statements. The commit
rules are those of MariaDB and not of the code, and so marked in the map.

### Proof modules

`LifecycleProofs` (with the refinement of Booking), `RecordsProofs`,
`RequestsProofs`, `AccountsProofs`, `ReadsProofs` (Boards, IncidentReads and
Timeline), `ListReadsProofs`, `ConnectionsProofs` and `MigrationsProofs` hold
the theorems. The `MC` modules add the symmetry sets of the runs; `MCMigrations`
also holds the count of the tables that the repository's README gives.

Operators whose comment begins with "Mutant" are not part of the
specifications. Each is a plausible mistake in the definition that follows it;
put in the place of that definition it must make TLC find a violation, which
shows that a property can fail.

## Runs

| Run | Bounds | Question |
| --- | --- | --- |
| `lifecycle` | 2 incidents, 3 requests, 2 controllers (1 manager), 3 responders (2 dispatchable), 2 decisions each | Are the records complete on every path, do tables and boards agree, can every incident go on, is Booking implemented? |
| `requests_claim` | 3 attempts, 2 keys, claim and review by 2 controllers, versions right or one too high, READ COMMITTED | Is an effect had once, is what was answered true, is OncePerKey implemented? |
| `requests_all` | 2 attempts, 2 keys, all 13 commands at all stages of 1 incident, versions right or one too high, REPEATABLE READ | Is an update lost, are unlocked reads harmless, which commands deadlock, do transactions implement the commands? |
| `requests_answered` | 2 attempts, 3 keys of which 2 share a gap, assign and reject over 2 incidents and 1 responder, REPEATABLE READ | Is every request answered, also out of a deadlock? |
| `accounts_all` | 3 attempts, 2 accounts (1 operator), 1 open session, 2 addresses, all 8 kinds of request | Do accounts, tokens and withdrawals survive any interleaving, is Membership implemented? |
| `accounts_erased` | 2 attempts, 1 account, profile, withdrawal, reset request | Does a withdrawal erase a person for good? Violated, see below |
| `incident_reads` | 1 incident, 2 requests, 2 responders, 2 decisions, both isolation levels | Can a client trust the version beside what it is shown? |
| `list_reads` | 3 incidents up to their review, 2 ranks, pages of 1 and 2 rows, both isolation levels | Does turning pages show every row once? |
| `migrations` | 2 runners, all commands, killed anywhere, the whole 44 tables | Does the version table tell the truth? |
| `migrations_back` | 1 runner, never killed | Does upgrade head apply everything? Violated, see below |
| `timeline` | 1 incident, 2 dispatch requests, 3 HTTP requests under way, clock up to 2, versions shown or guessed | Do stamps follow commits? |
| `connections` | 3 requests, 2 threads, 1 connection, 2 transactions each | When do threads and pool stall, is every request answered? |

Why the bounds suffice. Three requests give two rejections before an acceptance,
so the chain of attempts has a first, a middle and a last one; two decisions let
one supersede the other. Two incidents compete for two responders, with a third
that can never be assigned. A lost update, a duplicate or a two-party deadlock
needs two attempts; the third in `requests_claim` is a retry that arrives during
or after the race. Two keys are enough for same and different. Commands meet in
the tables only through one incident or one responder, hence no more than two
incidents and one responder in the runs of Requests. `OnlyAssignDeadlocks` is
checked on one incident: commands on two of them meet only in a responder, which
has one active request, so a cycle across incidents needs an assign; such cycles
occur, and are broken, in `requests_answered`. Of the requests about accounts, a
reset needs two (the mail, the confirmation) and its second use a third. An
attempt is also the name of the row it inserts, so new accounts and sessions are
bounded by the attempts; both addresses are taken at first, so that one must be
set free by a withdrawal before it is registered again. Three rows and pages of
one and two give full, partly filled and missing last pages. Two runners are
enough for any race of migrations, as each waits for and sees one other; the
scripts are there in full. Stamps are only compared, and two values can be in
the wrong order: a clock up to 2 has one more. Three requests over two threads
and one connection are the smallest number that stalls.

Deadlock checking is off where the models may stop: when every incident is
final, the keys for requests are used up, or every attempt is answered. What
must not stop is stated by `NeverStranded`, `SomebodyGoesOn` and
`EveryRequestAnswered` instead. It is on in the runs of Migrations, where a
command can always be run again.

Fairness is assumed for the two liveness runs only. In `requests_answered`: weak
fairness of the steps of each attempt that has arrived (a worker thread whose
statement is not blocked goes on) and of `BreakDeadlock` (InnoDB's detector, on
by default). In `connections`: strong fairness of `TakeThread`, because waiting
requests get threads in the order they came, and weak fairness of the end of each
part, of `Close`, and of `Connect` or `PoolTimeout`, because the pool waits 30 s
and then raises. Nothing assumes that clients send requests, that people answer
them or that failures occur. For accounts the same is a safety property,
`SomebodyGoesOn`: while a request is under way, one of them can go on, and each
has a few steps only.

## Findings

`WithdrawnIsErased` says what `withdraw_current_user` (lines 357 to 362) and its
unit test (`tests/test_auth_service.py:166`) say of a withdrawn account: its name
is the placeholder, phone number and reset token are null. TLC finds the
interleaving in which it does not last: a profile update and a withdrawal of one
person are both authenticated, the withdrawal commits, and then the profile
update, which locks nothing and does not look at the status again, writes the
name or the phone number into the withdrawn row (`services/auth.py:269`). A
request for a reset leaves its token there in the same way (line 536). That the
account does not open again, and that address and password stay erased, holds
and is proved (`WithdrawalIsFinal`).

`UpgradeAppliesAll` says what the repository's `README.md:65` says of `alembic
upgrade head`: it applies the schema, the reference rows and the views. In the
run of `migrations_back` a database at head has an account from the bootstrap and
is downgraded below 0002. The downgrade of 0002 drops the three views, which is
committed at once (`0002_seed_reference_data_and_views.py:45`), and then fails at
`DELETE FROM roles`, because the account's role refers to them. Its deletions are
rolled back and the version stays 0002, so the next upgrade to head succeeds
without creating the views. The rows survive (`RowsBelongTogether`). Besides, the
downgrade of 0001 cannot run at all: its first statement drops an index that a
foreign key of `field_action_files` needs, which MariaDB refuses
(`0001_models_create_schema_from_models.py:2705`); it fails before it has
changed anything.

Two things that a reader may take for flaws and no document decides: a login
that has verified the old password may open its session after a reset revoked
all others (after a withdrawal such a session is never prolonged:
`LateSessionBuysNothing`), and a logout of a session that was revoked for another reason
overwrites that reason.

## Proofs

`LifecycleProofs` proves, for all sets of incidents, requests and users and any
bound on decisions, from the assumptions of module Lifecycle (managers are
controllers, dispatchable users are responders, NULL is neither a user nor a
request):

* `TypeCorrect`: `Spec => []TypeOK`. One lemma for each helper (`Moved`,
  `Advanced`, `MoveIncident`, ...) and one for each action.
* `AgreementCorrect` and its three consequences
  `IncidentMatchesDispatchCorrect`, `NoDoubleBookingCorrect`,
  `BusyWhileActiveCorrect`. None of the three invariants is inductive alone:
  reject does not look at the status of the incident, so that it keeps
  `IncidentMatchesDispatch` follows only because a REQUESTED request meets no
  status but DISPATCH_REQUESTED; assign trusts the duty status for the second
  half of `NoDoubleBooking`, which needs `BusyWhileActive`, which in turn needs
  that nobody has two active requests when one is given back. `Agreement` is
  their conjunction with `TypeOK`, and it is inductive. The steps on an
  incident without a live request, on a live request, and assign are three
  lemmas, to which the actions reduce.

`RecordsProofs` is about what the tables put on record. Every step writes in one
of three ways (`StepEffect`): as a command of a controller, as assign, or as a
command of a responder; the twelve actions are reduced to these once, and the
proof of each property has one case for each of them.

* `OwnershipAgreesCorrect`, `DecisionChainCorrect` and `HistoryIsPathCorrect` are
  inductive with `TypeOK`.
* `ClosureJustifiedCorrect` needs `Agreement` and `RiskDecided`: from
  DISPATCH_REQUESTED on the last decision is REAL_RISK. Close looks at the
  report and not at the decision.
* `AttemptChainCorrect` and `OutboxAccountsForVersionsCorrect` count, so they need
  that the tables are finite (`TablesFinite`, itself an invariant: they start
  empty and a step adds at most two rows); the second also that every event of
  a request is of a row that exists (`EventsKnown`), or a new key could have
  events already.
* `VersionGuardsRowCorrect` and `FinalIsFinalCorrect`: `Spec => VersionGuardsRow`,
  `Spec => FinalIsFinal`; the latter from `Agreement`, because reject does not
  look at the incident.

`RequestsProofs` proves, for any number of attempts, keys, retries and failures
and both isolation levels:

* `RequestsAreCommands`: `Spec => DB!Spec`. The invariant it needs is small
  (`Asked`: what an attempt asks is a command of a user of the right kind); the
  argument is that `Execute` and `History` are steps of Lifecycle and all others
  leave the tables alone. `RequestsKeepRecords` carries the theorems of
  `RecordsProofs` over to interleaved transactions, for which that module is
  instantiated rather than extended.
* `RequestsInvariant`, on which the rest stands. Its parts are: an attempt that
  is locking holds an initial part of the plan of its command (`LocksInOrder`)
  and its copies are the rows (`CopiesFresh`); a key was stored by one attempt
  and tells what it did (`KeysTrue`); the version a key was used on has passed
  (`VersionsSpent`), so that two keys for one row had different ones
  (`EffectsApart`); and a snapshot is of the past, so that a version that is the
  same in it and now stands for the same claims and reports (`SnapshotsPast`).
* `CopiesFreshCorrect`, `AnswersTrueCorrect`, `OneEffectPerKeyCorrect`,
  `UnlockedReadsCurrentCorrect`, `OnlyAssignDeadlocksCorrect` and
  `EffectNeedsFreshKeyCorrect` follow from it. `OneEffectPerKey` is not inductive:
  that a late retry cannot repeat an effect rests on the version check, and
  `VersionsSpent` is what that check knows. `OnlyAssignDeadlocks` follows from
  `LocksInOrder`: the plans of all commands but assign take the rows in one order
  (incident, profile, request), so that waiting would climb for ever in a cycle.
* `RequestsImplementOncePerKey`: `Spec => ImplementsOncePerKey`, step by step:
  `Execute` is a `Perform`, where that the named version was not used under another
  key is `EffectsApart` of the state it leads to, and that it changes anything at
  all is that it raises the version; an answer from memory is a `Repeat` because a key was
  stored with the hash of what it was asked.

`LifecycleProofs` also proves `LifecycleImplementsBooking`: `Spec =>
ImplementsBooking`. The initial tables map to the initial state; every command
maps to one action of Booking or to a stutter. That assign is an `Ask`, which
needs that neither side is taken up, uses `Agreement`, and so does that
complete-action is a `Finish`, which needs that the risk is still real.

`ConnectionsProofs` proves, for any finite number of clients, threads and
connections, `ConnectionsAccounted`: `Spec => [](TypeOK /\ Accounted)` (nobody
holds more than there is, nothing stays with a request that is over or waits for
a connection), and from it `NoEarlyStalls`: `Spec => []NoEarlyStall`, by counting:
in a stall all threads are held by requests that want a connection and all
connections by requests that want a thread, and no request is both.

`AccountsProofs` proves, for any number of accounts, sessions and interleaved
requests, from the assumption that rows of before and rows of attempts have
different names:

* `AccountsTyped`, `AuditMatchesCorrect`: `Spec => []TypeOK`,
  `Spec => []AuditMatches`.
* `WithdrawalIsFinalCorrect`: `Spec => WithdrawalIsFinal`.

The inductive invariant `IInv` adds to them what the argument is about: an
attempt that passed the checks of a withdrawal or a reset holds the lock on its
user, which is active (`LockedActive`); no row is locked twice (`Exclusive`), so
that nobody else withdraws the account in between; a row is inserted by the last
step of its attempt (`Fresh`); what was found is there (`FoundOK`). All steps but
a withdrawal are `Quiet`: they neither start nor end an account, and two lemmas
about `Answer` and `Go` carry the invariant over them.

* `TokenOnceCorrect`, `LogoutSticksCorrect` and `RotationIsCurrentCorrect`, from
  `TokensInvariant`: `Spec => [](IInv /\ TokensInv)`. A refresh locks the session
  and not its user, so that the user is still there when the token is rotated
  is an invariant of its own (`RotationHolds`): a withdrawal must revoke the
  session first and waits for its lock. A token that was taken is behind the one
  of the session (`RotationsSpent`), a link that was used is in no account
  (`ResetsSpent`), and no two accounts share one (`ResetsApart`).

* `AccountsImplementMembership`: `Spec => ImplementsMembership`, step by step. That a
  confirmation is a `Recover`, and a withdrawal a `Leave`, of an active account is
  `LockedActive`; that a rotation is a `Prolong` of a member's session is
  `RotationHolds`; that a login opens a session of somebody who has joined needs
  `FoundRegistered`: nobody who was found leaves the table. Registering is the
  only place where the unique index is needed, and it is enough.
* `MembershipPromises`: `M!Spec => [](M!TypeOK /\ M!Promises)`, about the abstract
  specification alone; `OneAccountPerAddressCorrect` and
  `LateSessionBuysNothingCorrect` carry its promises through the mapping to the
  tables.

`ReadsProofs` proves, of Timeline, `TimelineCommands`: `TimelineSpec => Spec`, and from
`TimelineInvariant` (`Agreement` with `TimelineInv`) the theorems
`StampsOrderedCorrect` and `HonestNeverTooEarlyCorrect`, for any number of
requests and any clock. The strengthening `HonestIsLate` says why no comparison
of stamps is needed: as long as the version a client was shown stands, and the
row can still be commanded, nothing about the incident was stamped after the
request arrived. depart and en-route do not raise the version of the incident,
which is why the row must be open (`IsOpen`): while they run, no command names
the incident. The proof assumes that an incident and a request are never the same
row (`KeysAssumption` of Timeline).

Of Boards and IncidentReads it proves:

* `BoardsAgreeCorrect`: `Spec => []BoardsAgree`. Each list and view selects the
  active requests, of which `Agreement` leaves one for an incident and one for a
  responder; the summary is a count by status, for which the table of incidents
  must be finite (`BoardsAssumption`, which also has that NULL is no responder).
* `ReadCommands`: `ReadSpec => Spec`, and from `ReadInvariant` the theorems
  `ShownStateStillCurrentCorrect` and `DetailTellsOneStoryCorrect`. `VersionVouches`
  is the lemma about commands: a step raises the version of an incident or
  leaves its row, decisions, history and active requests. Since the row is read
  first, what later statements return agrees with the incident as long as the
  version in that row stands (`KeptCurrent`), at either isolation; with a snapshot,
  all of it is of one state (`KeptConsistent`), and one state tells one story
  (`SliceConsistent`, from `Agreement`, `DecisionChain` and `ReviewRecorded`).

`ListReadsProofs` proves, for any number of incidents, any page sizes, lists of any
length and both isolation levels, `WalkCorrect` and from it
`PageFitsCountCorrect`: `ListSpec => []PageFitsCount` and `WalkCompleteCorrect`:
`ListSpec => []WalkComplete`. Nothing is said of how the rows are sorted: an order
of a list is any sequence of its rows without repetition in which a row that
precedes another comes first, and the argument is about the number of rows that
precede one (`Place`). `WalkInv` has a part for each kind of promise. Where rows can
only leave (`ShownBehind`), fewer rows precede a row that was shown than the pages
that were turned stand for, and leaving rows only lower that number, so no later
page holds it again. Where the rows are those of the beginning (`ShownBegins`) and
in a history (`ShownHistory`), what was shown is how the list begins. At REPEATABLE
READ the same must be known of the snapshot the page is read from (`SnapshotSees`),
which may be older than the rows. The proof uses `OwnershipAgrees`: that the list of
unclaimed incidents never gets a row is a fact about claims.

`MigrationsProofs` proves, for any number of runners, any choice of commands,
killed anywhere or never:

* `MigrationsInvariant`: `Spec => []IInv`. `Shape`: where a run is in its script says
  which rows it has written and not committed: a DDL statement commits them, so
  they are those of the statements since the last one. `Exclusive`: two runs never
  have a row in common. `RowsInv` joins these to the committed rows, for the points
  where two runs could undo each other: while 0002 adds rows there are none; once
  the deletion of the roles is behind a downgrade no account refers to one, and no
  bootstrap is about to commit one.
* `RowsBelongTogetherCorrect` is part of it.
* `HeadIsCompleteCorrect`, with `HeadInv`: as long as no downgrade has begun nothing is
  taken away, and the schema has at least what the version stands for and what each
  upgrade has behind it (`Behind`). A second upgrade stops at the first table that is
  there, so nobody stamps a version over statements that failed.
* `LoneRunWorksCorrect`, with `SoundInv`: the schema is exactly the one of the version,
  and the statements the run has behind it. That every create finds what it refers
  to and nothing in its place (`UpgradeRunsThrough`) is then a fact about the scripts.

The scripts of 0002, 0003 and the bootstrap are gone through statement by statement
in the proofs. That of 0001 is made by `FlattenSeq`, which is defined by recursion,
and the names of its indexes by joining strings; no prover can evaluate either. What
the proof uses of them is `FlattenedAssumption` (the statements are those of the
tables, each after those of the tables before it, and no two create the same
object): a statement without parameters, which TLC evaluates in every run of the
module and so decides. That each table comes after those it refers to is not assumed:
it is proved from the list.

The type invariants of Lifecycle, Accounts, Requests and Connections are proved
and not listed among the properties of the runs. Neither are four properties that
follow from a refinement which a run checks: `RotationIsCurrent`,
`OneAccountPerAddress` and `LateSessionBuysNothing` from `ImplementsMembership`, and
`EffectNeedsFreshKey` from `ImplementsOncePerKey`.

Only model-checked, and why:

* `NeverStranded`, `AvailableMeansAssignable` and `SomebodyGoesOn` speak of ENABLED,
  `EveryRequestAnswered` (Requests, Connections) of liveness: out of the prover's
  reach.
* `FlattenedAssumption` of Migrations, as explained above, is evaluated by TLC.

## Not modelled

* Cookies, access tokens and permission codes: who may send what is a constant.
* Evidence and CCTV queries and the filters on them: nothing in the code writes
  their rows. The sort orders by status and by duty status, and histories newest
  first, which shift under a client as rows are added: no promise to check.
* The clock of the service is assumed not to run backwards.
* Several indexes of one table are one object in Migrations; columns and
  constraints of a new table are part of its statement. Offline mode and the
  comparison script write nothing to the database.
* Gap locks other than those on the index of the keys. assign also takes some
  when it looks for active requests; a deadlock on them ends like any `Abort`.
* Expiry of keys: nothing reads `expires_at`.
* The publisher of the outbox, the AI pipeline and the tables it fills: not in
  the repository.
* Configuration, logging, error envelopes, field validation, object storage: no
  behaviour that the properties are about.

## Plan

1. Done: the commands and their transactions, accounts, queries, time stamps, the
   pool and the migrations, with their runs; Booking and its refinement; the
   theorems above.
2. Done: proofs of every safety invariant and action property of the passing runs
   that does not speak of ENABLED.
3. Done: the abstract specifications Booking, Membership and OncePerKey, which
   Lifecycle, Accounts and Requests are proved to implement.
4. Not planned: the parts under "Not modelled", until the code gives them state.
