----------------------------- MODULE Migrations -----------------------------
(***************************************************************************)
(* Bringing a database to the schema the service runs on: the three        *)
(* Alembic revisions under src/migrations/versions, run by `alembic        *)
(* upgrade head' or `alembic downgrade', and                               *)
(* scripts/bootstrap_dev_controller.py, which adds the first account.      *)
(*                                                                         *)
(* A revision is a script of statements.  MariaDB commits before and after *)
(* every DDL statement, so a transaction only ever holds the rows written  *)
(* since the last DDL; Alembic opens one transaction per revision and      *)
(* stamps the version table at its end.  Runs may overlap, and may be      *)
(* killed between any two statements.                                      *)
(***************************************************************************)
EXTENDS Integers, Sequences, FiniteSets, SequencesExt

CONSTANTS
  Runners,    \* the processes that may run a command against the database
  Commands,   \* the commands they may run, a subset of {"upgrade", "downgrade", "bootstrap"}
  MayCrash    \* whether a run may be killed

ASSUME MigrationsAssumption ==
  /\ Commands \subseteq {"upgrade", "downgrade", "bootstrap"}
  /\ MayCrash \in BOOLEAN

VARIABLES
  schema,     \* the tables, indexes, added columns and views that exist
  rows,       \* the committed reference rows and the bootstrapped account
  version,    \* the revision alembic_version names, 0 before the first
  run,        \* what each runner is doing
  reverted    \* history: a downgrade has begun

vars == <<schema, rows, version, run, reverted>>

-----------------------------------------------------------------------------
(* Statements.  `of' is what the statement depends on (what must exist, or  *)
(* for a deletion must be gone), `on' what it needs for itself.             *)

Statement(op, obj, of, on) == [op |-> op, obj |-> obj, of |-> of, on |-> on]

AddTo(table, part)            == Statement("create", {part}, {table}, {table})
TakeFrom(table, part, until)  == Statement("drop", {part}, until, {table})
CreateView(view, tables)    == Statement("replace", {view}, tables, {})
DropView(view)              == Statement("discard", {view}, {}, {})
InsertRows(new, parents)    == Statement("insert", {new}, parents, {new} \cup parents)
Stamp                       == Statement("stamp", {}, {}, {})

\* INSERT ... SELECT from roles and permissions: without them it adds nothing
Grant(role) == Statement("copy", {role}, {"roles", "permissions"}, {role, "roles", "permissions"})

DeleteRows(old, children) == Statement("delete", old, children, old \cup children)

\* One create_table of 0001 with the tables its foreign keys name, and whether
\* indexes are created after it: none, plain ones, or ones a foreign key needs.
Table(name, parents, index) == [name |-> name, parents |-> parents, index |-> index]

StandaloneTables == <<
    Table("ai_models", {}, "none"),
    Table("business_sequences", {}, "none"),
    Table("dispatch_state_transitions", {}, "none"),
    Table("event_outbox", {}, "plain") >>
LogTables == <<
    Table("idempotency_keys", {}, "plain"),
    Table("incident_state_transitions", {}, "none"),
    Table("its_sync_runs", {}, "plain") >>
CatalogueTables == <<
    Table("notifications", {}, "none"),
    Table("object_classes", {}, "none"),
    Table("organizations", {}, "needed"),
    Table("permissions", {}, "none") >>
\* Mutant: the road sections are created before the roads they refer to.
SectionsBeforeRoads == <<
    Table("road_sections", {"roads"}, "needed"),
    Table("roads", {}, "none"),
    Table("roles", {}, "none") >>
RoadTables == <<
    Table("roads", {}, "none"),
    Table("roles", {}, "none"),
    Table("road_sections", {"roads"}, "needed") >>
UserTables == <<
    Table("users", {"organizations"}, "needed"),
    Table("audit_logs", {"users"}, "needed") >>
CameraTables == <<
    Table("cctvs", {"road_sections"}, "needed"),
    Table("files", {"users"}, "needed") >>
ProfileTables == <<
    Table("notification_recipients", {"notifications", "users"}, "needed"),
    Table("responder_profiles", {"users"}, "none"),
    Table("role_permissions", {"permissions", "roles", "users"}, "needed") >>
SessionTables == <<
    Table("user_roles", {"roles", "users"}, "needed"),
    Table("user_sessions", {"users"}, "needed") >>
ModelTables == <<
    Table("ai_model_versions", {"ai_models", "files"}, "needed"),
    Table("cctv_streams", {"cctvs"}, "needed") >>
FrameTables == <<
    Table("tracking_sessions", {"cctvs"}, "plain"),
    Table("video_frames", {"cctvs", "files"}, "needed") >>
InferenceTables == <<
    Table("inference_runs", {"ai_model_versions", "files", "video_frames"}, "needed"),
    Table("model_version_classes", {"ai_model_versions", "object_classes"}, "needed") >>
TrackTables == <<
    Table("tracked_objects", {"cctvs", "object_classes", "tracking_sessions"}, "needed"),
    Table("detections", {"inference_runs", "object_classes"}, "needed") >>
RiskTables == <<
    Table("risk_evaluations", {"detections", "tracked_objects"}, "needed"),
    Table("track_observations", {"detections", "tracked_objects"}, "plain") >>
IncidentTables == <<
    Table("incidents", {"cctvs", "detections", "object_classes", "risk_evaluations",
                        "road_sections", "tracked_objects", "users"}, "needed") >>
DispatchTables == <<
    Table("dispatch_requests", {"incidents", "users"}, "needed") >>
ClaimTables == <<
    Table("incident_claims", {"incidents", "users"}, "needed"),
    Table("incident_decisions", {"incidents", "users"}, "needed") >>
EvidenceTables == <<
    Table("incident_evidences", {"detections", "incidents", "risk_evaluations",
                                 "video_frames"}, "needed"),
    Table("incident_files", {"files", "incidents", "users"}, "needed") >>
HistoryTables == <<
    Table("incident_notes", {"incidents", "users"}, "needed"),
    Table("incident_status_histories", {"incidents", "users"}, "needed") >>
ReportTables == <<
    Table("dispatch_status_histories", {"dispatch_requests", "users"}, "needed"),
    Table("field_action_reports", {"dispatch_requests", "users"}, "needed"),
    Table("field_action_files", {"field_action_reports", "files"}, "needed") >>

AllTables ==
  StandaloneTables \o LogTables \o CatalogueTables \o RoadTables \o UserTables
    \o CameraTables \o ProfileTables \o SessionTables \o ModelTables \o FrameTables
    \o InferenceTables \o TrackTables \o RiskTables \o IncidentTables \o DispatchTables
    \o ClaimTables \o EvidenceTables \o HistoryTables \o ReportTables

IndexOf(t) == t.name \o ".indexes"

ChildrenOf(t) == {u.name : u \in {v \in ToSet(AllTables) : t.name \in v.parents}}

\* 0001: every table, parents first, each followed by its indexes ...
CreateTable(t) ==
  <<Statement("create", {t.name}, t.parents, {t.name})>>
    \o IF t.index = "none" THEN <<>> ELSE <<AddTo(t.name, IndexOf(t))>>
CreateTables == FlattenSeq([i \in DOMAIN AllTables |-> CreateTable(AllTables[i])])
ModelsUp == CreateTables \o <<Stamp>>

\* ... and back, indexes first: MariaDB keeps an index a foreign key needs as
\* long as the table, with its foreign key, is there.
DropTable(t) ==
  (IF t.index = "none" THEN <<>>
   ELSE <<TakeFrom(t.name, IndexOf(t), IF t.index = "needed" THEN {t.name} ELSE {})>>)
    \o <<Statement("drop", {t.name}, ChildrenOf(t), {t.name})>>
DropTables == FlattenSeq([i \in DOMAIN AllTables |-> DropTable(Reverse(AllTables)[i])])
ModelsDown == DropTables \o <<Stamp>>

\* 0002: the reference rows, then the three views
SeedStatements == <<
    InsertRows("roles", {}),
    InsertRows("permissions", {}),
    Grant("admin_grants"),
    Grant("manager_grants"),
    Grant("controller_grants"),
    Grant("responder_grants"),
    InsertRows("object_classes", {}),
    InsertRows("incident_state_transitions", {}),
    InsertRows("dispatch_state_transitions", {}) >>
ViewStatements == <<
    CreateView("v_incident_dashboard", {"incidents", "users", "dispatch_requests"}),
    CreateView("v_responder_active_dispatches", {"dispatch_requests", "incidents"}),
    CreateView("v_unread_notification_counts", {"notification_recipients"}) >>
\* Mutant: the dashboard view is created before the transition rows.
ViewBetween ==
  SubSeq(SeedStatements, 1, 7) \o SubSeq(ViewStatements, 1, 1)
    \o SubSeq(SeedStatements, 8, 9) \o SubSeq(ViewStatements, 2, 3) \o <<Stamp>>
\* Mutant: the grants are inserted before the permissions they join.
GrantsFirst ==
  SubSeq(SeedStatements, 1, 1) \o SubSeq(SeedStatements, 3, 6) \o SubSeq(SeedStatements, 2, 2)
    \o SubSeq(SeedStatements, 7, 9) \o ViewStatements \o <<Stamp>>
SeedUp == SeedStatements \o ViewStatements \o <<Stamp>>

Grants == {"admin_grants", "manager_grants", "controller_grants", "responder_grants"}

\* ... and back: the views, then the rows, children first
SeedDown == <<
    DropView("v_unread_notification_counts"),
    DropView("v_responder_active_dispatches"),
    DropView("v_incident_dashboard"),
    DeleteRows(Grants, {}),
    DeleteRows({"dispatch_state_transitions"}, {}),
    DeleteRows({"incident_state_transitions"}, {}),
    DeleteRows({"object_classes"}, {}),
    DeleteRows({"permissions"}, Grants),
    DeleteRows({"roles"}, Grants \cup {"account_role"}),
    Stamp >>

\* 0003: four changes of users, one of user_sessions
AccountUp == <<
    AddTo("users", "users.password_reset_token_hash"),
    AddTo("users", "users.password_reset_token_expires_at"),
    AddTo("users", "users.password_changed_at"),
    Statement("create", {"uk_users_password_reset_token_hash"},
              {"users.password_reset_token_hash"}, {"users"}),
    AddTo("user_sessions", "user_sessions.is_persistent"),
    Stamp >>
\* Mutant: the column of user_sessions is forgotten on the way back.
KeepsPersistent == <<
    TakeFrom("users", "uk_users_password_reset_token_hash", {}),
    TakeFrom("users", "users.password_changed_at", {}),
    TakeFrom("users", "users.password_reset_token_expires_at", {}),
    TakeFrom("users", "users.password_reset_token_hash", {}),
    Stamp >>
AccountDown == <<
    TakeFrom("user_sessions", "user_sessions.is_persistent", {}),
    TakeFrom("users", "uk_users_password_reset_token_hash", {}),
    TakeFrom("users", "users.password_changed_at", {}),
    TakeFrom("users", "users.password_reset_token_expires_at", {}),
    TakeFrom("users", "users.password_reset_token_hash", {}),
    Stamp >>

\* The columns the ORM names whenever it reads or writes a user.
UserColumns == {"users", "users.password_reset_token_hash",
                "users.password_reset_token_expires_at", "users.password_changed_at"}

\* bootstrap_dev_controller.py: skip an account that is there; find the role;
\* find or add the organization; add the user and its role; one commit.
\* Mutant: the user is committed before its role is added.
CommitsTwice == <<
    Statement("unless", {"account"}, UserColumns, {}),
    Statement("require", {"roles"}, {"roles"}, {}),
    Statement("ensure", {"organization"}, {"organizations"}, {"organization"}),
    InsertRows("account", {"organization"}),
    Statement("commit", {}, {}, {}),
    InsertRows("account_role", {"account", "roles"}),
    Statement("commit", {}, {}, {}) >>
Bootstrap == <<
    Statement("unless", {"account"}, UserColumns, {}),
    Statement("require", {"roles"}, {"roles"}, {}),
    Statement("ensure", {"organization"}, {"organizations"}, {"organization"}),
    InsertRows("account", {"organization"}),
    InsertRows("account_role", {"account", "roles"}),
    Statement("commit", {}, {}, {}) >>

Latest == 3
Upgrades == <<ModelsUp, SeedUp, AccountUp>>
Downgrades == <<ModelsDown, SeedDown, AccountDown>>

-----------------------------------------------------------------------------
(* The runners.                                                             *)

\* A runner: its command and the version it aims at, the revision it is in and
\* the statement it is at, the rows its transaction has added and deleted, and
\* the rows it saw at its first read.  `sound' is history: it started on an
\* orderly database and nothing else has run since.
Idle == [state |-> "idle", command |-> "upgrade", target |-> 0, rev |-> 0, at |-> 1,
         ins |-> {}, del |-> {}, seen |-> {}, sound |-> FALSE]

On(r) == run[r].state = "on"

Script(r) ==
  CASE run[r].command = "upgrade"   -> Upgrades[run[r].rev]
    [] run[r].command = "downgrade" -> Downgrades[run[r].rev]
    [] run[r].command = "bootstrap" -> Bootstrap

Now(r) == Script(r)[run[r].at]

\* What the runner's statements see: the committed rows and its own changes.
Current(r) == (rows \ run[r].del) \cup run[r].ins

\* What an open transaction keeps from the others: the rows it has written,
\* and the definition of a table it has read or written.
Held(r) ==
  run[r].ins \cup run[r].del
    \cup (IF run[r].command = "bootstrap" /\ run[r].at > 1 THEN {"users"} ELSE {})

Waits(r) == \E s \in Runners \ {r} : On(s) /\ Held(s) \cap Now(r).on # {}

IsDdl(s) == s.op \in {"create", "replace", "drop", "discard"}

\* The version a revision starts from and leaves, which its stamp replaces.
FromVersion(r) == IF run[r].command = "upgrade" THEN run[r].rev - 1 ELSE run[r].rev
ToVersion(r)   == IF run[r].command = "upgrade" THEN run[r].rev ELSE run[r].rev - 1

\* The statement raises an error.
Errs(r) ==
  LET s == Now(r) IN
  \/ s.op = "create"  /\ (s.obj \cap schema # {} \/ ~ s.of \subseteq schema)
  \/ s.op = "replace" /\ ~ s.of \subseteq schema
  \/ s.op = "drop"    /\ (~ s.obj \subseteq schema \/ s.of \cap schema # {})
  \/ s.op = "insert"  /\ (s.obj \cap Current(r) # {} \/ ~ s.of \subseteq Current(r))
  \/ s.op = "copy"    /\ s.obj \cap Current(r) # {} /\ s.of \subseteq Current(r)
  \/ s.op = "ensure"  /\ s.obj \cap (Current(r) \ run[r].seen) # {}
  \/ s.op = "delete"  /\ s.of \cap Current(r) # {}
  \/ s.op = "unless"  /\ ~ s.of \subseteq schema
  \/ s.op = "require" /\ ~ (s.of \subseteq schema /\ s.obj \subseteq run[r].seen)
  \/ s.op = "stamp"   /\ version # FromVersion(r)

-----------------------------------------------------------------------------
(* What is expected of the database at a version.                           *)

Views == {"v_incident_dashboard", "v_responder_active_dispatches", "v_unread_notification_counts"}
Seeds == {"roles", "permissions", "object_classes", "incident_state_transitions",
          "dispatch_state_transitions"} \cup Grants
AccountParts == (UserColumns \ {"users"})
                  \cup {"uk_users_password_reset_token_hash", "user_sessions.is_persistent"}

SchemaAt == [v \in 0 .. Latest |->
  UNION {IF v >= 1 THEN {t.name : t \in ToSet(AllTables)}
                          \cup {IndexOf(t) : t \in {u \in ToSet(AllTables) : u.index # "none"}}
         ELSE {},
         IF v >= 2 THEN Views ELSE {},
         IF v >= 3 THEN AccountParts ELSE {}}]
SeedsAt(v) == IF v >= 2 THEN Seeds ELSE {}

\* FlattenSeq is defined by recursion, and the name of an index is put together
\* from two: what they return for these tables is computed, not proved.
ASSUME FlattenedAssumption ==
  LET Creations == UNION {ToSet(CreateTable(t)) : t \in ToSet(AllTables)}
      Removals  == UNION {ToSet(DropTable(t)) : t \in ToSet(AllTables)}
  IN \* one after the other the statements of each table, all of them ...
     /\ CreateTables \in Seq(Creations) /\ Creations \subseteq ToSet(CreateTables)
     /\ DropTables \in Seq(Removals) /\ Removals \subseteq ToSet(DropTables)
     \* ... after those of the tables before it, an index after its table
     /\ \A n \in DOMAIN CreateTables, i \in DOMAIN AllTables :
          CreateTables[n] \in ToSet(CreateTable(AllTables[i])) =>
            {AllTables[j].name : j \in 1 .. i} \ CreateTables[n].obj
              \subseteq UNION {CreateTables[m].obj : m \in 1 .. n - 1}
     \* no two of the names are the same
     /\ \A m, n \in DOMAIN CreateTables :
          m # n => CreateTables[m].obj \cap CreateTables[n].obj = {}
     /\ SchemaAt[1] \cap (Views \cup AccountParts) = {}

Orderly == schema = SchemaAt[version] /\ rows \cap Seeds = SeedsAt(version)

-----------------------------------------------------------------------------
Init ==
  /\ schema = {} /\ rows = {} /\ version = 0
  /\ run = [r \in Runners |-> Idle]
  /\ reverted = FALSE

\* env.py opens a connection and Alembic lists the revisions between the
\* version it reads and its target.
Begin(r, c, t) ==
  /\ ~ On(r)
  /\ c \in Commands
  /\ CASE c = "upgrade"   -> t = Latest
       [] c = "downgrade" -> t < version
       [] c = "bootstrap" -> t = version
  /\ run' = [s \in Runners |->
       IF s = r
       THEN [Idle EXCEPT !.state = IF c = "upgrade" /\ version = Latest THEN "done" ELSE "on",
                         !.command = c, !.target = t,
                         !.rev = IF c = "upgrade" THEN version + 1 ELSE version,
                         !.sound = Orderly /\ \A q \in Runners \ {r} : ~ On(q)]
       ELSE [run[s] EXCEPT !.sound = FALSE]]
  /\ reverted' = (reverted \/ c = "downgrade")
  /\ UNCHANGED <<schema, rows, version>>

\* A DDL statement: it commits the rows before it, and itself.
Define(r) ==
  /\ On(r) /\ IsDdl(Now(r)) /\ ~ Waits(r) /\ ~ Errs(r)
  /\ schema' = IF Now(r).op \in {"create", "replace"}
               THEN schema \cup Now(r).obj
               ELSE schema \ Now(r).obj
  /\ rows' = Current(r)
  /\ run' = [run EXCEPT ![r].at = @ + 1, ![r].ins = {}, ![r].del = {}]
  /\ UNCHANGED <<version, reverted>>

\* A statement that writes rows; they stay with the transaction.
Write(r) ==
  LET s == Now(r)
      added == CASE s.op = "insert" -> s.obj
                 [] s.op = "copy"   -> IF s.of \subseteq Current(r) THEN s.obj ELSE {}
                 [] s.op = "ensure" -> s.obj \ run[r].seen
                 [] s.op = "delete" -> {}
      gone  == IF s.op = "delete" THEN s.obj ELSE {}
  IN /\ On(r) /\ s.op \in {"insert", "copy", "ensure", "delete"} /\ ~ Waits(r) /\ ~ Errs(r)
     /\ run' = [run EXCEPT ![r].at = @ + 1,
                           ![r].ins = (run[r].ins \ gone) \cup added,
                           ![r].del = (run[r].del \ added) \cup gone]
     /\ UNCHANGED <<schema, rows, version, reverted>>

\* The reads of the bootstrap; the first one fixes what it sees.
Look(r) ==
  /\ On(r) /\ Now(r).op \in {"unless", "require"} /\ ~ Errs(r)
  /\ run' = IF Now(r).op = "unless"
            THEN [run EXCEPT ![r].seen = rows,
                             ![r].state = IF Now(r).obj \subseteq rows THEN "done" ELSE "on",
                             ![r].at = @ + 1]
            ELSE [run EXCEPT ![r].at = @ + 1]
  /\ UNCHANGED <<schema, rows, version, reverted>>

\* The end of a revision: the version moves with the rows still open, and the
\* next revision begins, or the run is over.
EndRevision(r) ==
  /\ On(r) /\ Now(r).op = "stamp" /\ ~ Errs(r)
  /\ version' = ToVersion(r)
  /\ rows' = Current(r)
  /\ run' = [run EXCEPT ![r].state = IF ToVersion(r) = run[r].target THEN "done" ELSE "on",
                        ![r].rev = IF run[r].command = "upgrade" THEN @ + 1 ELSE @ - 1,
                        ![r].at = 1, ![r].ins = {}, ![r].del = {}]
  /\ UNCHANGED <<schema, reverted>>

Commit(r) ==
  /\ On(r) /\ Now(r).op = "commit"
  /\ rows' = Current(r)
  /\ run' = [run EXCEPT ![r].state = IF run[r].at = Len(Script(r)) THEN "done" ELSE "on",
                        ![r].at = @ + 1, ![r].ins = {}, ![r].del = {}]
  /\ UNCHANGED <<schema, version, reverted>>

\* The run ends in an error: the statement raises, or waits too long for its
\* locks.  A DDL statement has committed the rows before it all the same.
Fail(r) ==
  /\ On(r)
  /\ Waits(r) \/ Errs(r)
  /\ rows' = IF IsDdl(Now(r)) THEN Current(r) ELSE rows
  /\ run' = [run EXCEPT ![r].state = "failed", ![r].ins = {}, ![r].del = {}]
  /\ UNCHANGED <<schema, version, reverted>>

\* The process or its connection dies; the open transaction is rolled back.
Crash(r) ==
  /\ MayCrash /\ On(r)
  /\ run' = [run EXCEPT ![r].state = "failed", ![r].ins = {}, ![r].del = {}]
  /\ UNCHANGED <<schema, rows, version, reverted>>

Next ==
  \E r \in Runners :
    \/ \E c \in Commands, t \in 0 .. Latest : Begin(r, c, t)
    \/ Define(r) \/ Write(r) \/ Look(r) \/ EndRevision(r) \/ Commit(r)
    \/ Fail(r) \/ Crash(r)

Spec == Init /\ [][Next]_vars

-----------------------------------------------------------------------------
(* Properties.                                                              *)

\* Nothing in the scripts themselves stops an upgrade: one that starts on a
\* database that is as its version says, and is let alone, meets no error at
\* any statement, from whatever version it starts: every foreign key finds its
\* parent table, every view its tables, every index its column.
UpgradeRunsThrough ==
  \A r \in Runners :
    (On(r) /\ run[r].command = "upgrade" /\ run[r].sound) => ~ Errs(r)

\* The version table names the last revision only over the whole schema with
\* all of its reference rows, however many runs overlapped or were killed on
\* the way, unless one of them was a downgrade (see UpgradeAppliesAll).
HeadIsComplete == ~ reverted => (version = Latest => Orderly)

\* The reference rows are committed together or not at all, although the DDL
\* around them commits statement by statement: no crash, lost race or aborted
\* downgrade leaves roles without permissions or transitions without classes.
SeedsAllOrNone == rows \cap Seeds \in {{}, Seeds}

\* An account is never found without its role, its organization and the grants
\* of the role: not between two statements of the bootstrap, not after two
\* bootstraps raced, and not after a downgrade tried to take the roles away.
AccountHasRole ==
  "account" \in rows =>
    {"account_role", "organization", "roles", "permissions", "controller_grants"} \subseteq rows

\* A command that was let alone on an orderly database and reports success has
\* left exactly what its target version stands for, up or down.
DoneMeansExact ==
  \A r \in Runners : (run[r].state = "done" /\ run[r].sound) => Orderly

\* Rows that belong together are committed together, and go together, although
\* the DDL between them commits statement by statement.
RowsBelongTogether == SeedsAllOrNone /\ AccountHasRole

\* A run that is let alone on an orderly database does its work: an upgrade
\* meets no error, and what reports success has left what it stands for.
LoneRunWorks == UpgradeRunsThrough /\ DoneMeansExact

\* README.md:65: `alembic upgrade head' applies the schema, the reference rows
\* and the views: when it reports success and nothing else is running, they are
\* all there.
UpgradeAppliesAll ==
  [][\A r \in Runners :
       ( /\ run[r].state # "done" /\ run'[r].state = "done" /\ run'[r].command = "upgrade"
         /\ \A s \in Runners \ {r} : ~ On(s) )
       => (schema' = SchemaAt[Latest] /\ Seeds \subseteq rows')]_vars
=============================================================================
