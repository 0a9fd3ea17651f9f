--------------------------- MODULE MigrationsProofs ---------------------------
(***************************************************************************)
(* For any number of processes that migrate one database: what the version *)
(* table and the rows stand for.                                           *)
(*                                                                         *)
(* First what the scripts are: a foreign key names an earlier table, what  *)
(* a revision creates its downgrade removes.  Then three invariants.  IInv *)
(* ties the rows of an open transaction to the statement its run is at,    *)
(* and gives RowsBelongTogether; HeadInv bounds the schema from below      *)
(* while nothing is downgraded, and gives HeadIsComplete; SoundInv says    *)
(* what a run that is let alone has made of the database so far, and gives *)
(* LoneRunWorks.                                                           *)
(***************************************************************************)
EXTENDS Migrations, SequenceTheorems, TLAPS

-----------------------------------------------------------------------------
(* The tables of 0001: parents first.                                       *)

Names == {t.name : t \in ToSet(AllTables)}

\* The names of the tables before the i-th.
Prior(i) == {AllTables[j].name : j \in 1 .. i - 1}

\* A table is one of those before each later one.
LEMMA PriorHas ==
    \A i, k \in Nat : (0 < k /\ k < i) => AllTables[k].name \in Prior(i)
<1> SUFFICES ASSUME NEW i \in Nat, NEW k \in Nat, 0 < k, k < i
             PROVE  AllTables[k].name \in Prior(i)
  OBVIOUS
<1> k \in 1 .. i - 1
  OBVIOUS
<1> QED
  BY DEF Prior

ParentsPrior(i) ==
  AllTables[i].parents \subseteq Prior(i) /\ AllTables[i].name \notin AllTables[i].parents

\* No foreign key of the forty-four tables names a table that comes later.
LEMMA ParentsFirst ==
    /\ DOMAIN AllTables = 1 .. 44
    /\ \A i \in 1 .. 44 : ParentsPrior(i)
    /\ {"users", "user_sessions", "notification_recipients", "incidents", "dispatch_requests"}
         \subseteq Names
<1> USE DEF AllTables, StandaloneTables, LogTables, CatalogueTables, RoadTables, UserTables,
            CameraTables, ProfileTables, SessionTables, ModelTables, FrameTables, InferenceTables,
            TrackTables, RiskTables, IncidentTables, DispatchTables, ClaimTables,
            EvidenceTables, HistoryTables, ReportTables
<1>1. /\ DOMAIN AllTables = 1 .. 44
     /\ AllTables[1] = Table("ai_models", {}, "none")
     /\ AllTables[2] = Table("business_sequences", {}, "none")
     /\ AllTables[3] = Table("dispatch_state_transitions", {}, "none")
     /\ AllTables[4] = Table("event_outbox", {}, "plain")
     /\ AllTables[5] = Table("idempotency_keys", {}, "plain")
     /\ AllTables[6] = Table("incident_state_transitions", {}, "none")
     /\ AllTables[7] = Table("its_sync_runs", {}, "plain")
     /\ AllTables[8] = Table("notifications", {}, "none")
     /\ AllTables[9] = Table("object_classes", {}, "none")
     /\ AllTables[10] = Table("organizations", {}, "needed")
     /\ AllTables[11] = Table("permissions", {}, "none")
  OBVIOUS
<1>2. /\ AllTables[12] = Table("roads", {}, "none")
     /\ AllTables[13] = Table("roles", {}, "none")
     /\ AllTables[14] = Table("road_sections", {"roads"}, "needed")
     /\ AllTables[15] = Table("users", {"organizations"}, "needed")
     /\ AllTables[16] = Table("audit_logs", {"users"}, "needed")
     /\ AllTables[17] = Table("cctvs", {"road_sections"}, "needed")
     /\ AllTables[18] = Table("files", {"users"}, "needed")
     /\ AllTables[19] = Table("notification_recipients", {"notifications", "users"}, "needed")
     /\ AllTables[20] = Table("responder_profiles", {"users"}, "none")
     /\ AllTables[21] = Table("role_permissions", {"permissions", "roles", "users"}, "needed")
     /\ AllTables[22] = Table("user_roles", {"roles", "users"}, "needed")
  OBVIOUS
<1>3. /\ AllTables[23] = Table("user_sessions", {"users"}, "needed")
     /\ AllTables[24] = Table("ai_model_versions", {"ai_models", "files"}, "needed")
     /\ AllTables[25] = Table("cctv_streams", {"cctvs"}, "needed")
     /\ AllTables[26] = Table("tracking_sessions", {"cctvs"}, "plain")
     /\ AllTables[27] = Table("video_frames", {"cctvs", "files"}, "needed")
     /\ AllTables[28] =
          Table("inference_runs", {"ai_model_versions", "files", "video_frames"}, "needed")
     /\ AllTables[29] =
          Table("model_version_classes", {"ai_model_versions", "object_classes"}, "needed")
     /\ AllTables[30] =
          Table("tracked_objects", {"cctvs", "object_classes", "tracking_sessions"}, "needed")
     /\ AllTables[31] = Table("detections", {"inference_runs", "object_classes"}, "needed")
     /\ AllTables[32] = Table("risk_evaluations", {"detections", "tracked_objects"}, "needed")
     /\ AllTables[33] = Table("track_observations", {"detections", "tracked_objects"}, "plain")
  OBVIOUS
<1>4. /\ AllTables[34] =
          Table("incidents", {"cctvs", "detections", "object_classes", "risk_evaluations",
                  "road_sections", "tracked_objects", "users"}, "needed")
     /\ AllTables[35] = Table("dispatch_requests", {"incidents", "users"}, "needed")
     /\ AllTables[36] = Table("incident_claims", {"incidents", "users"}, "needed")
     /\ AllTables[37] = Table("incident_decisions", {"incidents", "users"}, "needed")
     /\ AllTables[38] =
          Table("incident_evidences", {"detections", "incidents", "risk_evaluations",
                  "video_frames"}, "needed")
     /\ AllTables[39] = Table("incident_files", {"files", "incidents", "users"}, "needed")
     /\ AllTables[40] = Table("incident_notes", {"incidents", "users"}, "needed")
     /\ AllTables[41] = Table("incident_status_histories", {"incidents", "users"}, "needed")
     /\ AllTables[42] =
          Table("dispatch_status_histories", {"dispatch_requests", "users"}, "needed")
     /\ AllTables[43] = Table("field_action_reports", {"dispatch_requests", "users"}, "needed")
     /\ AllTables[44] =
          Table("field_action_files", {"field_action_reports", "files"}, "needed")
  OBVIOUS
<1> HIDE DEF AllTables, StandaloneTables, LogTables, CatalogueTables, RoadTables, UserTables,
            CameraTables, ProfileTables, SessionTables, ModelTables, FrameTables, InferenceTables,
            TrackTables, RiskTables, IncidentTables, DispatchTables, ClaimTables,
            EvidenceTables, HistoryTables, ReportTables
<1>5. /\ ParentsPrior(1) /\ ParentsPrior(2) /\ ParentsPrior(3) /\ ParentsPrior(4)
      /\ ParentsPrior(5) /\ ParentsPrior(6) /\ ParentsPrior(7) /\ ParentsPrior(8)
      /\ ParentsPrior(9) /\ ParentsPrior(10) /\ ParentsPrior(11) /\ ParentsPrior(12)
  BY <1>1, <1>2, <1>3, <1>4, PriorHas DEF ParentsPrior, Table
<1>6. ParentsPrior(13) /\ ParentsPrior(14) /\ ParentsPrior(15) /\ ParentsPrior(16)
  BY <1>1, <1>2, <1>3, <1>4, PriorHas DEF ParentsPrior, Table
<1>7. ParentsPrior(17) /\ ParentsPrior(18) /\ ParentsPrior(19) /\ ParentsPrior(20)
  BY <1>1, <1>2, <1>3, <1>4, PriorHas DEF ParentsPrior, Table
<1>8. ParentsPrior(21) /\ ParentsPrior(22) /\ ParentsPrior(23) /\ ParentsPrior(24)
  BY <1>1, <1>2, <1>3, <1>4, PriorHas DEF ParentsPrior, Table
<1>9. ParentsPrior(25) /\ ParentsPrior(26) /\ ParentsPrior(27) /\ ParentsPrior(28)
  BY <1>1, <1>2, <1>3, <1>4, PriorHas DEF ParentsPrior, Table
<1>10. ParentsPrior(29) /\ ParentsPrior(30) /\ ParentsPrior(31) /\ ParentsPrior(32)
  BY <1>1, <1>2, <1>3, <1>4, PriorHas DEF ParentsPrior, Table
<1>11. ParentsPrior(33) /\ ParentsPrior(34) /\ ParentsPrior(35)
  BY <1>1, <1>2, <1>3, <1>4, PriorHas DEF ParentsPrior, Table
<1>12. ParentsPrior(36) /\ ParentsPrior(37)
  BY <1>1, <1>2, <1>3, <1>4, PriorHas DEF ParentsPrior, Table
<1>13. ParentsPrior(38) /\ ParentsPrior(39)
  BY <1>1, <1>2, <1>3, <1>4, PriorHas DEF ParentsPrior, Table
<1>14. ParentsPrior(40) /\ ParentsPrior(41) /\ ParentsPrior(42)
  BY <1>1, <1>2, <1>3, <1>4, PriorHas DEF ParentsPrior, Table
<1>15. ParentsPrior(43) /\ ParentsPrior(44)
  BY <1>1, <1>2, <1>3, <1>4, PriorHas DEF ParentsPrior, Table
<1>16. {"users", "user_sessions", "notification_recipients", "incidents", "dispatch_requests"}
         \subseteq Names
  <2>1. \A i \in 1 .. 44 : AllTables[i].name \in Names
    BY <1>1 DEF Names, ToSet
  <2> QED
    BY <2>1, <1>2, <1>3, <1>4 DEF Table
<1>17. \A i \in 1 .. 44 : ParentsPrior(i)
  BY <1>5, <1>6, <1>7, <1>8, <1>9, <1>10, <1>11, <1>12, <1>13, <1>14, <1>15
<1> QED
  BY <1>1, <1>16, <1>17

-----------------------------------------------------------------------------
(* The scripts.                                                             *)

\* The statements for one table, and back.
TableStatement(t) == Statement("create", {t.name}, t.parents, {t.name})

\* Each table is created with its indexes, and all that is created is dropped.
LEMMA TableStatements ==
    ASSUME NEW t
    PROVE  /\ ToSet(CreateTable(t)) =
                {TableStatement(t)} \cup (IF t.index = "none" THEN {} ELSE {AddTo(t.name, IndexOf(t))})
           /\ \A s \in ToSet(DropTable(t)) :
                /\ s.op = "drop"
                /\ s.obj \subseteq UNION {c.obj : c \in ToSet(CreateTable(t))}
           /\ \A c \in ToSet(CreateTable(t)) : \E s \in ToSet(DropTable(t)) : s.obj = c.obj
<1>1. CASE t.index = "none"
  <2>1. ToSet(CreateTable(t)) = {TableStatement(t)}
    BY <1>1 DEF ToSet, CreateTable, TableStatement
  <2>2. ToSet(DropTable(t)) = {Statement("drop", {t.name}, ChildrenOf(t), {t.name})}
    BY <1>1 DEF ToSet, DropTable
  <2> QED
    BY <1>1, <2>1, <2>2 DEF TableStatement, Statement
<1>2. CASE t.index # "none"
  <2>1. ToSet(CreateTable(t)) = {TableStatement(t), AddTo(t.name, IndexOf(t))}
    BY <1>2 DEF ToSet, CreateTable, TableStatement
  <2>2. ToSet(DropTable(t)) =
          {TakeFrom(t.name, IndexOf(t), IF t.index = "needed" THEN {t.name} ELSE {}),
           Statement("drop", {t.name}, ChildrenOf(t), {t.name})}
    BY <1>2 DEF ToSet, DropTable
  <2> QED
    BY <1>2, <2>1, <2>2 DEF TableStatement, Statement, AddTo, TakeFrom
<1> QED
  BY <1>1, <1>2

\* 0001 creates all that version 1 stands for and removes it again; what a
\* statement needs is there and what it makes is not, if those before it ran.
LEMMA CreateTablesIs ==
    /\ Len(CreateTables) \in Nat
    /\ \A n \in 1 .. Len(CreateTables) : CreateTables[n].op = "create"
    /\ UNION {CreateTables[n].obj : n \in 1 .. Len(CreateTables)} = SchemaAt[1]
    /\ \A n \in 1 .. Len(CreateTables) :
         /\ CreateTables[n].of \subseteq UNION {CreateTables[m].obj : m \in 1 .. n - 1}
         /\ CreateTables[n].obj \cap UNION {CreateTables[m].obj : m \in 1 .. n - 1} = {}
<1> DEFINE Creations == UNION {ToSet(CreateTable(t)) : t \in ToSet(AllTables)}
<1>1. CreateTables \in Seq(Creations) /\ Creations \subseteq ToSet(CreateTables)
  BY FlattenedAssumption
<1>2. /\ Len(CreateTables) \in Nat
      /\ DOMAIN CreateTables = 1 .. Len(CreateTables)
      /\ \A n \in 1 .. Len(CreateTables) : CreateTables[n] \in Creations
  <2> HIDE DEF Creations
  <2> QED
    BY <1>1
<1>3. \A s \in Creations : \E t \in ToSet(AllTables) :
        \/ s = TableStatement(t)
        \/ t.index # "none" /\ s = AddTo(t.name, IndexOf(t))
  BY TableStatements
<1>4. \A s \in Creations : s.op = "create"
  BY <1>3 DEF TableStatement, AddTo, Statement
<1>5. UNION {s.obj : s \in Creations} = SchemaAt[1]
  <2>1. SchemaAt[1] = {t.name : t \in ToSet(AllTables)}
          \cup {IndexOf(t) : t \in {u \in ToSet(AllTables) : u.index # "none"}}
    BY DEF SchemaAt, Latest
  <2>2. \A t \in ToSet(AllTables) : TableStatement(t) \in Creations
    BY TableStatements
  <2>3. \A t \in ToSet(AllTables) : t.index # "none" => AddTo(t.name, IndexOf(t)) \in Creations
    BY TableStatements
  <2> HIDE DEF Creations
  <2>4. ASSUME NEW x \in SchemaAt[1] PROVE \E s \in Creations : x \in s.obj
    BY <2>1, <2>2, <2>3 DEF TableStatement, AddTo, Statement
  <2>5. ASSUME NEW s \in Creations, NEW x \in s.obj PROVE x \in SchemaAt[1]
    BY <2>1, <1>3 DEF TableStatement, AddTo, Statement
  <2> QED
    BY <2>4, <2>5
<1>6. UNION {CreateTables[n].obj : n \in 1 .. Len(CreateTables)} = UNION {s.obj : s \in Creations}
  <2>1. \A s \in Creations : \E n \in 1 .. Len(CreateTables) : s = CreateTables[n]
    BY <1>1, <1>2 DEF ToSet
  <2> HIDE DEF Creations
  <2> QED
    BY <1>2, <2>1
<1>7. ASSUME NEW n \in 1 .. Len(CreateTables)
      PROVE  CreateTables[n].of \subseteq UNION {CreateTables[m].obj : m \in 1 .. n - 1}
  <2>1. PICK i \in 1 .. 44 : CreateTables[n] \in ToSet(CreateTable(AllTables[i]))
    <3>1. PICK t \in ToSet(AllTables) : CreateTables[n] \in ToSet(CreateTable(t))
      BY <1>2
    <3>2. \E i \in 1 .. 44 : t = AllTables[i]
      BY ParentsFirst DEF ToSet
    <3> QED
      BY <3>1, <3>2
  <2>2. {AllTables[j].name : j \in 1 .. i} \ CreateTables[n].obj
          \subseteq UNION {CreateTables[m].obj : m \in 1 .. n - 1}
    <3>1. n \in DOMAIN CreateTables /\ i \in DOMAIN AllTables
      BY <1>2, ParentsFirst
    <3> QED
      BY <3>1, <2>1, FlattenedAssumption, Zenon
  <2>3. CreateTables[n].of \subseteq {AllTables[j].name : j \in 1 .. i} \ CreateTables[n].obj
    <3>1. CASE CreateTables[n] = TableStatement(AllTables[i])
      <4>1. /\ CreateTables[n].of = AllTables[i].parents
            /\ CreateTables[n].obj = {AllTables[i].name}
        BY <3>1 DEF TableStatement, Statement
      <4>2. Prior(i) \subseteq {AllTables[j].name : j \in 1 .. i}
        BY DEF Prior
      <4> QED
        BY <4>1, <4>2, ParentsFirst DEF ParentsPrior
    <3>2. CASE /\ AllTables[i].index # "none"
               /\ CreateTables[n] = AddTo(AllTables[i].name, IndexOf(AllTables[i]))
      <4> DEFINE t == AllTables[i]
      <4>1. t \in ToSet(AllTables)
        BY ParentsFirst DEF ToSet
      <4>2. PICK m \in 1 .. Len(CreateTables) : CreateTables[m] = TableStatement(t)
        <5>1. TableStatement(t) \in Creations
          BY <4>1, TableStatements
        <5> HIDE DEF Creations
        <5> QED
          BY <1>1, <1>2, <5>1 DEF ToSet
      <4>3. t.name \notin t.parents
        BY ParentsFirst DEF ParentsPrior
      <4> HIDE DEF t
      <4>4. CreateTables[m].of # CreateTables[n].of
        BY <4>2, <4>3, <3>2 DEF t, TableStatement, AddTo, Statement
      <4>5. CreateTables[m].obj \cap CreateTables[n].obj = {}
        <5>1. m \in DOMAIN CreateTables /\ n \in DOMAIN CreateTables /\ m # n
          BY <1>2, <4>4
        <5> QED
          BY <5>1, FlattenedAssumption, Zenon
      <4>6. CreateTables[n].obj = {IndexOf(t)} /\ CreateTables[n].of = {t.name}
        BY <3>2 DEF t, AddTo, Statement
      <4>7. t.name \notin CreateTables[n].obj
        BY <4>2, <4>5 DEF TableStatement, Statement
      <4>8. t.name \in {AllTables[j].name : j \in 1 .. i}
        BY DEF t
      <4> QED
        BY <4>6, <4>7, <4>8
    <3> QED
      BY <2>1, <3>1, <3>2, TableStatements
  <2> QED
    BY <2>2, <2>3
<1>8. ASSUME NEW n \in 1 .. Len(CreateTables)
      PROVE  CreateTables[n].obj \cap UNION {CreateTables[m].obj : m \in 1 .. n - 1} = {}
  <2>1. \A m \in 1 .. n - 1 : m \in DOMAIN CreateTables /\ m # n
    BY <1>2
  <2> QED
    BY <1>2, <2>1, FlattenedAssumption
<1> QED
  BY <1>2, <1>4, <1>5, <1>6, <1>7, <1>8

\* ... and back.
LEMMA DropTablesIs ==
    /\ Len(DropTables) \in Nat
    /\ \A n \in 1 .. Len(DropTables) : DropTables[n].op = "drop"
    /\ UNION {DropTables[n].obj : n \in 1 .. Len(DropTables)} = SchemaAt[1]
<1> DEFINE Creations == UNION {ToSet(CreateTable(t)) : t \in ToSet(AllTables)}
           Removals == UNION {ToSet(DropTable(t)) : t \in ToSet(AllTables)}
<1>1. DropTables \in Seq(Removals) /\ Removals \subseteq ToSet(DropTables)
  BY FlattenedAssumption
<1>2. CreateTables \in Seq(Creations) /\ Creations \subseteq ToSet(CreateTables)
  BY FlattenedAssumption
<1>3. \A s \in Removals : s.op = "drop" /\ \A x \in s.obj : \E c \in Creations : x \in c.obj
  BY TableStatements
<1>4. \A c \in Creations : \E s \in Removals : s.obj = c.obj
  BY TableStatements
<1> HIDE DEF Creations, Removals
<1>5. /\ Len(DropTables) \in Nat
      /\ DOMAIN DropTables = 1 .. Len(DropTables)
      /\ \A n \in 1 .. Len(DropTables) : DropTables[n] \in Removals
  BY <1>1
<1>6. \A s \in Removals : \E n \in 1 .. Len(DropTables) : s = DropTables[n]
  BY <1>1, <1>5 DEF ToSet
<1>7. \A x : x \in SchemaAt[1] <=> \E c \in Creations : x \in c.obj
  <2>1. \A n \in 1 .. Len(CreateTables) : CreateTables[n] \in Creations
    BY <1>2
  <2>2. \A c \in Creations : \E n \in 1 .. Len(CreateTables) : c = CreateTables[n]
    BY <1>2, CreateTablesIs DEF ToSet
  <2>3. \A x : x \in SchemaAt[1] <=> \E n \in 1 .. Len(CreateTables) : x \in CreateTables[n].obj
    BY CreateTablesIs
  <2> QED
    BY <2>1, <2>2, <2>3
<1> QED
  BY <1>3, <1>4, <1>5, <1>6, <1>7

\* What each version adds to the one before, nothing of it twice.
LEMMA SchemaIs ==
    /\ SchemaAt[0] = {}
    /\ SchemaAt[2] = SchemaAt[1] \cup Views
    /\ SchemaAt[3] = SchemaAt[2] \cup AccountParts
    /\ SchemaAt[1] \cap (Views \cup AccountParts) = {}
    /\ Views \cap AccountParts = {}
    /\ Names \subseteq SchemaAt[1]
<1>1. SchemaAt[1] \cap (Views \cup AccountParts) = {}
  BY FlattenedAssumption
<1>2. Views \cap AccountParts = {}
  BY DEF Views, AccountParts, UserColumns
<1>3. SchemaAt[0] = {}
  BY DEF SchemaAt, Latest
<1>4. SchemaAt[2] = SchemaAt[1] \cup Views
  BY DEF SchemaAt, Latest
<1>5. SchemaAt[3] = SchemaAt[2] \cup AccountParts
  BY DEF SchemaAt, Latest
<1>6. Names \subseteq SchemaAt[1]
  BY DEF SchemaAt, Latest, Names
<1> QED
  BY <1>1, <1>2, <1>3, <1>4, <1>5, <1>6

\* What the statements m to n - 1 of a script are about.
Objs(script, m, n) == UNION {script[i].obj : i \in m .. n - 1}

\* They grow by one statement at a time.
LEMMA ObjsGrow ==
    ASSUME NEW script, NEW m \in Nat, NEW n \in Nat, m <= n
    PROVE  /\ Objs(script, m, m) = {}
           /\ Objs(script, m, n + 1) = Objs(script, m, n) \cup script[n].obj
<1>1. m .. m - 1 = {}
  OBVIOUS
<1>2. m .. n + 1 - 1 = (m .. n - 1) \cup {n}
  OBVIOUS
<1>3. {script[i].obj : i \in m .. n + 1 - 1} = {script[i].obj : i \in m .. n - 1} \cup {script[n].obj}
  BY <1>2
<1>4. Objs(script, m, n + 1) = Objs(script, m, n) \cup script[n].obj
  BY <1>3 DEF Objs
<1> QED
  BY <1>1, <1>4 DEF Objs

\* A script of DDL statements of one kind, which ends with the stamp.
Ddl(script, op) ==
  /\ Len(script) \in Nat \ {0}
  /\ script[Len(script)] = Stamp
  /\ \A n \in 1 .. Len(script) - 1 : script[n].op = op

\* 0001, up and down: the tables and the stamp.
LEMMA ModelsScripts ==
    /\ Ddl(ModelsUp, "create") /\ Objs(ModelsUp, 1, Len(ModelsUp)) = SchemaAt[1]
    /\ Ddl(ModelsDown, "drop") /\ Objs(ModelsDown, 1, Len(ModelsDown)) = SchemaAt[1]
    /\ \A n \in 1 .. Len(ModelsUp) - 1 :
         /\ ModelsUp[n].of \subseteq Objs(ModelsUp, 1, n)
         /\ ModelsUp[n].obj \cap Objs(ModelsUp, 1, n) = {}
<1> DEFINE Creations == UNION {ToSet(CreateTable(t)) : t \in ToSet(AllTables)}
           Removals == UNION {ToSet(DropTable(t)) : t \in ToSet(AllTables)}
<1>1. CreateTables \in Seq(Creations) /\ DropTables \in Seq(Removals)
  BY FlattenedAssumption
<1> HIDE DEF Creations, Removals
<1>2. /\ Len(ModelsUp) = Len(CreateTables) + 1
      /\ ModelsUp[Len(CreateTables) + 1] = Stamp
      /\ \A n \in 1 .. Len(CreateTables) : ModelsUp[n] = CreateTables[n]
  BY <1>1 DEF ModelsUp
<1>3. /\ Len(ModelsDown) = Len(DropTables) + 1
      /\ ModelsDown[Len(DropTables) + 1] = Stamp
      /\ \A n \in 1 .. Len(DropTables) : ModelsDown[n] = DropTables[n]
  BY <1>1 DEF ModelsDown
<1>4. Len(CreateTables) \in Nat /\ Len(DropTables) \in Nat
  BY <1>1
<1>5. Ddl(ModelsUp, "create") /\ Ddl(ModelsDown, "drop")
  BY <1>2, <1>3, <1>4, CreateTablesIs, DropTablesIs DEF Ddl
<1>6. ASSUME NEW n \in 1 .. Len(CreateTables) + 1
      PROVE  Objs(ModelsUp, 1, n) = UNION {CreateTables[m].obj : m \in 1 .. n - 1}
  <2>1. \A m \in 1 .. n - 1 : ModelsUp[m] = CreateTables[m]
    BY <1>2, <1>4
  <2> QED
    BY <2>1 DEF Objs
<1>7. Objs(ModelsDown, 1, Len(ModelsDown)) = UNION {DropTables[m].obj : m \in 1 .. Len(DropTables)}
  <2>1. Len(ModelsDown) - 1 = Len(DropTables)
    BY <1>3, <1>4
  <2>2. \A m \in 1 .. Len(DropTables) : ModelsDown[m] = DropTables[m]
    BY <1>3
  <2> QED
    BY <2>1, <2>2 DEF Objs
<1>8. Objs(ModelsUp, 1, Len(ModelsUp)) = SchemaAt[1]
  <2>1. Len(ModelsUp) - 1 = Len(CreateTables)
    BY <1>2, <1>4
  <2>2. Objs(ModelsUp, 1, Len(ModelsUp)) = UNION {CreateTables[m].obj : m \in 1 .. Len(CreateTables)}
    BY <2>1, <1>2 DEF Objs
  <2> QED
    BY <2>2, CreateTablesIs
<1>9. ASSUME NEW n \in 1 .. Len(ModelsUp) - 1
      PROVE  /\ ModelsUp[n].of \subseteq Objs(ModelsUp, 1, n)
             /\ ModelsUp[n].obj \cap Objs(ModelsUp, 1, n) = {}
  <2>1. n \in 1 .. Len(CreateTables) /\ n \in 1 .. Len(CreateTables) + 1
    BY <1>2, <1>4
  <2> QED
    BY <2>1, <1>2, <1>6, CreateTablesIs
<1> QED
  BY <1>5, <1>7, <1>8, <1>9, DropTablesIs

\* 0003 adds its parts to tables of 0001, the index after its column.
LEMMA AccountScripts ==
    /\ Ddl(AccountUp, "create") /\ Objs(AccountUp, 1, Len(AccountUp)) = AccountParts
    /\ Ddl(AccountDown, "drop") /\ Objs(AccountDown, 1, Len(AccountDown)) = AccountParts
    /\ \A n \in 1 .. Len(AccountUp) - 1 :
         /\ AccountUp[n].of \subseteq SchemaAt[1] \cup Objs(AccountUp, 1, n)
         /\ AccountUp[n].obj \cap Objs(AccountUp, 1, n) = {}
<1>1. /\ Len(AccountUp) = 6 /\ AccountUp[6] = Stamp
      /\ AccountUp[1] = AddTo("users", "users.password_reset_token_hash")
      /\ AccountUp[2] = AddTo("users", "users.password_reset_token_expires_at")
      /\ AccountUp[3] = AddTo("users", "users.password_changed_at")
      /\ AccountUp[4] = Statement("create", {"uk_users_password_reset_token_hash"},
                                  {"users.password_reset_token_hash"}, {"users"})
      /\ AccountUp[5] = AddTo("user_sessions", "user_sessions.is_persistent")
  BY DEF AccountUp
<1>2. /\ Len(AccountDown) = 6 /\ AccountDown[6] = Stamp
      /\ AccountDown[1] = TakeFrom("user_sessions", "user_sessions.is_persistent", {})
      /\ AccountDown[2] = TakeFrom("users", "uk_users_password_reset_token_hash", {})
      /\ AccountDown[3] = TakeFrom("users", "users.password_changed_at", {})
      /\ AccountDown[4] = TakeFrom("users", "users.password_reset_token_expires_at", {})
      /\ AccountDown[5] = TakeFrom("users", "users.password_reset_token_hash", {})
  BY DEF AccountDown
<1>3. Ddl(AccountUp, "create") /\ Ddl(AccountDown, "drop")
  BY <1>1, <1>2 DEF Ddl, AddTo, TakeFrom, Statement
<1>4. /\ Objs(AccountUp, 1, 1) = {}
      /\ Objs(AccountUp, 1, 2) = {"users.password_reset_token_hash"}
      /\ Objs(AccountUp, 1, 3) = Objs(AccountUp, 1, 2) \cup {"users.password_reset_token_expires_at"}
      /\ Objs(AccountUp, 1, 4) = Objs(AccountUp, 1, 3) \cup {"users.password_changed_at"}
      /\ Objs(AccountUp, 1, 5) = Objs(AccountUp, 1, 4) \cup {"uk_users_password_reset_token_hash"}
      /\ Objs(AccountUp, 1, 6) = Objs(AccountUp, 1, 5) \cup {"user_sessions.is_persistent"}
  BY <1>1, ObjsGrow DEF AddTo, Statement
<1>5. Objs(AccountDown, 1, 6) = AccountParts
  <2>1. /\ Objs(AccountDown, 1, 1) = {}
        /\ Objs(AccountDown, 1, 2) = {"user_sessions.is_persistent"}
        /\ Objs(AccountDown, 1, 3) = Objs(AccountDown, 1, 2) \cup {"uk_users_password_reset_token_hash"}
        /\ Objs(AccountDown, 1, 4) = Objs(AccountDown, 1, 3) \cup {"users.password_changed_at"}
        /\ Objs(AccountDown, 1, 5) =
             Objs(AccountDown, 1, 4) \cup {"users.password_reset_token_expires_at"}
        /\ Objs(AccountDown, 1, 6) = Objs(AccountDown, 1, 5) \cup {"users.password_reset_token_hash"}
    <3>1. /\ Objs(AccountDown, 1, 1) = {}
          /\ \A n \in 1 .. 5 :
               Objs(AccountDown, 1, n + 1) = Objs(AccountDown, 1, n) \cup AccountDown[n].obj
      BY ObjsGrow
    <3>2. /\ AccountDown[1].obj = {"user_sessions.is_persistent"}
          /\ AccountDown[2].obj = {"uk_users_password_reset_token_hash"}
          /\ AccountDown[3].obj = {"users.password_changed_at"}
          /\ AccountDown[4].obj = {"users.password_reset_token_expires_at"}
          /\ AccountDown[5].obj = {"users.password_reset_token_hash"}
      BY <1>2 DEF TakeFrom, Statement
    <3> QED
      BY <3>1, <3>2
  <2> QED
    BY <2>1 DEF AccountParts, UserColumns
<1>6. Objs(AccountUp, 1, 6) = AccountParts
  BY <1>4 DEF AccountParts, UserColumns
<1>7. \A n \in 1 .. 5 : AccountUp[n].of \subseteq SchemaAt[1] \cup Objs(AccountUp, 1, n)
  <2>1. {"users", "user_sessions"} \subseteq SchemaAt[1]
    BY ParentsFirst, SchemaIs
  <2> QED
    BY <2>1, <1>1, <1>4 DEF AddTo, Statement
<1>8. \A n \in 1 .. 5 : AccountUp[n].obj \cap Objs(AccountUp, 1, n) = {}
  BY <1>1, <1>4 DEF AddTo, Statement
<1> QED
  BY <1>1, <1>2, <1>3, <1>5, <1>6, <1>7, <1>8

\* 0002: nine statements write the rows, the grants after what they join; then
\* the views, over tables of 0001.
LEMMA SeedUpIs ==
    /\ Len(SeedUp) = 13 /\ SeedUp[13] = Stamp
    /\ \A n \in 1 .. 9 :
         /\ SeedUp[n].obj \subseteq Seeds /\ SeedUp[n].obj \subseteq SeedUp[n].on
         /\ SeedUp[n].obj \cap Objs(SeedUp, 1, n) = {}
         /\ \/ SeedUp[n].op = "insert" /\ SeedUp[n].of = {}
            \/ SeedUp[n].op = "copy" /\ SeedUp[n].of \subseteq Objs(SeedUp, 1, n)
    /\ \A n \in 10 .. 12 : SeedUp[n].op = "replace" /\ SeedUp[n].of \subseteq Names
    /\ SeedUp[1].obj = {"roles"} /\ SeedUp[1].op = "insert"
    /\ \A n \in 2 .. 10 : "roles" \in Objs(SeedUp, 1, n)
    /\ \A n \in 1 .. 10 : Objs(SeedUp, 1, n) \subseteq Seeds
    /\ Objs(SeedUp, 1, 1) = {} /\ Objs(SeedUp, 1, 10) = Seeds
    /\ Objs(SeedUp, 10, 10) = {} /\ Objs(SeedUp, 10, 13) = Views
    /\ \A n \in 1 .. 10 : Objs(SeedUp, 10, n) = {}
<1>1. /\ Len(SeedUp) = 13 /\ SeedUp[13] = Stamp
      /\ SeedUp[1] = InsertRows("roles", {}) /\ SeedUp[2] = InsertRows("permissions", {})
      /\ SeedUp[3] = Grant("admin_grants") /\ SeedUp[4] = Grant("manager_grants")
      /\ SeedUp[5] = Grant("controller_grants") /\ SeedUp[6] = Grant("responder_grants")
      /\ SeedUp[7] = InsertRows("object_classes", {})
      /\ SeedUp[8] = InsertRows("incident_state_transitions", {})
      /\ SeedUp[9] = InsertRows("dispatch_state_transitions", {})
      /\ SeedUp[10] = ViewStatements[1] /\ SeedUp[11] = ViewStatements[2]
      /\ SeedUp[12] = ViewStatements[3]
  BY DEF SeedUp, SeedStatements, ViewStatements
<1>2. /\ ViewStatements[1] =
           CreateView("v_incident_dashboard", {"incidents", "users", "dispatch_requests"})
      /\ ViewStatements[2] =
           CreateView("v_responder_active_dispatches", {"dispatch_requests", "incidents"})
      /\ ViewStatements[3] =
           CreateView("v_unread_notification_counts", {"notification_recipients"})
  BY DEF ViewStatements
<1>3. /\ SeedUp[1].obj = {"roles"} /\ SeedUp[2].obj = {"permissions"}
      /\ SeedUp[3].obj = {"admin_grants"} /\ SeedUp[4].obj = {"manager_grants"}
      /\ SeedUp[5].obj = {"controller_grants"} /\ SeedUp[6].obj = {"responder_grants"}
      /\ SeedUp[7].obj = {"object_classes"} /\ SeedUp[8].obj = {"incident_state_transitions"}
      /\ SeedUp[9].obj = {"dispatch_state_transitions"}
      /\ SeedUp[10].obj = {"v_incident_dashboard"}
      /\ SeedUp[11].obj = {"v_responder_active_dispatches"}
      /\ SeedUp[12].obj = {"v_unread_notification_counts"}
  BY <1>1, <1>2 DEF InsertRows, Grant, CreateView, Statement
<1>4. \A n, k \in 1 .. 10 : k = n + 1 => Objs(SeedUp, 1, k) = Objs(SeedUp, 1, n) \cup SeedUp[n].obj
  <2> SUFFICES ASSUME NEW n \in 1 .. 10
               PROVE  Objs(SeedUp, 1, n + 1) = Objs(SeedUp, 1, n) \cup SeedUp[n].obj
    OBVIOUS
  <2>1. n \in Nat /\ 1 \in Nat /\ 1 <= n
    OBVIOUS
  <2> QED
    BY <2>1, ObjsGrow, Zenon
<1>5. Objs(SeedUp, 1, 1) = {}
  BY ObjsGrow
<1>6. /\ Objs(SeedUp, 1, 2) = {"roles"}
      /\ Objs(SeedUp, 1, 3) = {"roles", "permissions"}
      /\ Objs(SeedUp, 1, 4) = {"roles", "permissions", "admin_grants"}
      /\ Objs(SeedUp, 1, 5) = {"roles", "permissions", "admin_grants", "manager_grants"}
      /\ Objs(SeedUp, 1, 6) = Objs(SeedUp, 1, 5) \cup {"controller_grants"}
      /\ Objs(SeedUp, 1, 7) = Objs(SeedUp, 1, 6) \cup {"responder_grants"}
      /\ Objs(SeedUp, 1, 8) = Objs(SeedUp, 1, 7) \cup {"object_classes"}
      /\ Objs(SeedUp, 1, 9) = Objs(SeedUp, 1, 8) \cup {"incident_state_transitions"}
      /\ Objs(SeedUp, 1, 10) = Objs(SeedUp, 1, 9) \cup {"dispatch_state_transitions"}
  BY <1>3, <1>4, <1>5
<1>7. Objs(SeedUp, 1, 10) = Seeds
  BY <1>6 DEF Seeds, Grants
<1>8. \A n \in 1 .. 9 : SeedUp[n].obj \subseteq Seeds /\ SeedUp[n].obj \cap Objs(SeedUp, 1, n) = {}
  BY <1>3, <1>5, <1>6 DEF Seeds, Grants
<1>9. \A n \in 2 .. 10 : "roles" \in Objs(SeedUp, 1, n)
  BY <1>6
<1>10. \A n \in 1 .. 10 : Objs(SeedUp, 1, n) \subseteq Seeds
  BY <1>5, <1>6, <1>7
<1>11. \A n \in 1 .. 9 :
         /\ SeedUp[n].obj \subseteq SeedUp[n].on
         /\ \/ SeedUp[n].op = "insert" /\ SeedUp[n].of = {}
            \/ SeedUp[n].op = "copy" /\ SeedUp[n].of \subseteq Objs(SeedUp, 1, n)
  <2>1. \A n \in {1, 2, 7, 8, 9} : /\ SeedUp[n].op = "insert" /\ SeedUp[n].of = {}
                                   /\ SeedUp[n].obj \subseteq SeedUp[n].on
    BY <1>1 DEF InsertRows, Statement
  <2>2. \A n \in {3, 4, 5, 6} : /\ SeedUp[n].op = "copy" /\ SeedUp[n].of = {"roles", "permissions"}
                                /\ SeedUp[n].obj \subseteq SeedUp[n].on
    BY <1>1 DEF Grant, Statement
  <2>3. \A n \in {3, 4, 5, 6} : {"roles", "permissions"} \subseteq Objs(SeedUp, 1, n)
    BY <1>6
  <2> QED
    BY <2>1, <2>2, <2>3
<1>12. \A n \in 10 .. 12 : SeedUp[n].op = "replace" /\ SeedUp[n].of \subseteq Names
  <2>1. /\ SeedUp[10].op = "replace" /\ SeedUp[11].op = "replace" /\ SeedUp[12].op = "replace"
        /\ SeedUp[10].of = {"incidents", "users", "dispatch_requests"}
        /\ SeedUp[11].of = {"dispatch_requests", "incidents"}
        /\ SeedUp[12].of = {"notification_recipients"}
    BY <1>1, <1>2 DEF CreateView, Statement
  <2> QED
    BY <2>1, ParentsFirst
<1>13. Objs(SeedUp, 10, 10) = {} /\ Objs(SeedUp, 10, 13) = Views
  <2>1. /\ Objs(SeedUp, 10, 10) = {}
        /\ \A n \in 10 .. 12 : Objs(SeedUp, 10, n + 1) = Objs(SeedUp, 10, n) \cup SeedUp[n].obj
    BY ObjsGrow
  <2> QED
    BY <2>1, <1>3 DEF Views
<1>14. \A n \in 1 .. 10 : Objs(SeedUp, 10, n) = {}
  BY DEF Objs
<1>15. SeedUp[1].op = "insert"
  BY <1>1 DEF InsertRows, Statement
<1> QED
  BY <1>1, <1>3, <1>5, <1>7, <1>8, <1>9, <1>10, <1>11, <1>12, <1>13, <1>14, <1>15

\* ... and back: the views, then the rows, the roles last and only if no
\* account has one.
LEMMA SeedDownIs ==
    /\ Len(SeedDown) = 10 /\ SeedDown[10] = Stamp
    /\ \A n \in 1 .. 3 : SeedDown[n].op = "discard"
    /\ Objs(SeedDown, 1, 4) = Views
    /\ \A n \in 4 .. 9 :
         /\ SeedDown[n].op = "delete"
         /\ SeedDown[n].obj \subseteq Seeds /\ SeedDown[n].obj \subseteq SeedDown[n].on
    /\ "account_role" \in SeedDown[9].on /\ "account_role" \in SeedDown[9].of
    /\ \A n \in 1 .. 4 : Objs(SeedDown, 4, n) = {}
    /\ \A n \in 1 .. 10 : Objs(SeedDown, 4, n) \subseteq Seeds
    /\ Objs(SeedDown, 4, 10) = Seeds
<1>1. /\ Len(SeedDown) = 10 /\ SeedDown[10] = Stamp
      /\ SeedDown[1] = DropView("v_unread_notification_counts")
      /\ SeedDown[2] = DropView("v_responder_active_dispatches")
      /\ SeedDown[3] = DropView("v_incident_dashboard")
      /\ SeedDown[4] = DeleteRows(Grants, {})
      /\ SeedDown[5] = DeleteRows({"dispatch_state_transitions"}, {})
      /\ SeedDown[6] = DeleteRows({"incident_state_transitions"}, {})
      /\ SeedDown[7] = DeleteRows({"object_classes"}, {})
      /\ SeedDown[8] = DeleteRows({"permissions"}, Grants)
      /\ SeedDown[9] = DeleteRows({"roles"}, Grants \cup {"account_role"})
  BY DEF SeedDown
<1>2. /\ SeedDown[1].obj = {"v_unread_notification_counts"}
      /\ SeedDown[2].obj = {"v_responder_active_dispatches"}
      /\ SeedDown[3].obj = {"v_incident_dashboard"}
      /\ \A n \in 1 .. 3 : SeedDown[n].op = "discard"
  BY <1>1 DEF DropView, Statement
<1>3. /\ SeedDown[4].obj = Grants /\ SeedDown[5].obj = {"dispatch_state_transitions"}
      /\ SeedDown[6].obj = {"incident_state_transitions"} /\ SeedDown[7].obj = {"object_classes"}
      /\ SeedDown[8].obj = {"permissions"} /\ SeedDown[9].obj = {"roles"}
  BY <1>1 DEF DeleteRows, Statement
<1>4. \A n \in 4 .. 9 :
        /\ SeedDown[n].op = "delete"
        /\ SeedDown[n].obj \subseteq Seeds /\ SeedDown[n].obj \subseteq SeedDown[n].on
  BY <1>1 DEF DeleteRows, Statement, Seeds
<1>5. "account_role" \in SeedDown[9].on /\ "account_role" \in SeedDown[9].of
  BY <1>1 DEF DeleteRows, Statement
<1>6. Objs(SeedDown, 1, 4) = Views
  <2>1. /\ Objs(SeedDown, 1, 1) = {}
        /\ \A n \in 1 .. 3 : Objs(SeedDown, 1, n + 1) = Objs(SeedDown, 1, n) \cup SeedDown[n].obj
    BY ObjsGrow
  <2> QED
    BY <2>1, <1>2 DEF Views
<1>7. \A n, k \in 4 .. 10 : k = n + 1 =>
        Objs(SeedDown, 4, k) = Objs(SeedDown, 4, n) \cup SeedDown[n].obj
  <2> SUFFICES ASSUME NEW n \in 4 .. 10
               PROVE  Objs(SeedDown, 4, n + 1) = Objs(SeedDown, 4, n) \cup SeedDown[n].obj
    OBVIOUS
  <2>1. n \in Nat /\ 4 <= n
    OBVIOUS
  <2>2. \A m \in Nat : m <= n =>
          Objs(SeedDown, m, n + 1) = Objs(SeedDown, m, n) \cup SeedDown[n].obj
    BY <2>1, ObjsGrow, Zenon
  <2> QED
    BY <2>1, <2>2
<1>8. /\ Objs(SeedDown, 4, 5) = Grants
      /\ Objs(SeedDown, 4, 6) = Objs(SeedDown, 4, 5) \cup {"dispatch_state_transitions"}
      /\ Objs(SeedDown, 4, 7) = Objs(SeedDown, 4, 6) \cup {"incident_state_transitions"}
      /\ Objs(SeedDown, 4, 8) = Objs(SeedDown, 4, 7) \cup {"object_classes"}
      /\ Objs(SeedDown, 4, 9) = Objs(SeedDown, 4, 8) \cup {"permissions"}
      /\ Objs(SeedDown, 4, 10) = Objs(SeedDown, 4, 9) \cup {"roles"}
  <2>1. Objs(SeedDown, 4, 4) = {}
    BY ObjsGrow
  <2>2. /\ Objs(SeedDown, 4, 5) = Objs(SeedDown, 4, 4) \cup SeedDown[4].obj
        /\ Objs(SeedDown, 4, 6) = Objs(SeedDown, 4, 5) \cup SeedDown[5].obj
        /\ Objs(SeedDown, 4, 7) = Objs(SeedDown, 4, 6) \cup SeedDown[6].obj
        /\ Objs(SeedDown, 4, 8) = Objs(SeedDown, 4, 7) \cup SeedDown[7].obj
        /\ Objs(SeedDown, 4, 9) = Objs(SeedDown, 4, 8) \cup SeedDown[8].obj
        /\ Objs(SeedDown, 4, 10) = Objs(SeedDown, 4, 9) \cup SeedDown[9].obj
    BY <1>7
  <2> QED
    BY <1>3, <2>1, <2>2
<1>9. Objs(SeedDown, 4, 10) = Seeds
  BY <1>8 DEF Seeds
<1>10. \A n \in 1 .. 4 : Objs(SeedDown, 4, n) = {}
  BY DEF Objs
<1>11. \A n \in 1 .. 10 : Objs(SeedDown, 4, n) \subseteq Seeds
  BY <1>8, <1>9, <1>10
<1> QED
  BY <1>1, <1>2, <1>4, <1>5, <1>6, <1>9, <1>10, <1>11

\* The bootstrap: two reads, three rows, one commit.
LEMMA BootstrapIs ==
    /\ Len(Bootstrap) = 6
    /\ Bootstrap[1] = Statement("unless", {"account"}, UserColumns, {})
    /\ Bootstrap[2] = Statement("require", {"roles"}, {"roles"}, {})
    /\ Bootstrap[3] = Statement("ensure", {"organization"}, {"organizations"}, {"organization"})
    /\ Bootstrap[4] = InsertRows("account", {"organization"})
    /\ Bootstrap[5] = InsertRows("account_role", {"account", "roles"})
    /\ Bootstrap[6] = Statement("commit", {}, {}, {})
  BY DEF Bootstrap

-----------------------------------------------------------------------------
(* The invariant: where a run is in its script says what it has written.    *)

RowNames == Seeds \cup {"organization", "account", "account_role"}

Runs == [state : {"idle", "on", "done", "failed"},
         command : {"upgrade", "downgrade", "bootstrap"},
         target : 0 .. Latest, rev : 0 .. Latest + 1, at : Nat \ {0},
         ins : SUBSET RowNames, del : SUBSET RowNames, seen : SUBSET RowNames, sound : BOOLEAN]

\* A run, and a run under way: at a statement of its script.
Typed ==
  /\ version \in 0 .. Latest
  /\ rows \subseteq RowNames
  /\ run \in [Runners -> Runs]

InScript(r) ==
  /\ run[r].command = "upgrade" => (run[r].rev \in 1 .. Latest /\ run[r].target = Latest)
  /\ run[r].command = "downgrade" =>
        (run[r].rev \in 1 .. Latest /\ run[r].target < run[r].rev /\ reverted)
  /\ run[r].at \in 1 .. Len(Script(r))

Seeding(r)   == On(r) /\ run[r].command = "upgrade" /\ run[r].rev = 2
Unseeding(r) == On(r) /\ run[r].command = "downgrade" /\ run[r].rev = 2
Booting(r)   == On(r) /\ run[r].command = "bootstrap"

\* The open transaction has added the first rows of 0002 in the order of its
\* statements, or deleted them, or added rows of the account.
Added(r) ==
  /\ run[r].command = "upgrade" =>
        run[r].ins = IF run[r].rev = 2 /\ run[r].at <= 10 THEN Objs(SeedUp, 1, run[r].at) ELSE {}
  /\ run[r].command = "downgrade" => run[r].ins = {}
  /\ run[r].command = "bootstrap" =>
        /\ run[r].ins \subseteq {"organization", "account", "account_role"}
        /\ run[r].at <= 3 => run[r].ins = {}
        /\ "account" \in run[r].ins <=> run[r].at >= 5
        /\ "account_role" \in run[r].ins <=> run[r].at >= 6
        /\ run[r].at >= 5 => "organization" \in rows \cup run[r].ins
Deleted(r) ==
  run[r].del = IF run[r].command = "downgrade" /\ run[r].rev = 2
               THEN Objs(SeedDown, 4, run[r].at) ELSE {}

Shape == \A r \in Runners : On(r) => InScript(r) /\ Added(r) /\ Deleted(r)

Written(r) == run[r].ins \cup run[r].del

\* Nobody touches a row another one has written and not committed.
Exclusive ==
  \A r, s \in Runners : (On(r) /\ On(s) /\ r # s) => Written(r) \cap Written(s) = {}

\* Rows of 0002 are added where there are none; while the account waits for
\* its commit, and ever after, nobody is about to commit that the roles go.
RowsInv ==
  /\ SeedsAllOrNone
  /\ AccountHasRole
  /\ "account_role" \in rows => "roles" \in rows
  /\ \A r \in Runners : (Seeding(r) /\ run[r].at \in 2 .. 10) => rows \cap Seeds = {}
  /\ \A r \in Runners : (Unseeding(r) /\ run[r].at = 10) => "account_role" \notin rows
  /\ \A r \in Runners : (Booting(r) /\ run[r].at = 6) =>
        /\ "roles" \in rows
        /\ \A s \in Runners : Unseeding(s) => run[s].at # 10

IInv == Typed /\ Shape /\ Exclusive /\ RowsInv

\* Without a downgrade nothing is taken away: a version stands for at least
\* what its revisions add, a run for what the statements behind it add.
Behind(r) ==
  /\ run[r].rev # 2 => Objs(Script(r), 1, run[r].at) \subseteq schema
  /\ run[r].rev = 2 => Objs(SeedUp, 10, run[r].at) \subseteq schema
  /\ (run[r].rev = 2 /\ run[r].at > 10) => Seeds \subseteq rows

HeadInv ==
  ~ reverted =>
    /\ SchemaAt[version] \subseteq schema /\ schema \subseteq SchemaAt[Latest]
    /\ version >= 2 => Seeds \subseteq rows
    /\ \A r \in Runners : (On(r) /\ run[r].command = "upgrade") => Behind(r)

\* What a run let alone on an orderly database has made of it so far.
Climbed(r) ==
  /\ version = run[r].rev - 1
  /\ run[r].rev # 2 => schema = SchemaAt[version] \cup Objs(Script(r), 1, run[r].at)
  /\ run[r].rev = 2 => schema = SchemaAt[version] \cup Objs(SeedUp, 10, run[r].at)
  /\ rows \cap Seeds = IF run[r].rev = 2 /\ run[r].at > 10 THEN Seeds ELSE SeedsAt(version)

Descended(r) ==
  /\ version = run[r].rev
  /\ schema = SchemaAt[version] \ (IF run[r].rev = 2 /\ run[r].at > 4 THEN Views
                                   ELSE Objs(Script(r), 1, run[r].at))
  /\ rows \cap Seeds = SeedsAt(version)

Achieved(r) ==
  /\ (run[r].state = "done" \/ Booting(r)) => Orderly
  /\ (On(r) /\ run[r].command = "upgrade") => Climbed(r)
  /\ (On(r) /\ run[r].command = "downgrade") => Descended(r)

SoundInv ==
  \A r \in Runners : run[r].sound => Achieved(r) /\ \A q \in Runners \ {r} : ~ On(q)

-----------------------------------------------------------------------------
(* Where a run is.                                                          *)

Plain(r) == run[r].command \in {"upgrade", "downgrade"} /\ run[r].rev \in {1, 3}

\* The script of a run, by its command and the revision it is in.
LEMMA ScriptIs ==
    ASSUME NEW r \in Runners, InScript(r),
           run[r].command \in {"upgrade", "downgrade", "bootstrap"}
    PROVE  /\ Plain(r) => Ddl(Script(r), IF run[r].command = "upgrade" THEN "create" ELSE "drop")
           /\ (run[r].command = "upgrade" /\ run[r].rev = 1) => Script(r) = ModelsUp
           /\ (run[r].command = "upgrade" /\ run[r].rev = 2) => Script(r) = SeedUp
           /\ (run[r].command = "upgrade" /\ run[r].rev = 3) => Script(r) = AccountUp
           /\ (run[r].command = "downgrade" /\ run[r].rev = 1) => Script(r) = ModelsDown
           /\ (run[r].command = "downgrade" /\ run[r].rev = 2) => Script(r) = SeedDown
           /\ (run[r].command = "downgrade" /\ run[r].rev = 3) => Script(r) = AccountDown
           /\ run[r].command = "bootstrap" => Script(r) = Bootstrap
           /\ \/ Plain(r)
              \/ run[r].command = "upgrade" /\ run[r].rev = 2
              \/ run[r].command = "downgrade" /\ run[r].rev = 2
              \/ run[r].command = "bootstrap"
<1>1. run[r].command = "upgrade" => Script(r) = Upgrades[run[r].rev]
  BY DEF Script
<1>2. run[r].command = "downgrade" => Script(r) = Downgrades[run[r].rev]
  BY DEF Script
<1>3. run[r].command = "bootstrap" => Script(r) = Bootstrap
  BY DEF Script
<1>4. /\ Upgrades[1] = ModelsUp /\ Upgrades[2] = SeedUp /\ Upgrades[3] = AccountUp
      /\ Downgrades[1] = ModelsDown /\ Downgrades[2] = SeedDown /\ Downgrades[3] = AccountDown
  BY DEF Upgrades, Downgrades
<1>5. run[r].command \in {"upgrade", "downgrade"} => run[r].rev \in {1, 2, 3}
  BY DEF InScript, Latest
<1>6. Plain(r) => Ddl(Script(r), IF run[r].command = "upgrade" THEN "create" ELSE "drop")
  BY <1>1, <1>2, <1>4, ModelsScripts, AccountScripts DEF Plain
<1> QED
  BY <1>1, <1>2, <1>3, <1>4, <1>5, <1>6 DEF Plain

\* The statement a run is at.
LEMMA NowIs ==
    ASSUME NEW r \in Runners, InScript(r),
           run[r].command \in {"upgrade", "downgrade", "bootstrap"}
    PROVE  /\ Plain(r) => IF run[r].at = Len(Script(r)) THEN Now(r).op = "stamp"
                          ELSE Now(r).op = IF run[r].command = "upgrade" THEN "create" ELSE "drop"
           /\ (run[r].command = "upgrade" /\ run[r].rev = 2) =>
                 Now(r) = SeedUp[run[r].at] /\ run[r].at \in 1 .. 13
           /\ (run[r].command = "downgrade" /\ run[r].rev = 2) =>
                 Now(r) = SeedDown[run[r].at] /\ run[r].at \in 1 .. 10
           /\ run[r].command = "bootstrap" => Now(r) = Bootstrap[run[r].at] /\ run[r].at \in 1 .. 6
<1>1. CASE Plain(r)
  <2>1. Ddl(Script(r), IF run[r].command = "upgrade" THEN "create" ELSE "drop")
    BY <1>1, ScriptIs
  <2>2. run[r].at \in 1 .. Len(Script(r))
    BY DEF InScript
  <2>3. run[r].at # Len(Script(r)) => run[r].at \in 1 .. Len(Script(r)) - 1
    BY <2>1, <2>2 DEF Ddl
  <2> QED
    BY <1>1, <2>1, <2>3 DEF Ddl, Now, Plain, Stamp, Statement
<1>2. CASE ~ Plain(r)
  BY <1>2, ScriptIs, SeedUpIs, SeedDownIs, BootstrapIs DEF InScript, Now
<1> QED
  BY <1>1, <1>2

\* By the position alone: which statements write rows, and which end something.
LEMMA OpIs ==
    ASSUME NEW r \in Runners, InScript(r),
           run[r].command \in {"upgrade", "downgrade", "bootstrap"}
    PROVE  /\ Now(r).op \in {"insert", "copy", "delete", "ensure"} <=>
                \/ run[r].command = "upgrade" /\ run[r].rev = 2 /\ run[r].at \in 1 .. 9
                \/ run[r].command = "downgrade" /\ run[r].rev = 2 /\ run[r].at \in 4 .. 9
                \/ run[r].command = "bootstrap" /\ run[r].at \in 3 .. 5
           /\ Now(r).op = "stamp" <=>
                /\ run[r].command # "bootstrap"
                /\ run[r].at = Len(Script(r))
           /\ Now(r).op = "commit" <=> (run[r].command = "bootstrap" /\ run[r].at = 6)
           /\ Now(r).op \in {"unless", "require"} <=>
                (run[r].command = "bootstrap" /\ run[r].at \in 1 .. 2)
           /\ IsDdl(Now(r)) <=>
                \/ Plain(r) /\ run[r].at # Len(Script(r))
                \/ run[r].command = "upgrade" /\ run[r].rev = 2 /\ run[r].at \in 10 .. 12
                \/ run[r].command = "downgrade" /\ run[r].rev = 2 /\ run[r].at \in 1 .. 3
<1>1. CASE Plain(r)
  BY <1>1, NowIs DEF Plain, IsDdl
<1>2. CASE run[r].command = "upgrade" /\ run[r].rev = 2
  <2>1. /\ Now(r) = SeedUp[run[r].at] /\ run[r].at \in 1 .. 13
        /\ Len(Script(r)) = 13 /\ ~ Plain(r)
    BY <1>2, NowIs, ScriptIs, SeedUpIs DEF Plain
  <2>2. CASE run[r].at \in 1 .. 9
    BY <1>2, <2>1, <2>2, SeedUpIs DEF IsDdl
  <2>3. CASE run[r].at \in 10 .. 12
    BY <1>2, <2>1, <2>3, SeedUpIs DEF IsDdl
  <2>4. CASE run[r].at = 13
    <3>1. Now(r).op = "stamp"
      BY <2>1, <2>4, SeedUpIs DEF Stamp, Statement
    <3> QED
      BY <1>2, <2>1, <2>4, <3>1 DEF IsDdl
  <2> QED
    BY <2>1, <2>2, <2>3, <2>4
<1>3. CASE run[r].command = "downgrade" /\ run[r].rev = 2
  <2>1. /\ Now(r) = SeedDown[run[r].at] /\ run[r].at \in 1 .. 10
        /\ Len(Script(r)) = 10 /\ ~ Plain(r)
    BY <1>3, NowIs, ScriptIs, SeedDownIs DEF Plain
  <2>2. CASE run[r].at \in 1 .. 3
    BY <1>3, <2>1, <2>2, SeedDownIs DEF IsDdl
  <2>3. CASE run[r].at \in 4 .. 9
    BY <1>3, <2>1, <2>3, SeedDownIs DEF IsDdl
  <2>4. CASE run[r].at = 10
    <3>1. Now(r).op = "stamp"
      BY <2>1, <2>4, SeedDownIs DEF Stamp, Statement
    <3> QED
      BY <1>3, <2>1, <2>4, <3>1 DEF IsDdl
  <2> QED
    BY <2>1, <2>2, <2>3, <2>4
<1>4. CASE run[r].command = "bootstrap"
  <2>1. /\ Now(r) = Bootstrap[run[r].at] /\ run[r].at \in 1 .. 6 /\ ~ Plain(r)
    BY <1>4, NowIs DEF Plain
  <2>2. /\ Bootstrap[1].op = "unless" /\ Bootstrap[2].op = "require" /\ Bootstrap[3].op = "ensure"
        /\ Bootstrap[4].op = "insert" /\ Bootstrap[5].op = "insert" /\ Bootstrap[6].op = "commit"
    BY BootstrapIs DEF InsertRows, Statement
  <2> QED
    BY <1>4, <2>1, <2>2 DEF IsDdl
<1> QED
  BY <1>1, <1>2, <1>3, <1>4, ScriptIs

\* What a commit would leave: the rows as they are, with the rows of 0002 or
\* without them, or with the account.
LEMMA CurrentIs ==
    ASSUME NEW r \in Runners, On(r), InScript(r), Added(r), Deleted(r),
           run[r].command \in {"upgrade", "downgrade", "bootstrap"},
           IsDdl(Now(r)) \/ Now(r).op \in {"stamp", "commit"}
    PROVE  \/ /\ Current(r) = rows
              /\ ~ (Seeding(r) /\ run[r].at = 10)
              /\ ~ (Unseeding(r) /\ run[r].at = 10)
              /\ ~ Booting(r)
           \/ Seeding(r) /\ run[r].at = 10 /\ run[r].ins = Seeds /\ Current(r) = rows \cup Seeds
           \/ /\ Unseeding(r) /\ run[r].at = 10 /\ Now(r).op = "stamp"
              /\ Current(r) = rows \ Seeds
           \/ /\ Booting(r) /\ run[r].at = 6 /\ Current(r) = rows \cup run[r].ins
              /\ {"account", "account_role"} \subseteq run[r].ins
              /\ run[r].ins \subseteq {"organization", "account", "account_role"}
              /\ "organization" \in rows \cup run[r].ins
<1>1. CASE Plain(r)
  <2>1. run[r].ins = {} /\ run[r].del = {}
    BY <1>1 DEF Plain, Added, Deleted
  <2> QED
    BY <1>1, <2>1 DEF Plain, Current, Seeding, Unseeding, Booting
<1>2. CASE run[r].command = "upgrade" /\ run[r].rev = 2
  <2>1. run[r].at \in 10 .. 13 /\ run[r].del = {}
    <3>1. run[r].at \in 1 .. 13
      BY <1>2, NowIs
    <3> QED
      BY <1>2, <3>1, OpIs DEF Deleted, IsDdl
  <2>2. CASE run[r].at = 10
    BY <1>2, <2>1, <2>2, SeedUpIs DEF Added, Current, Seeding
  <2>3. CASE run[r].at # 10
    BY <1>2, <2>1, <2>3 DEF Added, Current, Seeding, Unseeding, Booting
  <2> QED
    BY <2>2, <2>3
<1>3. CASE run[r].command = "downgrade" /\ run[r].rev = 2
  <2>1. run[r].at \in (1 .. 3) \cup {10} /\ run[r].ins = {}
    <3>1. run[r].at \in 1 .. 10
      BY <1>3, NowIs
    <3> QED
      BY <1>3, <3>1, OpIs DEF Added, IsDdl
  <2>2. CASE run[r].at = 10
    <3>1. Now(r).op = "stamp"
      BY <1>3, <2>2, NowIs, SeedDownIs DEF Stamp, Statement
    <3> QED
      BY <1>3, <2>1, <2>2, <3>1, SeedDownIs DEF Deleted, Current, Unseeding
  <2>3. CASE run[r].at # 10
    <3>1. Objs(SeedDown, 4, run[r].at) = {}
      BY <2>1, <2>3, SeedDownIs
    <3> QED
      BY <1>3, <2>1, <2>3, <3>1 DEF Deleted, Current, Seeding, Unseeding, Booting
  <2> QED
    BY <2>2, <2>3
<1>4. CASE run[r].command = "bootstrap"
  <2>1. run[r].at = 6 /\ run[r].del = {}
    BY <1>4, OpIs DEF Deleted, Plain
  <2> QED
    BY <1>4, <2>1 DEF Added, Current, Booting
<1> QED
  BY <1>1, <1>2, <1>3, <1>4, ScriptIs

-----------------------------------------------------------------------------
(* The steps that commit.                                                   *)

\* The step is not one of this run.
Unmoved(s) ==
  /\ run'[s].state = run[s].state /\ run'[s].command = run[s].command
  /\ run'[s].target = run[s].target /\ run'[s].rev = run[s].rev /\ run'[s].at = run[s].at
  /\ run'[s].ins = run[s].ins /\ run'[s].del = run[s].del

\* What another run's step leaves as it was.
LEMMA UnmovedStays ==
    ASSUME NEW s \in Runners, Unmoved(s), reverted => reverted'
    PROVE  /\ On(s)' <=> On(s)
           /\ Script(s)' = Script(s)
           /\ InScript(s) => InScript(s)'
           /\ (Added(s) /\ ("organization" \in rows => "organization" \in rows')) => Added(s)'
           /\ Deleted(s) => Deleted(s)'
           /\ Seeding(s)' <=> Seeding(s)
           /\ Unseeding(s)' <=> Unseeding(s)
           /\ Booting(s)' <=> Booting(s)
           /\ Written(s)' = Written(s)
<1>1. Script(s)' = Script(s)
  BY DEF Unmoved, Script
<1>2. InScript(s) => InScript(s)'
  BY <1>1 DEF Unmoved, InScript
<1>3. (Added(s) /\ ("organization" \in rows => "organization" \in rows')) => Added(s)'
  BY DEF Unmoved, Added
<1>4. Deleted(s) => Deleted(s)'
  BY DEF Unmoved, Deleted
<1>5. On(s)' <=> On(s)
  BY DEF Unmoved, On
<1> QED
  BY <1>1, <1>2, <1>3, <1>4, <1>5 DEF Unmoved, Seeding, Unseeding, Booting, Written

\* What a run has written shows where it is.
LEMMA WrittenIs ==
    ASSUME NEW r \in Runners, On(r), InScript(r), Added(r), Deleted(r),
           run[r].command \in {"upgrade", "downgrade", "bootstrap"}
    PROVE  /\ (Seeding(r) /\ run[r].at \in 2 .. 10) => "roles" \in run[r].ins
           /\ (Unseeding(r) /\ run[r].at = 10) => run[r].del = Seeds
           /\ (Booting(r) /\ run[r].at = 6) => "account_role" \in run[r].ins
           /\ "organization" \notin run[r].del /\ "account_role" \notin run[r].del
           /\ "account" \notin run[r].del
<1>1. (Seeding(r) /\ run[r].at \in 2 .. 10) => "roles" \in run[r].ins
  BY SeedUpIs DEF Seeding, Added
<1>2. (Unseeding(r) /\ run[r].at = 10) => run[r].del = Seeds
  BY SeedDownIs DEF Unseeding, Deleted
<1>3. (Booting(r) /\ run[r].at = 6) => "account_role" \in run[r].ins
  BY DEF Booting, Added
<1>4. run[r].del \subseteq Seeds
  BY NowIs, SeedDownIs DEF Deleted
<1> QED
  BY <1>1, <1>2, <1>3, <1>4 DEF Seeds, Grants

\* Whatever is committed, all rows of 0002 are or none, and the account with
\* its role; nobody else has written the rows this takes place on.
LEMMA CommitKeeps ==
    ASSUME IInv, NEW r \in Runners, \A s \in Runners \ {r} : Unmoved(s),
           run' \in [Runners -> Runs],
           reverted => reverted',
           \/ rows' = rows
           \/ /\ On(r) /\ (IsDdl(Now(r)) \/ Now(r).op \in {"stamp", "commit"})
              /\ rows' = Current(r),
           run'[r].ins = {}, run'[r].del = {},
           On(r)' => (InScript(r)' /\ Added(r)' /\ Deleted(r)')
    PROVE  Shape' /\ Exclusive' /\ RowsInv'
<1>1. /\ On(r) => InScript(r) /\ Added(r) /\ Deleted(r)
      /\ run[r].command \in {"upgrade", "downgrade", "bootstrap"}
  BY DEF IInv, Shape, Typed, Runs
<1>2. \/ rows' = rows
      \/ Seeding(r) /\ run[r].at = 10 /\ run[r].ins = Seeds /\ rows' = rows \cup Seeds
      \/ Unseeding(r) /\ run[r].at = 10 /\ rows' = rows \ Seeds
      \/ /\ Booting(r) /\ run[r].at = 6 /\ rows' = rows \cup run[r].ins
         /\ {"account", "account_role"} \subseteq run[r].ins
         /\ run[r].ins \subseteq {"organization", "account", "account_role"}
         /\ "organization" \in rows \cup run[r].ins
  BY <1>1, CurrentIs
<1>3. "organization" \in rows => "organization" \in rows'
  BY <1>2 DEF Seeds, Grants
<1>4. \A s \in Runners \ {r} : /\ On(s)' <=> On(s)
                               /\ Seeding(s)' <=> Seeding(s)
                               /\ Unseeding(s)' <=> Unseeding(s)
                               /\ Booting(s)' <=> Booting(s)
                               /\ Written(s)' = Written(s)
                               /\ run'[s].at = run[s].at
  BY UnmovedStays DEF Unmoved
<1>5. Shape'
  <2> SUFFICES ASSUME NEW s \in Runners, On(s)' PROVE InScript(s)' /\ Added(s)' /\ Deleted(s)'
    BY DEF Shape
  <2>1. CASE s = r
    BY <2>1
  <2>2. CASE s # r
    <3>1. Unmoved(s) /\ On(s)
      BY <2>2, <1>4
    <3>2. InScript(s) /\ Added(s) /\ Deleted(s)
      BY <3>1 DEF IInv, Shape
    <3> QED
      BY <3>1, <3>2, <1>3, UnmovedStays
  <2> QED
    BY <2>1, <2>2
<1>6. Exclusive'
  <2>1. Written(r)' = {}
    BY DEF Written
  <2> SUFFICES ASSUME NEW s \in Runners, NEW q \in Runners, On(s)', On(q)', s # q
               PROVE  Written(s)' \cap Written(q)' = {}
    BY DEF Exclusive
  <2>2. CASE s # r /\ q # r
    BY <2>2, <1>4 DEF IInv, Exclusive
  <2> QED
    BY <2>1, <2>2
<1>7. ~ (Seeding(r)' /\ run'[r].at \in 2 .. 10)
  <2> SUFFICES ASSUME Seeding(r)', run'[r].at \in 2 .. 10 PROVE FALSE
    OBVIOUS
  <2>1. On(r)' /\ Added(r)' /\ run'[r].command = "upgrade" /\ run'[r].rev = 2
    BY DEF Seeding
  <2>2. run'[r].ins = Objs(SeedUp, 1, run'[r].at)
    BY <2>1 DEF Added
  <2> QED
    BY <2>2, SeedUpIs
<1>8. ~ (Unseeding(r)' /\ run'[r].at = 10)
  <2> SUFFICES ASSUME Unseeding(r)', run'[r].at = 10 PROVE FALSE
    OBVIOUS
  <2>1. On(r)' /\ Deleted(r)' /\ run'[r].command = "downgrade" /\ run'[r].rev = 2
    BY DEF Unseeding
  <2>2. run'[r].del = Objs(SeedDown, 4, 10)
    BY <2>1 DEF Deleted
  <2> QED
    BY <2>2, SeedDownIs DEF Seeds
<1>9. ~ (Booting(r)' /\ run'[r].at = 6)
  BY DEF Booting, Added
<1>10. \A s \in Runners \ {r} : On(s) =>
         /\ On(r) => Written(s) \cap Written(r) = {}
         /\ (Seeding(s) /\ run[s].at \in 2 .. 10) => "roles" \in Written(s) /\ rows \cap Seeds = {}
         /\ (Unseeding(s) /\ run[s].at = 10) => Written(s) = Seeds /\ "account_role" \notin rows
         /\ (Booting(s) /\ run[s].at = 6) =>
               /\ "account_role" \in Written(s) /\ "roles" \in rows
               /\ \A q \in Runners : Unseeding(q) => run[q].at # 10
  <2> SUFFICES ASSUME NEW s \in Runners \ {r}, On(s)
               PROVE  /\ On(r) => Written(s) \cap Written(r) = {}
                      /\ (Seeding(s) /\ run[s].at \in 2 .. 10) =>
                            "roles" \in Written(s) /\ rows \cap Seeds = {}
                      /\ (Unseeding(s) /\ run[s].at = 10) =>
                            Written(s) = Seeds /\ "account_role" \notin rows
                      /\ (Booting(s) /\ run[s].at = 6) =>
                            /\ "account_role" \in Written(s) /\ "roles" \in rows
                            /\ \A q \in Runners : Unseeding(q) => run[q].at # 10
    OBVIOUS
  <2>1. /\ InScript(s) /\ Added(s) /\ Deleted(s)
        /\ run[s].command \in {"upgrade", "downgrade", "bootstrap"}
    BY DEF IInv, Shape, Typed, Runs
  <2>2. Unseeding(s) => run[s].ins = {}
    BY <2>1 DEF Unseeding, Added
  <2>3. On(r) => Written(s) \cap Written(r) = {}
    BY DEF IInv, Exclusive
  <2>4. (Seeding(s) /\ run[s].at \in 2 .. 10) => "roles" \in Written(s)
    BY <2>1, WrittenIs DEF Written
  <2>5. (Unseeding(s) /\ run[s].at = 10) => Written(s) = Seeds
    BY <2>1, <2>2, WrittenIs DEF Written
  <2>6. (Booting(s) /\ run[s].at = 6) => "account_role" \in Written(s)
    BY <2>1, WrittenIs DEF Written
  <2> QED
    BY <2>3, <2>4, <2>5, <2>6 DEF IInv, RowsInv
<1> DEFINE Together == SeedsAllOrNone' /\ AccountHasRole' /\ ("account_role" \in rows' => "roles" \in rows')
           OthersKept == \A s \in Runners \ {r} :
             /\ (Seeding(s) /\ run[s].at \in 2 .. 10) => rows' \cap Seeds = {}
             /\ (Unseeding(s) /\ run[s].at = 10) => "account_role" \notin rows'
             /\ (Booting(s) /\ run[s].at = 6) => "roles" \in rows'
<1>11. ASSUME Together, OthersKept PROVE RowsInv'
  <2>1. ASSUME NEW s \in Runners, Seeding(s)', run'[s].at \in 2 .. 10 PROVE rows' \cap Seeds = {}
    BY <1>4, <1>7, <1>11, <2>1
  <2>2. ASSUME NEW s \in Runners, Unseeding(s)', run'[s].at = 10 PROVE "account_role" \notin rows'
    BY <1>4, <1>8, <1>11, <2>2
  <2>3. ASSUME NEW s \in Runners, Booting(s)', run'[s].at = 6
        PROVE  "roles" \in rows' /\ \A q \in Runners : Unseeding(q)' => run'[q].at # 10
    <3>1. s # r /\ Booting(s) /\ run[s].at = 6
      BY <1>4, <1>9, <2>3
    <3>2. \A q \in Runners : Unseeding(q) => run[q].at # 10
      BY <3>1 DEF IInv, RowsInv
    <3>3. \A q \in Runners : Unseeding(q)' => run'[q].at # 10
      BY <3>2, <1>4, <1>8
    <3> QED
      BY <3>1, <3>3, <1>11
  <2> QED
    BY <1>11, <2>1, <2>2, <2>3 DEF RowsInv
<1>12. CASE rows' = rows
  <2>1. Together
    BY <1>12 DEF IInv, RowsInv, SeedsAllOrNone, AccountHasRole
  <2>2. OthersKept
    BY <1>10, <1>12 DEF Seeding, Unseeding, Booting
  <2> QED
    BY <1>5, <1>6, <1>11, <2>1, <2>2
<1>13. CASE Seeding(r) /\ run[r].at = 10 /\ run[r].ins = Seeds /\ rows' = rows \cup Seeds
  <2>1. rows \cap Seeds = {} /\ Seeds \subseteq Written(r)
    BY <1>13 DEF IInv, RowsInv, Written
  <2>2. "roles" \in Seeds /\ "account_role" \notin Seeds /\ "account" \notin Seeds
    BY DEF Seeds, Grants
  <2>3. Together
    <3>1. "account" \notin rows
      BY <2>1, <2>2 DEF IInv, RowsInv, AccountHasRole
    <3> QED
      BY <1>13, <2>1, <2>2, <3>1 DEF SeedsAllOrNone, AccountHasRole
  <2>4. OthersKept
    <3> SUFFICES ASSUME NEW s \in Runners \ {r}
                 PROVE  /\ ~ (Seeding(s) /\ run[s].at \in 2 .. 10)
                        /\ (Unseeding(s) /\ run[s].at = 10) => "account_role" \notin rows'
                        /\ (Booting(s) /\ run[s].at = 6) => "roles" \in rows'
      OBVIOUS
    <3> QED
      BY <1>10, <1>13, <2>1, <2>2 DEF Seeding, Unseeding, Booting
  <2> QED
    BY <1>5, <1>6, <1>11, <2>3, <2>4
<1>14. CASE Unseeding(r) /\ run[r].at = 10 /\ rows' = rows \ Seeds
  <2>1. "account_role" \notin rows /\ rows' \cap Seeds = {} /\ "account_role" \notin rows'
    BY <1>14 DEF IInv, RowsInv
  <2>2. "account" \notin rows'
    BY <1>14, <2>1 DEF IInv, RowsInv, AccountHasRole
  <2>3. Together
    BY <2>1, <2>2 DEF SeedsAllOrNone, AccountHasRole
  <2>4. \A s \in Runners \ {r} : ~ (Booting(s) /\ run[s].at = 6)
    BY <1>14 DEF IInv, RowsInv
  <2>5. OthersKept
    BY <2>1, <2>4
  <2> QED
    BY <1>5, <1>6, <1>11, <2>3, <2>5
<1>15. CASE /\ Booting(r) /\ run[r].at = 6 /\ rows' = rows \cup run[r].ins
            /\ {"account", "account_role"} \subseteq run[r].ins
            /\ run[r].ins \subseteq {"organization", "account", "account_role"}
            /\ "organization" \in rows \cup run[r].ins
  <2>1. "roles" \in rows /\ \A s \in Runners : Unseeding(s) => run[s].at # 10
    BY <1>15 DEF IInv, RowsInv
  <2>2. run[r].ins \cap Seeds = {} /\ {"roles", "permissions", "controller_grants"} \subseteq Seeds
    BY <1>15 DEF Seeds, Grants
  <2>3. rows \cap Seeds = Seeds
    BY <2>1, <2>2 DEF IInv, RowsInv, SeedsAllOrNone
  <2>4. rows' \cap Seeds = Seeds
    BY <1>15, <2>2, <2>3
  <2>5. Together
    BY <1>15, <2>2, <2>4 DEF SeedsAllOrNone, AccountHasRole
  <2>6. OthersKept
    <3> SUFFICES ASSUME NEW s \in Runners \ {r}
                 PROVE  ~ (Seeding(s) /\ run[s].at \in 2 .. 10)
      BY <2>1, <2>2, <2>4
    <3> QED
      BY <1>10, <2>2, <2>3 DEF Seeding
  <2> QED
    BY <1>5, <1>6, <1>11, <2>5, <2>6
<1> QED
  BY <1>2, <1>12, <1>13, <1>14, <1>15

-----------------------------------------------------------------------------
(* The steps that write rows.                                               *)

\* A run that has moved on is a run.
LEMMA RunMoves ==
    ASSUME NEW x \in Runs, NEW n \in Nat \ {0}, NEW i \in SUBSET RowNames, NEW d \in SUBSET RowNames
    PROVE  [x EXCEPT !.at = n, !.ins = i, !.del = d] \in Runs
  BY DEF Runs

\* A statement that writes rows keeps the invariant.
LEMMA WriteKeeps ==
    ASSUME IInv, NEW r \in Runners, Write(r)
    PROVE  IInv'
<1> DEFINE added == CASE Now(r).op = "insert" -> Now(r).obj
                      [] Now(r).op = "copy"   ->
                           IF Now(r).of \subseteq Current(r) THEN Now(r).obj ELSE {}
                      [] Now(r).op = "ensure" -> Now(r).obj \ run[r].seen
                      [] Now(r).op = "delete" -> {}
           gone == IF Now(r).op = "delete" THEN Now(r).obj ELSE {}
<1>1. /\ On(r) /\ InScript(r) /\ Added(r) /\ Deleted(r)
      /\ run[r].command \in {"upgrade", "downgrade", "bootstrap"}
      /\ ~ Waits(r) /\ ~ Errs(r)
      /\ UNCHANGED <<schema, rows, version, reverted>>
  BY DEF IInv, Shape, Typed, Runs, Write
<1>2. run' = [run EXCEPT ![r].at = @ + 1,
                         ![r].ins = (run[r].ins \ gone) \cup added,
                         ![r].del = (run[r].del \ added) \cup gone]
  BY DEF Write
<1>3. Now(r).op \in {"insert", "copy", "ensure", "delete"}
  BY DEF Write
<1>4. \/ run[r].command = "upgrade" /\ run[r].rev = 2 /\ run[r].at \in 1 .. 9
      \/ run[r].command = "downgrade" /\ run[r].rev = 2 /\ run[r].at \in 4 .. 9
      \/ run[r].command = "bootstrap" /\ run[r].at \in 3 .. 5
  BY <1>1, <1>3, OpIs
<1>up. ASSUME run[r].command = "upgrade"
       PROVE  /\ Now(r) = SeedUp[run[r].at] /\ run[r].at \in 1 .. 9 /\ run[r].rev = 2
              /\ added = Now(r).obj /\ gone = {}
  <2>1. Now(r) = SeedUp[run[r].at] /\ run[r].at \in 1 .. 9 /\ run[r].rev = 2
    BY <1>1, <1>4, <1>up, NowIs
  <2>2. Objs(SeedUp, 1, run[r].at) \subseteq Current(r)
    BY <1>1, <1>up, <2>1 DEF Added, Current
  <2>3. \/ Now(r).op = "insert"
        \/ Now(r).op = "copy" /\ Now(r).of \subseteq Current(r)
    BY <2>1, <2>2, SeedUpIs
  <2> QED
    BY <2>1, <2>3
<1>down. ASSUME run[r].command = "downgrade"
         PROVE  /\ Now(r) = SeedDown[run[r].at] /\ run[r].at \in 4 .. 9 /\ run[r].rev = 2
                /\ added = {} /\ gone = Now(r).obj /\ Now(r).op = "delete"
  <2>1. Now(r) = SeedDown[run[r].at] /\ run[r].at \in 4 .. 9 /\ run[r].rev = 2
    BY <1>1, <1>4, <1>down, NowIs
  <2>2. Now(r).op = "delete"
    BY <2>1, SeedDownIs
  <2> QED
    BY <2>1, <2>2
<1>boot. ASSUME run[r].command = "bootstrap"
         PROVE  /\ Now(r) = Bootstrap[run[r].at] /\ run[r].at \in 3 .. 5 /\ gone = {}
                /\ run[r].at = 3 => added \subseteq {"organization"} /\ Now(r).on = {"organization"}
                /\ run[r].at = 4 => /\ added = {"account"} /\ Now(r).op = "insert"
                                    /\ Now(r).of = {"organization"} /\ "account" \in Now(r).on
                /\ run[r].at = 5 => /\ added = {"account_role"} /\ Now(r).op = "insert"
                                    /\ Now(r).of = {"account", "roles"}
                                    /\ {"account_role", "roles"} \subseteq Now(r).on
  <2>1. Now(r) = Bootstrap[run[r].at] /\ run[r].at \in 3 .. 5
    BY <1>1, <1>4, <1>boot, NowIs
  <2>2. CASE run[r].at = 3
    <3>1. Now(r).op = "ensure" /\ Now(r).obj = {"organization"} /\ Now(r).on = {"organization"}
      BY <2>1, <2>2, BootstrapIs DEF Statement
    <3> QED
      BY <2>1, <2>2, <3>1
  <2>3. CASE run[r].at = 4
    <3>1. /\ Now(r).op = "insert" /\ Now(r).obj = {"account"}
          /\ Now(r).of = {"organization"} /\ "account" \in Now(r).on
      BY <2>1, <2>3, BootstrapIs DEF InsertRows, Statement
    <3> QED
      BY <2>1, <2>3, <3>1
  <2>4. CASE run[r].at = 5
    <3>1. /\ Now(r).op = "insert" /\ Now(r).obj = {"account_role"}
          /\ Now(r).of = {"account", "roles"} /\ {"account_role", "roles"} \subseteq Now(r).on
      BY <2>1, <2>4, BootstrapIs DEF InsertRows, Statement
    <3> QED
      BY <2>1, <2>4, <3>1
  <2>5. run[r].at = 3 \/ run[r].at = 4 \/ run[r].at = 5
    BY <2>1
  <2> QED
    BY <2>2, <2>3, <2>4, <2>5
<1> HIDE DEF added, gone
<1>5. added \subseteq RowNames /\ gone \subseteq RowNames
  <2>1. CASE run[r].command = "upgrade"
    BY <1>up, <2>1, SeedUpIs DEF RowNames
  <2>2. CASE run[r].command = "downgrade"
    BY <1>down, <2>2, SeedDownIs DEF RowNames
  <2>3. CASE run[r].command = "bootstrap"
    BY <1>boot, <2>3 DEF RowNames
  <2> QED
    BY <1>1, <2>1, <2>2, <2>3
<1>6. /\ \A s \in Runners \ {r} : Unmoved(s)
      /\ run'[r].state = run[r].state /\ run'[r].command = run[r].command
      /\ run'[r].target = run[r].target /\ run'[r].rev = run[r].rev
      /\ run'[r].at = run[r].at + 1
      /\ run'[r].ins = (run[r].ins \ gone) \cup added
      /\ run'[r].del = (run[r].del \ added) \cup gone
  BY <1>2 DEF IInv, Typed, Runs, Unmoved
<1>7. Typed'
  <2> DEFINE n == run[r].at + 1
             i == (run[r].ins \ gone) \cup added
             d == (run[r].del \ added) \cup gone
  <2>1. n \in Nat \ {0} /\ i \in SUBSET RowNames /\ d \in SUBSET RowNames
    BY <1>5 DEF IInv, Typed, Runs
  <2>2. run' = [run EXCEPT ![r] = run'[r]]
    BY <1>2 DEF IInv, Typed
  <2>3. run'[r] = [run[r] EXCEPT !.at = n, !.ins = i, !.del = d]
    BY <1>2 DEF IInv, Typed
  <2>4. run'[r] \in Runs
    <3>1. run[r] \in Runs
      BY DEF IInv, Typed
    <3> HIDE DEF n, i, d
    <3>2. [run[r] EXCEPT !.at = n, !.ins = i, !.del = d] \in Runs
      BY <2>1, <3>1, RunMoves
    <3> QED
      BY <2>3, <3>2
  <2>5. run' \in [Runners -> Runs]
    BY <2>2, <2>4 DEF IInv, Typed
  <2> QED
    BY <1>1, <2>5 DEF IInv, Typed
<1>8. /\ Script(r)' = Script(r) /\ On(r)' = On(r)
      /\ \A s \in Runners \ {r} :
           /\ On(s)' <=> On(s)
           /\ Seeding(s)' <=> Seeding(s)
           /\ Unseeding(s)' <=> Unseeding(s)
           /\ Booting(s)' <=> Booting(s)
           /\ Written(s)' = Written(s)
           /\ run'[s].at = run[s].at
  BY <1>1, <1>6, UnmovedStays DEF Unmoved, Script, On
<1>9. InScript(r)'
  <2>1. run[r].at + 1 \in 1 .. Len(Script(r))
    <3>1. run[r].command = "upgrade" => Len(Script(r)) = 13 /\ run[r].at \in 1 .. 9
      BY <1>1, <1>4, ScriptIs, SeedUpIs
    <3>2. run[r].command = "downgrade" => Len(Script(r)) = 10 /\ run[r].at \in 4 .. 9
      BY <1>1, <1>4, ScriptIs, SeedDownIs
    <3>3. run[r].command = "bootstrap" => Len(Script(r)) = 6 /\ run[r].at \in 3 .. 5
      BY <1>1, <1>4, ScriptIs, BootstrapIs
    <3>4. run[r].command \in {"upgrade", "downgrade", "bootstrap"}
      BY <1>1
    <3>5. CASE run[r].command = "upgrade"
      <4>1. Len(Script(r)) = 13 /\ run[r].at \in 1 .. 9
        BY <3>1, <3>5
      <4> QED
        BY <4>1
    <3>6. CASE run[r].command = "downgrade"
      <4>1. Len(Script(r)) = 10 /\ run[r].at \in 4 .. 9
        BY <3>2, <3>6
      <4> QED
        BY <4>1
    <3>7. CASE run[r].command = "bootstrap"
      <4>1. Len(Script(r)) = 6 /\ run[r].at \in 3 .. 5
        BY <3>3, <3>7
      <4> QED
        BY <4>1
    <3> QED
      BY <3>4, <3>5, <3>6, <3>7
  <2> QED
    BY <1>1, <1>6, <1>8, <2>1 DEF InScript
<1>10. \A s \in Runners \ {r} : On(s) => Held(s) \cap Now(r).on = {}
  BY <1>1 DEF Waits
<1>11. ASSUME Added(r)', Deleted(r)' PROVE Shape'
  <2> SUFFICES ASSUME NEW s \in Runners, On(s)' PROVE InScript(s)' /\ Added(s)' /\ Deleted(s)'
    BY DEF Shape
  <2>1. CASE s = r
    BY <1>9, <1>11, <2>1
  <2>2. CASE s # r
    <3>1. Unmoved(s) /\ On(s)
      BY <2>2, <1>6, <1>8
    <3>2. InScript(s) /\ Added(s) /\ Deleted(s)
      BY <3>1 DEF IInv, Shape
    <3> QED
      BY <3>1, <3>2, <1>1, UnmovedStays
  <2> QED
    BY <2>1, <2>2
<1>12. ASSUME added \cup gone \subseteq Now(r).on PROVE Exclusive'
  <2>1. Written(r)' \subseteq Written(r) \cup Now(r).on
    BY <1>6, <1>12 DEF Written
  <2>2. \A s \in Runners \ {r} : Written(s) \subseteq Held(s)
    BY DEF Written, Held
  <2>3. \A s \in Runners \ {r} : On(s) => Written(s) \cap Written(r) = {}
    BY <1>1 DEF IInv, Exclusive
  <2>4. ASSUME NEW s \in Runners \ {r}, On(s)' PROVE Written(s)' \cap Written(r)' = {}
    BY <1>8, <1>10, <2>1, <2>2, <2>3, <2>4
  <2>5. ASSUME NEW s \in Runners \ {r}, NEW q \in Runners \ {r}, On(s)', On(q)', s # q
        PROVE  Written(s)' \cap Written(q)' = {}
    BY <1>8, <2>5 DEF IInv, Exclusive
  <2> QED
    BY <2>4, <2>5 DEF Exclusive
<1> DEFINE RowsStay ==
             /\ (Seeding(r) /\ run[r].at + 1 \in 2 .. 10) => rows \cap Seeds = {}
             /\ (Unseeding(r) /\ run[r].at + 1 = 10) =>
                   /\ "account_role" \notin rows
                   /\ \A s \in Runners \ {r} : Booting(s) => run[s].at # 6
             /\ (Booting(r) /\ run[r].at + 1 = 6) =>
                   /\ "roles" \in rows
                   /\ \A s \in Runners \ {r} : Unseeding(s) => run[s].at # 10
<1>13. ASSUME RowsStay PROVE RowsInv'
  <2>1. Seeding(r)' = Seeding(r) /\ Unseeding(r)' = Unseeding(r) /\ Booting(r)' = Booting(r)
    BY <1>6, <1>8 DEF Seeding, Unseeding, Booting
  <2>2. ~ (Booting(r) /\ Unseeding(r))
    BY DEF Booting, Unseeding
  <2>3. rows' = rows /\ run'[r].at = run[r].at + 1
    BY <1>1, <1>6
  <2>4. SeedsAllOrNone' /\ AccountHasRole' /\ ("account_role" \in rows' => "roles" \in rows')
    BY <2>3 DEF IInv, RowsInv, SeedsAllOrNone, AccountHasRole
  <2>5. ASSUME NEW s \in Runners, Seeding(s)', run'[s].at \in 2 .. 10 PROVE rows' \cap Seeds = {}
    BY <1>8, <1>13, <2>1, <2>3, <2>5 DEF IInv, RowsInv
  <2>6. ASSUME NEW s \in Runners, Unseeding(s)', run'[s].at = 10 PROVE "account_role" \notin rows'
    BY <1>8, <1>13, <2>1, <2>3, <2>6 DEF IInv, RowsInv
  <2>7. ASSUME NEW s \in Runners, Booting(s)', run'[s].at = 6
        PROVE  "roles" \in rows' /\ \A q \in Runners : Unseeding(q)' => run'[q].at # 10
    <3>1. CASE s = r
      BY <1>8, <1>13, <2>1, <2>2, <2>3, <2>7, <3>1
    <3>2. CASE s # r
      <4>1. Booting(s) /\ run[s].at = 6
        BY <1>8, <2>7, <3>2
      <4>2. "roles" \in rows /\ \A q \in Runners : Unseeding(q) => run[q].at # 10
        BY <4>1 DEF IInv, RowsInv
      <4>3. Unseeding(r) => run[r].at + 1 # 10
        BY <1>13, <3>2, <4>1
      <4> QED
        BY <1>8, <2>1, <2>3, <4>2, <4>3
    <3> QED
      BY <3>1, <3>2
  <2> QED
    BY <2>4, <2>5, <2>6, <2>7 DEF RowsInv
<1>14. CASE run[r].command = "upgrade"
  <2>1. /\ Now(r) = SeedUp[run[r].at] /\ run[r].at \in 1 .. 9 /\ run[r].rev = 2
        /\ added = SeedUp[run[r].at].obj /\ gone = {}
    BY <1>up, <1>14
  <2>2. run[r].ins = Objs(SeedUp, 1, run[r].at) /\ run[r].del = {}
    BY <1>1, <1>14, <2>1 DEF Added, Deleted
  <2>3. run'[r].ins = Objs(SeedUp, 1, run[r].at + 1) /\ run'[r].del = {}
    <3>1. Objs(SeedUp, 1, run[r].at + 1) = Objs(SeedUp, 1, run[r].at) \cup SeedUp[run[r].at].obj
      <4>1. run[r].at \in Nat /\ 1 <= run[r].at
        BY <2>1
      <4>2. \A m \in Nat : m <= run[r].at =>
              Objs(SeedUp, m, run[r].at + 1) = Objs(SeedUp, m, run[r].at) \cup SeedUp[run[r].at].obj
        BY <4>1, ObjsGrow, Zenon
      <4> QED
        BY <4>1, <4>2
    <3> QED
      BY <1>6, <2>1, <2>2, <3>1
  <2>4. Added(r)' /\ Deleted(r)'
    <3>1. run'[r].at <= 10
      BY <1>6, <2>1
    <3> QED
      BY <1>6, <1>14, <2>1, <2>3, <3>1 DEF Added, Deleted
  <2>5. rows \cap Seeds = {}
    <3>1. CASE run[r].at = 1
      <4>1. Now(r).op = "insert" /\ Now(r).obj = {"roles"} /\ Now(r).op # "copy"
        BY <2>1, <3>1, SeedUpIs
      <4>2. "roles" \notin rows
        BY <1>1, <2>2, <4>1 DEF Errs, Current
      <4> QED
        BY <4>2 DEF IInv, RowsInv, SeedsAllOrNone, Seeds
    <3>2. CASE run[r].at # 1
      <4>1. Seeding(r) /\ run[r].at \in 2 .. 10
        BY <1>1, <1>14, <2>1, <3>2 DEF Seeding
      <4> QED
        BY <4>1 DEF IInv, RowsInv
    <3> QED
      BY <3>1, <3>2
  <2>6. added \cup gone \subseteq Now(r).on
    BY <2>1, SeedUpIs
  <2>7. RowsStay
    BY <1>14, <2>5 DEF Unseeding, Booting
  <2> QED
    BY <1>7, <1>11, <1>12, <1>13, <2>4, <2>6, <2>7 DEF IInv
<1>15. CASE run[r].command = "downgrade"
  <2>1. /\ Now(r) = SeedDown[run[r].at] /\ run[r].at \in 4 .. 9 /\ run[r].rev = 2
        /\ added = {} /\ gone = SeedDown[run[r].at].obj /\ Now(r).op = "delete"
    BY <1>down, <1>15
  <2>2. run[r].ins = {} /\ run[r].del = Objs(SeedDown, 4, run[r].at)
    BY <1>1, <1>15, <2>1 DEF Added, Deleted
  <2>3. run'[r].ins = {} /\ run'[r].del = Objs(SeedDown, 4, run[r].at + 1)
    <3>1. Objs(SeedDown, 4, run[r].at + 1) = Objs(SeedDown, 4, run[r].at) \cup SeedDown[run[r].at].obj
      <4>1. run[r].at \in Nat /\ 4 <= run[r].at
        BY <2>1
      <4>2. \A m \in Nat : m <= run[r].at =>
              Objs(SeedDown, m, run[r].at + 1) = Objs(SeedDown, m, run[r].at) \cup SeedDown[run[r].at].obj
        BY <4>1, ObjsGrow, Zenon
      <4> QED
        BY <4>1, <4>2
    <3> QED
      BY <1>6, <2>1, <2>2, <3>1
  <2>4. Added(r)' /\ Deleted(r)'
    BY <1>6, <1>15, <2>1, <2>3 DEF Added, Deleted
  <2>5. run[r].at = 9 => /\ "account_role" \notin rows
                         /\ \A s \in Runners \ {r} : Booting(s) => run[s].at # 6
    <3> SUFFICES ASSUME run[r].at = 9
                 PROVE  /\ "account_role" \notin rows
                        /\ \A s \in Runners \ {r} : Booting(s) => run[s].at # 6
      OBVIOUS
    <3>1. "account_role" \in Now(r).on /\ "account_role" \in Now(r).of
      BY <2>1, SeedDownIs
    <3>2. "account_role" \notin Current(r)
      BY <1>1, <2>1, <3>1 DEF Errs
    <3>3. "account_role" \notin rows
      BY <1>1, <3>2, WrittenIs DEF Current
    <3>4. ASSUME NEW s \in Runners \ {r}, Booting(s), run[s].at = 6 PROVE FALSE
      <4>1. /\ On(s) /\ InScript(s) /\ Added(s) /\ Deleted(s)
            /\ run[s].command \in {"upgrade", "downgrade", "bootstrap"}
        BY <3>4 DEF Booting, IInv, Shape, Typed, Runs
      <4>2. "account_role" \in Held(s)
        BY <3>4, <4>1, WrittenIs DEF Held
      <4> QED
        BY <1>10, <3>1, <4>1, <4>2
    <3> QED
      BY <3>3, <3>4
  <2>6. added \cup gone \subseteq Now(r).on
    BY <2>1, SeedDownIs
  <2>7. RowsStay
    BY <1>15, <2>1, <2>5 DEF Seeding, Booting
  <2> QED
    BY <1>7, <1>11, <1>12, <1>13, <2>4, <2>6, <2>7 DEF IInv
<1>16. CASE run[r].command = "bootstrap"
  <2>1. /\ Now(r) = Bootstrap[run[r].at] /\ run[r].at \in 3 .. 5 /\ gone = {}
        /\ run[r].at = 3 => added \subseteq {"organization"} /\ Now(r).on = {"organization"}
        /\ run[r].at = 4 => /\ added = {"account"} /\ Now(r).op = "insert"
                            /\ Now(r).of = {"organization"} /\ "account" \in Now(r).on
        /\ run[r].at = 5 => /\ added = {"account_role"} /\ Now(r).op = "insert"
                            /\ Now(r).of = {"account", "roles"}
                            /\ {"account_role", "roles"} \subseteq Now(r).on
    BY <1>boot, <1>16
  <2>2. /\ run[r].del = {}
        /\ run[r].ins \subseteq {"organization", "account", "account_role"}
        /\ run[r].at <= 3 => run[r].ins = {}
        /\ "account" \in run[r].ins <=> run[r].at >= 5
        /\ "account_role" \in run[r].ins <=> run[r].at >= 6
        /\ run[r].at >= 5 => "organization" \in rows \cup run[r].ins
    BY <1>1, <1>16 DEF Added, Deleted
  <2>3. run'[r].ins = run[r].ins \cup added /\ run'[r].del = {}
    BY <1>6, <2>1, <2>2
  <2>4. Deleted(r)'
    BY <1>6, <1>16, <2>3 DEF Deleted
  <2>5. CASE run[r].at = 3
    <3>1. Added(r)'
      BY <1>6, <1>16, <2>1, <2>2, <2>3, <2>5 DEF Added
    <3>2. RowsStay
      BY <1>16, <2>5 DEF Seeding, Unseeding
    <3> QED
      BY <1>7, <1>11, <1>12, <1>13, <2>1, <2>4, <2>5, <3>1, <3>2 DEF IInv
  <2>6. CASE run[r].at = 4
    <3>1. "organization" \in rows \cup run[r].ins
      BY <1>1, <2>1, <2>6 DEF Errs, Current
    <3>2. Added(r)'
      BY <1>1, <1>6, <1>16, <2>1, <2>2, <2>3, <2>6, <3>1 DEF Added
    <3>3. RowsStay
      BY <1>16, <2>6 DEF Seeding, Unseeding
    <3> QED
      BY <1>7, <1>11, <1>12, <1>13, <2>1, <2>4, <2>6, <3>2, <3>3 DEF IInv
  <2>7. CASE run[r].at = 5
    <3>1. Added(r)'
      BY <1>1, <1>6, <1>16, <2>1, <2>2, <2>3, <2>7 DEF Added
    <3>2. "roles" \in rows
      <4>1. "roles" \in Current(r)
        BY <1>1, <2>1, <2>7 DEF Errs
      <4> QED
        BY <2>2, <4>1 DEF Current
    <3>3. ASSUME NEW s \in Runners \ {r}, Unseeding(s), run[s].at = 10 PROVE FALSE
      <4>1. /\ On(s) /\ InScript(s) /\ Added(s) /\ Deleted(s)
            /\ run[s].command \in {"upgrade", "downgrade", "bootstrap"}
        BY <3>3 DEF Unseeding, IInv, Shape, Typed, Runs
      <4>2. "roles" \in Held(s)
        BY <3>3, <4>1, WrittenIs DEF Held, Seeds
      <4> QED
        BY <1>10, <2>1, <2>7, <4>1, <4>2
    <3>4. RowsStay
      BY <1>16, <3>2, <3>3 DEF Seeding, Unseeding
    <3> QED
      BY <1>7, <1>11, <1>12, <1>13, <2>1, <2>4, <2>7, <3>1, <3>4 DEF IInv
  <2> QED
    BY <2>1, <2>5, <2>6, <2>7
<1> QED
  BY <1>1, <1>14, <1>15, <1>16

-----------------------------------------------------------------------------
(* The other steps.                                                         *)

\* A record that differs from a run in what a step may change is a run.
LEMMA RunChanges ==
    ASSUME NEW x \in Runs, NEW st \in {"idle", "on", "done", "failed"}, NEW n \in Nat \ {0}
    PROVE  /\ [x EXCEPT !.at = n, !.ins = {}, !.del = {}] \in Runs
           /\ [x EXCEPT !.state = st, !.at = n, !.ins = {}, !.del = {}] \in Runs
           /\ [x EXCEPT !.state = st, !.ins = {}, !.del = {}] \in Runs
           /\ [x EXCEPT !.at = n] \in Runs
           /\ \A k \in 0 .. Latest + 1 :
                [x EXCEPT !.state = st, !.rev = k, !.at = n, !.ins = {}, !.del = {}] \in Runs
           /\ \A q \in SUBSET RowNames : [x EXCEPT !.seen = q, !.state = st, !.at = n] \in Runs
<1>1. [x EXCEPT !.at = n, !.ins = {}, !.del = {}] \in Runs
  BY DEF Runs
<1>2. [x EXCEPT !.state = st, !.at = n, !.ins = {}, !.del = {}] \in Runs
  BY DEF Runs
<1>3. [x EXCEPT !.state = st, !.ins = {}, !.del = {}] \in Runs
  BY DEF Runs
<1>4. [x EXCEPT !.at = n] \in Runs
  BY DEF Runs
<1>5. ASSUME NEW k \in 0 .. Latest + 1
      PROVE  [x EXCEPT !.state = st, !.rev = k, !.at = n, !.ins = {}, !.del = {}] \in Runs
  <2> DEFINE y == [x EXCEPT !.state = st, !.at = n, !.ins = {}, !.del = {}]
  <2>1. y \in Runs
    BY <1>2
  <2>2. [y EXCEPT !.rev = k] \in Runs
    <3> HIDE DEF y
    <3> QED
      BY <2>1 DEF Runs
  <2>3. [x EXCEPT !.state = st, !.rev = k, !.at = n, !.ins = {}, !.del = {}] = [y EXCEPT !.rev = k]
    BY DEF Runs
  <2> QED
    BY <2>2, <2>3
<1>6. ASSUME NEW q \in SUBSET RowNames
      PROVE  [x EXCEPT !.seen = q, !.state = st, !.at = n] \in Runs
  BY DEF Runs
<1> QED
  BY <1>1, <1>2, <1>3, <1>4, <1>5, <1>6

\* A run that has just begun a revision, or the bootstrap.
Fresh(r) ==
  /\ run[r].command \in {"upgrade", "downgrade", "bootstrap"}
  /\ run[r].command = "upgrade" => (run[r].rev \in 1 .. Latest /\ run[r].target = Latest)
  /\ run[r].command = "downgrade" =>
        (run[r].rev \in 1 .. Latest /\ run[r].target < run[r].rev /\ reverted)
  /\ run[r].at = 1 /\ run[r].ins = {} /\ run[r].del = {}

FreshStarts == \A r \in Runners : Fresh(r) => InScript(r) /\ Added(r) /\ Deleted(r)

\* Every script has a first statement, and before it nothing is written.
LEMMA FreshIs == FreshStarts
<1> SUFFICES ASSUME NEW r \in Runners, Fresh(r) PROVE InScript(r) /\ Added(r) /\ Deleted(r)
  BY DEF FreshStarts
<1>1. run[r].command \in {"upgrade", "downgrade"} => run[r].rev \in {1, 2, 3}
  BY DEF Fresh, Latest
<1>2. /\ Upgrades[1] = ModelsUp /\ Upgrades[2] = SeedUp /\ Upgrades[3] = AccountUp
      /\ Downgrades[1] = ModelsDown /\ Downgrades[2] = SeedDown /\ Downgrades[3] = AccountDown
  BY DEF Upgrades, Downgrades
<1>3. /\ Len(ModelsUp) \in Nat \ {0} /\ Len(SeedUp) = 13 /\ Len(AccountUp) \in Nat \ {0}
      /\ Len(ModelsDown) \in Nat \ {0} /\ Len(SeedDown) = 10 /\ Len(AccountDown) \in Nat \ {0}
      /\ Len(Bootstrap) = 6
  BY ModelsScripts, AccountScripts, SeedUpIs, SeedDownIs, BootstrapIs DEF Ddl
<1> DEFINE Scripts == {ModelsUp, SeedUp, AccountUp, ModelsDown, SeedDown, AccountDown, Bootstrap}
<1>4. 1 \in 1 .. Len(Script(r))
  <2>1. Script(r) \in Scripts
    <3>1. CASE run[r].command = "upgrade"
      <4>1. Script(r) = Upgrades[run[r].rev]
        BY <3>1 DEF Script
      <4> QED
        BY <1>1, <1>2, <3>1, <4>1
    <3>2. CASE run[r].command = "downgrade"
      <4>1. Script(r) = Downgrades[run[r].rev]
        BY <3>2 DEF Script
      <4> QED
        BY <1>1, <1>2, <3>2, <4>1
    <3>3. CASE run[r].command = "bootstrap"
      BY <3>3 DEF Script
    <3> QED
      BY <3>1, <3>2, <3>3 DEF Fresh
  <2>2. \A q \in Scripts : Len(q) \in Nat \ {0}
    <3>1. Len(SeedUp) \in Nat \ {0} /\ Len(SeedDown) \in Nat \ {0} /\ Len(Bootstrap) \in Nat \ {0}
      BY <1>3
    <3> QED
      BY <1>3, <3>1, Zenon
  <2> HIDE DEF Scripts
  <2>3. Len(Script(r)) \in Nat \ {0}
    BY <2>1, <2>2
  <2> QED
    BY <2>3
<1>5. InScript(r)
  BY <1>4 DEF InScript, Fresh
<1>6. Objs(SeedUp, 1, 1) = {} /\ Objs(SeedDown, 4, 1) = {}
  BY SeedUpIs, SeedDownIs
<1>7. Added(r)
  BY <1>6 DEF Added, Fresh
<1>8. Deleted(r)
  BY <1>6 DEF Deleted, Fresh
<1> QED
  BY <1>5, <1>7, <1>8

\* A DDL statement.
LEMMA DefineKeeps ==
    ASSUME IInv, NEW r \in Runners, Define(r)
    PROVE  IInv'
<1>1. /\ On(r) /\ IsDdl(Now(r)) /\ InScript(r) /\ Added(r) /\ Deleted(r)
      /\ run[r].command \in {"upgrade", "downgrade", "bootstrap"}
      /\ rows' = Current(r) /\ UNCHANGED <<version, reverted>>
  BY DEF IInv, Shape, Typed, Runs, Define
<1> DEFINE n == run[r].at + 1
<1>2. run' = [run EXCEPT ![r].at = n, ![r].ins = {}, ![r].del = {}]
  BY DEF Define
<1>3. run[r] \in Runs /\ n \in Nat \ {0}
  BY DEF IInv, Typed, Runs
<1>4. /\ run' = [run EXCEPT ![r] = run'[r]]
      /\ run'[r] = [run[r] EXCEPT !.at = n, !.ins = {}, !.del = {}]
  BY <1>2 DEF IInv, Typed
<1>5. run' \in [Runners -> Runs]
  <2> HIDE DEF n
  <2>1. [run[r] EXCEPT !.at = n, !.ins = {}, !.del = {}] \in Runs
    BY <1>3, RunChanges
  <2> QED
    BY <1>4, <2>1 DEF IInv, Typed
<1>6. /\ run'[r].state = run[r].state /\ run'[r].command = run[r].command
      /\ run'[r].target = run[r].target /\ run'[r].rev = run[r].rev
      /\ run'[r].at = run[r].at + 1 /\ run'[r].ins = {} /\ run'[r].del = {}
      /\ \A s \in Runners \ {r} : Unmoved(s)
  BY <1>3, <1>4 DEF IInv, Typed, Runs, Unmoved
<1>7. \/ Plain(r) /\ run[r].at # Len(Script(r))
      \/ run[r].command = "upgrade" /\ run[r].rev = 2 /\ run[r].at \in 10 .. 12
      \/ run[r].command = "downgrade" /\ run[r].rev = 2 /\ run[r].at \in 1 .. 3
  BY <1>1, OpIs
<1>8. InScript(r)' /\ Added(r)' /\ Deleted(r)'
  <2>1. run[r].at + 1 \in 1 .. Len(Script(r))
    <3>1. CASE Plain(r) /\ run[r].at # Len(Script(r))
      <4>1. Len(Script(r)) \in Nat /\ run[r].at \in 1 .. Len(Script(r))
        BY <1>1, <3>1, ScriptIs DEF Ddl, InScript
      <4> QED
        BY <3>1, <4>1
    <3>2. CASE run[r].command = "upgrade" /\ run[r].rev = 2 /\ run[r].at \in 10 .. 12
      <4>1. Len(Script(r)) = 13 /\ run[r].at \in 10 .. 12
        BY <1>1, <3>2, ScriptIs, SeedUpIs
      <4> QED
        BY <4>1
    <3>3. CASE run[r].command = "downgrade" /\ run[r].rev = 2 /\ run[r].at \in 1 .. 3
      <4>1. Len(Script(r)) = 10 /\ run[r].at \in 1 .. 3
        BY <1>1, <3>3, ScriptIs, SeedDownIs
      <4> QED
        BY <4>1
    <3> QED
      BY <1>7, <3>1, <3>2, <3>3
  <2>2. Script(r)' = Script(r)
    BY <1>6 DEF Script
  <2>3. InScript(r)'
    BY <1>1, <1>6, <2>1, <2>2 DEF InScript
  <2>4. Added(r)'
    BY <1>6, <1>7 DEF Added, Plain
  <2>5. Deleted(r)'
    <3>1. (run[r].command = "downgrade" /\ run[r].rev = 2) => run[r].at \in 1 .. 3
      BY <1>7 DEF Plain
    <3>2. (run[r].command = "downgrade" /\ run[r].rev = 2) => Objs(SeedDown, 4, run[r].at + 1) = {}
      <4> SUFFICES ASSUME run[r].command = "downgrade" /\ run[r].rev = 2
                   PROVE  Objs(SeedDown, 4, run[r].at + 1) = {}
        OBVIOUS
      <4>1. run[r].at + 1 \in 1 .. 4
        BY <3>1
      <4> QED
        BY <4>1, SeedDownIs
    <3> QED
      BY <1>6, <3>2 DEF Deleted
  <2> QED
    BY <2>3, <2>4, <2>5
<1>9. Current(r) \subseteq RowNames
  BY <1>1 DEF IInv, Typed, Runs, Current
<1>10. Shape' /\ Exclusive' /\ RowsInv'
  BY <1>1, <1>5, <1>6, <1>8, CommitKeeps
<1> QED
  BY <1>1, <1>5, <1>9, <1>10 DEF IInv, Typed

\* A step that ends a run's transaction: what the invariant asks of it.
LEMMA EndKeeps ==
    ASSUME IInv, NEW r \in Runners, NEW x \in Runs, run' = [run EXCEPT ![r] = x],
           x.ins = {}, x.del = {}, reverted' = reverted, version' \in 0 .. Latest,
           \/ rows' = rows
           \/ /\ On(r) /\ (IsDdl(Now(r)) \/ Now(r).op \in {"stamp", "commit"})
              /\ rows' = Current(r),
           On(r)' => (InScript(r)' /\ Added(r)' /\ Deleted(r)')
    PROVE  IInv'
<1>1. run' \in [Runners -> Runs] /\ run'[r] = x
  BY DEF IInv, Typed
<1>2. \A s \in Runners \ {r} : Unmoved(s)
  BY DEF IInv, Typed, Unmoved
<1>3. rows' \subseteq RowNames
  BY DEF IInv, Typed, Runs, Current
<1>4. Shape' /\ Exclusive' /\ RowsInv'
  BY <1>1, <1>2, CommitKeeps
<1> QED
  BY <1>1, <1>3, <1>4 DEF IInv, Typed

\* A read of the bootstrap.
LEMMA LookKeeps ==
    ASSUME IInv, NEW r \in Runners, Look(r)
    PROVE  IInv'
<1>1. /\ On(r) /\ Now(r).op \in {"unless", "require"} /\ InScript(r) /\ Added(r) /\ Deleted(r)
      /\ run[r].command \in {"upgrade", "downgrade", "bootstrap"}
      /\ UNCHANGED <<schema, rows, version, reverted>>
  BY DEF IInv, Shape, Typed, Runs, Look
<1>2. run[r].command = "bootstrap" /\ run[r].at \in 1 .. 2
  BY <1>1, OpIs
<1>3. run[r].ins = {} /\ run[r].del = {}
  BY <1>1, <1>2 DEF Added, Deleted
<1> DEFINE n == run[r].at + 1
           st == IF Now(r).obj \subseteq rows THEN "done" ELSE "on"
<1>4. /\ run[r] \in Runs /\ n \in Nat \ {0} /\ rows \in SUBSET RowNames
      /\ st \in {"idle", "on", "done", "failed"}
  BY DEF IInv, Typed, Runs
<1>5. /\ run' = [run EXCEPT ![r] = run'[r]]
      /\ \/ run'[r] = [run[r] EXCEPT !.seen = rows, !.state = st, !.at = n]
         \/ run'[r] = [run[r] EXCEPT !.at = n]
  BY DEF Look, IInv, Typed
<1>6. run'[r] \in Runs
  <2> HIDE DEF n, st
  <2>1. [run[r] EXCEPT !.at = n] \in Runs
    BY <1>4, RunChanges
  <2>2. [run[r] EXCEPT !.seen = rows, !.state = st, !.at = n] \in Runs
    BY <1>4, RunChanges
  <2> QED
    BY <1>5, <2>1, <2>2
<1>7. /\ run'[r].command = run[r].command /\ run'[r].rev = run[r].rev
      /\ run'[r].target = run[r].target /\ run'[r].at = run[r].at + 1
      /\ run'[r].ins = {} /\ run'[r].del = {}
  BY <1>3, <1>4, <1>5 DEF Runs
<1>8. InScript(r)' /\ Added(r)' /\ Deleted(r)'
  <2>1. Script(r)' = Bootstrap /\ Len(Bootstrap) = 6
    BY <1>2, <1>7, BootstrapIs DEF Script
  <2>2. run'[r].at \in 2 .. 3
    BY <1>2, <1>7
  <2> QED
    BY <1>2, <1>7, <2>1, <2>2 DEF InScript, Added, Deleted
<1>9. version' \in 0 .. Latest
  BY <1>1 DEF IInv, Typed
<1> QED
  BY <1>1, <1>5, <1>6, <1>7, <1>8, <1>9, EndKeeps

\* The end of a revision.
LEMMA EndRevisionKeeps ==
    ASSUME IInv, NEW r \in Runners, EndRevision(r)
    PROVE  IInv'
<1>1. /\ On(r) /\ Now(r).op = "stamp" /\ InScript(r)
      /\ run[r].command \in {"upgrade", "downgrade", "bootstrap"}
      /\ version' = ToVersion(r) /\ rows' = Current(r) /\ reverted' = reverted
  BY DEF IInv, Shape, Typed, Runs, EndRevision
<1>2. run[r].command \in {"upgrade", "downgrade"}
  BY <1>1, OpIs
<1> DEFINE st == IF ToVersion(r) = run[r].target THEN "done" ELSE "on"
           k == IF run[r].command = "upgrade" THEN run[r].rev + 1 ELSE run[r].rev - 1
<1>3. /\ run[r] \in Runs /\ 1 \in Nat \ {0} /\ st \in {"idle", "on", "done", "failed"}
      /\ run[r].rev \in 1 .. Latest /\ run[r].target \in 0 .. Latest
  BY <1>1, <1>2 DEF IInv, Typed, Runs, InScript
<1>4. run[r].rev \in 1 .. 3 /\ run[r].target \in 0 .. 3
  BY <1>3 DEF Latest
<1>5. k \in 0 .. Latest + 1 /\ version' \in 0 .. Latest
  BY <1>1, <1>4 DEF ToVersion, Latest
<1>6. /\ run' = [run EXCEPT ![r] = run'[r]]
      /\ run'[r] = [run[r] EXCEPT !.state = st, !.rev = k, !.at = 1, !.ins = {}, !.del = {}]
  BY DEF EndRevision, IInv, Typed
<1>7. run'[r] \in Runs
  <2> HIDE DEF st, k
  <2>1. [run[r] EXCEPT !.state = st, !.rev = k, !.at = 1, !.ins = {}, !.del = {}] \in Runs
    BY <1>3, <1>5, RunChanges
  <2> QED
    BY <1>6, <2>1
<1>8. /\ run'[r].command = run[r].command /\ run'[r].rev = k /\ run'[r].state = st
      /\ run'[r].target = run[r].target /\ run'[r].at = 1
      /\ run'[r].ins = {} /\ run'[r].del = {}
  BY <1>3, <1>6 DEF Runs
<1>9. On(r)' => Fresh(r)'
  <2> SUFFICES ASSUME On(r)' PROVE Fresh(r)'
    OBVIOUS
  <2>1. ToVersion(r) # run[r].target
    BY <1>8 DEF On
  <2>2. CASE run[r].command = "upgrade"
    <3>1. run[r].rev # 3 /\ run[r].target = Latest
      BY <1>1, <2>1, <2>2 DEF ToVersion, InScript, Latest
    <3>2. run[r].rev + 1 \in 1 .. Latest
      BY <1>4, <3>1 DEF Latest
    <3> QED
      BY <1>8, <2>2, <3>1, <3>2 DEF Fresh
  <2>3. CASE run[r].command = "downgrade"
    <3>1. run[r].rev - 1 # run[r].target /\ run[r].target < run[r].rev /\ reverted
      BY <1>1, <2>1, <2>3 DEF ToVersion, InScript
    <3>2. run[r].rev - 1 \in 1 .. Latest /\ run[r].target < run[r].rev - 1
      BY <1>4, <3>1 DEF Latest
    <3> QED
      BY <1>1, <1>8, <2>3, <3>1, <3>2 DEF Fresh
  <2> QED
    BY <1>2, <2>2, <2>3
<1>10. Fresh(r)' => (InScript(r)' /\ Added(r)' /\ Deleted(r)')
  <2>1. FreshStarts'
    BY FreshIs, PTL
  <2> QED
    BY <2>1 DEF FreshStarts
<1> QED
  BY <1>1, <1>5, <1>6, <1>7, <1>8, <1>9, <1>10, EndKeeps

\* The commit of the bootstrap.
LEMMA CommitActionKeeps ==
    ASSUME IInv, NEW r \in Runners, Commit(r)
    PROVE  IInv'
<1>1. /\ On(r) /\ Now(r).op = "commit" /\ InScript(r)
      /\ run[r].command \in {"upgrade", "downgrade", "bootstrap"}
      /\ rows' = Current(r) /\ version' = version /\ reverted' = reverted
  BY DEF IInv, Shape, Typed, Runs, Commit
<1>2. run[r].at = Len(Script(r))
  BY <1>1, OpIs, ScriptIs, BootstrapIs
<1> DEFINE n == run[r].at + 1
<1>3. /\ run[r] \in Runs /\ n \in Nat \ {0} /\ "done" \in {"idle", "on", "done", "failed"}
  BY DEF IInv, Typed, Runs
<1>4. /\ run' = [run EXCEPT ![r] = run'[r]]
      /\ run'[r] = [run[r] EXCEPT !.state = "done", !.at = n, !.ins = {}, !.del = {}]
  BY <1>2 DEF Commit, IInv, Typed
<1>5. run'[r] \in Runs
  <2> HIDE DEF n
  <2>1. [run[r] EXCEPT !.state = "done", !.at = n, !.ins = {}, !.del = {}] \in Runs
    BY <1>3, RunChanges
  <2> QED
    BY <1>4, <2>1
<1>6. run'[r].state = "done" /\ run'[r].ins = {} /\ run'[r].del = {}
  BY <1>3, <1>4 DEF Runs
<1>7. version' \in 0 .. Latest /\ ~ On(r)'
  BY <1>1, <1>6 DEF IInv, Typed, On
<1> QED
  BY <1>1, <1>4, <1>5, <1>6, <1>7, EndKeeps

\* An error, or the death of the process.
LEMMA StopKeeps ==
    ASSUME IInv, NEW r \in Runners, Fail(r) \/ Crash(r)
    PROVE  IInv'
<1>1. /\ On(r) /\ version' = version /\ reverted' = reverted
      /\ \/ rows' = rows
         \/ IsDdl(Now(r)) /\ rows' = Current(r)
      /\ run' = [run EXCEPT ![r].state = "failed", ![r].ins = {}, ![r].del = {}]
  BY DEF Fail, Crash
<1>2. run[r] \in Runs /\ 1 \in Nat \ {0} /\ "failed" \in {"idle", "on", "done", "failed"}
  BY DEF IInv, Typed
<1>3. /\ run' = [run EXCEPT ![r] = run'[r]]
      /\ run'[r] = [run[r] EXCEPT !.state = "failed", !.ins = {}, !.del = {}]
  BY <1>1 DEF IInv, Typed
<1>4. run'[r] \in Runs
  BY <1>2, <1>3, RunChanges
<1>5. run'[r].state = "failed" /\ run'[r].ins = {} /\ run'[r].del = {}
  BY <1>2, <1>3 DEF Runs
<1>6. version' \in 0 .. Latest /\ ~ On(r)'
  BY <1>1, <1>5 DEF IInv, Typed, On
<1> QED
  BY <1>1, <1>3, <1>4, <1>5, <1>6, EndKeeps

\* What a command is when it begins.
Begun(x, st, c, t, k) ==
  \/ x = [Idle EXCEPT !.state = st, !.command = c, !.target = t, !.rev = k, !.sound = TRUE]
  \/ x = [Idle EXCEPT !.state = st, !.command = c, !.target = t, !.rev = k, !.sound = FALSE]

\* The record of such a command.
LEMMA BegunIs ==
    ASSUME NEW st \in {"on", "done"}, NEW c \in {"upgrade", "downgrade", "bootstrap"},
           NEW t \in 0 .. Latest, NEW k \in 0 .. Latest + 1, NEW x, Begun(x, st, c, t, k)
    PROVE  /\ x \in Runs /\ x.state = st /\ x.command = c /\ x.target = t /\ x.rev = k
           /\ x.at = 1 /\ x.ins = {} /\ x.del = {}
<1>1. \/ x = [state |-> st, command |-> c, target |-> t, rev |-> k, at |-> 1,
              ins |-> {}, del |-> {}, seen |-> {}, sound |-> TRUE]
      \/ x = [state |-> st, command |-> c, target |-> t, rev |-> k, at |-> 1,
              ins |-> {}, del |-> {}, seen |-> {}, sound |-> FALSE]
  BY DEF Begun, Idle
<1>2. 1 \in Nat \ {0}
  OBVIOUS
<1>3. x \in Runs
  <2>1. CASE x = [state |-> st, command |-> c, target |-> t, rev |-> k, at |-> 1,
                  ins |-> {}, del |-> {}, seen |-> {}, sound |-> TRUE]
    BY <1>2, <2>1 DEF Runs
  <2>2. CASE x = [state |-> st, command |-> c, target |-> t, rev |-> k, at |-> 1,
                  ins |-> {}, del |-> {}, seen |-> {}, sound |-> FALSE]
    BY <1>2, <2>2 DEF Runs
  <2> QED
    BY <1>1, <2>1, <2>2
<1>4. x.state = st /\ x.command = c /\ x.target = t /\ x.rev = k
  BY DEF Begun, Idle
<1>5. x.at = 1 /\ x.ins = {} /\ x.del = {}
  BY DEF Begun, Idle
<1> QED
  BY <1>3, <1>4, <1>5, Zenon

\* The beginning of a command.
LEMMA BeginKeeps ==
    ASSUME IInv, NEW r \in Runners, NEW c \in Commands, NEW t \in 0 .. Latest, Begin(r, c, t)
    PROVE  IInv'
<1>1. /\ ~ On(r) /\ c \in {"upgrade", "downgrade", "bootstrap"}
      /\ c = "upgrade" => t = Latest
      /\ c = "downgrade" => t < version
      /\ rows' = rows /\ version' = version
      /\ reverted' = (reverted \/ c = "downgrade")
  BY MigrationsAssumption DEF Begin
<1>2. version \in 0 .. 3 /\ t \in 0 .. 3
  BY DEF IInv, Typed, Latest
<1> DEFINE st == IF c = "upgrade" /\ version = Latest THEN "done" ELSE "on"
           k == IF c = "upgrade" THEN version + 1 ELSE version
           b == Orderly /\ \A q \in Runners \ {r} : ~ On(q)
           x == [Idle EXCEPT !.state = st, !.command = c, !.target = t, !.rev = k, !.sound = b]
<1>3. run' = [s \in Runners |-> IF s = r THEN x ELSE [run[s] EXCEPT !.sound = FALSE]]
  BY DEF Begin
<1>4. k \in 0 .. Latest + 1 /\ st \in {"on", "done"}
  BY <1>2 DEF Latest
<1>5. /\ x \in Runs /\ x.state = st /\ x.command = c /\ x.target = t /\ x.rev = k
      /\ x.at = 1 /\ x.ins = {} /\ x.del = {}
  <2>1. Begun(x, st, c, t, k)
    <3>1. CASE b
      BY <3>1 DEF Begun
    <3>2. CASE ~ b
      BY <3>2 DEF Begun
    <3> QED
      BY <3>1, <3>2
  <2>2. c \in {"upgrade", "downgrade", "bootstrap"}
    BY <1>1
  <2> HIDE DEF st, k, b, x
  <2> QED
    BY <1>4, <2>1, <2>2, BegunIs
<1>6. \A s \in Runners \ {r} : [run[s] EXCEPT !.sound = FALSE] \in Runs
  BY DEF IInv, Typed, Runs
<1>7. run' \in [Runners -> Runs] /\ run'[r] = x
  <2> HIDE DEF x
  <2> QED
    BY <1>3, <1>5, <1>6
<1>8. \A s \in Runners \ {r} : Unmoved(s)
  BY <1>3 DEF IInv, Typed, Runs, Unmoved
<1> HIDE DEF x
<1>9. On(r)' => Fresh(r)'
  <2> SUFFICES ASSUME On(r)' PROVE Fresh(r)'
    OBVIOUS
  <2>1. st = "on"
    BY <1>5, <1>7 DEF On
  <2>2. c = "upgrade" => (k \in 1 .. Latest /\ t = Latest)
    BY <1>1, <1>2, <2>1 DEF Latest
  <2>3. c = "downgrade" => (k \in 1 .. Latest /\ t < k /\ reverted')
    <3> SUFFICES ASSUME c = "downgrade" PROVE k \in 1 .. Latest /\ t < k /\ reverted'
      OBVIOUS
    <3>1. k = version /\ t < version /\ reverted'
      BY <1>1
    <3> QED
      BY <1>2, <3>1 DEF Latest
  <2> QED
    BY <1>1, <1>5, <1>7, <2>2, <2>3 DEF Fresh
<1>10. Fresh(r)' => (InScript(r)' /\ Added(r)' /\ Deleted(r)')
  <2>1. FreshStarts'
    BY FreshIs, PTL
  <2> QED
    BY <2>1 DEF FreshStarts
<1>11. Shape' /\ Exclusive' /\ RowsInv'
  BY <1>1, <1>5, <1>7, <1>8, <1>9, <1>10, CommitKeeps
<1> QED
  BY <1>1, <1>7, <1>11 DEF IInv, Typed

-----------------------------------------------------------------------------
(* The rows.                                                                *)

\* The invariant holds throughout.
THEOREM MigrationsInvariant == Spec => []IInv
<1>1. Init => IInv
  <2> SUFFICES ASSUME Init PROVE IInv
    OBVIOUS
  <2>1. Idle \in Runs /\ Idle.state = "idle"
    BY DEF Idle, Runs, Latest
  <2>2. run \in [Runners -> Runs] /\ \A r \in Runners : ~ On(r)
    BY <2>1 DEF Init, On
  <2>3. Typed
    BY <2>2 DEF Typed, Init, Latest
  <2>4. rows = {}
    BY DEF Init
  <2>5. RowsInv
    BY <2>2, <2>4 DEF RowsInv, SeedsAllOrNone, AccountHasRole, Seeding, Unseeding, Booting
  <2> QED
    BY <2>2, <2>3, <2>5 DEF IInv, Shape, Exclusive
<1>2. IInv /\ [Next]_vars => IInv'
  <2> SUFFICES ASSUME IInv, [Next]_vars PROVE IInv'
    OBVIOUS
  <2>1. CASE UNCHANGED vars
    BY <2>1 DEF vars, IInv, Typed, Shape, InScript, Added, Deleted, Script, On, Exclusive,
                Written, RowsInv, SeedsAllOrNone, AccountHasRole, Seeding, Unseeding, Booting
  <2>2. ASSUME NEW r \in Runners, NEW c \in Commands, NEW t \in 0 .. Latest, Begin(r, c, t)
        PROVE  IInv'
    BY <2>2, BeginKeeps
  <2>3. ASSUME NEW r \in Runners, Define(r) PROVE IInv'
    BY <2>3, DefineKeeps
  <2>4. ASSUME NEW r \in Runners, Write(r) PROVE IInv'
    BY <2>4, WriteKeeps
  <2>5. ASSUME NEW r \in Runners, Look(r) PROVE IInv'
    BY <2>5, LookKeeps
  <2>6. ASSUME NEW r \in Runners, EndRevision(r) PROVE IInv'
    BY <2>6, EndRevisionKeeps
  <2>7. ASSUME NEW r \in Runners, Commit(r) PROVE IInv'
    BY <2>7, CommitActionKeeps
  <2>8. ASSUME NEW r \in Runners, Fail(r) \/ Crash(r) PROVE IInv'
    BY <2>8, StopKeeps
  <2> QED
    BY <2>1, <2>2, <2>3, <2>4, <2>5, <2>6, <2>7, <2>8 DEF Next
<1> QED
  BY <1>1, <1>2, PTL DEF Spec

\* Rows that belong together are committed together and go together: however
\* many upgrades, downgrades and bootstraps overlap, or are killed on the way.
THEOREM RowsBelongTogetherCorrect == Spec => []RowsBelongTogether
<1>1. IInv => RowsBelongTogether
  BY DEF IInv, RowsInv, RowsBelongTogether
<1> QED
  BY <1>1, MigrationsInvariant, PTL

-----------------------------------------------------------------------------
(* The last version, without a downgrade.                                   *)

\* What a step of a run under way leaves as it was.
LEMMA StepIs ==
    ASSUME IInv, NEW r \in Runners,
           \/ Define(r) \/ Write(r) \/ Look(r) \/ EndRevision(r) \/ Commit(r) \/ Fail(r) \/ Crash(r)
    PROVE  /\ On(r) /\ InScript(r) /\ Added(r) /\ Deleted(r)
           /\ run[r].command \in {"upgrade", "downgrade", "bootstrap"}
           /\ run'[r].command = run[r].command /\ run'[r].target = run[r].target
           /\ run'[r].sound = run[r].sound
           /\ \A s \in Runners \ {r} : Unmoved(s) /\ run'[s].sound = run[s].sound
           /\ reverted' = reverted
<1>1. /\ On(r) /\ InScript(r) /\ Added(r) /\ Deleted(r)
      /\ run[r].command \in {"upgrade", "downgrade", "bootstrap"} /\ reverted' = reverted
  BY DEF IInv, Shape, Typed, Runs, Define, Write, Look, EndRevision, Commit, Fail, Crash
<1>2. /\ run'[r].command = run[r].command /\ run'[r].target = run[r].target
      /\ run'[r].sound = run[r].sound
      /\ \A s \in Runners \ {r} : run'[s] = run[s]
  <2>1. /\ run[r] \in Runs /\ run \in [Runners -> Runs]
    BY DEF IInv, Typed
  <2>2. CASE Define(r)
    BY <2>1, <2>2 DEF Define, Runs
  <2>3. CASE Write(r)
    BY <2>1, <2>3 DEF Write, Runs
  <2>4. CASE Look(r)
    BY <2>1, <2>4 DEF Look, Runs
  <2>5. CASE EndRevision(r)
    BY <2>1, <2>5 DEF EndRevision, Runs
  <2>6. CASE Commit(r)
    BY <2>1, <2>6 DEF Commit, Runs
  <2>7. CASE Fail(r) \/ Crash(r)
    BY <2>1, <2>7 DEF Fail, Crash, Runs
  <2> QED
    BY <2>2, <2>3, <2>4, <2>5, <2>6, <2>7
<1> QED
  BY <1>1, <1>2 DEF Unmoved

\* Where a statement that succeeds leaves its run.
LEMMA MovesOn ==
    ASSUME IInv, NEW r \in Runners, Define(r) \/ Write(r)
    PROVE  run'[r].state = run[r].state /\ run'[r].rev = run[r].rev /\ run'[r].at = run[r].at + 1
<1>1. /\ run[r] \in Runs /\ run \in [Runners -> Runs]
  BY DEF IInv, Typed
<1>2. CASE Define(r)
  BY <1>1, <1>2 DEF Define, Runs
<1>3. CASE Write(r)
  BY <1>1, <1>3 DEF Write, Runs
<1> QED
  BY <1>2, <1>3

\* Where the end of a revision leaves its run.
LEMMA TurnsOver ==
    ASSUME IInv, NEW r \in Runners, EndRevision(r)
    PROVE  /\ run'[r].state = IF ToVersion(r) = run[r].target THEN "done" ELSE "on"
           /\ run'[r].rev = IF run[r].command = "upgrade" THEN run[r].rev + 1 ELSE run[r].rev - 1
           /\ run'[r].at = 1
           /\ version = FromVersion(r) /\ version' = ToVersion(r)
           /\ schema' = schema /\ rows' = Current(r)
<1>1. /\ run[r] \in Runs /\ run \in [Runners -> Runs]
  BY DEF IInv, Typed
<1>2. /\ run' = [run EXCEPT ![r].state = IF ToVersion(r) = run[r].target THEN "done" ELSE "on",
                            ![r].rev = IF run[r].command = "upgrade" THEN @ + 1 ELSE @ - 1,
                            ![r].at = 1, ![r].ins = {}, ![r].del = {}]
      /\ version' = ToVersion(r) /\ rows' = Current(r) /\ schema' = schema
      /\ Now(r).op = "stamp" /\ ~ Errs(r)
  BY DEF EndRevision
<1>3. version = FromVersion(r)
  BY <1>2 DEF Errs
<1>4. /\ run'[r].state = IF ToVersion(r) = run[r].target THEN "done" ELSE "on"
      /\ run'[r].rev = IF run[r].command = "upgrade" THEN run[r].rev + 1 ELSE run[r].rev - 1
      /\ run'[r].at = 1
  BY <1>1, <1>2 DEF Runs
<1> QED
  BY <1>2, <1>3, <1>4

\* Nothing is left of a script before its first statement.
LEMMA NothingBehind == \A script : Objs(script, 1, 1) = {}
<1>1. 1 .. 1 - 1 = {}
  OBVIOUS
<1> QED
  BY <1>1 DEF Objs

\* A statement is among those of its script.
LEMMA ObjsHas ==
    ASSUME NEW script, NEW m \in Nat, NEW n \in Nat, NEW i \in Nat, m <= i, i < n
    PROVE  script[i].obj \subseteq Objs(script, m, n)
<1>1. i \in m .. n - 1
  OBVIOUS
<1> QED
  BY <1>1 DEF Objs

\* What an upgrade's DDL statement adds, and to what.
LEMMA UpgradeDefines ==
    ASSUME NEW r \in Runners, InScript(r), run[r].command = "upgrade", IsDdl(Now(r)),
           run[r].at \in Nat \ {0}
    PROVE  /\ Now(r).op \in {"create", "replace"}
           /\ Now(r).obj \subseteq SchemaAt[Latest]
           /\ run[r].rev # 2 => /\ Objs(Script(r), 1, run[r].at + 1)
                                     = Objs(Script(r), 1, run[r].at) \cup Now(r).obj
           /\ run[r].rev = 2 => /\ Objs(SeedUp, 10, run[r].at + 1)
                                     = Objs(SeedUp, 10, run[r].at) \cup Now(r).obj
                                /\ run[r].at \in 10 .. 12
<1>1. \/ run[r].rev \in {1, 3} /\ run[r].at # Len(Script(r))
      \/ run[r].rev = 2 /\ run[r].at \in 10 .. 12
  BY OpIs DEF Plain
<1>2. SchemaAt[1] \subseteq SchemaAt[Latest] /\ Views \subseteq SchemaAt[Latest]
      /\ AccountParts \subseteq SchemaAt[Latest]
  BY SchemaIs DEF Latest
<1>3. CASE run[r].rev \in {1, 3}
  <2>1. Plain(r) /\ Len(Script(r)) \in Nat /\ run[r].at \in 1 .. Len(Script(r))
    BY <1>3, ScriptIs DEF Plain, Ddl, InScript
  <2>2. Now(r).op = "create"
    BY <1>1, <1>3, <2>1, NowIs
  <2>3. run[r].at < Len(Script(r))
    BY <1>1, <1>3, <2>1
  <2>4. Now(r).obj \subseteq Objs(Script(r), 1, Len(Script(r)))
    BY <2>1, <2>3, ObjsHas DEF Now
  <2>5. Objs(Script(r), 1, Len(Script(r))) \in {SchemaAt[1], AccountParts}
    BY <1>3, ScriptIs, ModelsScripts, AccountScripts
  <2>6. Objs(Script(r), 1, run[r].at + 1) = Objs(Script(r), 1, run[r].at) \cup Now(r).obj
    <3>1. 1 \in Nat /\ run[r].at \in Nat /\ 1 <= run[r].at
      BY <2>1
    <3> QED
      BY <3>1, ObjsGrow DEF Now
  <2> QED
    BY <1>2, <1>3, <2>2, <2>4, <2>5, <2>6
<1>4. CASE run[r].rev = 2
  <2>1. Now(r) = SeedUp[run[r].at] /\ run[r].at \in 10 .. 12
    BY <1>1, <1>4, NowIs
  <2>2. Now(r).op = "replace"
    BY <2>1, SeedUpIs
  <2>3. Now(r).obj \subseteq Objs(SeedUp, 10, 13)
    <3>1. 10 \in Nat /\ 13 \in Nat /\ run[r].at \in Nat /\ 10 <= run[r].at /\ run[r].at < 13
      BY <2>1
    <3> QED
      BY <2>1, <3>1, ObjsHas
  <2>4. Objs(SeedUp, 10, run[r].at + 1) = Objs(SeedUp, 10, run[r].at) \cup Now(r).obj
    <3>1. run[r].at \in Nat /\ 10 <= run[r].at
      BY <2>1
    <3>2. \A m \in Nat : m <= run[r].at =>
            Objs(SeedUp, m, run[r].at + 1) = Objs(SeedUp, m, run[r].at) \cup SeedUp[run[r].at].obj
      BY <3>1, ObjsGrow, Zenon
    <3>3. Objs(SeedUp, 10, run[r].at + 1)
            = Objs(SeedUp, 10, run[r].at) \cup SeedUp[run[r].at].obj
      BY <3>1, <3>2
    <3> QED
      BY <2>1, <3>3
  <2> QED
    BY <1>2, <1>4, <2>1, <2>2, <2>3, <2>4, SeedUpIs
<1> QED
  BY <1>1, <1>3, <1>4

\* Without a downgrade no row is taken away.
LEMMA NoRowGoes ==
    ASSUME IInv, NEW r \in Runners, ~ reverted',
           \/ Define(r) \/ Write(r) \/ Look(r) \/ EndRevision(r) \/ Commit(r) \/ Fail(r) \/ Crash(r)
    PROVE  /\ ~ reverted /\ run[r].command # "downgrade"
           /\ rows \subseteq rows'
           /\ \/ rows' = rows
              \/ run[r].command = "upgrade" /\ run[r].rev = 2 /\ run[r].at = 10
              \/ run[r].command = "bootstrap"
           /\ (Define(r) /\ run[r].rev = 2 /\ run[r].at = 10 /\ run[r].command = "upgrade") =>
                 Seeds \subseteq rows'
<1>1. /\ On(r) /\ InScript(r) /\ Added(r) /\ Deleted(r)
      /\ run[r].command \in {"upgrade", "downgrade", "bootstrap"}
      /\ ~ reverted /\ run[r].command # "downgrade"
  BY StepIs DEF InScript
<1>2. run[r].del = {}
  BY <1>1 DEF Deleted
<1>3. rows' = rows \/ rows' = Current(r)
  BY DEF Define, Write, Look, EndRevision, Commit, Fail, Crash
<1>4. Current(r) = rows \cup run[r].ins
  BY <1>2 DEF Current
<1>5. \/ run[r].ins = {}
      \/ run[r].command = "upgrade" /\ run[r].rev = 2 /\ run[r].at <= 10
      \/ run[r].command = "bootstrap"
  BY <1>1 DEF Added
<1>6. ASSUME rows' = Current(r), rows' # rows, run[r].command = "upgrade"
      PROVE  run[r].rev = 2 /\ run[r].at = 10
  <2>1. IsDdl(Now(r)) \/ Now(r).op \in {"stamp", "commit"}
    BY <1>6 DEF Define, Write, Look, EndRevision, Commit, Fail, Crash
  <2> QED
    BY <1>1, <1>6, <2>1, CurrentIs DEF Unseeding, Seeding, Booting
<1>7. (Define(r) /\ run[r].rev = 2 /\ run[r].at = 10 /\ run[r].command = "upgrade") =>
        Seeds \subseteq rows'
  <2> SUFFICES ASSUME Define(r), run[r].rev = 2, run[r].at = 10, run[r].command = "upgrade"
               PROVE  Seeds \subseteq rows'
    OBVIOUS
  <2>1. run[r].ins = Seeds /\ rows' = Current(r)
    BY <1>1, SeedUpIs DEF Added, Define
  <2> QED
    BY <1>4, <2>1
<1> QED
  BY <1>1, <1>3, <1>4, <1>6, <1>7

\* What the invariant asks of a step that takes nothing away.
LEMMA HeadKeeps ==
    ASSUME IInv, HeadInv, NEW r \in Runners, ~ reverted,
           \A s \in Runners \ {r} : Unmoved(s),
           rows \subseteq rows', schema \subseteq schema', schema' \subseteq SchemaAt[Latest],
           SchemaAt[version'] \subseteq schema', version' >= 2 => Seeds \subseteq rows',
           (On(r)' /\ run'[r].command = "upgrade") => Behind(r)'
    PROVE  HeadInv'
<1>1. ASSUME NEW s \in Runners, On(s)', run'[s].command = "upgrade"
      PROVE  Behind(s)'
  <2>1. CASE s = r
    BY <1>1, <2>1
  <2>2. CASE s # r
    <3>1. On(s) /\ run[s].command = "upgrade" /\ Script(s)' = Script(s)
      BY <1>1, <2>2 DEF Unmoved, On, Script
    <3>2. Behind(s)
      BY <3>1 DEF HeadInv
    <3> QED
      BY <2>2, <3>1, <3>2 DEF Behind, Unmoved
  <2> QED
    BY <2>1, <2>2
<1> QED
  BY <1>1 DEF HeadInv

\* Every step keeps it: only a downgrade could take something away.
LEMMA HeadStep ==
    ASSUME IInv, HeadInv, [Next]_vars
    PROVE  HeadInv'
<1> SUFFICES ASSUME ~ reverted' PROVE HeadInv'
  BY DEF HeadInv
<1>1. CASE UNCHANGED vars
  <2>1. UNCHANGED <<schema, rows, version, run, reverted>>
    BY <1>1 DEF vars
  <2> QED
    BY <2>1 DEF HeadInv, Behind, On, Script
<1>2. ASSUME NEW r \in Runners, NEW c \in Commands, NEW t \in 0 .. Latest, Begin(r, c, t)
      PROVE  HeadInv'
  <2>1. ~ reverted /\ UNCHANGED <<schema, rows, version>>
    BY <1>2 DEF Begin
  <2>2. \A s \in Runners \ {r} : Unmoved(s)
    BY <1>2 DEF Begin, IInv, Typed, Runs, Unmoved
  <2>3. run'[r].at = 1
    BY <1>2 DEF Begin, Idle
  <2>4. Behind(r)'
    <3>1. Objs(Script(r)', 1, 1) = {}
      BY NothingBehind
    <3>2. Objs(SeedUp, 10, 1) = {}
      BY SeedUpIs
    <3> QED
      BY <2>3, <3>1, <3>2 DEF Behind
  <2> QED
    BY <2>1, <2>2, <2>4, HeadKeeps DEF HeadInv
<1>3. ASSUME NEW r \in Runners, Define(r) PROVE HeadInv'
  <2>1. /\ On(r) /\ InScript(r) /\ IsDdl(Now(r)) /\ run[r].at \in Nat \ {0}
        /\ run[r].command \in {"upgrade", "bootstrap"} /\ ~ reverted
        /\ run'[r].command = run[r].command /\ rows \subseteq rows' /\ version' = version
        /\ \A s \in Runners \ {r} : Unmoved(s)
    BY <1>3, StepIs, NoRowGoes DEF Define, IInv, Typed, Runs
  <2>2. run[r].command = "upgrade"
    BY <2>1, OpIs DEF Plain
  <2>3. schema' = schema \cup Now(r).obj /\ Now(r).obj \subseteq SchemaAt[Latest]
    BY <1>3, <2>1, <2>2, UpgradeDefines DEF Define
  <2>4. Behind(r)'
    <3>1. Behind(r)
      BY <2>1, <2>2 DEF HeadInv
    <3>2. run'[r].rev = run[r].rev /\ run'[r].at = run[r].at + 1 /\ Script(r)' = Script(r)
      BY <1>3, <2>1, MovesOn DEF Script
    <3>3. run[r].rev # 2 => Objs(Script(r)', 1, run'[r].at) \subseteq schema'
      BY <2>1, <2>2, <2>3, <3>1, <3>2, UpgradeDefines DEF Behind
    <3>4. run[r].rev = 2 => Objs(SeedUp, 10, run'[r].at) \subseteq schema'
      BY <2>1, <2>2, <2>3, <3>1, <3>2, UpgradeDefines DEF Behind
    <3>5. run[r].rev = 2 => Seeds \subseteq rows'
      <4>1. run[r].rev = 2 => run[r].at \in 10 .. 12
        BY <2>1, <2>2, UpgradeDefines
      <4>2. (run[r].rev = 2 /\ run[r].at # 10) => run[r].at > 10
        BY <4>1
      <4> QED
        BY <1>3, <2>1, <2>2, <3>1, <4>2, NoRowGoes DEF Behind
    <3> QED
      BY <3>2, <3>3, <3>4, <3>5 DEF Behind
  <2>5. SchemaAt[version] \subseteq schema /\ version >= 2 => Seeds \subseteq rows
    BY <2>1 DEF HeadInv
  <2> QED
    BY <2>1, <2>3, <2>4, HeadKeeps DEF HeadInv
<1>4. ASSUME NEW r \in Runners, Write(r) \/ Look(r) \/ Commit(r) \/ Fail(r) \/ Crash(r)
      PROVE  HeadInv'
  <2>1. /\ On(r) /\ InScript(r) /\ run[r].at \in Nat \ {0}
        /\ run[r].command \in {"upgrade", "bootstrap"} /\ ~ reverted
        /\ run'[r].command = run[r].command /\ rows \subseteq rows'
        /\ schema' = schema /\ version' = version
        /\ \A s \in Runners \ {r} : Unmoved(s)
    BY <1>4, StepIs, NoRowGoes DEF Write, Look, Commit, Fail, Crash, IInv, Typed, Runs
  <2>2. ASSUME On(r)', run'[r].command = "upgrade" PROVE Behind(r)'
    <3>1. run[r].command = "upgrade"
      BY <2>1, <2>2
    <3>2. ~ Look(r) /\ ~ Commit(r)
      BY <2>1, <3>1, OpIs DEF Look, Commit
    <3>3. ~ Fail(r) /\ ~ Crash(r)
      BY <2>2 DEF Fail, Crash, IInv, Typed, Runs, On
    <3>4. Write(r)
      BY <1>4, <3>2, <3>3
    <3>5. run[r].rev = 2 /\ run[r].at \in 1 .. 9
      BY <2>1, <3>1, <3>4, OpIs DEF Write
    <3>6. run'[r].rev = 2 /\ run'[r].at = run[r].at + 1
      BY <3>4, <3>5, MovesOn
    <3>7. run'[r].at \in 1 .. 10
      BY <3>5, <3>6
    <3>8. Objs(SeedUp, 10, run'[r].at) = {} /\ ~ (run'[r].at > 10)
      BY <3>7, SeedUpIs
    <3> QED
      BY <3>6, <3>8 DEF Behind
  <2> QED
    BY <2>1, <2>2, HeadKeeps DEF HeadInv
<1>5. ASSUME NEW r \in Runners, EndRevision(r) PROVE HeadInv'
  <2>1. /\ On(r) /\ InScript(r) /\ Now(r).op = "stamp"
        /\ run[r].command \in {"upgrade", "bootstrap"} /\ ~ reverted
        /\ rows \subseteq rows' /\ schema' = schema
        /\ \A s \in Runners \ {r} : Unmoved(s)
    BY <1>5, StepIs, NoRowGoes DEF EndRevision
  <2>2. run[r].command = "upgrade" /\ run[r].at = Len(Script(r))
    BY <2>1, OpIs
  <2>3. Behind(r) /\ run[r].rev \in {1, 2, 3}
    BY <2>1, <2>2 DEF HeadInv, InScript, Latest
  <2>4. version = run[r].rev - 1 /\ version' = run[r].rev
    BY <1>5, <2>2, TurnsOver DEF FromVersion, ToVersion
  <2>5. SchemaAt[version'] \subseteq schema' /\ (version' >= 2 => Seeds \subseteq rows')
    <3>1. CASE run[r].rev = 1
      <4>1. Objs(ModelsUp, 1, Len(ModelsUp)) \subseteq schema
        BY <2>1, <2>2, <2>3, <3>1, ScriptIs DEF Behind
      <4> QED
        BY <2>1, <2>4, <3>1, <4>1, ModelsScripts
    <3>2. CASE run[r].rev = 2
      <4>1. run[r].at = 13
        BY <2>1, <2>2, <3>2, ScriptIs, SeedUpIs
      <4>2. Views \subseteq schema /\ Seeds \subseteq rows
        BY <2>3, <3>2, <4>1, SeedUpIs DEF Behind
      <4>3. SchemaAt[1] \subseteq schema
        BY <2>1, <2>4, <3>2 DEF HeadInv
      <4> QED
        BY <2>1, <2>4, <3>2, <4>2, <4>3, SchemaIs
    <3>3. CASE run[r].rev = 3
      <4>1. Objs(AccountUp, 1, Len(AccountUp)) \subseteq schema
        BY <2>1, <2>2, <2>3, <3>3, ScriptIs DEF Behind
      <4>2. version = 2
        BY <2>4, <3>3
      <4>3. SchemaAt[2] \subseteq schema /\ Seeds \subseteq rows
        BY <2>1, <4>2 DEF HeadInv
      <4> QED
        BY <2>1, <2>4, <3>3, <4>1, <4>3, AccountScripts, SchemaIs
    <3> QED
      BY <2>3, <3>1, <3>2, <3>3
  <2>6. Behind(r)'
    <3>1. run'[r].at = 1
      BY <1>5, TurnsOver
    <3>2. Objs(Script(r)', 1, 1) = {}
      BY NothingBehind
    <3>3. Objs(SeedUp, 10, 1) = {}
      BY SeedUpIs
    <3> QED
      BY <3>1, <3>2, <3>3 DEF Behind
  <2> QED
    BY <2>1, <2>5, <2>6, HeadKeeps DEF HeadInv
<1> QED
  BY <1>1, <1>2, <1>3, <1>4, <1>5 DEF Next

\* The version table names the last revision only over the whole schema with
\* all of its reference rows, however many upgrades and bootstraps overlapped
\* or were killed on the way, as long as none of the runs was a downgrade.
THEOREM HeadIsCompleteCorrect == Spec => []HeadIsComplete
<1>1. Init => HeadInv
  <2> SUFFICES ASSUME Init PROVE HeadInv
    OBVIOUS
  <2>1. schema = {} /\ version = 0 /\ \A r \in Runners : ~ On(r)
    BY DEF Init, Idle, On
  <2> QED
    BY <2>1, SchemaIs DEF HeadInv
<1>2. IInv /\ HeadInv /\ [Next]_vars => HeadInv'
  BY HeadStep
<1>3. HeadInv => HeadIsComplete
  <2> SUFFICES ASSUME HeadInv, ~ reverted, version = Latest PROVE Orderly
    BY DEF HeadIsComplete
  <2>1. schema = SchemaAt[Latest] /\ Seeds \subseteq rows
    BY DEF HeadInv, Latest
  <2>2. SeedsAt(version) = Seeds
    BY DEF SeedsAt, Latest
  <2> QED
    BY <2>1, <2>2 DEF Orderly
<1> QED
  BY <1>1, <1>2, <1>3, MigrationsInvariant, PTL DEF Spec

-----------------------------------------------------------------------------
(* A run that is let alone.                                                 *)

\* What a downgrade's DDL statement takes away, and from what.
LEMMA DowngradeDefines ==
    ASSUME NEW r \in Runners, InScript(r), run[r].command = "downgrade", IsDdl(Now(r)),
           run[r].at \in Nat \ {0}
    PROVE  /\ Now(r).op \in {"drop", "discard"}
           /\ run[r].rev = 2 => run[r].at \in 1 .. 3
           /\ Objs(Script(r), 1, run[r].at + 1) = Objs(Script(r), 1, run[r].at) \cup Now(r).obj
<1>1. \/ run[r].rev \in {1, 3} /\ run[r].at # Len(Script(r))
      \/ run[r].rev = 2 /\ run[r].at \in 1 .. 3
  BY OpIs DEF Plain
<1>2. Objs(Script(r), 1, run[r].at + 1) = Objs(Script(r), 1, run[r].at) \cup Now(r).obj
  <2>1. Now(r) = Script(r)[run[r].at]
    BY DEF Now
  <2>2. run[r].at \in Nat /\ 1 <= run[r].at
    <3> DEFINE n == run[r].at
    <3>1. n \in Nat \ {0}
      OBVIOUS
    <3> HIDE DEF n
    <3>2. n \in Nat /\ 1 <= n
      BY <3>1
    <3> QED
      BY <3>2 DEF n
  <2>3. \A m \in Nat : m <= run[r].at =>
          Objs(Script(r), m, run[r].at + 1) = Objs(Script(r), m, run[r].at) \cup Script(r)[run[r].at].obj
    BY <2>2, ObjsGrow, Zenon
  <2>4. Objs(Script(r), 1, run[r].at + 1) = Objs(Script(r), 1, run[r].at) \cup Script(r)[run[r].at].obj
    BY <2>2, <2>3
  <2> QED
    BY <2>1, <2>4
<1>3. CASE run[r].rev \in {1, 3}
  <2>1. Plain(r)
    BY <1>3 DEF Plain
  <2>2. Now(r).op = "drop"
    BY <1>1, <1>3, <2>1, NowIs
  <2> QED
    BY <1>2, <1>3, <2>2
<1>4. CASE run[r].rev = 2
  <2>1. Now(r) = SeedDown[run[r].at] /\ run[r].at \in 1 .. 3
    BY <1>1, <1>4, NowIs
  <2> QED
    BY <1>2, <1>4, <2>1, SeedDownIs
<1> QED
  BY <1>1, <1>3, <1>4

\* Only a run itself moves while it is let alone.
LEMMA SoundKeeps ==
    ASSUME IInv, SoundInv, NEW r \in Runners,
           \/ Define(r) \/ Write(r) \/ Look(r) \/ EndRevision(r) \/ Commit(r) \/ Fail(r) \/ Crash(r),
           Achieved(r) => Achieved(r)'
    PROVE  SoundInv'
<1>1. /\ On(r) /\ \A s \in Runners : run'[s].sound = run[s].sound
      /\ \A s \in Runners \ {r} : On(s)' <=> On(s)
  BY StepIs DEF Unmoved, On
<1> SUFFICES ASSUME NEW s \in Runners, run'[s].sound
             PROVE  Achieved(s)' /\ \A q \in Runners \ {s} : ~ On(q)'
  BY DEF SoundInv
<1>2. Achieved(s) /\ \A q \in Runners \ {s} : ~ On(q)
  BY <1>1 DEF SoundInv
<1>3. s = r
  BY <1>1, <1>2
<1> QED
  BY <1>1, <1>2, <1>3

\* A DDL statement brings a run that is let alone one object further.
LEMMA DefineAchieves ==
    ASSUME IInv, NEW r \in Runners, Define(r), Achieved(r)
    PROVE  Achieved(r)'
<1>1. /\ On(r) /\ InScript(r) /\ Added(r) /\ Deleted(r) /\ IsDdl(Now(r))
      /\ run[r].command \in {"upgrade", "downgrade", "bootstrap"}
      /\ run[r].at \in Nat \ {0} /\ run'[r].command = run[r].command
      /\ rows' = Current(r) /\ version' = version
      /\ schema' = IF Now(r).op \in {"create", "replace"} THEN schema \cup Now(r).obj
                                                          ELSE schema \ Now(r).obj
  BY StepIs DEF Define, IInv, Typed, Runs
<1>2. /\ run'[r].state = "on" /\ run'[r].rev = run[r].rev /\ run'[r].at = run[r].at + 1
      /\ Script(r)' = Script(r)
  BY <1>1, MovesOn DEF Script, On
<1>3. run[r].command \in {"upgrade", "downgrade"}
  BY <1>1, OpIs DEF Plain
<1>4. CASE run[r].command = "upgrade"
  <2>1. Climbed(r) /\ schema' = schema \cup Now(r).obj
    BY <1>1, <1>4, UpgradeDefines DEF Achieved
  <2>2. run[r].rev # 2 => rows' = rows
    BY <1>1, <1>4, CurrentIs DEF Seeding, Unseeding, Booting
  <2>3. run[r].rev = 2 => rows' \cap Seeds = Seeds
    <3> SUFFICES ASSUME run[r].rev = 2 PROVE rows' \cap Seeds = Seeds
      OBVIOUS
    <3>1. run[r].at \in 10 .. 12
      BY <1>1, <1>4, UpgradeDefines
    <3>2. CASE run[r].at = 10
      BY <1>1, <1>4, <3>2, CurrentIs DEF Seeding, Unseeding, Booting
    <3>3. CASE run[r].at # 10
      <4>1. run[r].at > 10
        BY <3>1, <3>3
      <4>2. rows' = rows
        BY <1>1, <1>4, <3>3, CurrentIs DEF Seeding, Unseeding, Booting
      <4> QED
        BY <2>1, <4>1, <4>2 DEF Climbed
    <3> QED
      BY <3>2, <3>3
  <2>4. run[r].rev = 2 => run'[r].at > 10
    <3>1. run[r].rev = 2 => run[r].at \in 10 .. 12
      BY <1>1, <1>4, UpgradeDefines
    <3> SUFFICES ASSUME run[r].rev = 2 PROVE run'[r].at > 10
      OBVIOUS
    <3>2. run[r].at \in 10 .. 12
      BY <3>1
    <3> QED
      BY <1>2, <3>2
  <2>5. /\ run[r].rev # 2 => schema' = SchemaAt[version] \cup Objs(Script(r), 1, run[r].at + 1)
        /\ run[r].rev = 2 => schema' = SchemaAt[version] \cup Objs(SeedUp, 10, run[r].at + 1)
    BY <1>1, <1>4, <2>1, UpgradeDefines DEF Climbed
  <2>6. Climbed(r)'
    BY <1>1, <1>2, <2>1, <2>2, <2>3, <2>4, <2>5 DEF Climbed, SeedsAt
  <2> QED
    BY <1>1, <1>2, <1>4, <2>6 DEF Achieved, Booting
<1>5. CASE run[r].command = "downgrade"
  <2>1. Descended(r) /\ schema' = schema \ Now(r).obj
    BY <1>1, <1>5, DowngradeDefines DEF Achieved
  <2>2. run[r].rev = 2 => (~ (run[r].at > 4) /\ ~ (run[r].at + 1 > 4))
    <3> SUFFICES ASSUME run[r].rev = 2 PROVE ~ (run[r].at > 4) /\ ~ (run[r].at + 1 > 4)
      OBVIOUS
    <3>1. run[r].at \in 1 .. 3
      BY <1>1, <1>5, DowngradeDefines
    <3> QED
      BY <3>1
  <2>3. rows' = rows
    <3>1. ~ (Unseeding(r) /\ run[r].at = 10)
      BY <2>2 DEF Unseeding
    <3> QED
      BY <1>1, <1>5, <3>1, CurrentIs DEF Seeding, Booting
  <2>4. schema' = SchemaAt[version] \ Objs(Script(r), 1, run[r].at + 1)
    BY <1>1, <1>5, <2>1, <2>2, DowngradeDefines DEF Descended
  <2>5. Descended(r)'
    BY <1>1, <1>2, <2>1, <2>2, <2>3, <2>4 DEF Descended, SeedsAt
  <2> QED
    BY <1>1, <1>2, <1>5, <2>5 DEF Achieved, Booting
<1> QED
  BY <1>3, <1>4, <1>5

\* A statement that writes rows leaves the database as it was.
LEMMA WriteAchieves ==
    ASSUME IInv, NEW r \in Runners, Write(r), Achieved(r)
    PROVE  Achieved(r)'
<1>1. /\ On(r) /\ InScript(r) /\ Now(r).op \in {"insert", "copy", "ensure", "delete"}
      /\ run[r].command \in {"upgrade", "downgrade", "bootstrap"}
      /\ run'[r].command = run[r].command /\ UNCHANGED <<schema, rows, version>>
  BY StepIs DEF Write
<1>2. /\ run'[r].state = "on" /\ run'[r].rev = run[r].rev /\ run'[r].at = run[r].at + 1
      /\ Script(r)' = Script(r)
  BY <1>1, MovesOn DEF Script, On
<1>3. \/ run[r].command = "upgrade" /\ run[r].rev = 2 /\ run[r].at \in 1 .. 9
      \/ run[r].command = "downgrade" /\ run[r].rev = 2 /\ run[r].at \in 4 .. 9
      \/ run[r].command = "bootstrap"
  BY <1>1, OpIs
<1>4. CASE run[r].command = "upgrade"
  <2>1. Climbed(r) /\ run[r].rev = 2 /\ run[r].at \in 1 .. 9
    BY <1>1, <1>3, <1>4 DEF Achieved
  <2>2. run[r].at \in 1 .. 10 /\ run[r].at + 1 \in 1 .. 10
    BY <2>1
  <2>3. Objs(SeedUp, 10, run[r].at) = {} /\ Objs(SeedUp, 10, run[r].at + 1) = {}
    BY <2>2, SeedUpIs
  <2>4. ~ (run[r].at > 10) /\ ~ (run[r].at + 1 > 10)
    BY <2>2
  <2>5. Climbed(r)'
    BY <1>1, <1>2, <2>1, <2>3, <2>4 DEF Climbed, SeedsAt
  <2> QED
    BY <1>1, <1>2, <1>4, <2>5 DEF Achieved, Booting
<1>5. CASE run[r].command = "downgrade"
  <2>1. Descended(r) /\ run[r].rev = 2 /\ run[r].at \in 4 .. 9
    BY <1>1, <1>3, <1>5 DEF Achieved
  <2>2. schema = SchemaAt[version] \ Views
    <3>1. Script(r) = SeedDown
      BY <1>1, <1>5, <2>1, ScriptIs
    <3>2. CASE run[r].at = 4
      BY <2>1, <3>1, <3>2, SeedDownIs DEF Descended
    <3>3. CASE run[r].at # 4
      <4>1. run[r].at > 4
        BY <2>1, <3>3
      <4> QED
        BY <2>1, <4>1 DEF Descended
    <3> QED
      BY <3>2, <3>3
  <2>3. run[r].at + 1 > 4
    BY <2>1
  <2>4. Descended(r)'
    BY <1>1, <1>2, <2>1, <2>2, <2>3 DEF Descended, SeedsAt
  <2> QED
    BY <1>1, <1>2, <1>5, <2>4 DEF Achieved, Booting
<1>6. CASE run[r].command = "bootstrap"
  <2>1. Orderly
    BY <1>1, <1>6 DEF Achieved, Booting
  <2>2. Orderly'
    BY <1>1, <2>1 DEF Orderly, SeedsAt
  <2> QED
    BY <1>1, <1>6, <2>2 DEF Achieved
<1> QED
  BY <1>1, <1>4, <1>5, <1>6

\* The end of a revision leaves what the new version stands for.
LEMMA EndRevisionAchieves ==
    ASSUME IInv, NEW r \in Runners, EndRevision(r), Achieved(r)
    PROVE  Achieved(r)'
<1>1. /\ On(r) /\ InScript(r) /\ Added(r) /\ Deleted(r) /\ Now(r).op = "stamp"
      /\ run[r].command \in {"upgrade", "downgrade", "bootstrap"}
      /\ run'[r].command = run[r].command
  BY StepIs DEF EndRevision
<1>2. /\ run[r].command \in {"upgrade", "downgrade"} /\ run[r].at = Len(Script(r))
      /\ run[r].rev \in {1, 2, 3}
  BY <1>1, OpIs DEF InScript, Latest
<1>3. /\ run'[r].rev = IF run[r].command = "upgrade" THEN run[r].rev + 1 ELSE run[r].rev - 1
      /\ run'[r].at = 1 /\ version' = ToVersion(r) /\ schema' = schema /\ rows' = Current(r)
  BY TurnsOver
<1>4. run[r].rev = 2 =>
        run[r].at = IF run[r].command = "upgrade" THEN 13 ELSE 10
  BY <1>1, <1>2, ScriptIs, SeedUpIs, SeedDownIs
<1>5. Orderly'
  <2>1. CASE run[r].command = "upgrade"
    <3>1. Climbed(r) /\ version' = run[r].rev
      BY <1>1, <1>3, <2>1 DEF Achieved, ToVersion
    <3>2. rows' = rows
      BY <1>1, <1>3, <1>4, <2>1, CurrentIs DEF Seeding, Unseeding, Booting
    <3>3. CASE run[r].rev = 1
      <4>1. version = 0 /\ version' = 1 /\ Script(r) = ModelsUp
        BY <1>1, <2>1, <3>1, <3>3, ScriptIs DEF Climbed
      <4>2. schema = SchemaAt[1]
        <5>1. schema = SchemaAt[0] \cup Objs(ModelsUp, 1, Len(ModelsUp))
          BY <1>2, <3>1, <3>3, <4>1 DEF Climbed
        <5> QED
          BY <5>1, ModelsScripts, SchemaIs
      <4>3. rows \cap Seeds = SeedsAt(1)
        BY <3>1, <3>3, <4>1 DEF Climbed, SeedsAt
      <4> QED
        BY <1>3, <3>2, <4>1, <4>2, <4>3 DEF Orderly, SeedsAt
    <3>4. CASE run[r].rev = 2
      <4>1. version = 1 /\ version' = 2 /\ run[r].at = 13
        BY <1>4, <2>1, <3>1, <3>4 DEF Climbed
      <4>2. schema = SchemaAt[2]
        BY <3>1, <3>4, <4>1, SeedUpIs, SchemaIs DEF Climbed
      <4>3. rows \cap Seeds = SeedsAt(2)
        BY <3>1, <3>4, <4>1 DEF Climbed, SeedsAt
      <4> QED
        BY <1>3, <3>2, <4>1, <4>2, <4>3 DEF Orderly, SeedsAt
    <3>5. CASE run[r].rev = 3
      <4>1. version = 2 /\ version' = 3 /\ Script(r) = AccountUp
        BY <1>1, <2>1, <3>1, <3>5, ScriptIs DEF Climbed
      <4>2. schema = SchemaAt[3]
        BY <1>2, <3>1, <3>5, <4>1, AccountScripts, SchemaIs DEF Climbed
      <4>3. rows \cap Seeds = SeedsAt(3)
        BY <3>1, <3>5, <4>1 DEF Climbed, SeedsAt
      <4> QED
        BY <1>3, <3>2, <4>1, <4>2, <4>3 DEF Orderly, SeedsAt
    <3> QED
      BY <1>2, <3>3, <3>4, <3>5
  <2>2. CASE run[r].command = "downgrade"
    <3>1. Descended(r) /\ version' = run[r].rev - 1 /\ version = run[r].rev
      BY <1>1, <1>3, <2>2 DEF Achieved, ToVersion, Descended
    <3>2. run[r].rev # 2 => rows' = rows
      BY <1>1, <1>3, <2>2, CurrentIs DEF Seeding, Unseeding, Booting
    <3>3. CASE run[r].rev = 1
      <4>1. version = 1 /\ version' = 0 /\ Script(r) = ModelsDown
        BY <1>1, <2>2, <3>1, <3>3, ScriptIs
      <4>2. schema = SchemaAt[0]
        BY <1>2, <3>1, <3>3, <4>1, ModelsScripts, SchemaIs DEF Descended
      <4>3. rows \cap Seeds = SeedsAt(0)
        BY <3>1, <3>3, <4>1 DEF Descended, SeedsAt
      <4> QED
        BY <1>3, <3>2, <3>3, <4>1, <4>2, <4>3 DEF Orderly, SeedsAt
    <3>4. CASE run[r].rev = 2
      <4>1. version = 2 /\ version' = 1 /\ run[r].at = 10
        BY <1>4, <2>2, <3>1, <3>4
      <4>2. schema = SchemaAt[1]
        BY <3>1, <3>4, <4>1, SchemaIs DEF Descended
      <4>3. rows' \cap Seeds = {}
        BY <1>1, <1>3, <2>2, <3>4, <4>1, CurrentIs DEF Seeding, Unseeding, Booting
      <4> QED
        BY <1>3, <4>1, <4>2, <4>3 DEF Orderly, SeedsAt
    <3>5. CASE run[r].rev = 3
      <4>1. version = 3 /\ version' = 2 /\ Script(r) = AccountDown
        BY <1>1, <2>2, <3>1, <3>5, ScriptIs
      <4>2. schema = SchemaAt[2]
        BY <1>2, <3>1, <3>5, <4>1, AccountScripts, SchemaIs DEF Descended
      <4>3. rows \cap Seeds = SeedsAt(2)
        BY <3>1, <3>5, <4>1 DEF Descended, SeedsAt
      <4> QED
        BY <1>3, <3>2, <3>5, <4>1, <4>2, <4>3 DEF Orderly, SeedsAt
    <3> QED
      BY <1>2, <3>3, <3>4, <3>5
  <2> QED
    BY <1>2, <2>1, <2>2
<1>6. /\ Objs(Script(r)', 1, 1) = {} /\ Objs(SeedUp, 10, 1) = {}
      /\ ~ (run'[r].at > 10) /\ ~ (run'[r].at > 4)
  BY <1>3, NothingBehind, SeedUpIs
<1>7. CASE run[r].command = "upgrade"
  <2>1. version' = run'[r].rev - 1
    BY <1>2, <1>3, <1>7 DEF ToVersion
  <2>2. Climbed(r)'
    BY <1>3, <1>5, <1>6, <2>1 DEF Climbed, Orderly
  <2> QED
    BY <1>1, <1>5, <1>7, <2>2 DEF Achieved
<1>8. CASE run[r].command = "downgrade"
  <2>1. version' = run'[r].rev
    BY <1>2, <1>3, <1>8 DEF ToVersion
  <2>2. Descended(r)'
    BY <1>3, <1>5, <1>6, <2>1 DEF Descended, Orderly
  <2> QED
    BY <1>1, <1>5, <1>8, <2>2 DEF Achieved
<1> QED
  BY <1>2, <1>7, <1>8

\* The steps of the bootstrap and the end of a run.
LEMMA OtherAchieves ==
    ASSUME IInv, NEW r \in Runners, Look(r) \/ Commit(r) \/ Fail(r) \/ Crash(r), Achieved(r)
    PROVE  Achieved(r)'
<1>1. /\ On(r) /\ InScript(r) /\ Added(r) /\ Deleted(r)
      /\ run[r].command \in {"upgrade", "downgrade", "bootstrap"}
      /\ run'[r].command = run[r].command
  BY StepIs
<1>2. CASE Look(r) \/ Commit(r)
  <2>1. run[r].command = "bootstrap"
    BY <1>1, <1>2, OpIs DEF Look, Commit
  <2>2. Orderly
    BY <1>1, <2>1 DEF Achieved, Booting
  <2>3. rows' \cap Seeds = rows \cap Seeds
    <3>1. run[r].ins \cap Seeds = {} /\ run[r].del = {}
      BY <1>1, <2>1 DEF Added, Deleted, Seeds, Grants
    <3> QED
      BY <1>2, <3>1 DEF Look, Commit, Current
  <2>4. schema' = schema /\ version' = version
    BY <1>2 DEF Look, Commit
  <2>5. Orderly'
    BY <2>2, <2>3, <2>4 DEF Orderly, SeedsAt
  <2> QED
    BY <1>1, <2>1, <2>5 DEF Achieved
<1>3. CASE Fail(r) \/ Crash(r)
  <2>1. run'[r].state = "failed"
    BY <1>3 DEF Fail, Crash, IInv, Typed, Runs
  <2> QED
    BY <2>1 DEF Achieved, Booting, On
<1> QED
  BY <1>2, <1>3

\* A command that begins on an orderly database has nothing to undo.
LEMMA BeginAchieves ==
    ASSUME IInv, NEW r \in Runners, NEW c \in Commands, NEW t \in 0 .. Latest, Begin(r, c, t)
    PROVE  SoundInv'
<1>1. /\ version \in 0 .. 3 /\ UNCHANGED <<schema, rows, version>>
      /\ c \in {"upgrade", "downgrade", "bootstrap"}
  BY MigrationsAssumption DEF Begin, IInv, Typed, Latest
<1>2. run' = [s \in Runners |->
        IF s = r
        THEN [Idle EXCEPT !.state = IF c = "upgrade" /\ version = Latest THEN "done" ELSE "on",
                          !.command = c, !.target = t,
                          !.rev = IF c = "upgrade" THEN version + 1 ELSE version,
                          !.sound = Orderly /\ \A q \in Runners \ {r} : ~ On(q)]
        ELSE [run[s] EXCEPT !.sound = FALSE]]
  BY DEF Begin
<1>3. \A s \in Runners \ {r} : run'[s].sound = FALSE /\ (On(s)' <=> On(s))
  BY <1>2 DEF IInv, Typed, Runs, On
<1>4. /\ run'[r].rev = IF c = "upgrade" THEN version + 1 ELSE version
      /\ run'[r].at = 1 /\ run'[r].command = c
      /\ run'[r].sound => Orderly /\ \A q \in Runners \ {r} : ~ On(q)
  BY <1>2 DEF Idle
<1> SUFFICES ASSUME run'[r].sound
             PROVE  Achieved(r)' /\ \A q \in Runners \ {r} : ~ On(q)'
  BY <1>3 DEF SoundInv
<1>5. Orderly /\ Orderly' /\ \A q \in Runners \ {r} : ~ On(q)'
  BY <1>1, <1>3, <1>4 DEF Orderly, SeedsAt
<1>6. /\ Objs(Script(r)', 1, 1) = {} /\ Objs(SeedUp, 10, 1) = {}
      /\ ~ (run'[r].at > 10) /\ ~ (run'[r].at > 4)
  BY <1>4, NothingBehind, SeedUpIs
<1>7. c = "upgrade" => Climbed(r)'
  <2> SUFFICES ASSUME c = "upgrade" PROVE Climbed(r)'
    OBVIOUS
  <2>1. version' = run'[r].rev - 1
    BY <1>1, <1>4
  <2> QED
    BY <1>4, <1>5, <1>6, <2>1 DEF Climbed, Orderly
<1>8. c = "downgrade" => Descended(r)'
  <2> SUFFICES ASSUME c = "downgrade" PROVE Descended(r)'
    OBVIOUS
  <2>1. version' = run'[r].rev
    BY <1>1, <1>4
  <2> QED
    BY <1>4, <1>5, <1>6, <2>1 DEF Descended, Orderly
<1> QED
  BY <1>4, <1>5, <1>7, <1>8 DEF Achieved

\* Every step of it, up or down.
LEMMA SoundStep ==
    ASSUME IInv, SoundInv, [Next]_vars
    PROVE  SoundInv'
<1>1. CASE UNCHANGED vars
  <2>1. UNCHANGED <<schema, rows, version, run, reverted>>
    BY <1>1 DEF vars
  <2> QED
    BY <2>1 DEF SoundInv, Achieved, Climbed, Descended, Booting, Orderly, SeedsAt, On, Script
<1>2. ASSUME NEW r \in Runners, NEW c \in Commands, NEW t \in 0 .. Latest, Begin(r, c, t)
      PROVE  SoundInv'
  BY <1>2, BeginAchieves
<1>3. ASSUME NEW r \in Runners, Define(r) PROVE SoundInv'
  BY <1>3, DefineAchieves, SoundKeeps
<1>4. ASSUME NEW r \in Runners, Write(r) PROVE SoundInv'
  BY <1>4, WriteAchieves, SoundKeeps
<1>5. ASSUME NEW r \in Runners, EndRevision(r) PROVE SoundInv'
  BY <1>5, EndRevisionAchieves, SoundKeeps
<1>6. ASSUME NEW r \in Runners, Look(r) \/ Commit(r) \/ Fail(r) \/ Crash(r) PROVE SoundInv'
  BY <1>6, OtherAchieves, SoundKeeps
<1> QED
  BY <1>1, <1>2, <1>3, <1>4, <1>5, <1>6 DEF Next

\* No statement of an upgrade that is let alone meets an error.
LEMMA ClimbedWorks ==
    ASSUME IInv, NEW r \in Runners, On(r), run[r].command = "upgrade", Climbed(r)
    PROVE  ~ Errs(r)
<1>1. /\ InScript(r) /\ Added(r) /\ Deleted(r) /\ run[r].rev \in {1, 2, 3}
      /\ run[r].command \in {"upgrade", "downgrade", "bootstrap"}
  BY DEF IInv, Shape, InScript, Latest
<1>2. CASE Now(r).op = "stamp"
  BY <1>2 DEF Errs, FromVersion, Climbed
<1>3. CASE run[r].rev \in {1, 3} /\ Now(r).op # "stamp"
  <2>1. Plain(r) /\ Len(Script(r)) \in Nat /\ run[r].at \in 1 .. Len(Script(r))
    BY <1>1, <1>3, ScriptIs DEF Plain, Ddl, InScript
  <2>2. Now(r).op = "create" /\ run[r].at # Len(Script(r))
    BY <1>1, <1>3, <2>1, NowIs
  <2>3. run[r].at \in 1 .. Len(Script(r)) - 1 /\ Now(r) = Script(r)[run[r].at]
    BY <2>1, <2>2 DEF Now
  <2>4. Now(r).obj \cap schema = {} /\ Now(r).of \subseteq schema
    <3>1. CASE run[r].rev = 1
      <4>1. Script(r) = ModelsUp
        BY <1>1, <3>1, ScriptIs
      <4>2. schema = Objs(ModelsUp, 1, run[r].at)
        BY <3>1, <4>1, SchemaIs DEF Climbed
      <4> QED
        BY <2>3, <4>1, <4>2, ModelsScripts
    <3>2. CASE run[r].rev = 3
      <4>1. Script(r) = AccountUp /\ version = 2
        BY <1>1, <3>2, ScriptIs DEF Climbed
      <4>2. schema = SchemaAt[2] \cup Objs(AccountUp, 1, run[r].at)
        BY <3>2, <4>1 DEF Climbed
      <4>3. Now(r).obj \subseteq AccountParts
        <5>1. run[r].at \in Nat /\ 1 <= run[r].at /\ run[r].at < Len(Script(r))
          BY <2>1, <2>2
        <5> QED
          BY <2>1, <2>3, <4>1, <5>1, ObjsHas, AccountScripts
      <4>4. Now(r).of \subseteq SchemaAt[1] \cup Objs(AccountUp, 1, run[r].at)
        BY <2>3, <4>1, AccountScripts
      <4>5. Now(r).obj \cap Objs(AccountUp, 1, run[r].at) = {}
        BY <2>3, <4>1, AccountScripts
      <4> QED
        BY <4>2, <4>3, <4>4, <4>5, SchemaIs
    <3> QED
      BY <1>3, <3>1, <3>2
  <2> QED
    BY <2>2, <2>4 DEF Errs
<1>4. CASE run[r].rev = 2 /\ Now(r).op # "stamp"
  <2>1. Now(r) = SeedUp[run[r].at] /\ run[r].at \in 1 .. 13 /\ run[r].at # 13
    BY <1>1, <1>4, NowIs, SeedUpIs DEF Stamp, Statement
  <2>2. version = 1 /\ schema = SchemaAt[1] \cup Objs(SeedUp, 10, run[r].at)
    BY <1>4 DEF Climbed
  <2>3. CASE run[r].at \in 10 .. 12
    <3>1. Now(r).op = "replace" /\ Now(r).of \subseteq Names
      BY <2>1, <2>3, SeedUpIs
    <3>2. Now(r).of \subseteq schema
      BY <2>2, <3>1, SchemaIs
    <3> QED
      BY <3>1, <3>2 DEF Errs
  <2>4. CASE run[r].at \in 1 .. 9
    <3>1. /\ Now(r).obj \subseteq Seeds
          /\ Now(r).obj \cap Objs(SeedUp, 1, run[r].at) = {}
          /\ \/ Now(r).op = "insert" /\ Now(r).of = {}
             \/ Now(r).op = "copy"
      BY <2>1, <2>4, SeedUpIs
    <3>2. ~ (run[r].at > 10) /\ run[r].at <= 10
      BY <2>4
    <3>3. rows \cap Seeds = {}
      BY <2>2, <3>2 DEF Climbed, SeedsAt
    <3>4. Current(r) = rows \cup Objs(SeedUp, 1, run[r].at)
      BY <1>1, <1>4, <3>2 DEF Added, Deleted, Current
    <3>5. Now(r).obj \cap Current(r) = {}
      BY <3>1, <3>3, <3>4
    <3> QED
      BY <3>1, <3>5 DEF Errs
  <2>5. run[r].at \in 10 .. 12 \/ run[r].at \in 1 .. 9
    BY <2>1
  <2> QED
    BY <2>3, <2>4, <2>5
<1> QED
  BY <1>1, <1>2, <1>3, <1>4

\* A run that is let alone on an orderly database does its work: no statement
\* of an upgrade meets an error, and what reports success, up or down, has left
\* exactly the schema and the rows its version stands for.
THEOREM LoneRunWorksCorrect == Spec => []LoneRunWorks
<1>1. Init => SoundInv
  <2> SUFFICES ASSUME Init PROVE SoundInv
    OBVIOUS
  <2>1. \A r \in Runners : run[r].sound = FALSE
    BY DEF Init, Idle
  <2> QED
    BY <2>1 DEF SoundInv
<1>2. IInv /\ SoundInv /\ [Next]_vars => SoundInv'
  BY SoundStep
<1>3. IInv /\ SoundInv => LoneRunWorks
  <2> SUFFICES ASSUME IInv, SoundInv PROVE LoneRunWorks
    OBVIOUS
  <2>1. UpgradeRunsThrough
    BY ClimbedWorks DEF SoundInv, Achieved, UpgradeRunsThrough
  <2>2. DoneMeansExact
    BY DEF SoundInv, Achieved, DoneMeansExact
  <2> QED
    BY <2>1, <2>2 DEF LoneRunWorks
<1> QED
  BY <1>1, <1>2, <1>3, MigrationsInvariant, PTL DEF Spec

===============================================================================
