------------------------------- MODULE Schema -------------------------------
(***************************************************************************)
(* The database schema: the bootstrap of a database by init_db             *)
(* (src/backend/app/db.py), the three Alembic revisions                    *)
(* (src/backend/alembic), the check a production backend makes before it   *)
(* serves, and the start of backend processes, with deaths in between.     *)
(*                                                                         *)
(* On PostgreSQL a command or a bootstrap is one transaction.  On SQLite   *)
(* every statement that changes the schema takes effect at once; only a    *)
(* revision's last writes, data and stamp, are one transaction.            *)
(***************************************************************************)
EXTENDS Naturals, Sequences, FiniteSets

CONSTANTS
    Dialects,      \* the databases considered: "postgres", "sqlite"
    Origins,       \* what the database holds at first: "empty", "legacy"
    Modes,         \* "production", "development"
    Backends,      \* backend processes that share the database
    Projects,
    MaxVersion,    \* bound: project_versions of a legacy project
    MaxSaves,      \* bound: saves of drafts
    MaxDowngrades, \* bound: downgrade commands
    MaxDeaths      \* bound: processes that die

ASSUME SchemaAssumption ==
    /\ Dialects \subseteq {"postgres", "sqlite"}
    /\ Origins \subseteq {"empty", "legacy"}
    /\ Modes \subseteq {"production", "development"}
    /\ {MaxVersion, MaxSaves, MaxDowngrades, MaxDeaths} \subseteq Nat

LastRevision == 3      \* the last revision
AskedRevision == 2  \* the revision assert_storage_schema_ready asks for

(* What init_db creates, in its order: two of the baseline's tables, two   *)
(* of the catalogue's, and the columns added by revisions 02 and 01.       *)
Bootstrap == <<"users", "projects", "project_drafts", "artifacts", "run_columns", "columns">>
Parts == {Bootstrap[i] : i \in DOMAIN Bootstrap}

(* The statements of the revisions.  A statement in Guarded looks whether  *)
(* its part exists; a create_table or a drop does not and raises.          *)
Upgrades == <<  <<"columns", "project_drafts", "artifacts">>, <<"run_columns">>, <<"backfill">>  >>
Downgrades == <<  <<"artifacts", "project_drafts">>, <<"run_columns">>, <<>>  >>
Guarded == {"columns", "run_columns"}

VARIABLES
    dialect, origin, mode, \* fixed by Init
    schema,   \* the parts that exist
    stamp,    \* alembic_version, 0 when there is none
    exists,   \* the rows of projects
    versions, \* MAX(version_number) of a project's versions, 0 when there is none
    draft,    \* the version of a project's draft, 0 when there is none
    defaults, \* the rows seeded by init_db exist
    admin,    \* the bootstrap administrator exists
    backend,  \* what each process is doing, and what it saw of the row it may insert
    command,  \* the Alembic command that runs
    saves, downgrades, deaths

fixed == <<dialect, origin, mode>>
data == <<exists, versions, draft>>
seeds == <<defaults, admin>>
bounds == <<saves, downgrades, deaths>>
vars == <<fixed, schema, stamp, data, seeds, backend, command, bounds>>

BackendPC == {"down", "create", "look", "seed", "find", "insert", "serving", "refused"} \cup Guarded

(* `at` is the next statement of revision `rev`, `view` the schema the     *)
(* command sees, `fill` the drafts it has inserted and not committed.      *)
Idle == [pc |-> "idle", rev |-> 0, target |-> 0, at |-> 0, view |-> {}, fill |-> {}]
Command == [pc : {"idle", "upgrade", "bootstrap", "downgrade"}, rev : 0..LastRevision, target : 0..LastRevision,
            at : Nat, view : SUBSET Parts, fill : SUBSET Projects]

TypeOK ==
    /\ dialect \in Dialects /\ origin \in Origins /\ mode \in Modes
    /\ schema \subseteq Parts /\ stamp \in 0..LastRevision
    /\ exists \subseteq Projects
    /\ versions \in [Projects -> 0..MaxVersion] /\ draft \in [Projects -> Nat]
    /\ defaults \in BOOLEAN /\ admin \in BOOLEAN
    /\ backend \in [Backends -> [pc : BackendPC, saw : BOOLEAN]]
    /\ command \in Command
    /\ saves \in 0..MaxSaves /\ downgrades \in 0..MaxDowngrades /\ deaths \in 0..MaxDeaths

Init ==
    /\ dialect \in Dialects /\ origin \in Origins /\ mode \in Modes
    /\ schema = IF origin = "legacy" THEN {"users", "projects"} ELSE {}
    /\ stamp = 0
    /\ exists \in IF origin = "legacy" THEN SUBSET Projects ELSE {{}}
    /\ versions \in [Projects -> 0..MaxVersion]
    /\ \A p \in Projects \ exists : versions[p] = 0
    /\ draft = [p \in Projects |-> 0]
    /\ defaults = FALSE /\ admin = FALSE
    /\ backend = [b \in Backends |-> [pc |-> "down", saw |-> FALSE]]
    /\ command = Idle
    /\ saves = 0 /\ downgrades = 0 /\ deaths = 0

Transactional == dialect = "postgres"
Up(b) == backend[b].pc \notin {"down", "refused"}
AllDown == \A b \in Backends : ~Up(b)
(* A developer runs Alembic while the development server is stopped; a     *)
(* production database may be upgraded while it is served, and is only     *)
(* downgraded while nothing is served or started.                          *)
MayMigrate == mode = "production" \/ AllDown

-----------------------------------------------------------------------------
(* The start of a backend: startup_event.                                  *)

Enter(b, pc) == backend' = [backend EXCEPT ![b] = [pc |-> pc, saw |-> FALSE]]
SawNothing(b, pc, found) ==  \* variant: always inserts
    backend' = [backend EXCEPT ![b] = [pc |-> pc, saw |-> FALSE]]
Saw(b, pc, found) == backend' = [backend EXCEPT ![b] = [pc |-> pc, saw |-> found]]

(* assert_storage_schema_ready: every table and column, and the revision.  *)
SchemaReady == Parts \ {"users"} \subseteq schema /\ stamp = AskedRevision

StartProduction(b) ==
    /\ mode = "production" /\ backend[b].pc \in {"down", "refused"} /\ command.pc # "downgrade"
    /\ Enter(b, IF Transactional /\ SchemaReady THEN "find" ELSE "refused")
    /\ UNCHANGED <<fixed, schema, stamp, data, seeds, command, bounds>>

StartDevelopment(b) ==
    /\ mode = "development" /\ backend[b].pc = "down" /\ command = Idle
    /\ Enter(b, "create")
    /\ UNCHANGED <<fixed, schema, stamp, data, seeds, command, bounds>>

(* CREATE TABLE IF NOT EXISTS and _ensure_column, part after part.  For    *)
(* columns it looks first and adds them in a statement of its own.         *)
Missing == {i \in DOMAIN Bootstrap : Bootstrap[i] \notin schema}
First(S) == CHOOSE i \in S : \A j \in S : i <= j

Create(b) ==
    /\ backend[b].pc = "create"
    /\ IF Missing = {} \/ Transactional
       THEN Enter(b, "look") /\ UNCHANGED schema
       ELSE LET part == Bootstrap[First(Missing)] IN
            IF part \in Guarded
            THEN Enter(b, part) /\ UNCHANGED schema
            ELSE schema' = schema \cup {part} /\ UNCHANGED backend
    /\ UNCHANGED <<fixed, stamp, data, seeds, command, bounds>>

(* ALTER TABLE raises for a column that another process added since, and   *)
(* the start fails.                                                        *)
AddColumns(b) ==
    /\ backend[b].pc \in Guarded
    /\ IF backend[b].pc \in schema
       THEN Enter(b, "down") /\ UNCHANGED schema
       ELSE schema' = schema \cup {backend[b].pc} /\ Enter(b, "create")
    /\ UNCHANGED <<fixed, stamp, data, seeds, command, bounds>>

(* The seeds of init_db: a SELECT, then an INSERT if it found nothing.     *)
Look(b) ==
    /\ backend[b].pc = "look"
    /\ Saw(b, "seed", defaults)
    /\ UNCHANGED <<fixed, schema, stamp, data, seeds, command, bounds>>

(* The INSERT of a row that another process inserted since raises, and the *)
(* start fails.                                                            *)
Seed(b) ==
    /\ backend[b].pc = "seed"
    /\ IF defaults /\ ~backend[b].saw
       THEN Enter(b, "down") /\ UNCHANGED <<defaults, schema>>
       ELSE /\ Enter(b, "find")
            /\ defaults' = TRUE
            /\ schema' = Parts
    /\ UNCHANGED <<fixed, stamp, data, admin, command, bounds>>

(* ensure_bootstrap_admin: the same race for the administrator's row.      *)
Find(b) ==
    /\ backend[b].pc = "find"
    /\ Saw(b, "insert", admin)
    /\ UNCHANGED <<fixed, schema, stamp, data, seeds, command, bounds>>

Insert(b) ==
    /\ backend[b].pc = "insert"
    /\ IF admin /\ ~backend[b].saw
       THEN Enter(b, "down") /\ UNCHANGED admin
       ELSE Enter(b, "serving") /\ admin' = TRUE
    /\ UNCHANGED <<fixed, schema, stamp, data, defaults, command, bounds>>

(* create_project_v2 inserts a project with its draft.                     *)
CreateProject(p) ==
    /\ \E b \in Backends : backend[b].pc = "serving"
    /\ p \notin exists
    /\ exists' = exists \cup {p}
    /\ draft' = [draft EXCEPT ![p] = 1]
    /\ UNCHANGED <<fixed, schema, stamp, versions, seeds, backend, command, bounds>>

(* Every save of a draft counts its version up.                            *)
Save(p) ==
    /\ \E b \in Backends : backend[b].pc = "serving"
    /\ draft[p] > 0 /\ saves < MaxSaves
    /\ draft' = [draft EXCEPT ![p] = @ + 1]
    /\ saves' = saves + 1
    /\ UNCHANGED <<fixed, schema, stamp, exists, versions, seeds, backend, command, downgrades, deaths>>

Stop(b) ==
    /\ Up(b) /\ deaths < MaxDeaths
    /\ Enter(b, "down")
    /\ deaths' = deaths + 1
    /\ UNCHANGED <<fixed, schema, stamp, data, seeds, command, saves, downgrades>>

-----------------------------------------------------------------------------
(* Alembic.                                                                *)

Upgrade(target) ==
    /\ command = Idle /\ MayMigrate /\ stamp < target
    /\ command' = [Idle EXCEPT !.pc = "upgrade", !.rev = stamp + 1, !.target = target,
                               !.at = 1, !.view = schema]
    /\ UNCHANGED <<fixed, schema, stamp, data, seeds, backend, bounds>>

Raise == command' = Idle /\ UNCHANGED <<schema, seeds>>
EffectAtOnce(view) ==  \* variant: every statement commits
    /\ command' = [command EXCEPT !.at = @ + 1, !.view = view]
    /\ schema' = view
    /\ UNCHANGED seeds
(* A statement's effect: seen by everyone at once, or by the command only. *)
Effect(view) ==
    /\ command' = [command EXCEPT !.at = @ + 1, !.view = view]
    /\ schema' = IF Transactional THEN schema ELSE view
    /\ UNCHANGED seeds

ToFillVersioned ==  \* variant: joins project_versions
    {p \in exists : draft[p] = 0 /\ versions[p] > 0}
ToFillAll == exists  \* variant: without NOT EXISTS
ToFill == {p \in exists : draft[p] = 0}
FirstDraft(p) == IF versions[p] < 1 THEN 1 ELSE versions[p]

(* Revision 01 on a database without projects: with users it is a partial  *)
(* schema and refused, otherwise init_db creates everything through a      *)
(* connection of its own.                                                  *)
Fresh == command.rev = 1 /\ command.at = 1 /\ "projects" \notin command.view

Statement ==
    /\ command.pc = "upgrade" /\ command.at \in DOMAIN Upgrades[command.rev]
    /\ LET part == Upgrades[command.rev][command.at] IN
       CASE Fresh ->
              IF "users" \in command.view THEN Raise
              ELSE command' = [command EXCEPT !.pc = "bootstrap"] /\ UNCHANGED <<schema, seeds>>
         [] part = "backfill" ->
              /\ command' = [command EXCEPT !.at = @ + 1, !.fill = ToFill]
              /\ UNCHANGED <<schema, seeds>>
         [] ~Fresh /\ part \in Parts \ Guarded /\ part \in command.view -> Raise
         [] OTHER -> Effect(command.view \cup {part})
    /\ UNCHANGED <<fixed, stamp, data, backend, bounds>>

(* init_db inside revision 01, which then returns.                         *)
BootstrapStep ==
    /\ command.pc = "bootstrap"
    /\ IF Missing = {} \/ Transactional
       THEN /\ schema' = Parts /\ defaults' = TRUE
            /\ command' = [command EXCEPT !.pc = "upgrade", !.view = Parts,
                                          !.at = Len(Upgrades[1]) + 1]
       ELSE schema' = schema \cup {Bootstrap[First(Missing)]} /\ UNCHANGED <<defaults, command>>
    /\ UNCHANGED <<fixed, stamp, data, admin, backend, bounds>>

Filled == [p \in Projects |-> IF p \in command.fill THEN FirstDraft(p) ELSE draft[p]]

(* The stamp after a revision's statements: the end of a transaction on    *)
(* SQLite, and of the command's only one on PostgreSQL.                    *)
Stamped ==
    /\ command.pc = "upgrade" /\ command.at = Len(Upgrades[command.rev]) + 1
    /\ command' = IF command.rev = command.target THEN Idle
                  ELSE [command EXCEPT !.rev = @ + 1, !.at = 1]
    /\ IF Transactional /\ command.rev < command.target
       THEN UNCHANGED <<schema, stamp, draft>>
       ELSE schema' = command.view /\ stamp' = command.rev /\ draft' = Filled
    /\ UNCHANGED <<fixed, exists, versions, seeds, backend, bounds>>

(* alembic downgrade -1, while nothing is served.                          *)
Downgrade ==
    /\ command = Idle /\ AllDown /\ stamp > 0 /\ downgrades < MaxDowngrades
    /\ command' = [Idle EXCEPT !.pc = "downgrade", !.rev = stamp, !.at = 1, !.view = schema]
    /\ downgrades' = downgrades + 1
    /\ UNCHANGED <<fixed, schema, stamp, data, seeds, backend, saves, deaths>>

NoDrafts == [p \in Projects |-> 0]

DropStep ==
    /\ command.pc = "downgrade" /\ command.at \in DOMAIN Downgrades[command.rev]
    /\ LET part == Downgrades[command.rev][command.at] IN
         /\ IF part \in command.view THEN Effect(command.view \ {part}) ELSE Raise
         /\ draft' = IF part = "project_drafts" /\ ~Transactional THEN NoDrafts ELSE draft
    /\ UNCHANGED <<fixed, stamp, exists, versions, backend, bounds>>

Unstamped ==
    /\ command.pc = "downgrade" /\ command.at = Len(Downgrades[command.rev]) + 1
    /\ command' = Idle
    /\ schema' = command.view /\ stamp' = command.rev - 1
    /\ draft' = IF command.rev = 1 THEN NoDrafts ELSE draft
    /\ UNCHANGED <<fixed, exists, versions, seeds, backend, bounds>>

(* The command dies; what is not committed is lost.                        *)
CommandDies ==
    /\ command # Idle /\ deaths < MaxDeaths
    /\ command' = Idle
    /\ deaths' = deaths + 1
    /\ UNCHANGED <<fixed, schema, stamp, data, seeds, backend, saves, downgrades>>

-----------------------------------------------------------------------------
StartStep(b) ==
    StartProduction(b) \/ StartDevelopment(b) \/ Create(b) \/ AddColumns(b) \/ Look(b)
    \/ Seed(b) \/ Find(b) \/ Insert(b)

CommandStep == Statement \/ BootstrapStep \/ Stamped \/ DropStep \/ Unstamped

Next ==
    \/ \E b \in Backends : StartStep(b) \/ Stop(b)
    \/ \E p \in Projects : CreateProject(p) \/ Save(p)
    \/ \E target \in {AskedRevision, LastRevision} : Upgrade(target)
    \/ CommandStep \/ Downgrade \/ CommandDies

(* A supervisor starts a backend that is down, the operator runs "alembic  *)
(* upgrade head" until it has succeeded, and what was started goes on.     *)
Fairness ==
    /\ \A b \in Backends : SF_vars(StartStep(b))
    /\ WF_vars(CommandStep) /\ SF_vars(Upgrade(LastRevision))

Spec == Init /\ [][Next]_vars /\ Fairness

-----------------------------------------------------------------------------
(* A stamp is only there when its revision's work is: the catalogue after  *)
(* 01, the run columns after 02 and a draft of every project after 03.  On *)
(* SQLite this holds until a downgrade, whose statements are not undone    *)
(* when it breaks off.                                                     *)
StampMeansDone ==
    Transactional \/ downgrades = 0 =>
        /\ stamp >= 1 => Parts \ {"run_columns"} \subseteq schema
        /\ stamp >= 2 => "run_columns" \in schema
        /\ stamp = 3 => \A p \in exists : draft[p] > 0

(* Whoever starts, migrates or dies in between: a backend that serves has  *)
(* the whole schema, and the rows seeded into it if it has seeded any.     *)
ServedIsComplete ==
    \A b \in Backends : backend[b].pc = "serving" => schema = Parts /\ admin

(* A draft's version never goes back: the backfill leaves the drafts of    *)
(* projects that were saved meanwhile alone, and only the downgrade that   *)
(* drops the table loses one.                                              *)
DraftsKept ==
    [][\A p \in Projects : draft'[p] < draft[p] => "project_drafts" \notin schema']_vars

(* A legacy production database reaches the last revision, however often   *)
(* the upgrade dies or is rolled back: revision 01 leaves nothing behind   *)
(* on which it would stumble the next time.                                *)
UpgradeFinishes ==
    (Transactional /\ origin = "legacy" /\ mode = "production") => <>[](stamp = LastRevision)

(* Processes that start together race for the columns, the seeds and the   *)
(* administrator; who loses fails, but serves when it is started again.    *)
DevelopmentServes ==
    mode = "development" => \A b \in Backends : <>[](backend[b].pc = "serving")

(* src/backend/app/db.py:812: "Run 'alembic upgrade head' before starting  *)
(* the backend.": who did so is not refused.                               *)
HeadIsAccepted ==
    [][\A b \in Backends : backend[b].pc # "refused" /\ backend'[b].pc = "refused"
                             => stamp # LastRevision \/ ~Transactional]_vars

=============================================================================
