------------------------------ MODULE StudyLog ------------------------------
(***************************************************************************)
(* What a study records and exports: projects and runs of an experiment,   *)
(* the edit events a browser sends, the correction memories made of them,  *)
(* the admission of runs to the analysis and the research exports          *)
(* (src/backend/app/persistence.py), on top of the sessions of Accounts.   *)
(*                                                                         *)
(* A browser keeps the events of a project and sends all of them with      *)
(* every save, study events before operation logs.                         *)
(***************************************************************************)
EXTENDS Accounts

CONSTANTS
    Dialect,    \* "sqlite" or "postgres"
    Admins,     \* users with the administrator's role
    Projects, Runs, Events, Exports,
    Logs,       \* the events that are operation logs
    Memorable   \* the events _save_correction_memory_from_event keeps

ASSUME StudyAssumption ==
    /\ Dialect \in {"sqlite", "postgres"}
    /\ Admins \subseteq Users /\ Logs \subseteq Events /\ Memorable \subseteq Events
    /\ None \notin Projects \cup Runs \cup Events \cup Exports
    /\ Endpoints = {"create", "run", "events", "admit", "export"}

VARIABLES
    project,  \* the rows of projects
    run,      \* the rows of generation_runs
    made,     \* the events in the browser, in the order they happened
    event,    \* the rows of edit_events
    memory,   \* the rows of correction_memories
    export,   \* the file of a research export, and whether its row exists
    answered, \* history: the events of every batch that was answered with success
    admitted  \* history: the runs that were included at some time

studyVars == <<project, run, made, event, memory, export, answered, admitted>>
vars == <<accountVars, moves, request, studyVars>>

Project == [owner : Users, experiment : Experiments \cup {None}, active : Runs \cup {None}]
NoProject == [owner |-> None, experiment |-> None, active |-> None]
Run == [project : Projects, owner : Users, usage : {"research", "general"},
        status : {"candidate", "included", "excluded"}]
NoRun == [project |-> None, owner |-> None, usage |-> "none", status |-> "none"]

(* A row of edit_events or correction_memories.                            *)
Row == [project : Projects, id : Events, user : Users, experiment : Experiments \cup {None},
        run : Runs \cup {None}]
(* `scope` is the experiment that was asked for, `only` is included_only.  *)
NoExport == [file |-> FALSE, row |-> FALSE, rows |-> {}, scope |-> None, only |-> FALSE]
Export == [file : BOOLEAN, row : BOOLEAN, rows : SUBSET Row,
           scope : Experiments \cup {None}, only : BOOLEAN]

(* What the requests are about.  `batch` and `run` are what the browser    *)
(* sends, `base` the project as the request has read it, `export` the      *)
(* export it makes, `rows` its contents.                                   *)
Task == [project : Projects, usage : {"research", "general"}]
        \cup [project : Projects, run : Runs \cup {None}, batch : Seq(Events), base : Project \cup {NoProject}]
        \cup [run : Runs, status : {"included", "excluded"}]
        \cup [only : BOOLEAN, rows : SUBSET Row, export : Exports \cup {None}]

TypeOK ==
    /\ AccountsTypeOK
    /\ request \in [Requests -> RequestOf(Task \cup {None})]
    /\ project \in [Projects -> Project \cup {NoProject}]
    /\ run \in [Runs -> Run \cup {NoRun}]
    /\ made \in [Projects -> Seq(Events)]
    /\ event \subseteq Row /\ memory \subseteq event
    /\ export \in [Exports -> Export]
    /\ answered \subseteq Projects \X Events /\ admitted \subseteq Runs

(* Every user has logged in once, and may have created a project.          *)
Init ==
    /\ clock = 0
    /\ bucket = [k \in Keys |-> <<>>] /\ accepted = [k \in Keys |-> <<>>]
    /\ \E first \in [Users -> Sessions] :
         /\ \A u, v \in Users : first[u] = first[v] => u = v
         /\ issued = {first[u] : u \in Users}
         /\ session = [s \in Sessions |->
                          IF \E u \in Users : first[u] = s
                          THEN [user |-> CHOOSE u \in Users : first[u] = s, experiment |-> None,
                                expires |-> TTL]
                          ELSE NoSession]
    /\ participant = {} /\ ended = {} /\ moves = 0
    /\ request = [q \in Requests |-> Nothing]
    /\ \E some \in SUBSET (Projects \X Users) :
         project = [p \in Projects |->
                       IF \E u \in Users : <<p, u>> \in some
                       THEN [owner |-> CHOOSE u \in Users : <<p, u>> \in some,
                             experiment |-> None, active |-> None]
                       ELSE NoProject]
    /\ run = [r \in Runs |-> NoRun]
    /\ made = [p \in Projects |-> <<>>]
    /\ event = {} /\ memory = {} /\ export = [x \in Exports |-> NoExport]
    /\ answered = {} /\ admitted = {}

Exists(p) == project[p] # NoProject

-----------------------------------------------------------------------------
(* The requests, as browsers send them.                                    *)

Send(q, r) ==
    /\ request[q].pc = "idle" /\ moves < MaxMoves
    /\ request' = [request EXCEPT ![q] = r]
    /\ moves' = moves + 1
    /\ UNCHANGED <<accountVars, studyVars>>

With(op, s, task) == [Nothing EXCEPT !.pc = "read", !.op = op, !.token = s, !.task = task]

AskLogin(q, u) == Send(q, [Nothing EXCEPT !.pc = "client", !.op = "login", !.goal = u])
AskLogout(q, s) == Send(q, With("logout", s, None))
AskJoin(q, s, e) == Send(q, [With("join", s, None) EXCEPT !.goal = e])
AskCreate(q, s) == Send(q, With("create", s, None))
AskRun(q, s, p, usage) == Exists(p) /\ Send(q, With("run", s, [project |-> p, usage |-> usage]))

(* A save.  The browser has new events since the last one, and sends what  *)
(* it has (buildEventPayloads): study events first, and the active run of  *)
(* the project it has loaded.                                              *)
Study(e) == e \notin Logs
Log(e) == e \in Logs
Outbox(events) == SelectSeq(events, Study) \o SelectSeq(events, Log)
Made(p) == {made[p][i] : i \in DOMAIN made[p]}
Edits(p) == {<<>>} \cup {<<e>> : e \in Events \ UNION {Made(x) : x \in Projects}}

AskEvents(q, s, p) ==
    /\ request[q].pc = "idle" /\ moves < MaxMoves /\ Exists(p)
    /\ \E new \in Edits(p) :
         LET events == made[p] \o new IN
           /\ events # <<>>
           /\ made' = [made EXCEPT ![p] = events]
           /\ request' = [request EXCEPT ![q] =
                With("events", s, [project |-> p, run |-> project[p].active,
                                   batch |-> Outbox(events), base |-> NoProject])]
    /\ moves' = moves + 1
    /\ UNCHANGED <<accountVars, project, run, event, memory, export, answered, admitted>>

AskAdmit(q, s, r, status) ==
    run[r] # NoRun /\ Send(q, With("admit", s, [run |-> r, status |-> status]))

AskExport(q, s, e, only) ==
    Send(q, [With("export", s, [only |-> only, rows |-> {}, export |-> None]) EXCEPT !.goal = e])

-----------------------------------------------------------------------------
(* Projects and runs.                                                      *)

(* create_project_v2: the experiment is the one of the session as it was   *)
(* read.                                                                   *)
Create(q) ==
    /\ request[q].pc = "create"
    /\ \E p \in Projects :
         /\ ~Exists(p)
         /\ project' = [project EXCEPT ![p] = [owner |-> request[q].user,
                                               experiment |-> request[q].experiment, active |-> None]]
    /\ Ends(q)
    /\ UNCHANGED <<accountVars, moves, run, made, event, memory, export, answered, admitted>>

Owned(q) == project[request[q].task.project].owner = request[q].user

(* create_generation_run_v2: a run of the project becomes its active one.  *)
CreateRun(q) ==
    /\ request[q].pc = "run"
    /\ IF ~Owned(q) THEN UNCHANGED <<run, project>>
       ELSE \E r \in Runs :
              /\ run[r] = NoRun
              /\ run' = [run EXCEPT ![r] =
                   [project |-> request[q].task.project, owner |-> request[q].user,
                    usage |-> request[q].task.usage,
                    status |-> IF request[q].task.usage = "research" THEN "candidate" ELSE "excluded"]]
              /\ project' = [project EXCEPT ![request[q].task.project].active = r]
    /\ Ends(q)
    /\ UNCHANGED <<accountVars, moves, made, event, memory, export, answered, admitted>>

-----------------------------------------------------------------------------
(* save_project_events: one transaction.                                   *)

ReadProject(q) ==
    /\ request[q].pc = "events"
    /\ IF Owned(q)
       THEN request' = [request EXCEPT ![q].pc = "store",
                                       ![q].task.base = project[request[q].task.project]]
       ELSE Ends(q)
    /\ UNCHANGED <<accountVars, moves, studyVars>>

(* The run an event names, or the active one; dropped unless it is a run   *)
(* of this project and user.                                               *)
NamedRun(q) ==
    LET r == IF request[q].task.run # None THEN request[q].task.run ELSE request[q].task.base.active IN
      IF r # None /\ run[r].project = request[q].task.project /\ run[r].owner = request[q].user
      THEN r ELSE None

RowOfSession(q, e) ==  \* variant: the experiment the user has joined last
    [project |-> request[q].task.project, id |-> e, user |-> request[q].user,
     experiment |-> request[q].experiment, run |-> NamedRun(q)]
RowOf(q, e) == [project |-> request[q].task.project, id |-> e, user |-> request[q].user,
                experiment |-> request[q].task.base.experiment, run |-> NamedRun(q)]
Stored(p, e) == \E r \in event : r.project = p /\ r.id = e

Sent(q) == {request[q].task.batch[i] : i \in DOMAIN request[q].task.batch}
Repeated(q) == {i \in DOMAIN request[q].task.batch : Stored(request[q].task.project, request[q].task.batch[i])}

New(q) == {e \in Sent(q) : ~Stored(request[q].task.project, e)}

(* On SQLite a duplicate is skipped.  On PostgreSQL it aborts the          *)
(* transaction: the next statement raises and nothing of the batch is      *)
(* stored; after the last event the commit rolls back, and the answer is   *)
(* that of a success.                                                      *)
Aborted(q) == Dialect = "postgres" /\ Repeated(q) # {}
Fails(q) == Aborted(q) /\ Repeated(q) # {Len(request[q].task.batch)}

Store(q) ==
    /\ request[q].pc = "store"
    /\ LET rows == IF Aborted(q) THEN {} ELSE {RowOf(q, e) : e \in New(q)} IN
         /\ event' = event \cup rows
         /\ memory' = memory \cup {r \in rows : r.id \in Memorable}
    /\ answered' = IF Fails(q) THEN answered ELSE answered \cup ({request[q].task.project} \X Sent(q))
    /\ Ends(q)
    /\ UNCHANGED <<accountVars, moves, project, run, made, export, admitted>>

-----------------------------------------------------------------------------
(* The administrator's requests.                                           *)

(* update_run_analysis_status: only research runs leave "excluded".        *)
Admit(q) ==
    /\ request[q].pc = "admit"
    /\ LET r == request[q].task.run  status == request[q].task.status IN
         IF request[q].user \notin Admins \/ (run[r].usage # "research" /\ status # "excluded")
         THEN UNCHANGED <<run, admitted>>
         ELSE /\ run' = [run EXCEPT ![r].status = status]
              /\ admitted' = IF status = "included" THEN admitted \cup {r} ELSE admitted
    /\ Ends(q)
    /\ UNCHANGED <<accountVars, moves, project, made, event, memory, export, answered>>

(* _load_correction_memory_rows_for_export                                 *)
SelectedNotExcluded(scope, only) ==  \* variant: candidates are exported too
    {m \in memory :
        /\ scope # None => m.experiment = scope
        /\ only => m.run # None /\ run[m.run].status # "excluded"}
Selected(scope, only) ==
    {m \in memory :
        /\ scope # None => m.experiment = scope
        /\ only => m.run # None /\ run[m.run].usage = "research" /\ run[m.run].status = "included"}

Collect(q) ==
    /\ request[q].pc = "export"
    /\ IF request[q].user \in Admins
       THEN request' = [request EXCEPT ![q].pc = "put",
                                       ![q].task.rows = Selected(request[q].goal, request[q].task.only)]
       ELSE Ends(q)
    /\ UNCHANGED <<accountVars, moves, studyVars>>

(* put_admin_export: the file appears whole, under a new id.               *)
PutExport(q) ==
    /\ request[q].pc = "put"
    /\ \E x \in Exports :
         /\ ~export[x].file
         /\ export' = [export EXCEPT ![x] = [file |-> TRUE, row |-> FALSE, rows |-> request[q].task.rows,
                                             scope |-> request[q].goal, only |-> request[q].task.only]]
         /\ request' = [request EXCEPT ![q].pc = "insert", ![q].task.export = x]
    /\ UNCHANGED <<accountVars, moves, project, run, made, event, memory, answered, admitted>>

InsertExport(q) ==
    /\ request[q].pc = "insert"
    /\ export' = [export EXCEPT ![request[q].task.export].row = TRUE]
    /\ Ends(q)
    /\ UNCHANGED <<accountVars, moves, project, run, made, event, memory, answered, admitted>>

-----------------------------------------------------------------------------
(* The process dies: its requests end, the limiter forgets.                *)
Restart ==
    /\ moves < MaxMoves
    /\ moves' = moves + 1
    /\ request' = [q \in Requests |-> Nothing]
    /\ bucket' = [k \in Keys |-> <<>>] /\ accepted' = [k \in Keys |-> <<>>]
    /\ UNCHANGED <<clock, session, participant, issued, ended, studyVars>>

StudyStep(q) ==
    \/ Create(q) \/ CreateRun(q) \/ ReadProject(q) \/ Store(q)
    \/ Admit(q) \/ Collect(q) \/ PutExport(q) \/ InsertExport(q)

Ask(q) ==
    \/ \E u \in Users : AskLogin(q, u)
    \/ \E s \in issued :
         \/ AskLogout(q, s) \/ AskCreate(q, s)
         \/ \E e \in Experiments : AskJoin(q, s, e)
         \/ \E p \in Projects : AskEvents(q, s, p) \/ \E usage \in {"research", "general"} : AskRun(q, s, p, usage)
         \/ \E r \in Runs, status \in {"included", "excluded"} : AskAdmit(q, s, r, status)
         \/ \E e \in Experiments \cup {None}, only \in BOOLEAN : AskExport(q, s, e, only)

Next ==
    \/ \E q \in Requests : Ask(q) \/ StudyStep(q) \/ (AccountStep(q) /\ UNCHANGED studyVars)
    \/ (Tick /\ UNCHANGED studyVars) \/ Restart

Spec == Init /\ [][Next]_vars

-----------------------------------------------------------------------------
(* What an export that is listed holds: its file is there; asked for one   *)
(* experiment, only work of its participants; asked for included runs,     *)
(* only corrections of research runs that an administrator admitted,       *)
(* whoever joins, generates, edits and admits in between.                  *)
ExportIsSound ==
    \A x \in Exports : LET f == export[x] IN
        /\ f.row => f.file
        /\ f.file /\ f.scope # None => \A m \in f.rows : <<f.scope, m.user>> \in participant
        /\ f.file /\ f.only => \A m \in f.rows : m.run \in admitted /\ run[m.run].usage = "research"

(* An event is recorded once, with the correction made of it: under the    *)
(* experiment of its project, for the owner of the project and a run of    *)
(* theirs in it, whichever experiments they have joined since, whichever   *)
(* runs became active, and however the saves of several tabs, each of      *)
(* which sends every event again, overlap (persistence.py:1114-1180).      *)
EventsFollowProject ==
    \A r \in event : LET p == project[r.project] IN
        /\ r.user = p.owner /\ r.experiment = p.experiment
        /\ r.run # None => run[r.run].project = r.project /\ run[r.run].owner = r.user
        /\ \A o \in event : o.project = r.project /\ o.id = r.id => o = r
        /\ r.id \in Memorable <=> r \in memory

(* docs/api-contract.md:191-193: POST .../events stores what it was sent:  *)
(* once a batch was answered with success, each of its events is in        *)
(* edit_events, and those that correct something in correction_memories.   *)
(* It does on SQLite; on PostgreSQL, the database of production            *)
(* (main.py:507), the duplicate that persistence.py:1180 skips has aborted *)
(* the transaction that is then committed and answered.                    *)
AnsweredIsStored ==
    \A a \in answered :
        /\ Stored(a[1], a[2])
        /\ a[2] \in Memorable => \E m \in memory : m.project = a[1] /\ m.id = a[2]

=============================================================================
