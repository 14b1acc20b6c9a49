-------------------------- MODULE StudyLogProofs --------------------------
(***************************************************************************)
(* Theorems about StudyLog and the sessions and the limiter of Accounts,   *)
(* for any number of users, sessions, threads, experiments, runs, events   *)
(* and exports, and any limits.                                            *)
(***************************************************************************)
EXTENDS StudyLog, SequenceTheorems, FiniteSetTheorems, WellFoundedInduction, TLAPS

-----------------------------------------------------------------------------
(* Sessions that were ended                                                *)

(* A request r that has got past its arrival has one of the tokens that    *)
(* were issued.                                                            *)
Arriving == {"idle", "client", "account", "session"}
Carries(r, tokens) ==
    /\ "pc" \in DOMAIN r /\ "token" \in DOMAIN r
    /\ r.pc \notin Arriving => r.token \in tokens

SessionInv ==
    /\ DOMAIN session = Sessions /\ DOMAIN request = Requests
    /\ issued \subseteq Sessions /\ ended \subseteq issued
    /\ \A s \in ended : session[s] = NoSession
    /\ \A q \in Requests : Carries(request[q], issued)

LEMMA NothingCarries == ASSUME NEW tokens PROVE Carries(Nothing, tokens)
BY DEF Carries, Nothing, Arriving

LEMMA SessionInit == Init => SessionInv
<1> SUFFICES ASSUME Init PROVE SessionInv
  OBVIOUS
<1>1. PICK first \in [Users -> Sessions] : issued = {first[u] : u \in Users}
  BY DEF Init
<1> QED BY <1>1, NothingCarries DEF Init, SessionInv

(* What a step of thread q does to a session, if anything: a new one, or   *)
(* one that is there is changed, or one is ended.                          *)
Opens == \E s \in Sessions \ issued :
            /\ issued' = issued \cup {s} /\ UNCHANGED ended
            /\ \E row : session' = [session EXCEPT ![s] = row]
Changes == /\ UNCHANGED <<issued, ended>>
           /\ \/ UNCHANGED session
              \/ \E s \in Sessions \ ended : \E row : session' = [session EXCEPT ![s] = row]
Closes == \E s \in issued :
            /\ ended' = ended \cup {s} /\ UNCHANGED issued
            /\ session' = [session EXCEPT ![s] = NoSession]

LEMMA SessionStep ==
    ASSUME SessionInv, Opens \/ Changes \/ Closes,
           DOMAIN request' = Requests, \A q \in Requests : Carries(request'[q], issued')
    PROVE  SessionInv'
<1>1. CASE Opens
  BY <1>1 DEF Opens, SessionInv
<1>2. CASE Changes
  BY <1>2 DEF Changes, SessionInv
<1>3. CASE Closes
  BY <1>3 DEF Closes, SessionInv
<1> QED BY <1>1, <1>2, <1>3

(* The request of thread q becomes r, the others stay; tokens are not      *)
(* taken back.                                                             *)
LEMMA OneCarries ==
    ASSUME SessionInv, NEW q \in Requests, NEW r, Carries(r, issued'),
           request' = [request EXCEPT ![q] = r], issued \subseteq issued'
    PROVE  /\ DOMAIN request' = Requests
           /\ \A p \in Requests : Carries(request'[p], issued')
BY DEF SessionInv, Carries

LEMMA AccountSteps ==
    ASSUME SessionInv, NEW q \in Requests, AccountStep(q)
    PROVE  SessionInv'
<1> DEFINE r == request[q]
<1>0. Carries(r, issued) /\ Carries(Nothing, issued') /\ DOMAIN request = Requests
  BY NothingCarries DEF SessionInv
<1>1. CASE LimitClient(q)
  <2>1. Changes /\ issued \subseteq issued'
    BY <1>0, <1>1 DEF LimitClient, Changes, accountVars, SessionInv, Carries, Arriving
  <2>2. \E x : Carries(x, issued') /\ request' = [request EXCEPT ![q] = x]
    <3>1. \/ request' = [request EXCEPT ![q] = Nothing]
          \/ request' = [request EXCEPT ![q] = [r EXCEPT !.pc = "account"]]
      BY <1>0, <1>1 DEF LimitClient, Attempt, Ends, Goto
    <3>2. Carries([r EXCEPT !.pc = "account"], issued')
      BY <1>0 DEF Carries, Arriving
    <3> QED BY <1>0, <3>1, <3>2
  <2> QED BY <2>1, <2>2, OneCarries, SessionStep
<1>2. CASE LimitAccount(q)
  <2>1. Changes /\ issued \subseteq issued'
    BY <1>0, <1>2 DEF LimitAccount, Changes, accountVars, SessionInv, Carries, Arriving
  <2>2. \E x : Carries(x, issued') /\ request' = [request EXCEPT ![q] = x]
    <3>1. \/ request' = [request EXCEPT ![q] = Nothing]
          \/ request' = [request EXCEPT ![q] = [r EXCEPT !.pc = "session"]]
      BY <1>0, <1>2 DEF LimitAccount, Attempt, Ends, Goto
    <3>2. Carries([r EXCEPT !.pc = "session"], issued')
      BY <1>0 DEF Carries, Arriving
    <3> QED BY <1>0, <3>1, <3>2
  <2> QED BY <2>1, <2>2, OneCarries, SessionStep
<1>3. CASE WrongPassword(q)
  <2>1. Changes /\ issued \subseteq issued'
    BY <1>0, <1>3 DEF WrongPassword, Changes, accountVars, SessionInv, Carries, Arriving
  <2>2. \E x : Carries(x, issued') /\ request' = [request EXCEPT ![q] = x]
    BY <1>0, <1>3 DEF WrongPassword, Ends
  <2> QED BY <2>1, <2>2, OneCarries, SessionStep
<1>4. CASE CreateSession(q)
  <2>1. Opens /\ issued \subseteq issued'
    BY <1>0, <1>4 DEF CreateSession, Opens, SessionInv, Carries, Arriving
  <2>2. \E x : Carries(x, issued') /\ request' = [request EXCEPT ![q] = x]
    BY <1>0, <1>4 DEF CreateSession, Ends
  <2> QED BY <2>1, <2>2, OneCarries, SessionStep
<1>5. CASE ReadSession(q)
  <2>1. Changes /\ issued \subseteq issued'
    BY <1>0, <1>5 DEF ReadSession, Changes, accountVars, SessionInv, Carries, Arriving
  <2>2. \E x : Carries(x, issued') /\ request' = [request EXCEPT ![q] = x]
    <3>1. \/ request' = [request EXCEPT ![q] = Nothing]
          \/ \E s \in {"expire", "renew"} : \E u, e, t :
               request' = [request EXCEPT ![q] = [r EXCEPT !.pc = s, !.user = u, !.experiment = e, !.at = t]]
      <4> DEFINE row == session[r.token]
      <4>1. \/ Ends(q)
            \/ request' = [request EXCEPT ![q] =
                  [r EXCEPT !.pc = IF Expired(q) THEN "expire" ELSE "renew",
                            !.user = row.user, !.experiment = row.experiment, !.at = clock]]
        BY <1>0, <1>5 DEF ReadSession
      <4>2. CASE Expired(q)
        BY <4>1, <4>2 DEF Ends
      <4>3. CASE ~Expired(q)
        BY <4>1, <4>3 DEF Ends
      <4> QED BY <4>2, <4>3
    <3>2. \A s, u, e, t : Carries([r EXCEPT !.pc = s, !.user = u, !.experiment = e, !.at = t], issued')
      BY <1>0, <2>1, <1>5 DEF ReadSession, Carries, Arriving
    <3> QED BY <1>0, <3>1, <3>2
  <2> QED BY <2>1, <2>2, OneCarries, SessionStep
<1>6. CASE Renew(q)
  <2>1. Changes /\ issued \subseteq issued'
    BY <1>0, <1>6 DEF Renew, Changes, Renewed, Live, SessionInv, Carries, Arriving
  <2>2. \E x : Carries(x, issued') /\ request' = [request EXCEPT ![q] = x]
    <3>1. request' = [request EXCEPT ![q] = [r EXCEPT !.pc = request[q].op, !.at = 0]]
      BY <1>0, <1>6 DEF Renew, Goto
    <3>2. Carries([r EXCEPT !.pc = request[q].op, !.at = 0], issued')
      BY <1>0, <2>1, <1>6 DEF Renew, Carries, Arriving
    <3> QED BY <3>1, <3>2
  <2> QED BY <2>1, <2>2, OneCarries, SessionStep
<1>7. CASE Expire(q)
  <2>1. Closes /\ issued \subseteq issued'
    BY <1>0, <1>7 DEF Expire, Closes, Remove, SessionInv, Carries, Arriving
  <2>2. \E x : Carries(x, issued') /\ request' = [request EXCEPT ![q] = x]
    BY <1>0, <1>7 DEF Expire, Ends
  <2> QED BY <2>1, <2>2, OneCarries, SessionStep
<1>8. CASE Logout(q)
  <2>1. Closes /\ issued \subseteq issued'
    BY <1>0, <1>8 DEF Logout, Closes, Remove, SessionInv, Carries, Arriving
  <2>2. \E x : Carries(x, issued') /\ request' = [request EXCEPT ![q] = x]
    BY <1>0, <1>8 DEF Logout, Ends
  <2> QED BY <2>1, <2>2, OneCarries, SessionStep
<1>9. CASE Join(q)
  <2>1. Changes /\ issued \subseteq issued'
    BY <1>0, <1>9 DEF Join, Changes, Live, SessionInv, Carries, Arriving
  <2>2. \E x : Carries(x, issued') /\ request' = [request EXCEPT ![q] = x]
    BY <1>0, <1>9 DEF Join, Ends
  <2> QED BY <2>1, <2>2, OneCarries, SessionStep
<1> QED BY <1>1, <1>2, <1>3, <1>4, <1>5, <1>6, <1>7, <1>8, <1>9 DEF AccountStep


LEMMA StudySteps ==
    ASSUME SessionInv, NEW q \in Requests, StudyStep(q)
    PROVE  SessionInv'
<1> DEFINE r == request[q]
<1>0. Carries(r, issued) /\ Carries(Nothing, issued) /\ DOMAIN request = Requests
  BY NothingCarries DEF SessionInv
<1>1. Changes /\ issued' = issued
  BY DEF StudyStep, Create, CreateRun, ReadProject, Store, Admit, Collect, PutExport, InsertExport,
         Changes, accountVars
<1>2. \E x : Carries(x, issued) /\ request' = [request EXCEPT ![q] = x]
  <2>1. CASE Create(q) \/ CreateRun(q) \/ Store(q) \/ Admit(q) \/ InsertExport(q)
    BY <1>0, <2>1 DEF Create, CreateRun, Store, Admit, InsertExport, Ends
  <2>2. CASE ReadProject(q)
    <3>1. \/ request' = [request EXCEPT ![q] = Nothing]
          \/ request' = [request EXCEPT ![q] = [r EXCEPT !.pc = "store",
                                                         !.task.base = project[request[q].task.project]]]
      BY <1>0, <2>2 DEF ReadProject, Ends
    <3>2. \A x : Carries([r EXCEPT !.pc = "store", !.task.base = x], issued)
      BY <1>0, <2>2 DEF ReadProject, Carries, Arriving
    <3> QED BY <1>0, <3>1, <3>2
  <2>3. CASE Collect(q)
    <3>1. \/ request' = [request EXCEPT ![q] = Nothing]
          \/ request' = [request EXCEPT ![q] =
                [r EXCEPT !.pc = "put", !.task.rows = Selected(request[q].goal, request[q].task.only)]]
      BY <1>0, <2>3 DEF Collect, Ends
    <3>2. \A x : Carries([r EXCEPT !.pc = "put", !.task.rows = x], issued)
      BY <1>0, <2>3 DEF Collect, Carries, Arriving
    <3> QED BY <1>0, <3>1, <3>2
  <2>4. CASE PutExport(q)
    <3>1. PICK x \in Exports : request' = [request EXCEPT ![q].pc = "insert", ![q].task.export = x]
      BY <2>4 DEF PutExport
    <3>2. request' = [request EXCEPT ![q] = [r EXCEPT !.pc = "insert", !.task.export = x]]
      BY <1>0, <3>1
    <3>3. Carries([r EXCEPT !.pc = "insert", !.task.export = x], issued)
      BY <1>0, <2>4 DEF PutExport, Carries, Arriving
    <3> QED BY <3>2, <3>3
  <2> QED BY <2>1, <2>2, <2>3, <2>4 DEF StudyStep
<1> QED BY <1>1, <1>2, OneCarries, SessionStep

(* A browser sends a token that was issued to it.                          *)
LEMMA AskSteps ==
    ASSUME SessionInv, NEW q \in Requests, Ask(q)
    PROVE  SessionInv'
<1>1. Changes /\ issued' = issued
  BY DEF Ask, AskLogin, AskLogout, AskJoin, AskCreate, AskRun, AskEvents, AskAdmit, AskExport, Send,
         Changes, accountVars
<1>2. ASSUME NEW op, NEW s \in issued, NEW task PROVE Carries(With(op, s, task), issued)
  BY <1>2 DEF With, Carries, Nothing
<1>3. \E x : Carries(x, issued) /\ request' = [request EXCEPT ![q] = x]
  <2>1. CASE \E u \in Users : AskLogin(q, u)
    <3>1. PICK u \in Users : request' = [request EXCEPT ![q] = [Nothing EXCEPT !.pc = "client", !.op = "login", !.goal = u]]
      BY <2>1 DEF AskLogin, Send
    <3>2. Carries([Nothing EXCEPT !.pc = "client", !.op = "login", !.goal = u], issued)
      BY DEF Carries, Nothing, Arriving
    <3> QED BY <3>1, <3>2
  <2>2. ASSUME NEW s \in issued,
               \/ AskLogout(q, s) \/ AskCreate(q, s)
               \/ \E p \in Projects : AskEvents(q, s, p) \/ \E usage \in {"research", "general"} : AskRun(q, s, p, usage)
               \/ \E r \in Runs, status \in {"included", "excluded"} : AskAdmit(q, s, r, status)
        PROVE  \E x : Carries(x, issued) /\ request' = [request EXCEPT ![q] = x]
    <3>1. \E op, task : request' = [request EXCEPT ![q] = With(op, s, task)]
      BY <2>2 DEF AskLogout, AskCreate, AskEvents, AskRun, AskAdmit, Send
    <3> QED BY <1>2, <3>1
  <2>3. ASSUME NEW s \in issued,
               \/ \E e \in Experiments : AskJoin(q, s, e)
               \/ \E e \in Experiments \cup {None}, only \in BOOLEAN : AskExport(q, s, e, only)
        PROVE  \E x : Carries(x, issued) /\ request' = [request EXCEPT ![q] = x]
    <3>1. \E op, task, e : request' = [request EXCEPT ![q] = [With(op, s, task) EXCEPT !.goal = e]]
      BY <2>3 DEF AskJoin, AskExport, Send
    <3>2. ASSUME NEW op, NEW task, NEW e PROVE Carries([With(op, s, task) EXCEPT !.goal = e], issued)
      BY DEF With, Carries, Nothing
    <3> QED BY <3>1, <3>2
  <2> QED BY <2>1, <2>2, <2>3 DEF Ask
<1> QED BY <1>1, <1>3, OneCarries, SessionStep

LEMMA SessionNext ==
    ASSUME SessionInv, [Next]_vars
    PROVE  SessionInv'
<1>1. CASE \E q \in Requests : Ask(q) \/ StudyStep(q) \/ AccountStep(q)
  BY <1>1, AskSteps, StudySteps, AccountSteps
<1>2. CASE Tick
  BY <1>2, SessionStep DEF Tick, Changes, SessionInv
<1>3. CASE Restart
  BY <1>3, SessionStep, NothingCarries DEF Restart, Changes, SessionInv
<1>4. CASE UNCHANGED vars
  BY <1>4 DEF vars, accountVars, SessionInv
<1> QED BY <1>1, <1>2, <1>3, <1>4 DEF Next

(* A session that was logged out, or removed as expired, is never valid    *)
(* again: get_session_context renews with an UPDATE, which finds no row    *)
(* where the session was removed since it was read, and a new session gets *)
(* a token of its own (_create_session).                                   *)
THEOREM SessionsStayEnded == Spec => []EndedStaysEnded
<1>1. SessionInv => EndedStaysEnded
  BY DEF SessionInv, EndedStaysEnded, Live
<1> QED BY SessionInit, SessionNext, <1>1, PTL DEF Spec


-----------------------------------------------------------------------------
(* What a research export may hold                                         *)

Pair(e, u) == e # None => <<e, u>> \in participant
SoundRows(scope, only, rows) ==
    /\ \A m \in rows : Pair(scope, m.user)
    /\ only => \A m \in rows : m.run \in admitted

(* Sessions, projects and correction memories name an experiment only if   *)
(* their user takes part in it; a run is included only by an administrator. *)
SessionData ==
    /\ DOMAIN session = Sessions
    /\ \A s \in Sessions : /\ DOMAIN session[s] = {"user", "experiment", "expires"}
                           /\ Pair(session[s].experiment, session[s].user)
ProjectData ==
    /\ DOMAIN project = Projects
    /\ \A p \in Projects : /\ DOMAIN project[p] = {"owner", "experiment", "active"}
                           /\ project[p].active \in Runs \cup {None}
                           /\ Pair(project[p].experiment, project[p].owner)
MemoryData ==
    \A m \in memory : m.run \in Runs \cup {None} /\ Pair(m.experiment, m.user)
RunData ==
    /\ DOMAIN run = Runs /\ admitted \subseteq Runs
    /\ \A r \in Runs : /\ DOMAIN run[r] = {"project", "owner", "usage", "status"}
                       /\ run[r].status = "included" => r \in admitted
    /\ \A r \in admitted : run[r].usage = "research"
ExportData ==
    /\ DOMAIN export = Exports
    /\ \A x \in Exports : LET f == export[x] IN
         /\ DOMAIN f = {"file", "row", "rows", "scope", "only"}
         /\ f.row => f.file
         /\ f.file => SoundRows(f.scope, f.only, f.rows)

(* What a request r knows from its session, from the browser and from what *)
(* it has read since.                                                      *)
Fields == {"pc", "op", "token", "user", "experiment", "at", "goal", "task"}
Informed(r) ==
    /\ DOMAIN r = Fields
    /\ Pair(r.experiment, r.user)
    /\ r.pc \notin Arriving \cup {"read"} /\ Live(r.token) => session[r.token].user = r.user
    /\ r.pc # "idle" =>
         /\ r.op \in {"login", "logout", "join", "create", "run", "events", "admit", "export"}
         /\ r.pc \in {"events", "store"} => r.op = "events"
         /\ r.pc = "admit" => r.op = "admit"
         /\ r.pc \in {"export", "put", "insert"} => r.op = "export"
         /\ r.op = "events" => /\ {"project", "run", "base"} \subseteq DOMAIN r.task
                               /\ r.task.project \in Projects /\ r.task.run \in Runs \cup {None}
         /\ r.op = "admit" => r.task.run \in Runs
         /\ r.op = "export" => {"only", "rows", "export"} \subseteq DOMAIN r.task
    /\ r.pc = "store" =>
         r.task.base.active \in Runs \cup {None} /\ Pair(r.task.base.experiment, r.user)
    /\ r.pc \in {"put", "insert"} => SoundRows(r.goal, r.task.only, r.task.rows)
    /\ r.pc = "insert" => r.task.export \in Exports /\ export[r.task.export].file
RequestData == \A q \in Requests : Informed(request[q])

StudyInv == /\ SessionInv /\ SessionData /\ ProjectData /\ MemoryData /\ RunData /\ ExportData
            /\ RequestData

LEMMA NothingInformed == Informed(Nothing) /\ Informed(Nothing)'
BY AccountsAssumption DEF Informed, Nothing, Fields, Pair, Arriving

LEMMA StudyInit == Init => StudyInv
<1> SUFFICES ASSUME Init PROVE StudyInv
  OBVIOUS
<1>1. SessionData
  BY DEF Init, SessionData, NoSession, Pair
<1>2. ProjectData
  BY DEF Init, ProjectData, NoProject, Pair
<1>3. RunData
  BY DEF Init, RunData, NoRun
<1>4. ExportData
  BY DEF Init, ExportData, NoExport
<1>5. MemoryData
  BY DEF Init, MemoryData
<1>6. RequestData
  BY NothingInformed DEF Init, RequestData
<1> QED BY SessionInit, <1>1, <1>2, <1>3, <1>4, <1>5, <1>6 DEF StudyInv

(* What only grows: participants, admitted runs, files; and a session that *)
(* was issued is not given to another user.                                *)
Grows ==
    /\ participant \subseteq participant' /\ admitted \subseteq admitted'
    /\ \A x \in Exports : export[x].file => export'[x].file
    /\ \A s \in issued : Live(s)' => Live(s) /\ session'[s].user = session[s].user

LEMMA PairGrows == ASSUME Grows, NEW e, NEW u, Pair(e, u) PROVE Pair(e, u)'
BY DEF Grows, Pair

LEMMA SoundGrows ==
    ASSUME Grows, NEW scope, NEW only, NEW rows, SoundRows(scope, only, rows)
    PROVE  SoundRows(scope, only, rows)'
BY DEF Grows, SoundRows, Pair

(* A request that does not step stays informed.                            *)
LEMMA InformedGrows ==
    ASSUME Grows, NEW r, Informed(r), Carries(r, issued)
    PROVE  Informed(r)'
<1>1. Pair(r.experiment, r.user)'
  BY PairGrows DEF Informed
<1>2. r.pc \notin Arriving \cup {"read"} /\ Live(r.token)' => session'[r.token].user = r.user
  BY DEF Informed, Carries, Grows
<1>3. r.pc = "store" => Pair(r.task.base.experiment, r.user)'
  BY PairGrows DEF Informed
<1>4. r.pc \in {"put", "insert"} => SoundRows(r.goal, r.task.only, r.task.rows)'
  BY SoundGrows DEF Informed
<1>5. r.pc = "insert" => export'[r.task.export].file
  BY DEF Informed, Grows
<1> QED BY <1>1, <1>2, <1>3, <1>4, <1>5 DEF Informed

(* Thread q steps: its request becomes r.                                  *)
LEMMA RequestStep ==
    ASSUME SessionInv, RequestData, Grows, NEW q \in Requests, NEW r, Informed(r)',
           request' = [request EXCEPT ![q] = r]
    PROVE  RequestData'
<1> SUFFICES ASSUME NEW p \in Requests PROVE Informed(request[p])'
  BY DEF RequestData
<1>1. PICK x : x = request'[p]
  OBVIOUS
<1>2. Informed(x)'
  <2>1. CASE p = q
    BY <1>1, <2>1 DEF SessionInv
  <2>2. CASE p # q
    <3>1. x = request[p]
      BY <1>1, <2>2 DEF SessionInv
    <3>2. Informed(x) /\ Carries(x, issued)
      BY <3>1 DEF SessionInv, RequestData
    <3> QED BY <3>2, InformedGrows
  <2> QED BY <2>1, <2>2
<1> QED BY <1>1, <1>2 DEF Informed, Live, Pair, SoundRows

(* Tables that do not change stay as they are described.                   *)
LEMMA TablesGrow ==
    ASSUME StudyInv, Grows
    PROVE  /\ UNCHANGED session => SessionData'
           /\ UNCHANGED project => ProjectData'
           /\ UNCHANGED memory => MemoryData'
           /\ UNCHANGED <<run, admitted>> => RunData'
           /\ UNCHANGED export => ExportData'
<1>1. UNCHANGED session => SessionData'
  BY DEF StudyInv, SessionData, Grows, Pair
<1>2. UNCHANGED project => ProjectData'
  BY DEF StudyInv, ProjectData, Grows, Pair
<1>3. UNCHANGED memory => MemoryData'
  BY DEF StudyInv, MemoryData, Grows, Pair
<1>4. UNCHANGED <<run, admitted>> => RunData'
  BY DEF StudyInv, RunData
<1>5. UNCHANGED export => ExportData'
  <2>1. ASSUME UNCHANGED export, NEW x \in Exports, export[x].file
        PROVE  SoundRows(export[x].scope, export[x].only, export[x].rows)'
    BY <2>1, SoundGrows DEF StudyInv, ExportData, SoundRows, Pair, Grows
  <2> QED BY <2>1 DEF StudyInv, ExportData, SoundRows, Pair
<1> QED BY <1>1, <1>2, <1>3, <1>4, <1>5


LEMMA StudyInvStep ==
    ASSUME StudyInv, SessionInv', Grows, NEW q \in Requests, NEW r, Informed(r), Carries(r, issued),
           request' = [request EXCEPT ![q] = r],
           SessionData', ProjectData', MemoryData', RunData', ExportData'
    PROVE  StudyInv'
<1>1. RequestData'
  BY InformedGrows, RequestStep DEF StudyInv
<1> QED BY <1>1 DEF StudyInv

(* Steps of an account: what a session belongs to is what its user joined. *)
LEMMA AccountGrows ==
    ASSUME StudyInv, NEW q \in Requests, AccountStep(q), UNCHANGED studyVars
    PROVE  Grows /\ SessionData'
<1> DEFINE r == request[q]
<1>0. /\ SessionInv /\ SessionData /\ Informed(r) /\ Carries(r, issued)
      /\ UNCHANGED <<admitted, export>>
  BY DEF StudyInv, SessionInv, RequestData, studyVars
<1>1. CASE LimitClient(q) \/ LimitAccount(q) \/ WrongPassword(q) \/ ReadSession(q)
  BY <1>0, <1>1 DEF LimitClient, LimitAccount, WrongPassword, ReadSession, accountVars,
                    Grows, SessionData, Live, Pair
<1>2. CASE CreateSession(q)
  <2>1. PICK s \in Sessions \ issued :
            session' = [session EXCEPT ![s] = [user |-> request[q].goal, experiment |-> None,
                                               expires |-> clock + TTL]]
    BY <1>2 DEF CreateSession
  <2>2. UNCHANGED participant
    BY <1>2 DEF CreateSession
  <2> QED BY <1>0, <2>1, <2>2 DEF Grows, SessionInv, SessionData, Live, Pair
<1>3. CASE Renew(q)
  <2>1. \/ UNCHANGED session
        \/ Live(r.token) /\ session' = [session EXCEPT ![r.token].expires = r.at + TTL]
    BY <1>3 DEF Renew, Renewed
  <2>2. UNCHANGED participant /\ r.token \in Sessions
    BY <1>0, <1>3 DEF Renew, Carries, Arriving, SessionInv
  <2>3. CASE UNCHANGED session
    BY <1>0, <2>2, <2>3 DEF Grows, SessionInv, SessionData, Live, Pair
  <2>4. CASE Live(r.token) /\ session' = [session EXCEPT ![r.token].expires = r.at + TTL]
    <3>1. /\ DOMAIN session' = Sessions
          /\ \A s \in Sessions \ {r.token} : session'[s] = session[s]
          /\ DOMAIN session'[r.token] = {"user", "experiment", "expires"}
          /\ session'[r.token].experiment = session[r.token].experiment
          /\ session'[r.token].user = session[r.token].user
      BY <1>0, <2>2, <2>4 DEF SessionData
    <3>2. Grows
      BY <1>0, <2>2, <2>4, <3>1 DEF Grows, SessionInv, Live
    <3>3. SessionData'
      BY <1>0, <2>2, <3>1 DEF SessionData, Pair
    <3> QED BY <3>2, <3>3
  <2> QED BY <2>1, <2>3, <2>4
<1>4. CASE Expire(q) \/ Logout(q)
  <2>1. UNCHANGED participant /\ session' = [session EXCEPT ![r.token] = NoSession]
    BY <1>4 DEF Expire, Logout, Remove
  <2> QED BY <1>0, <2>1 DEF Grows, SessionInv, SessionData, Live, Pair, NoSession
<1>5. CASE Join(q)
  <2>1. /\ r.pc = "join" /\ participant' = participant \cup {<<r.goal, r.user>>}
        /\ session' = IF Live(r.token) THEN [session EXCEPT ![r.token].experiment = r.goal] ELSE session
    BY <1>5 DEF Join, Joined
  <2>2. Live(r.token) => session[r.token].user = r.user
    BY <1>0, <2>1 DEF Informed, Arriving
  <2>3. r.token \in Sessions
    BY <1>0, <2>1 DEF Carries, Arriving, SessionInv
  <2>4. CASE Live(r.token)
    <3>1. session' = [session EXCEPT ![r.token].experiment = r.goal]
      BY <2>1, <2>4
    <3>2. /\ DOMAIN session' = Sessions
          /\ \A s \in Sessions \ {r.token} : session'[s] = session[s]
          /\ DOMAIN session'[r.token] = {"user", "experiment", "expires"}
          /\ session'[r.token].experiment = r.goal /\ session'[r.token].user = r.user
      BY <1>0, <2>2, <2>3, <2>4, <3>1 DEF SessionData
    <3>3. Grows
      BY <1>0, <2>1, <2>2, <2>4, <3>2 DEF Grows, SessionInv, Live
    <3>4. SessionData'
      BY <1>0, <2>1, <3>2 DEF SessionData, Pair
    <3> QED BY <3>3, <3>4
  <2>5. CASE ~Live(r.token)
    BY <1>0, <2>1, <2>5 DEF Grows, SessionInv, SessionData, Live, Pair
  <2> QED BY <2>4, <2>5
<1> QED BY <1>1, <1>2, <1>3, <1>4, <1>5 DEF AccountStep

LEMMA AccountInforms ==
    ASSUME StudyInv, NEW q \in Requests, AccountStep(q)
    PROVE  \E x : /\ Informed(x) /\ Carries(x, issued)
                  /\ request' = [request EXCEPT ![q] = x]
<1> DEFINE r == request[q]
<1>0. /\ SessionData /\ Informed(r) /\ Carries(r, issued) /\ DOMAIN request = Requests
      /\ Informed(Nothing) /\ Carries(Nothing, issued)
  BY NothingInformed, NothingCarries DEF StudyInv, SessionInv, RequestData
<1>1. CASE WrongPassword(q) \/ CreateSession(q) \/ Expire(q) \/ Logout(q) \/ Join(q)
  BY <1>0, <1>1 DEF WrongPassword, CreateSession, Expire, Logout, Join, Ends
<1>2. CASE LimitClient(q) \/ LimitAccount(q)
  <2>1. r.pc \in {"client", "account"}
    BY <1>2 DEF LimitClient, LimitAccount
  <2>2. \/ request' = [request EXCEPT ![q] = Nothing]
        \/ \E pc \in {"account", "session"} : request' = [request EXCEPT ![q] = [r EXCEPT !.pc = pc]]
    BY <1>0, <1>2 DEF LimitClient, LimitAccount, Attempt, Ends, Goto
  <2>3. ASSUME NEW pc \in {"account", "session"}
        PROVE  Informed([r EXCEPT !.pc = pc]) /\ Carries([r EXCEPT !.pc = pc], issued)
    BY <1>0, <2>1 DEF Informed, Fields, Carries, Arriving
  <2> QED BY <1>0, <2>2, <2>3
<1>3. CASE ReadSession(q)
  <2> DEFINE row == session[r.token]
             known(s) == [r EXCEPT !.pc = s, !.user = row.user, !.experiment = row.experiment, !.at = clock]
  <2>1. r.pc = "read" /\ r.token \in Sessions
    BY <1>0, <1>3 DEF ReadSession, Carries, Arriving, StudyInv, SessionInv
  <2>2. Ends(q) \/ request' = [request EXCEPT ![q] = known(IF Expired(q) THEN "expire" ELSE "renew")]
    BY <1>0, <1>3 DEF ReadSession
  <2>3. ASSUME NEW s \in {"expire", "renew"} PROVE Informed(known(s)) /\ Carries(known(s), issued)
    <3>1. Pair(row.experiment, row.user)
      BY <1>0, <2>1 DEF SessionData
    <3> QED BY <1>0, <2>1, <3>1 DEF Informed, Fields, Carries, Arriving, Pair
  <2>4. PICK s \in {"expire", "renew"} : s = IF Expired(q) THEN "expire" ELSE "renew"
    OBVIOUS
  <2> QED BY <1>0, <2>2, <2>3, <2>4 DEF Ends
<1>4. CASE Renew(q)
  <2>1. r.pc = "renew" /\ request' = [request EXCEPT ![q] = [r EXCEPT !.pc = r.op, !.at = 0]]
    BY <1>0, <1>4 DEF Renew
  <2>2. Informed([r EXCEPT !.pc = r.op, !.at = 0]) /\ Carries([r EXCEPT !.pc = r.op, !.at = 0], issued)
    BY <1>0, <2>1 DEF Informed, Fields, Carries, Arriving
  <2> QED BY <2>1, <2>2
<1> QED BY <1>1, <1>2, <1>3, <1>4 DEF AccountStep

LEMMA AccountKeeps ==
    ASSUME StudyInv, NEW q \in Requests, AccountStep(q), UNCHANGED studyVars
    PROVE  StudyInv'
<1>1. PICK x : Informed(x) /\ Carries(x, issued) /\ request' = [request EXCEPT ![q] = x]
  BY AccountInforms
<1>2. Grows /\ SessionData'
  BY AccountGrows
<1>3. ProjectData' /\ MemoryData' /\ RunData' /\ ExportData'
  BY <1>2, TablesGrow DEF studyVars
<1>4. SessionInv'
  BY AccountSteps DEF StudyInv
<1> QED BY <1>1, <1>2, <1>3, <1>4, StudyInvStep


(* Steps of a study.  Projects and runs are made with what the request has *)
(* read; a correction takes the experiment of its project and a run of it. *)
LEMMA StudyTables ==
    ASSUME StudyInv, NEW q \in Requests, StudyStep(q)
    PROVE  Grows /\ SessionData' /\ ProjectData' /\ MemoryData' /\ RunData' /\ ExportData'
<1> DEFINE r == request[q]
<1>0. /\ SessionInv /\ ProjectData /\ MemoryData /\ RunData /\ ExportData
      /\ Informed(r) /\ Carries(r, issued) /\ UNCHANGED <<session, issued, participant>>
  BY DEF StudyInv, RequestData, SessionInv, StudyStep, Create, CreateRun, ReadProject, Store, Admit,
         Collect, PutExport, InsertExport, accountVars
<1>1. CASE Create(q)
  <2>1. PICK p \in Projects :
            project' = [project EXCEPT ![p] = [owner |-> r.user, experiment |-> r.experiment, active |-> None]]
    BY <1>1 DEF Create
  <2>2. UNCHANGED <<run, memory, export, admitted>>
    BY <1>1 DEF Create
  <2>3. Grows
    BY <1>0, <2>2 DEF Grows, Live
  <2>4. ProjectData'
    BY <1>0, <2>1 DEF ProjectData, Informed, Pair
  <2> QED BY <1>0, <2>2, <2>3, <2>4, TablesGrow
<1>2. CASE CreateRun(q)
  <2>1. UNCHANGED <<memory, export, admitted>>
    BY <1>2 DEF CreateRun
  <2>2. Grows
    BY <1>0, <2>1 DEF Grows, Live
  <2>3. CASE UNCHANGED <<run, project>>
    BY <1>0, <2>1, <2>2, <2>3, TablesGrow
  <2>4. CASE ~UNCHANGED <<run, project>>
    <3>1. PICK x \in Runs :
             /\ run[x] = NoRun
             /\ run' = [run EXCEPT ![x] =
                   [project |-> request[q].task.project, owner |-> request[q].user,
                    usage |-> request[q].task.usage,
                    status |-> IF request[q].task.usage = "research" THEN "candidate" ELSE "excluded"]]
             /\ project' = [project EXCEPT ![request[q].task.project].active = x]
      BY <1>2, <2>4 DEF CreateRun
    <3>2. RunData'
      BY <1>0, <2>1, <3>1 DEF RunData, NoRun
    <3>3. ProjectData'
      BY <1>0, <3>1 DEF ProjectData, Pair
    <3> QED BY <1>0, <2>1, <2>2, <3>2, <3>3, TablesGrow
  <2> QED BY <2>3, <2>4
<1>3. CASE ReadProject(q) \/ Collect(q)
  <2>1. UNCHANGED studyVars
    BY <1>3 DEF ReadProject, Collect
  <2>2. Grows
    BY <1>0, <2>1 DEF Grows, Live, studyVars
  <2> QED BY <1>0, <2>1, <2>2, TablesGrow DEF studyVars
<1>4. CASE Store(q)
  <2>1. UNCHANGED <<project, run, export, admitted>> /\ r.pc = "store"
    BY <1>4 DEF Store
  <2>2. Grows
    BY <1>0, <2>1 DEF Grows, Live
  <2>3. \A m \in memory' : m \in memory \/ \E e : m = RowOf(q, e)
    BY <1>4 DEF Store
  <2>4. r.op = "events" /\ r.task.run \in Runs \cup {None} /\ r.task.base.active \in Runs \cup {None}
        /\ Pair(r.task.base.experiment, r.user)
    BY <1>0, <2>1 DEF Informed
  <2>5. NamedRun(q) \in Runs \cup {None}
    BY <2>4 DEF NamedRun
  <2>6. \A e : RowOf(q, e).run = NamedRun(q) /\ Pair(RowOf(q, e).experiment, RowOf(q, e).user)
    BY <2>4 DEF RowOf
  <2>7. MemoryData'
    BY <1>0, <2>3, <2>5, <2>6 DEF MemoryData, Pair
  <2> QED BY <1>0, <2>1, <2>2, <2>7, TablesGrow
<1>5. CASE Admit(q)
  <2>1. UNCHANGED <<project, memory, export>> /\ r.pc = "admit"
    BY <1>5 DEF Admit
  <2>2. r.task.run \in Runs
    BY <1>0, <2>1 DEF Informed
  <2>3. admitted \subseteq admitted' /\ RunData'
    <3>1. CASE UNCHANGED <<run, admitted>>
      BY <1>0, <3>1 DEF RunData
    <3>2. CASE ~UNCHANGED <<run, admitted>>
      <4> DEFINE s == r.task.status
      <4>1. /\ run' = [run EXCEPT ![r.task.run].status = s]
            /\ admitted' = IF s = "included" THEN admitted \cup {r.task.run} ELSE admitted
            /\ s = "included" => run[r.task.run].usage = "research"
        BY <1>5, <3>2 DEF Admit
      <4>2. /\ DOMAIN run' = Runs /\ \A x \in Runs : DOMAIN run'[x] = {"project", "owner", "usage", "status"}
            /\ \A x \in Runs : run'[x].usage = run[x].usage
            /\ \A x \in Runs : run'[x].status = IF x = r.task.run THEN s ELSE run[x].status
        BY <1>0, <2>2, <4>1 DEF RunData
      <4> QED BY <1>0, <2>2, <4>1, <4>2 DEF RunData
    <3> QED BY <3>1, <3>2
  <2>4. Grows
    BY <1>0, <2>1, <2>3 DEF Grows, Live
  <2> QED BY <1>0, <2>1, <2>3, <2>4, TablesGrow
<1>6. CASE PutExport(q)
  <2>1. PICK x \in Exports :
            /\ ~export[x].file
            /\ export' = [export EXCEPT ![x] = [file |-> TRUE, row |-> FALSE, rows |-> r.task.rows,
                                                scope |-> r.goal, only |-> r.task.only]]
    BY <1>6 DEF PutExport
  <2>2. UNCHANGED <<project, run, memory, admitted>> /\ r.pc = "put"
    BY <1>6 DEF PutExport
  <2>3. Grows
    BY <1>0, <2>1, <2>2 DEF Grows, Live, ExportData
  <2>4. SoundRows(r.goal, r.task.only, r.task.rows)
    BY <1>0, <2>2 DEF Informed
  <2>5. ExportData'
    BY <1>0, <2>1, <2>2, <2>4 DEF ExportData, SoundRows, Pair
  <2> QED BY <1>0, <2>2, <2>3, <2>5, TablesGrow
<1>7. CASE InsertExport(q)
  <2>1. UNCHANGED <<project, run, memory, admitted>> /\ r.pc = "insert"
        /\ export' = [export EXCEPT ![r.task.export].row = TRUE]
    BY <1>7 DEF InsertExport
  <2>2. r.task.export \in Exports /\ export[r.task.export].file
    BY <1>0, <2>1 DEF Informed
  <2>3. /\ DOMAIN export' = Exports
        /\ \A x \in Exports :
             /\ DOMAIN export'[x] = DOMAIN export[x]
             /\ export'[x].file = export[x].file /\ export'[x].rows = export[x].rows
             /\ export'[x].scope = export[x].scope /\ export'[x].only = export[x].only
             /\ export'[x].row => export[x].row \/ x = r.task.export
    BY <1>0, <2>1, <2>2 DEF ExportData
  <2>4. Grows
    BY <1>0, <2>1, <2>3 DEF Grows, Live
  <2>5. ExportData'
    BY <1>0, <2>1, <2>2, <2>3 DEF ExportData, SoundRows, Pair
  <2> QED BY <1>0, <2>1, <2>4, <2>5, TablesGrow
<1> QED BY <1>1, <1>2, <1>3, <1>4, <1>5, <1>6, <1>7 DEF StudyStep

LEMMA SelectedIsSound ==
    ASSUME StudyInv, NEW scope, NEW only
    PROVE  SoundRows(scope, only, Selected(scope, only))
<1>1. \A m \in Selected(scope, only) :
         /\ m.run \in Runs \cup {None} /\ Pair(m.experiment, m.user)
         /\ scope # None => m.experiment = scope
         /\ only => m.run # None /\ run[m.run].status = "included"
  BY DEF StudyInv, MemoryData, Selected
<1> QED BY <1>1 DEF StudyInv, RunData, SoundRows, Pair

LEMMA StudyKeeps ==
    ASSUME StudyInv, NEW q \in Requests, StudyStep(q)
    PROVE  StudyInv'
<1> DEFINE r == request[q]
<1>0. /\ Informed(r) /\ Carries(r, issued) /\ DOMAIN request = Requests
      /\ Informed(Nothing) /\ Carries(Nothing, issued) /\ Informed(Nothing)'
  BY NothingInformed, NothingCarries DEF StudyInv, SessionInv, RequestData
<1>1. Grows /\ SessionData' /\ ProjectData' /\ MemoryData' /\ RunData' /\ ExportData' /\ SessionInv'
  BY StudyTables, StudySteps DEF StudyInv
<1>2. CASE Create(q) \/ CreateRun(q) \/ Store(q) \/ Admit(q) \/ InsertExport(q)
  <2>1. request' = [request EXCEPT ![q] = Nothing]
    BY <1>2 DEF Create, CreateRun, Store, Admit, InsertExport, Ends
  <2> QED BY <1>0, <1>1, <2>1, StudyInvStep
<1>3. CASE ReadProject(q)
  <2> DEFINE base == project[r.task.project]
             x == [r EXCEPT !.pc = "store", !.task.base = base]
  <2>1. CASE request' = [request EXCEPT ![q] = Nothing]
    BY <1>0, <1>1, <2>1, StudyInvStep
  <2>2. CASE request' # [request EXCEPT ![q] = Nothing]
    <3>1. r.pc = "events" /\ base.owner = r.user /\ request' = [request EXCEPT ![q] = x]
      BY <1>0, <1>3, <2>2 DEF ReadProject, Ends, Owned
    <3>2. base.active \in Runs \cup {None} /\ Pair(base.experiment, r.user)
      BY <1>0, <3>1 DEF StudyInv, ProjectData, Informed
    <3>3. /\ DOMAIN x = Fields /\ x.pc = "store" /\ x.op = r.op /\ x.token = r.token /\ x.user = r.user
          /\ x.experiment = r.experiment /\ x.task.base = base /\ x.task.run = r.task.run
          /\ x.task.project = r.task.project
          /\ {"project", "run", "base"} \subseteq DOMAIN x.task /\ r.op = "events"
      BY <1>0, <3>1 DEF Informed, Fields
    <3>4. Informed(x) /\ Carries(x, issued)
      BY <1>0, <3>1, <3>2, <3>3 DEF Informed, Fields, Carries, Arriving
    <3> QED BY <1>1, <3>1, <3>4, StudyInvStep
  <2> QED BY <2>1, <2>2
<1>4. CASE Collect(q)
  <2> DEFINE rows == Selected(r.goal, r.task.only)
             x == [r EXCEPT !.pc = "put", !.task.rows = rows]
  <2>1. CASE request' = [request EXCEPT ![q] = Nothing]
    BY <1>0, <1>1, <2>1, StudyInvStep
  <2>2. CASE request' # [request EXCEPT ![q] = Nothing]
    <3>1. r.pc = "export" /\ request' = [request EXCEPT ![q] = x]
      BY <1>0, <1>4, <2>2 DEF Collect, Ends
    <3>2. SoundRows(r.goal, r.task.only, rows)
      BY SelectedIsSound
    <3>3. /\ DOMAIN x = Fields /\ x.pc = "put" /\ x.op = r.op /\ x.token = r.token /\ x.user = r.user
          /\ x.experiment = r.experiment /\ x.goal = r.goal /\ x.task.only = r.task.only
          /\ x.task.rows = rows /\ {"only", "rows", "export"} \subseteq DOMAIN x.task /\ r.op = "export"
      BY <1>0, <3>1 DEF Informed, Fields
    <3>4. Informed(x) /\ Carries(x, issued)
      BY <1>0, <3>1, <3>2, <3>3 DEF Informed, Carries, Arriving
    <3> QED BY <1>1, <3>1, <3>4, StudyInvStep
  <2> QED BY <2>1, <2>2
<1>5. CASE PutExport(q)
  <2>1. PICK f \in Exports :
            /\ export' = [export EXCEPT ![f] = [file |-> TRUE, row |-> FALSE, rows |-> r.task.rows,
                                                scope |-> r.goal, only |-> r.task.only]]
            /\ request' = [request EXCEPT ![q] = [r EXCEPT !.pc = "insert", !.task.export = f]]
    BY <1>0, <1>5 DEF PutExport
  <2> DEFINE x == [r EXCEPT !.pc = "insert", !.task.export = f]
  <2>2. r.pc = "put" /\ r.op = "export" /\ export'[f].file
    BY <1>0, <1>5, <2>1 DEF PutExport, Informed, StudyInv, ExportData
  <2>3. /\ DOMAIN x = Fields /\ x.pc = "insert" /\ x.op = r.op /\ x.token = r.token /\ x.user = r.user
        /\ x.experiment = r.experiment /\ x.goal = r.goal /\ x.task.only = r.task.only
        /\ x.task.rows = r.task.rows /\ x.task.export = f
        /\ {"only", "rows", "export"} \subseteq DOMAIN x.task
    BY <1>0, <2>2 DEF Informed, Fields
  <2>4. PICK y : y = x
    OBVIOUS
  <2>5. PICK old : old = r
    OBVIOUS
  <2>6. Informed(old)'
    BY <1>0, <1>1, <2>5, InformedGrows
  <2>7. Informed(y)'
    BY <2>1, <2>2, <2>3, <2>4, <2>5, <2>6 DEF Informed, Arriving, Fields
  <2>8. RequestData'
    BY <1>1, <2>1, <2>4, <2>7, RequestStep DEF StudyInv
  <2> QED BY <1>1, <2>8 DEF StudyInv
<1> QED BY <1>2, <1>3, <1>4, <1>5 DEF StudyStep


(* A request that is sent knows nothing but what it is about.              *)
LEMMA AskInforms ==
    ASSUME StudyInv, NEW q \in Requests, Ask(q)
    PROVE  \E x : /\ Informed(x) /\ Carries(x, issued)
                  /\ request' = [request EXCEPT ![q] = x]
<1>1. CASE \E u \in Users : AskLogin(q, u)
  <2>1. PICK u \in Users : request' = [request EXCEPT ![q] = [Nothing EXCEPT !.pc = "client", !.op = "login", !.goal = u]]
    BY <1>1 DEF AskLogin, Send
  <2> DEFINE x == [Nothing EXCEPT !.pc = "client", !.op = "login", !.goal = u]
  <2>2. /\ DOMAIN x = Fields /\ x.pc = "client" /\ x.op = "login" /\ x.experiment = None
    BY DEF Nothing, Fields
  <2>3. Informed(x) /\ Carries(x, issued)
    BY <2>2 DEF Informed, Carries, Arriving, Pair, Fields
  <2> QED BY <2>1, <2>3
<1>2. ASSUME NEW s \in issued,
             \/ AskLogout(q, s) \/ AskCreate(q, s)
             \/ \E e \in Experiments : AskJoin(q, s, e)
             \/ \E p \in Projects : AskEvents(q, s, p) \/ \E usage \in {"research", "general"} : AskRun(q, s, p, usage)
             \/ \E r \in Runs, status \in {"included", "excluded"} : AskAdmit(q, s, r, status)
             \/ \E e \in Experiments \cup {None}, only \in BOOLEAN : AskExport(q, s, e, only)
      PROVE  \E x : /\ Informed(x) /\ Carries(x, issued)
                    /\ request' = [request EXCEPT ![q] = x]
  <2>1. ASSUME NEW op \in {"logout", "join", "create", "run", "events", "admit", "export"}, NEW task, NEW goal,
               op = "events" => /\ {"project", "run", "base"} \subseteq DOMAIN task
                                /\ task.project \in Projects /\ task.run \in Runs \cup {None},
               op = "admit" => task.run \in Runs,
               op = "export" => {"only", "rows", "export"} \subseteq DOMAIN task,
               \/ request' = [request EXCEPT ![q] = With(op, s, task)]
               \/ request' = [request EXCEPT ![q] = [With(op, s, task) EXCEPT !.goal = goal]]
        PROVE  \E x : /\ Informed(x) /\ Carries(x, issued)
                      /\ request' = [request EXCEPT ![q] = x]
    <3>1. ASSUME NEW x, DOMAIN x = Fields, x.pc = "read", x.op = op, x.token = s, x.experiment = None, x.task = task
          PROVE  Informed(x) /\ Carries(x, issued)
      BY <2>1, <3>1 DEF Informed, Carries, Arriving, Pair, Fields
    <3> DEFINE w == With(op, s, task)
               g == [With(op, s, task) EXCEPT !.goal = goal]
    <3>2. DOMAIN w = Fields /\ w.pc = "read" /\ w.op = op /\ w.token = s /\ w.experiment = None /\ w.task = task
      BY DEF With, Nothing, Fields
    <3>3. DOMAIN g = Fields /\ g.pc = "read" /\ g.op = op /\ g.token = s /\ g.experiment = None /\ g.task = task
      BY DEF With, Nothing, Fields
    <3>4. Informed(w) /\ Carries(w, issued)
      BY <3>1, <3>2
    <3>5. Informed(g) /\ Carries(g, issued)
      BY <3>1, <3>3
    <3> QED BY <2>1, <3>4, <3>5
  <2>2. CASE AskLogout(q, s)
    <3>1. request' = [request EXCEPT ![q] = With("logout", s, None)]
      BY <2>2 DEF AskLogout, Send
    <3> QED BY <2>1, <3>1
  <2>3. CASE AskCreate(q, s)
    <3>1. request' = [request EXCEPT ![q] = With("create", s, None)]
      BY <2>3 DEF AskCreate, Send
    <3> QED BY <2>1, <3>1
  <2>4. CASE \E e \in Experiments : AskJoin(q, s, e)
    <3>1. PICK e \in Experiments : request' = [request EXCEPT ![q] = [With("join", s, None) EXCEPT !.goal = e]]
      BY <2>4 DEF AskJoin, Send
    <3> QED BY <2>1, <3>1
  <2>5. CASE \E p \in Projects : AskEvents(q, s, p)
    <3>1. PICK p \in Projects : AskEvents(q, s, p)
      BY <2>5
    <3>2. PICK batch : request' = [request EXCEPT ![q] =
              With("events", s, [project |-> p, run |-> project[p].active, batch |-> batch, base |-> NoProject])]
      BY <3>1 DEF AskEvents
    <3>3. project[p].active \in Runs \cup {None}
      BY DEF StudyInv, ProjectData
    <3> DEFINE task == [project |-> p, run |-> project[p].active, batch |-> batch, base |-> NoProject]
    <3>4. {"project", "run", "base"} \subseteq DOMAIN task /\ task.project \in Projects /\ task.run \in Runs \cup {None}
      BY <3>3
    <3> HIDE DEF task
    <3>5. request' = [request EXCEPT ![q] = With("events", s, task)]
      BY <3>2 DEF task
    <3> QED BY <2>1, <3>4, <3>5
  <2>6. CASE \E p \in Projects : \E usage \in {"research", "general"} : AskRun(q, s, p, usage)
    <3>1. PICK p \in Projects, usage \in {"research", "general"} :
              request' = [request EXCEPT ![q] = With("run", s, [project |-> p, usage |-> usage])]
      BY <2>6 DEF AskRun, Send
    <3> QED BY <2>1, <3>1
  <2>7. CASE \E r \in Runs, status \in {"included", "excluded"} : AskAdmit(q, s, r, status)
    <3>1. PICK r \in Runs, status \in {"included", "excluded"} :
              request' = [request EXCEPT ![q] = With("admit", s, [run |-> r, status |-> status])]
      BY <2>7 DEF AskAdmit, Send
    <3> DEFINE task == [run |-> r, status |-> status]
    <3>2. task.run \in Runs
      OBVIOUS
    <3> HIDE DEF task
    <3>3. request' = [request EXCEPT ![q] = With("admit", s, task)]
      BY <3>1 DEF task
    <3> QED BY <2>1, <3>2, <3>3
  <2>8. CASE \E e \in Experiments \cup {None}, only \in BOOLEAN : AskExport(q, s, e, only)
    <3>1. PICK e \in Experiments \cup {None}, only \in BOOLEAN :
              request' = [request EXCEPT ![q] =
                  [With("export", s, [only |-> only, rows |-> {}, export |-> None]) EXCEPT !.goal = e]]
      BY <2>8 DEF AskExport, Send
    <3> DEFINE task == [only |-> only, rows |-> {}, export |-> None]
    <3>2. {"only", "rows", "export"} \subseteq DOMAIN task
      OBVIOUS
    <3> HIDE DEF task
    <3>3. request' = [request EXCEPT ![q] = [With("export", s, task) EXCEPT !.goal = e]]
      BY <3>1 DEF task
    <3> QED BY <2>1, <3>2, <3>3
  <2> QED BY <1>2, <2>2, <2>3, <2>4, <2>5, <2>6, <2>7, <2>8
<1> QED BY <1>1, <1>2 DEF Ask

LEMMA AskKeeps ==
    ASSUME StudyInv, NEW q \in Requests, Ask(q)
    PROVE  StudyInv'
<1>1. UNCHANGED <<session, issued, participant, project, run, memory, export, admitted>>
  BY DEF Ask, AskLogin, AskLogout, AskJoin, AskCreate, AskRun, AskEvents, AskAdmit, AskExport, Send,
         accountVars, studyVars
<1>2. Grows
  BY <1>1 DEF Grows, Live
<1>3. PICK x : Informed(x) /\ Carries(x, issued) /\ request' = [request EXCEPT ![q] = x]
  BY AskInforms
<1>4. SessionInv'
  BY AskSteps DEF StudyInv
<1> QED BY <1>1, <1>2, <1>3, <1>4, TablesGrow, StudyInvStep

LEMMA StudyNext ==
    ASSUME StudyInv, [Next]_vars
    PROVE  StudyInv'
<1>1. SessionInv'
  BY SessionNext DEF StudyInv
<1>2. CASE \E q \in Requests : Ask(q) \/ StudyStep(q) \/ (AccountStep(q) /\ UNCHANGED studyVars)
  BY <1>2, AskKeeps, StudyKeeps, AccountKeeps
<1>3. CASE (Tick /\ UNCHANGED studyVars) \/ Restart \/ UNCHANGED vars
  <2>1. UNCHANGED <<session, issued, participant, project, run, memory, export, admitted>>
    BY <1>3 DEF Tick, Restart, vars, accountVars, studyVars
  <2>2. Grows
    BY <2>1 DEF Grows, Live
  <2>3. CASE UNCHANGED request
    BY <1>1, <2>1, <2>2, <2>3, TablesGrow DEF StudyInv, RequestData, Informed, Live, Pair, SoundRows
  <2>4. CASE request' = [q \in Requests |-> Nothing]
    <3>1. RequestData'
      BY <2>4, NothingInformed DEF RequestData, Informed, Live, Pair, SoundRows
    <3> QED BY <1>1, <2>1, <2>2, <3>1, TablesGrow DEF StudyInv
  <2> QED BY <1>3, <2>3, <2>4 DEF Tick, Restart, vars
<1> QED BY <1>2, <1>3 DEF Next

(* An export that is listed has its file, one for an experiment holds only *)
(* its participants' work, and one of included runs only corrections of    *)
(* research runs that an administrator admitted, for any number of         *)
(* requests at a time.  A correction takes its experiment from the project *)
(* (_save_correction_memory_from_event), the project from the session of   *)
(* the request (create_project_v2) and the session from join_experiment,   *)
(* each of them some steps after it was read; only the participants, the   *)
(* admissions and the files, which never shrink, make that harmless.       *)
THEOREM ExportsAreSound == Spec => []ExportIsSound
<1>1. StudyInv => ExportIsSound
  BY DEF StudyInv, ExportData, RunData, SoundRows, Pair, ExportIsSound
<1> QED BY StudyInit, StudyNext, <1>1, PTL DEF Spec

-----------------------------------------------------------------------------
(* What is recorded                                                        *)

(* A request for events is about a project that is there; one that is      *)
(* about to store has read who owns it and its experiment, neither of      *)
(* which changes.                                                          *)
Based(r) ==
    /\ r.pc # "idle" /\ r.op = "events" => r.task.project \in Projects /\ Exists(r.task.project)
    /\ r.pc = "store" => /\ r.op = "events"
                         /\ project[r.task.project].owner = r.user
                         /\ project[r.task.project].experiment = r.task.base.experiment

RecordedInv ==
    /\ EventsFollowProject
    /\ \A r \in event : r.project \in Projects /\ Exists(r.project) /\ r.run \in Runs \cup {None}
    /\ memory \subseteq event
    /\ \A q \in Requests : Based(request[q])

LEMMA RecordedInit == Init => RecordedInv
<1> SUFFICES ASSUME Init PROVE RecordedInv
  OBVIOUS
<1>1. event = {} /\ memory = {} /\ request = [q \in Requests |-> Nothing]
  BY DEF Init
<1> QED BY <1>1 DEF RecordedInv, EventsFollowProject, Based, Nothing

(* Projects stay with their owner and experiment, runs with their project. *)
Settled ==
    /\ \A p \in Projects : Exists(p) => /\ project'[p] # NoProject
                                        /\ project'[p].owner = project[p].owner
                                        /\ project'[p].experiment = project[p].experiment
    /\ \A x \in Runs : run[x] # NoRun => /\ run'[x].project = run[x].project
                                         /\ run'[x].owner = run[x].owner

LEMMA StepsSettle ==
    ASSUME StudyInv, [Next]_vars
    PROVE  Settled
<1>0. ProjectData /\ RunData /\ RequestData
  BY DEF StudyInv
<1>1. CASE UNCHANGED <<project, run>>
  BY <1>1 DEF Settled, Exists
<1>2. ASSUME NEW q \in Requests, Create(q) PROVE Settled
  BY <1>2 DEF Create, Settled, Exists
<1>3. ASSUME NEW q \in Requests, CreateRun(q), ~UNCHANGED <<project, run>> PROVE Settled
  <2>1. PICK x \in Runs :
           /\ run[x] = NoRun
           /\ run' = [run EXCEPT ![x] =
                 [project |-> request[q].task.project, owner |-> request[q].user,
                  usage |-> request[q].task.usage,
                  status |-> IF request[q].task.usage = "research" THEN "candidate" ELSE "excluded"]]
           /\ project' = [project EXCEPT ![request[q].task.project].active = x]
    BY <1>3 DEF CreateRun
  <2>2. \A p \in Projects : /\ DOMAIN project'[p] = {"owner", "experiment", "active"}
                            /\ project'[p].owner = project[p].owner
                            /\ project'[p].experiment = project[p].experiment
                            /\ project'[p].active = project[p].active \/ project'[p].active = x
    BY <1>0, <2>1 DEF ProjectData
  <2>3. \A p \in Projects : Exists(p) => project'[p] # NoProject
    <3>1. ASSUME NEW p \in Projects, Exists(p), project'[p] = NoProject PROVE FALSE
      <4>1. project'[p].active = None /\ x # None
        BY <3>1, StudyAssumption DEF NoProject
      <4>2. project'[p] = project[p]
        BY <1>0, <2>1, <2>2, <4>1 DEF ProjectData
      <4> QED BY <3>1, <4>2 DEF Exists
    <3> QED BY <3>1
  <2>4. \A y \in Runs : run[y] # NoRun => run'[y] = run[y]
    BY <1>0, <2>1 DEF RunData
  <2> QED BY <2>2, <2>3, <2>4 DEF Settled
<1>4. ASSUME NEW q \in Requests, Admit(q), ~UNCHANGED <<project, run>> PROVE Settled
  <2>1. run' = [run EXCEPT ![request[q].task.run].status = request[q].task.status] /\ UNCHANGED project
    BY <1>4 DEF Admit
  <2> QED BY <1>0, <2>1 DEF Settled, Exists, RunData
<1>5. ASSUME NEW q \in Requests, Ask(q) \/ StudyStep(q) \/ UNCHANGED studyVars,
             ~Create(q), ~CreateRun(q), ~Admit(q)
      PROVE  UNCHANGED <<project, run>>
  BY <1>5 DEF Ask, AskLogin, AskLogout, AskJoin, AskCreate, AskRun, AskEvents, AskAdmit, AskExport, Send,
              StudyStep, ReadProject, Store, Collect, PutExport, InsertExport, studyVars
<1>6. ASSUME NEW q \in Requests, Ask(q) \/ StudyStep(q) \/ (AccountStep(q) /\ UNCHANGED studyVars)
      PROVE  Settled
  BY <1>1, <1>2, <1>3, <1>4, <1>5, <1>6
<1>7. CASE (Tick /\ UNCHANGED studyVars) \/ Restart \/ UNCHANGED vars
  BY <1>1, <1>7 DEF Restart, studyVars, vars
<1> QED BY <1>6, <1>7 DEF Next

LEMMA BasedStays ==
    ASSUME Settled, NEW r, Based(r)
    PROVE  Based(r)'
BY DEF Settled, Based, Exists

(* What thread q has read after its step.                                  *)
LEMMA StepsBase ==
    ASSUME StudyInv, RecordedInv, NEW q \in Requests,
           Ask(q) \/ StudyStep(q) \/ AccountStep(q)
    PROVE  \E x : request' = [request EXCEPT ![q] = x] /\ Based(x)
<1> DEFINE r == request[q]
<1>0. /\ Informed(r) /\ Based(r) /\ Based(Nothing) /\ DOMAIN request = Requests
      /\ ProjectData /\ DOMAIN r = Fields
  BY DEF StudyInv, SessionInv, RequestData, RecordedInv, Based, Nothing, Informed
<1>1. ASSUME NEW x, request' = [request EXCEPT ![q] = x], x.pc # "store", x.pc = "idle" \/ x.op # "events"
      PROVE  \E y : request' = [request EXCEPT ![q] = y] /\ Based(y)
  BY <1>1 DEF Based
<1>2. ASSUME NEW x, request' = [request EXCEPT ![q] = x], x.pc # "store", r.pc # "idle",
             x.op = r.op, x.task = r.task
      PROVE  \E y : request' = [request EXCEPT ![q] = y] /\ Based(y)
  BY <1>0, <1>2 DEF Based
<1>3. ASSUME request' = [request EXCEPT ![q] = Nothing]
      PROVE  \E y : request' = [request EXCEPT ![q] = y] /\ Based(y)
  BY <1>0, <1>3
<1>4. CASE AccountStep(q)
  <2>1. CASE WrongPassword(q) \/ CreateSession(q) \/ Expire(q) \/ Logout(q) \/ Join(q)
    BY <1>3, <2>1 DEF WrongPassword, CreateSession, Expire, Logout, Join, Ends
  <2>2. CASE LimitClient(q) \/ LimitAccount(q)
    <3>1. \/ Ends(q)
          \/ \E pc \in {"account", "session"} : request' = [request EXCEPT ![q] = [r EXCEPT !.pc = pc]]
      BY <1>0, <2>2 DEF LimitClient, LimitAccount, Attempt, Goto
    <3>2. r.pc # "idle"
      BY <2>2 DEF LimitClient, LimitAccount
    <3>3. ASSUME NEW pc \in {"account", "session"}
          PROVE  LET x == [r EXCEPT !.pc = pc] IN x.pc # "store" /\ x.op = r.op /\ x.task = r.task
      BY <1>0 DEF Fields
    <3> QED BY <1>2, <1>3, <3>1, <3>2, <3>3 DEF Ends
  <2>3. CASE ReadSession(q)
    <3> DEFINE known(s) == [r EXCEPT !.pc = s, !.user = session[r.token].user,
                                     !.experiment = session[r.token].experiment, !.at = clock]
    <3>1. PICK s \in {"expire", "renew"} : s = IF Expired(q) THEN "expire" ELSE "renew"
      OBVIOUS
    <3>2. r.pc = "read" /\ (Ends(q) \/ request' = [request EXCEPT ![q] = known(s)])
      BY <1>0, <2>3, <3>1 DEF ReadSession
    <3>3. known(s).pc # "store" /\ known(s).op = r.op /\ known(s).task = r.task
      BY <1>0 DEF Fields
    <3> QED BY <1>2, <1>3, <3>2, <3>3 DEF Ends
  <2>4. CASE Renew(q)
    <3> DEFINE x == [r EXCEPT !.pc = r.op, !.at = 0]
    <3>1. r.pc = "renew" /\ request' = [request EXCEPT ![q] = x]
      BY <1>0, <2>4 DEF Renew
    <3>2. x.pc # "store" /\ x.op = r.op /\ x.task = r.task
      BY <1>0, <3>1 DEF Informed, Fields
    <3> QED BY <1>2, <3>1, <3>2
  <2> QED BY <1>4, <2>1, <2>2, <2>3, <2>4 DEF AccountStep
<1>5. CASE StudyStep(q)
  <2>1. CASE Create(q) \/ CreateRun(q) \/ Store(q) \/ Admit(q) \/ InsertExport(q)
    BY <1>3, <2>1 DEF Create, CreateRun, Store, Admit, InsertExport, Ends
  <2>2. CASE ReadProject(q)
    <3> DEFINE base == project[r.task.project]
               x == [r EXCEPT !.pc = "store", !.task.base = base]
    <3>1. CASE Ends(q)
      BY <1>3, <3>1 DEF Ends
    <3>2. CASE ~Ends(q)
      <4>1. r.pc = "events" /\ base.owner = r.user /\ request' = [request EXCEPT ![q] = x]
        BY <1>0, <2>2, <3>2 DEF ReadProject, Owned
      <4>2. /\ x.user = r.user /\ x.task.base = base /\ x.task.project = r.task.project
            /\ r.op = "events"
        BY <1>0, <4>1 DEF Informed, Fields
      <4>3. Based(x)
        BY <1>0, <4>1, <4>2 DEF Based
      <4> QED BY <4>1, <4>3
    <3> QED BY <3>1, <3>2
  <2>3. CASE Collect(q)
    <3> DEFINE x == [r EXCEPT !.pc = "put", !.task.rows = Selected(r.goal, r.task.only)]
    <3>1. r.pc = "export" /\ r.op = "export" /\ (Ends(q) \/ request' = [request EXCEPT ![q] = x])
      BY <1>0, <2>3 DEF Collect, Informed
    <3>2. x.pc # "store" /\ x.op = r.op
      BY <1>0 DEF Fields
    <3> QED BY <1>1, <1>3, <3>1, <3>2 DEF Ends
  <2>4. CASE PutExport(q)
    <3>1. PICK f \in Exports : request' = [request EXCEPT ![q] = [r EXCEPT !.pc = "insert", !.task.export = f]]
      BY <1>0, <2>4 DEF PutExport
    <3> DEFINE x == [r EXCEPT !.pc = "insert", !.task.export = f]
    <3>2. r.pc = "put" /\ r.op = "export"
      BY <1>0, <2>4 DEF PutExport, Informed
    <3>3. x.pc # "store" /\ x.op = r.op
      BY <1>0 DEF Fields
    <3> QED BY <1>1, <3>1, <3>2, <3>3
  <2> QED BY <1>5, <2>1, <2>2, <2>3, <2>4 DEF StudyStep
<1>6. CASE Ask(q)
  <2>1. ASSUME NEW u, AskLogin(q, u)
        PROVE  \E y : request' = [request EXCEPT ![q] = y] /\ Based(y)
    <3> DEFINE x == [Nothing EXCEPT !.pc = "client", !.op = "login", !.goal = u]
    <3>1. request' = [request EXCEPT ![q] = x] /\ x.pc = "client" /\ x.op = "login"
      BY <2>1 DEF AskLogin, Send, Nothing
    <3> QED BY <1>1, <3>1
  <2>2. ASSUME NEW s, NEW task, NEW op \in {"logout", "create", "run", "admit"},
               request' = [request EXCEPT ![q] = With(op, s, task)]
        PROVE  \E y : request' = [request EXCEPT ![q] = y] /\ Based(y)
    <3>1. With(op, s, task).pc = "read" /\ With(op, s, task).op = op
      BY DEF With, Nothing
    <3> QED BY <1>1, <2>2, <3>1
  <2>3. ASSUME NEW s, NEW task, NEW e, NEW op \in {"join", "export"},
               request' = [request EXCEPT ![q] = [With(op, s, task) EXCEPT !.goal = e]]
        PROVE  \E y : request' = [request EXCEPT ![q] = y] /\ Based(y)
    <3> DEFINE x == [With(op, s, task) EXCEPT !.goal = e]
    <3>1. x.pc = "read" /\ x.op = op
      BY DEF With, Nothing
    <3> QED BY <1>1, <2>3, <3>1
  <2>4. ASSUME NEW s, NEW p \in Projects, AskEvents(q, s, p)
        PROVE  \E y : request' = [request EXCEPT ![q] = y] /\ Based(y)
    <3>1. PICK batch : request' = [request EXCEPT ![q] =
              With("events", s, [project |-> p, run |-> project[p].active, batch |-> batch, base |-> NoProject])]
      BY <2>4 DEF AskEvents
    <3> DEFINE x == With("events", s, [project |-> p, run |-> project[p].active, batch |-> batch, base |-> NoProject])
    <3>2. x.pc = "read" /\ x.task.project = p
      BY DEF With, Nothing
    <3>3. Based(x)
      BY <2>4, <3>2 DEF Based, AskEvents
    <3> QED BY <3>1, <3>3
  <2>5. ASSUME NEW s, AskLogout(q, s) \/ AskCreate(q, s)
        PROVE  \E y : request' = [request EXCEPT ![q] = y] /\ Based(y)
    BY <2>2, <2>5 DEF AskLogout, AskCreate, Send
  <2>6. ASSUME NEW s, NEW e, NEW only, AskJoin(q, s, e) \/ AskExport(q, s, e, only)
        PROVE  \E y : request' = [request EXCEPT ![q] = y] /\ Based(y)
    BY <2>3, <2>6 DEF AskJoin, AskExport, Send
  <2>7. ASSUME NEW s, NEW p, NEW usage, AskRun(q, s, p, usage)
        PROVE  \E y : request' = [request EXCEPT ![q] = y] /\ Based(y)
    BY <2>2, <2>7 DEF AskRun, Send
  <2>8. ASSUME NEW s, NEW x, NEW status, AskAdmit(q, s, x, status)
        PROVE  \E y : request' = [request EXCEPT ![q] = y] /\ Based(y)
    BY <2>2, <2>8 DEF AskAdmit, Send
  <2> QED BY <1>6, <2>1, <2>4, <2>5, <2>6, <2>7, <2>8 DEF Ask
<1> QED BY <1>4, <1>5, <1>6

(* What Store adds: rows of the project it has read, of events that are    *)
(* not recorded yet, each with its correction.                             *)
LEMMA StoreEffect ==
    ASSUME StudyInv, RecordedInv, NEW q \in Requests, Store(q)
    PROVE  \E new :
              /\ event' = event \cup new
              /\ memory' = memory \cup {r \in new : r.id \in Memorable}
              /\ \A r \in new :
                    /\ r.project \in Projects /\ Exists(r.project) /\ ~Stored(r.project, r.id)
                    /\ r.user = project[r.project].owner /\ r.experiment = project[r.project].experiment
                    /\ r.run \in Runs \cup {None}
                    /\ r.run # None => run[r.run].project = r.project /\ run[r.run].owner = r.user
              /\ \A r, o \in new : r.id = o.id => r = o
<1> DEFINE r == request[q]
           rows == IF Aborted(q) THEN {} ELSE {RowOf(q, e) : e \in New(q)}
<1>0. Informed(r) /\ Based(r) /\ r.pc = "store" /\ DOMAIN r = Fields
  BY DEF StudyInv, RequestData, RecordedInv, Store, Informed
<1>1. event' = event \cup rows /\ memory' = memory \cup {x \in rows : x.id \in Memorable}
  BY DEF Store
<1>2. /\ r.op = "events" /\ r.task.project \in Projects /\ Exists(r.task.project)
      /\ r.user = project[r.task.project].owner
      /\ r.task.base.experiment = project[r.task.project].experiment
      /\ r.task.run \in Runs \cup {None} /\ r.task.base.active \in Runs \cup {None}
  BY <1>0 DEF Informed, Based
<1>3. /\ NamedRun(q) \in Runs \cup {None}
      /\ NamedRun(q) # None => run[NamedRun(q)].project = r.task.project /\ run[NamedRun(q)].owner = r.user
  BY <1>2 DEF NamedRun
<1>4. ASSUME NEW x \in rows
      PROVE  /\ x = RowOf(q, x.id) /\ x.project = r.task.project /\ ~Stored(x.project, x.id)
             /\ x.user = r.user /\ x.experiment = r.task.base.experiment /\ x.run = NamedRun(q)
  <2>1. PICK e \in New(q) : x = RowOf(q, e)
    BY <1>4
  <2>2. x.id = e /\ x.project = r.task.project /\ x.user = r.user
        /\ x.experiment = r.task.base.experiment /\ x.run = NamedRun(q)
    BY <2>1 DEF RowOf
  <2> QED BY <2>1, <2>2 DEF New
<1>5. \A x, o \in rows : x.id = o.id => x = o
  BY <1>4
<1> HIDE DEF rows
<1> QED BY <1>1, <1>2, <1>3, <1>4, <1>5

LEMMA StoreRecords ==
    ASSUME StudyInv, RecordedInv, NEW q \in Requests, Store(q)
    PROVE  /\ EventsFollowProject' /\ memory' \subseteq event'
           /\ \A r \in event' : r.project \in Projects /\ Exists(r.project)' /\ r.run \in Runs \cup {None}
<1>1. PICK new :
              /\ event' = event \cup new
              /\ memory' = memory \cup {r \in new : r.id \in Memorable}
              /\ \A r \in new :
                    /\ r.project \in Projects /\ Exists(r.project) /\ ~Stored(r.project, r.id)
                    /\ r.user = project[r.project].owner /\ r.experiment = project[r.project].experiment
                    /\ r.run \in Runs \cup {None}
                    /\ r.run # None => run[r.run].project = r.project /\ run[r.run].owner = r.user
              /\ \A r, o \in new : r.id = o.id => r = o
  BY StoreEffect
<1>2. UNCHANGED <<project, run>>
  BY DEF Store
<1>3. \A r \in event' : r.project \in Projects /\ Exists(r.project)' /\ r.run \in Runs \cup {None}
  BY <1>1, <1>2 DEF RecordedInv, Exists
<1>4. ASSUME NEW r \in event', NEW o \in event', o.project = r.project, o.id = r.id
      PROVE  o = r
  BY <1>1, <1>4 DEF RecordedInv, EventsFollowProject, Stored
<1>5. ASSUME NEW r \in event' PROVE r.id \in Memorable <=> r \in memory'
  <2>1. r \in new => r \notin memory
    BY <1>1 DEF RecordedInv, Stored
  <2> QED BY <1>1, <2>1 DEF RecordedInv, EventsFollowProject
<1>6. ASSUME NEW r \in event'
      PROVE  /\ r.user = project'[r.project].owner /\ r.experiment = project'[r.project].experiment
             /\ r.run # None => run'[r.run].project = r.project /\ run'[r.run].owner = r.user
  BY <1>1, <1>2 DEF RecordedInv, EventsFollowProject
<1>7. EventsFollowProject'
  BY <1>4, <1>5, <1>6 DEF EventsFollowProject
<1> QED BY <1>1, <1>3, <1>7 DEF RecordedInv

LEMMA RecordedNext ==
    ASSUME StudyInv, RecordedInv, [Next]_vars
    PROVE  RecordedInv'
<1>1. Settled
  BY StepsSettle
<1>2. (\A q \in Requests : Based(request[q]))'
  <2>1. ASSUME NEW q \in Requests, Ask(q) \/ StudyStep(q) \/ AccountStep(q),
               NEW p \in Requests
        PROVE  Based(request[p])'
    <3>1. PICK x : request' = [request EXCEPT ![q] = x] /\ Based(x)
      BY <2>1, StepsBase
    <3>2. PICK y : y = request'[p]
      OBVIOUS
    <3>3. y = x \/ y = request[p]
      BY <3>1, <3>2 DEF StudyInv, SessionInv
    <3>4. Based(y)
      BY <3>1, <3>3 DEF RecordedInv
    <3>5. Based(y)'
      BY <1>1, <3>4, BasedStays
    <3> QED BY <3>2, <3>5 DEF Based, Exists
  <2>2. CASE UNCHANGED request
    <3>1. ASSUME NEW p \in Requests PROVE Based(request[p])'
      <4>1. PICK y : y = request[p]
        OBVIOUS
      <4>2. Based(y)'
        BY <1>1, <4>1, BasedStays DEF RecordedInv
      <4> QED BY <2>2, <4>1, <4>2 DEF Based, Exists
    <3> QED BY <3>1
  <2>3. CASE request' = [q \in Requests |-> Nothing]
    BY <2>3 DEF Based, Nothing
  <2> QED BY <2>1, <2>2, <2>3 DEF Next, Tick, Restart, vars
<1>3. ASSUME ~(\E q \in Requests : Store(q))
      PROVE  UNCHANGED <<event, memory>>
  <2>1. ASSUME NEW q \in Requests, Ask(q) \/ StudyStep(q) \/ UNCHANGED studyVars
        PROVE  UNCHANGED <<event, memory>>
    BY <1>3, <2>1 DEF Ask, AskLogin, AskLogout, AskJoin, AskCreate, AskRun, AskEvents, AskAdmit, AskExport,
                      Send, StudyStep, Create, CreateRun, ReadProject, Admit, Collect, PutExport,
                      InsertExport, studyVars
  <2> QED BY <2>1 DEF Next, Restart, studyVars, vars
<1>4. CASE \E q \in Requests : Store(q)
  BY <1>2, <1>4, StoreRecords DEF RecordedInv
<1>5. CASE UNCHANGED <<event, memory>>
  <2>1. ASSUME NEW r \in event
        PROVE  /\ r.project \in Projects /\ Exists(r.project)' /\ r.run \in Runs \cup {None}
               /\ r.user = project'[r.project].owner /\ r.experiment = project'[r.project].experiment
               /\ r.run # None => run'[r.run].project = r.project /\ run'[r.run].owner = r.user
    <3>1. /\ r.project \in Projects /\ Exists(r.project) /\ r.run \in Runs \cup {None}
          /\ r.user = project[r.project].owner /\ r.experiment = project[r.project].experiment
          /\ r.run # None => run[r.run].project = r.project /\ run[r.run].owner = r.user
      BY DEF RecordedInv, EventsFollowProject
    <3>2. Exists(r.project)' /\ project'[r.project].owner = project[r.project].owner
          /\ project'[r.project].experiment = project[r.project].experiment
      BY <1>1, <3>1 DEF Settled, Exists
    <3>3. ASSUME r.run # None
          PROVE  run'[r.run].project = r.project /\ run'[r.run].owner = r.user
      <4>1. run[r.run] # NoRun
        BY <3>1, <3>3, StudyAssumption DEF NoRun
      <4> QED BY <1>1, <3>1, <3>3, <4>1 DEF Settled
    <3> QED BY <3>1, <3>2, <3>3
  <2>2. EventsFollowProject'
    BY <1>5, <2>1 DEF RecordedInv, EventsFollowProject
  <2>3. (\A r \in event : r.project \in Projects /\ Exists(r.project) /\ r.run \in Runs \cup {None})'
    BY <1>5, <2>1
  <2> QED BY <1>2, <1>5, <2>2, <2>3 DEF RecordedInv
<1> QED BY <1>3, <1>4, <1>5

(* On both databases an event is recorded once and with its correction,    *)
(* under the owner and the experiment of its project and a run of theirs   *)
(* in it, for any number of users, tabs and requests: what a request has   *)
(* read of the project (persistence.py:1115) still holds when it stores,   *)
(* and what a later save sends again is not recorded again.                *)
THEOREM EventsAreRecordedOnce == Spec => []EventsFollowProject
<1>1. RecordedInv => EventsFollowProject
  BY DEF RecordedInv
<1> QED BY StudyInit, StudyNext, RecordedInit, RecordedNext, <1>1, PTL DEF Spec

-----------------------------------------------------------------------------
(* The limiter                                                             *)

LEMMA LeastIndex ==
    ASSUME NEW S, S \subseteq Nat, S # {}
    PROVE  \E m \in S : \A i \in S : m <= i
<1>1. PICK m \in S : \A i \in S : ~(<<i, m>> \in OpToRel(<, Nat))
  BY NatLessThanWellFounded, WFMin
<1>2. \A i \in S : ~(i < m)
  BY <1>1 DEF OpToRel
<1> QED BY <1>2

Old(t) == t + Window < clock

(* What Recent drops lies before the window.                               *)
LEMMA RecentDropsOld ==
    ASSUME NEW v \in Seq(Nat), clock \in Nat
    PROVE  \E d \in 0..Len(v) : /\ Recent(v) = SubSeq(v, d + 1, Len(v))
                                /\ \A i \in 1..d : Old(v[i])
<1> DEFINE kept == {i \in DOMAIN v : \E j \in 1..i : v[j] + Window >= clock}
<1>0. Window \in Nat /\ Len(v) \in Nat /\ DOMAIN v = 1..Len(v) /\ \A i \in 1..Len(v) : v[i] \in Nat
  BY AccountsAssumption
<1>1. Recent(v) = SubSeq(v, Len(v) - Cardinality(kept) + 1, Len(v))
  BY DEF Recent
<1>2. CASE kept = {}
  <2>1. \A i \in 1..Len(v) : Old(v[i])
    <3>1. ASSUME NEW i \in 1..Len(v), ~Old(v[i]) PROVE FALSE
      <4>1. v[i] + Window >= clock /\ i \in 1..i
        BY <1>0, <3>1 DEF Old
      <4>2. i \in kept
        BY <1>0, <4>1
      <4> QED BY <1>2, <4>2
    <3> QED BY <3>1
  <2>2. Len(v) \in 0..Len(v) /\ Len(v) - Cardinality(kept) + 1 = Len(v) + 1
    <3> HIDE DEF kept
    <3> QED BY <1>0, <1>2, FS_EmptySet
  <2> HIDE DEF kept
  <2> QED BY <1>1, <2>1, <2>2
<1>3. CASE kept # {}
  <2>1. PICK m \in kept : \A i \in kept : m <= i
    <3>1. kept \subseteq Nat
      BY <1>0
    <3> HIDE DEF kept
    <3> QED BY <1>3, <3>1, LeastIndex
  <2>2. m \in 1..Len(v)
    BY <1>0
  <2>3. ASSUME NEW i \in 1..Len(v), ~Old(v[i]) PROVE i \in kept
    <3>1. v[i] + Window >= clock /\ i \in 1..i
      BY <1>0, <2>3 DEF Old
    <3> QED BY <1>0, <3>1
  <2>4. kept = m..Len(v)
    <3>1. \A i \in kept : i \in m..Len(v)
      BY <1>0, <2>1
    <3>2. PICK j \in 1..m : v[j] + Window >= clock
      OBVIOUS
    <3>3. ASSUME NEW i \in m..Len(v) PROVE i \in kept
      <4>1. i \in DOMAIN v /\ j \in 1..i
        BY <1>0, <2>2
      <4> QED BY <3>2, <4>1
    <3> QED BY <3>1, <3>3
  <2>5. \A i \in 1..(m - 1) : Old(v[i])
    <3> HIDE DEF kept
    <3>1. ASSUME NEW i \in 1..(m - 1), ~Old(v[i]) PROVE FALSE
      <4>1. i \in 1..Len(v) /\ ~(m <= i)
        BY <1>0, <2>2
      <4> QED BY <2>1, <2>3, <3>1, <4>1
    <3> QED BY <3>1
  <2>6. Cardinality(kept) = Len(v) - m + 1
    <3> HIDE DEF kept
    <3> QED BY <1>0, <2>2, <2>4, FS_Interval
  <2>7. m - 1 \in 0..Len(v) /\ Len(v) - Cardinality(kept) + 1 = (m - 1) + 1
    <3> HIDE DEF kept
    <3> QED BY <1>0, <2>2, <2>6
  <2> HIDE DEF kept
  <2> QED BY <1>1, <2>5, <2>7
<1> QED BY <1>2, <1>3
(* The bucket of a key is the end of its history, of which the rest is     *)
(* before the window; attempts as many apart as the limit are more than a  *)
(* window apart.                                                           *)
EndOf(b, a) ==
    \E n \in 0..Len(a) : /\ Len(b) = Len(a) - n
                         /\ \A i \in 1..Len(b) : b[i] = a[n + i]
                         /\ \A i \in 1..n : Old(a[i])
Rising(a) == /\ \A i \in 1..Len(a) : a[i] <= clock
             /\ \A i, j \in 1..Len(a) : i <= j => a[i] <= a[j]
Spaced(a, limit) == \A i, j \in 1..Len(a) : j >= i + limit => a[i] + Window < a[j]

LimitInv ==
    /\ clock \in Nat
    /\ bucket \in [Keys -> Seq(Nat)] /\ accepted \in [Keys -> Seq(Nat)]
    /\ \A k \in Keys : /\ EndOf(bucket[k], accepted[k]) /\ Rising(accepted[k])
                       /\ Spaced(accepted[k], Limit(k))

LEMMA LimitIsPositive == ASSUME NEW k PROVE Limit(k) \in Nat \ {0}
BY AccountsAssumption DEF Limit

LEMMA NothingAccepted == EndOf(<<>>, <<>>) /\ Rising(<<>>) /\ \A limit : Spaced(<<>>, limit)
BY DEF EndOf, Rising, Spaced

(* What is left of a bucket is still the end of the history.               *)
LEMMA RecentIsEnd ==
    ASSUME NEW b \in Seq(Nat), NEW a \in Seq(Nat), EndOf(b, a), clock \in Nat
    PROVE  Recent(b) \in Seq(Nat) /\ EndOf(Recent(b), a)
<1> DEFINE v == Recent(b)
<1>1. PICK d \in 0..Len(b) : v = SubSeq(b, d + 1, Len(b)) /\ \A i \in 1..d : Old(b[i])
  BY RecentDropsOld
<1>2. PICK n \in 0..Len(a) : /\ Len(b) = Len(a) - n
                             /\ \A i \in 1..Len(b) : b[i] = a[n + i]
                             /\ \A i \in 1..n : Old(a[i])
  BY DEF EndOf
<1> HIDE DEF v
<1>3. Len(a) \in Nat /\ Len(b) \in Nat
  OBVIOUS
<1>4. v \in Seq(Nat) /\ Len(v) = Len(b) - d
  BY <1>1, <1>3
<1>5. \A i \in 1..Len(v) : v[i] = b[d + i]
  BY <1>1, <1>3, <1>4
<1>6. n + d \in 0..Len(a) /\ Len(v) = Len(a) - (n + d)
  BY <1>2, <1>3, <1>4
<1>7. \A i \in 1..Len(v) : v[i] = a[(n + d) + i]
  <2>1. ASSUME NEW i \in 1..Len(v) PROVE v[i] = a[(n + d) + i]
    <3>1. d + i \in 1..Len(b) /\ n + (d + i) = (n + d) + i
      BY <1>2, <1>3, <1>4
    <3> QED BY <1>2, <1>5, <3>1
  <2> QED BY <2>1
<1>8. \A i \in 1..(n + d) : Old(a[i])
  <2>1. ASSUME NEW i \in 1..(n + d), i > n PROVE Old(a[i])
    <3>1. i - n \in 1..d /\ i - n \in 1..Len(b) /\ n + (i - n) = i
      BY <1>2, <1>3, <2>1
    <3> QED BY <1>1, <1>2, <3>1
  <2> QED BY <1>2, <1>3, <2>1
<1>9. EndOf(v, a)
  BY <1>6, <1>7, <1>8 DEF EndOf
<1> QED BY <1>4, <1>9 DEF v

(* An attempt that is accepted while fewer than the limit are in the       *)
(* bucket: those it is compared with in Spaced have left it.               *)
LEMMA AcceptedIsSpaced ==
    ASSUME NEW v \in Seq(Nat), NEW a \in Seq(Nat), NEW limit \in Nat \ {0}, clock \in Nat,
           EndOf(v, a), Rising(a), Spaced(a, limit), Len(v) < limit
    PROVE  /\ EndOf(Append(v, clock), Append(a, clock)) /\ Rising(Append(a, clock))
           /\ Spaced(Append(a, clock), limit)
<1> DEFINE w == Append(v, clock)
           h == Append(a, clock)
<1>1. PICK n \in 0..Len(a) : /\ Len(v) = Len(a) - n
                             /\ \A i \in 1..Len(v) : v[i] = a[n + i]
                             /\ \A i \in 1..n : Old(a[i])
  BY DEF EndOf
<1>2. /\ Len(a) \in Nat /\ Len(v) \in Nat /\ Window \in Nat
      /\ \A i \in 1..Len(a) : a[i] \in Nat
  BY AccountsAssumption
<1>3. /\ Len(w) = Len(v) + 1 /\ Len(h) = Len(a) + 1
      /\ w[Len(v) + 1] = clock /\ h[Len(a) + 1] = clock
      /\ \A i \in 1..Len(v) : w[i] = v[i]
      /\ \A i \in 1..Len(a) : h[i] = a[i]
  OBVIOUS
<1> HIDE DEF w, h
<1>4. EndOf(w, h)
  <2>1. n \in 0..Len(h) /\ Len(w) = Len(h) - n
    BY <1>1, <1>2, <1>3
  <2>2. ASSUME NEW i \in 1..Len(w) PROVE w[i] = h[n + i]
    <3>1. CASE i \in 1..Len(v)
      <4>1. n + i \in 1..Len(a)
        BY <1>1, <1>2, <3>1
      <4> QED BY <1>1, <1>3, <3>1, <4>1
    <3>2. CASE i = Len(v) + 1
      <4>1. n + i = Len(a) + 1
        BY <1>1, <1>2, <3>2
      <4> QED BY <1>3, <3>2, <4>1
    <3> QED BY <1>2, <1>3, <3>1, <3>2
  <2>3. ASSUME NEW i \in 1..n PROVE Old(h[i])
    <3>1. i \in 1..Len(a)
      BY <1>2
    <3> QED BY <1>1, <1>3, <3>1
  <2> QED BY <2>1, <2>2, <2>3 DEF EndOf
<1>5. Rising(h)
  <2>1. \A i \in 1..Len(a) : a[i] <= clock
    BY DEF Rising
  <2>2. ASSUME NEW i \in 1..Len(h) PROVE h[i] <= clock
    BY <1>2, <1>3, <2>1
  <2>3. ASSUME NEW i \in 1..Len(h), NEW j \in 1..Len(h), i <= j PROVE h[i] <= h[j]
    <3>1. CASE j \in 1..Len(a)
      <4>1. i \in 1..Len(a)
        BY <1>2, <2>3, <3>1
      <4> QED BY <1>3, <2>3, <3>1, <4>1 DEF Rising
    <3>2. CASE j = Len(a) + 1
      BY <1>3, <2>2, <3>2
    <3> QED BY <1>2, <1>3, <3>1, <3>2
  <2> QED BY <2>2, <2>3 DEF Rising
<1>6. Spaced(h, limit)
  <2>1. ASSUME NEW i \in 1..Len(h), NEW j \in 1..Len(h), j >= i + limit PROVE h[i] + Window < h[j]
    <3>1. CASE j \in 1..Len(a)
      <4>1. i \in 1..Len(a)
        BY <1>2, <2>1, <3>1
      <4> QED BY <1>3, <2>1, <3>1, <4>1 DEF Spaced
    <3>2. CASE j = Len(a) + 1
      <4>1. i \in 1..n /\ i \in 1..Len(a)
        BY <1>1, <1>2, <2>1, <3>2
      <4> QED BY <1>1, <1>3, <3>2, <4>1 DEF Old
    <3> QED BY <1>2, <1>3, <3>1, <3>2
  <2> QED BY <2>1 DEF Spaced
<1> QED BY <1>4, <1>5, <1>6 DEF w, h

LEMMA AttemptLimits ==
    ASSUME LimitInv, NEW q, NEW key, NEW next, Attempt(q, key, next), UNCHANGED clock
    PROVE  LimitInv'
<1> DEFINE v == Recent(bucket[key])
<1>1. CASE key \notin Keys
  <2>1. UNCHANGED <<bucket, accepted>>
    BY <1>1 DEF Attempt, LimitInv
  <2> QED BY <2>1 DEF LimitInv, EndOf, Rising, Spaced, Old
<1>2. CASE key \in Keys
  <2>1. v \in Seq(Nat) /\ EndOf(v, accepted[key]) /\ clock \in Nat /\ accepted[key] \in Seq(Nat)
    BY <1>2, RecentIsEnd DEF LimitInv
  <2>2. PICK b, a : /\ b \in Seq(Nat) /\ a \in Seq(Nat)
                    /\ EndOf(b, a) /\ Rising(a) /\ Spaced(a, Limit(key))
                    /\ bucket' = [bucket EXCEPT ![key] = b]
                    /\ accepted' = [accepted EXCEPT ![key] = a]
    <3>1. CASE Len(v) >= Limit(key)
      <4>1. bucket' = [bucket EXCEPT ![key] = v] /\ UNCHANGED accepted
        BY <3>1 DEF Attempt
      <4>2. accepted' = [accepted EXCEPT ![key] = accepted[key]]
        BY <4>1 DEF LimitInv
      <4> HIDE DEF v
      <4> QED BY <1>2, <2>1, <4>1, <4>2 DEF LimitInv
    <3>2. CASE ~(Len(v) >= Limit(key))
      <4>1. /\ bucket' = [bucket EXCEPT ![key] = Append(v, clock)]
            /\ accepted' = [accepted EXCEPT ![key] = Append(accepted[key], clock)]
        BY <3>2 DEF Attempt
      <4> HIDE DEF v
      <4>2. Len(v) < Limit(key) /\ Limit(key) \in Nat \ {0}
        BY <2>1, <3>2, LimitIsPositive
      <4>3. /\ EndOf(Append(v, clock), Append(accepted[key], clock)) /\ Rising(Append(accepted[key], clock))
            /\ Spaced(Append(accepted[key], clock), Limit(key))
        BY <1>2, <2>1, <4>2, AcceptedIsSpaced DEF LimitInv
      <4>4. Append(v, clock) \in Seq(Nat) /\ Append(accepted[key], clock) \in Seq(Nat)
        BY <2>1
      <4> QED BY <4>1, <4>3, <4>4
    <3> QED BY <3>1, <3>2
  <2>3. bucket' \in [Keys -> Seq(Nat)] /\ accepted' \in [Keys -> Seq(Nat)]
    BY <2>2 DEF LimitInv
  <2>4. ASSUME NEW k \in Keys
        PROVE  EndOf(bucket'[k], accepted'[k]) /\ Rising(accepted'[k]) /\ Spaced(accepted'[k], Limit(k))
    BY <2>2 DEF LimitInv
  <2> QED BY <2>1, <2>3, <2>4 DEF LimitInv, EndOf, Rising, Spaced, Old
<1> QED BY <1>1, <1>2

LEMMA LimitInit == Init => LimitInv
BY NothingAccepted DEF Init, LimitInv

LEMMA LimitNext == ASSUME LimitInv, [Next]_vars PROVE LimitInv'
<1>1. ASSUME NEW q \in Requests, LimitClient(q) \/ LimitAccount(q) PROVE LimitInv'
  BY <1>1, AttemptLimits DEF LimitClient, LimitAccount
<1>2. CASE Tick
  <2>1. clock' = clock + 1 /\ UNCHANGED <<bucket, accepted>>
    BY <1>2 DEF Tick
  <2>2. ASSUME NEW k \in Keys
        PROVE  /\ EndOf(bucket[k], accepted[k])' /\ Rising(accepted[k])'
               /\ Spaced(accepted[k], Limit(k))'
    <3> DEFINE a == accepted[k]
    <3>1. clock \in Nat /\ Window \in Nat /\ \A i \in 1..Len(a) : a[i] \in Nat
      BY AccountsAssumption DEF LimitInv
    <3>2. EndOf(bucket[k], a)'
      <4>1. PICK n \in 0..Len(a) : /\ Len(bucket[k]) = Len(a) - n
                                   /\ \A i \in 1..Len(bucket[k]) : bucket[k][i] = a[n + i]
                                   /\ \A i \in 1..n : Old(a[i])
        BY DEF EndOf, LimitInv
      <4>2. Len(a) \in Nat
        BY DEF LimitInv
      <4>3. \A i \in 1..n : Old(a[i])'
        BY <2>1, <3>1, <4>1, <4>2 DEF Old
      <4> QED BY <2>1, <4>1, <4>3 DEF EndOf
    <3>3. Rising(a)'
      BY <2>1, <3>1 DEF LimitInv, Rising
    <3>4. Spaced(a, Limit(k))'
      BY <2>1 DEF LimitInv, Spaced
    <3> QED BY <3>2, <3>3, <3>4
  <2> QED BY <2>1, <2>2 DEF LimitInv
<1>3. CASE UNCHANGED <<clock, bucket, accepted>>
  BY <1>3 DEF LimitInv, EndOf, Rising, Spaced, Old
<1>4. CASE Restart
  <2>1. /\ UNCHANGED clock
        /\ bucket' = [k \in Keys |-> <<>>] /\ accepted' = [k \in Keys |-> <<>>]
    BY <1>4 DEF Restart
  <2>2. \A k \in Keys : EndOf(bucket'[k], accepted'[k]) /\ Rising(accepted'[k]) /\ Spaced(accepted'[k], Limit(k))
    BY <2>1, NothingAccepted
  <2>3. clock' \in Nat /\ bucket' \in [Keys -> Seq(Nat)] /\ accepted' \in [Keys -> Seq(Nat)]
    BY <2>1 DEF LimitInv
  <2> QED BY <2>1, <2>2, <2>3 DEF LimitInv, EndOf, Rising, Spaced, Old
<1>5. ASSUME NEW q \in Requests, Ask(q) \/ StudyStep(q) \/ AccountStep(q)
      PROVE  LimitClient(q) \/ LimitAccount(q) \/ UNCHANGED <<clock, bucket, accepted>>
  <2>1. CASE Ask(q)
    BY <2>1 DEF Ask, AskLogin, AskLogout, AskJoin, AskCreate, AskRun, AskEvents, AskAdmit, AskExport, Send,
                accountVars
  <2>2. CASE StudyStep(q)
    BY <2>2 DEF StudyStep, Create, CreateRun, ReadProject, Store, Admit, Collect, PutExport, InsertExport,
                accountVars
  <2>3. CASE AccountStep(q)
    BY <2>3 DEF AccountStep, WrongPassword, CreateSession, ReadSession, Renew, Expire, Logout, Join,
                accountVars
  <2> QED BY <1>5, <2>1, <2>2, <2>3
<1> QED BY <1>1, <1>2, <1>3, <1>4, <1>5 DEF Next, vars, accountVars

(* _rate_limit_or_raise: in the life of a process no window of time has    *)
(* more accepted logins of a client, or for an account, than its limit,    *)
(* whatever the limits and the window and however many threads ask.  That  *)
(* the bucket forgets attempts is sound because those it has popped are    *)
(* more than a window before every attempt that is accepted after.         *)
THEOREM LimiterHolds == Spec => []WithinLimit
<1>1. LimitInv => WithinLimit
  <2> SUFFICES ASSUME LimitInv, NEW k \in Keys, NEW t \in 0..MaxMoves
               PROVE  Cardinality({i \in DOMAIN accepted[k] : accepted[k][i] \in t..(t + Window)}) <= Limit(k)
    BY DEF WithinLimit
  <2> DEFINE a == accepted[k]
             S == {i \in DOMAIN a : a[i] \in t..(t + Window)}
  <2>1. /\ a \in Seq(Nat) /\ Len(a) \in Nat /\ DOMAIN a = 1..Len(a) /\ Spaced(a, Limit(k)) /\ Window \in Nat
        /\ t \in Nat /\ Limit(k) \in Nat
    BY AccountsAssumption, LimitIsPositive DEF LimitInv
  <2>2. ASSUME S = {} PROVE Cardinality(S) <= Limit(k)
    <3> HIDE DEF S
    <3>1. Cardinality(S) = 0
      BY <2>2, FS_EmptySet
    <3> QED BY <2>1, <3>1
  <2>3. ASSUME S # {} PROVE Cardinality(S) <= Limit(k)
    <3>1. PICK m \in S : \A i \in S : m <= i
      <4>1. S \subseteq Nat
        BY <2>1
      <4> HIDE DEF S
      <4> QED BY <2>3, <4>1, LeastIndex
    <3>2. m \in 1..Len(a) /\ a[m] \in t..(t + Window)
      BY <2>1
    <3>3. ASSUME NEW i \in S PROVE i \in m..(m + Limit(k) - 1)
      <4>1. i \in 1..Len(a) /\ a[i] \in t..(t + Window) /\ m <= i
        BY <2>1, <3>1
      <4>2. a[i] \in Nat /\ a[m] \in Nat
        BY <2>1, <3>2, <4>1
      <4>3. ~(i >= m + Limit(k))
        <5>1. SUFFICES ASSUME i >= m + Limit(k) PROVE FALSE
          OBVIOUS
        <5>2. a[m] + Window < a[i]
          BY <2>1, <3>2, <4>1, <5>1 DEF Spaced
        <5> QED BY <2>1, <3>2, <4>1, <4>2, <5>2
      <4> QED BY <2>1, <3>2, <4>1, <4>3
    <3> HIDE DEF S
    <3>4. IsFiniteSet(m..(m + Limit(k) - 1)) /\ Cardinality(m..(m + Limit(k) - 1)) = Limit(k)
      <4>1. /\ m \in Int /\ m + Limit(k) - 1 \in Int /\ ~(m > m + Limit(k) - 1)
            /\ (m + Limit(k) - 1) - m + 1 = Limit(k)
        BY <2>1, <3>2, LimitIsPositive
      <4> QED BY <4>1, FS_Interval
    <3>5. S \in SUBSET (m..(m + Limit(k) - 1))
      BY <3>3
    <3>6. Cardinality(S) <= Cardinality(m..(m + Limit(k) - 1))
      BY <3>4, <3>5, FS_Subset
    <3> QED BY <3>4, <3>6
  <2>4. Cardinality(S) <= Limit(k)
    BY <2>2, <2>3
  <2> QED BY <2>4
<1> QED BY LimitInit, LimitNext, <1>1, PTL DEF Spec

=============================================================================
