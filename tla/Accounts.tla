------------------------------ MODULE Accounts ------------------------------
(***************************************************************************)
(* Logins, sessions, the rate limiter and the joining of experiments       *)
(* (src/backend/app/persistence.py, src/backend/app/main.py).              *)
(*                                                                         *)
(* A request runs in a thread of the backend: it reads its session, renews *)
(* or removes it, and then does what it is for with the context it has     *)
(* read.  Every step is one database statement or one critical section of  *)
(* the limiter; other requests run in between.  What a request does with   *)
(* its context beyond this module is an action of StudyLog.                *)
(***************************************************************************)
EXTENDS Naturals, Sequences, FiniteSets

CONSTANTS
    Users,
    Sessions,     \* the tokens a run may issue
    Experiments,
    Requests,     \* threads that serve requests
    Endpoints,    \* what the requests of StudyLog are for
    None,
    IpLimit,      \* logins of one client within Window
    UserLimit,    \* logins of one client for one account within Window
    Window,       \* of the limiter, in ticks
    TTL,          \* of a session, in ticks
    MaxMoves      \* bound: requests, ticks of the clock and restarts, together

ASSUME AccountsAssumption ==
    /\ None \notin Users \cup Sessions \cup Experiments
    /\ {IpLimit, UserLimit, Window, TTL} \subseteq Nat \ {0}
    /\ MaxMoves \in Nat

VARIABLES
    clock,
    bucket,      \* _RATE_LIMIT_BUCKETS: accepted attempts, in memory of the process
    session,     \* the rows of user_sessions by token
    participant, \* the rows of experiment_participants
    request,     \* what each thread is doing
    issued,      \* history: the tokens issued so far
    ended,       \* history: the sessions that were logged out or found expired
    accepted,    \* history: attempts accepted since the process started
    moves        \* bound: requests, ticks and restarts so far

accountVars == <<clock, bucket, session, participant, issued, ended, accepted>>

(* login_ip:<client> and login_user:<client>:<account>; one client.        *)
Keys == {"client"} \cup Users
Limit(k) == IF k = "client" THEN IpLimit ELSE UserLimit

SessionRow == [user : Users, experiment : Experiments \cup {None}, expires : Nat]
NoSession == [user |-> None, experiment |-> None, expires |-> 0]

Ops == {"login", "logout", "join"} \cup Endpoints
PCs == {"idle", "client", "account", "session", "read", "renew", "expire", "store", "put", "insert"}
       \cup Ops

(* `token`, `user` and `experiment` are the context a request has read,    *)
(* `at` the time of reading, `goal` the experiment it joins or the account *)
(* it logs in to, `task` what else it is about (StudyLog).                 *)
RequestOf(Tasks) ==
    [pc : PCs, op : Ops \cup {None}, token : Sessions \cup {None},
     user : Users \cup {None}, experiment : Experiments \cup {None}, at : Nat,
     goal : Users \cup Experiments \cup {None}, task : Tasks]
Nothing == [pc |-> "idle", op |-> None, token |-> None, user |-> None, experiment |-> None,
            at |-> 0, goal |-> None, task |-> None]

AccountsTypeOK ==
    /\ clock \in 0..MaxMoves
    /\ bucket \in [Keys -> Seq(0..MaxMoves)] /\ accepted \in [Keys -> Seq(0..MaxMoves)]
    /\ session \in [Sessions -> SessionRow \cup {NoSession}]
    /\ participant \subseteq Experiments \X Users
    /\ issued \subseteq Sessions /\ ended \subseteq issued
    /\ moves \in 0..MaxMoves

Live(s) == session[s] # NoSession
Goto(q, pc) == request' = [request EXCEPT ![q].pc = pc]
Ends(q) == request' = [request EXCEPT ![q] = Nothing]

-----------------------------------------------------------------------------
(* The limiter: _rate_limit_or_raise, under _RATE_LIMIT_LOCK.  The clock   *)
(* is read in the same tick in which the lock is taken.                    *)

RecentOpen(values) ==  \* variant: an attempt at the start of the window is forgotten
    LET kept == {i \in DOMAIN values : \E j \in 1..i : values[j] + Window > clock} IN
      SubSeq(values, Len(values) - Cardinality(kept) + 1, Len(values))
(* What is left when attempts older than the window are popped from the    *)
(* front.                                                                  *)
Recent(values) ==
    LET kept == {i \in DOMAIN values : \E j \in 1..i : values[j] + Window >= clock} IN
      SubSeq(values, Len(values) - Cardinality(kept) + 1, Len(values))

(* The attempt counts in the bucket and the next check follows, or it is   *)
(* refused and counts nowhere.                                             *)
Attempt(q, key, next) ==
    LET values == Recent(bucket[key]) IN
      IF Len(values) >= Limit(key)
      THEN /\ Ends(q)
           /\ bucket' = [bucket EXCEPT ![key] = values]
           /\ UNCHANGED accepted
      ELSE /\ Goto(q, next)
           /\ bucket' = [bucket EXCEPT ![key] = Append(values, clock)]
           /\ accepted' = [accepted EXCEPT ![key] = Append(@, clock)]

(* auth_login_endpoint asks for the client first, then for the account.    *)
LimitClient(q) ==
    /\ request[q].pc = "client"
    /\ Attempt(q, "client", "account")
    /\ UNCHANGED <<clock, session, participant, issued, ended, moves>>

LimitAccount(q) ==
    /\ request[q].pc = "account"
    /\ Attempt(q, request[q].goal, "session")
    /\ UNCHANGED <<clock, session, participant, issued, ended, moves>>

(* login_user: a wrong password is refused, the right one gets a session   *)
(* of its own, which belongs to no experiment.                             *)
WrongPassword(q) ==
    /\ request[q].pc = "session"
    /\ Ends(q)
    /\ UNCHANGED <<accountVars, moves>>

CreateSession(q) ==
    /\ request[q].pc = "session"
    /\ \E s \in Sessions \ issued :
         /\ session' = [session EXCEPT ![s] = [user |-> request[q].goal, experiment |-> None,
                                               expires |-> clock + TTL]]
         /\ issued' = issued \cup {s}
    /\ Ends(q)
    /\ UNCHANGED <<clock, bucket, participant, ended, accepted, moves>>

-----------------------------------------------------------------------------
(* The session of a request: get_session_context.                          *)

Expired(q) == session[request[q].token].expires <= clock

(* The SELECT: a session that is gone is refused.                          *)
ReadSession(q) ==
    /\ request[q].pc = "read"
    /\ LET row == session[request[q].token] IN
         IF row = NoSession THEN Ends(q)
         ELSE request' = [request EXCEPT ![q].pc = IF Expired(q) THEN "expire" ELSE "renew",
                                         ![q].user = row.user, ![q].experiment = row.experiment,
                                         ![q].at = clock]
    /\ UNCHANGED <<accountVars, moves>>

(* The UPDATE: it finds no row when the session was removed meanwhile, but *)
(* the request goes on with what it has read.                              *)
RenewedAlways(q) ==  \* variant: INSERT OR REPLACE
    [session EXCEPT ![request[q].token] =
        [user |-> request[q].user, experiment |-> request[q].experiment, expires |-> request[q].at + TTL]]
Renewed(q) ==
    LET s == request[q].token IN
      IF Live(s) THEN [session EXCEPT ![s].expires = request[q].at + TTL] ELSE session

Renew(q) ==
    /\ request[q].pc = "renew"
    /\ session' = Renewed(q)
    /\ request' = [request EXCEPT ![q].pc = request[q].op, ![q].at = 0]
    /\ UNCHANGED <<clock, bucket, participant, issued, ended, accepted, moves>>

Remove(s) ==
    /\ session' = [session EXCEPT ![s] = NoSession]
    /\ ended' = ended \cup {s}

(* The DELETE of an expired session.                                       *)
Expire(q) ==
    /\ request[q].pc = "expire"
    /\ Remove(request[q].token)
    /\ Ends(q)
    /\ UNCHANGED <<clock, bucket, participant, issued, accepted, moves>>

Logout(q) ==
    /\ request[q].pc = "logout"
    /\ Remove(request[q].token)
    /\ Ends(q)
    /\ UNCHANGED <<clock, bucket, participant, issued, accepted, moves>>

(* join_experiment, one transaction that the update of the user's row      *)
(* serialises: the session's experiment and, the first time, the           *)
(* participant.                                                            *)
Joined(e, u) == participant \cup {<<e, u>>}

Join(q) ==
    /\ request[q].pc = "join"
    /\ LET e == request[q].goal IN
         /\ session' = IF Live(request[q].token)
                       THEN [session EXCEPT ![request[q].token].experiment = e] ELSE session
         /\ participant' = Joined(e, request[q].user)
    /\ Ends(q)
    /\ UNCHANGED <<clock, bucket, issued, ended, accepted, moves>>

-----------------------------------------------------------------------------
Tick ==
    /\ moves < MaxMoves
    /\ clock' = clock + 1 /\ moves' = moves + 1
    /\ UNCHANGED <<bucket, session, participant, request, issued, ended, accepted>>

AccountStep(q) ==
    \/ LimitClient(q) \/ LimitAccount(q) \/ WrongPassword(q) \/ CreateSession(q)
    \/ ReadSession(q) \/ Renew(q) \/ Expire(q) \/ Logout(q) \/ Join(q)

-----------------------------------------------------------------------------
(* In the life of a process no window of time, both of its ends included,  *)
(* has more accepted attempts of a client or for an account than its       *)
(* limit: _rate_limit_or_raise.                                            *)
WithinLimit ==
    \A k \in Keys : \A t \in 0..MaxMoves :
        Cardinality({i \in DOMAIN accepted[k] : accepted[k][i] \in t..(t + Window)}) <= Limit(k)

(* A session that was logged out, or removed as expired, is never valid    *)
(* again, although requests that had read it before may renew it after.    *)
EndedStaysEnded == \A s \in ended : ~Live(s)

=============================================================================
