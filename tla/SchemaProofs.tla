---------------------------- MODULE SchemaProofs ----------------------------
(***************************************************************************)
(* What a stamp promises, for every number of backends, projects, saves,   *)
(* downgrades and deaths, on both databases.                               *)
(*                                                                         *)
(* A stamp is set after statements that other processes interrupt and that *)
(* SQLite does not undo, from a view of the schema that only the command   *)
(* has.  The invariant says what this view holds after each statement, and *)
(* that the revisions before the command's are done in it.                 *)
(***************************************************************************)
EXTENDS Schema, TLAPS

-----------------------------------------------------------------------------
(* The inductive invariant.                                                *)

(* The work of the first k revisions is done in the schema S. *)
Covers(k, S) ==
    /\ k >= 1 => Parts \ {"run_columns"} \subseteq S
    /\ k >= 2 => "run_columns" \in S

(* The baseline's tables are created together, or users first. *)
UsersFirst(S) == "projects" \in S => "users" \in S

Typed ==
    /\ schema \subseteq Parts /\ stamp \in 0..LastRevision
    /\ exists \subseteq Projects
    /\ versions \in [Projects -> 0..MaxVersion] /\ draft \in [Projects -> Nat]
    /\ command \in Command
    /\ downgrades \in Nat
    /\ UsersFirst(schema) /\ UsersFirst(command.view)

(* Where a command is: an upgrade works on a revision that is not stamped. *)
Ordered(c) ==
    /\ c.pc # "idle" => c.rev \in 1..LastRevision
    /\ c.pc \in {"upgrade", "bootstrap"} =>
          /\ stamp < c.rev /\ c.rev <= c.target
          /\ c.at \in 1..(Len(Upgrades[c.rev]) + 1)
    /\ c.pc = "bootstrap" => c.rev = 1 /\ c.at = 1
    /\ c.pc = "downgrade" => c.rev = stamp /\ downgrades > 0

(* What the statements so far have done. *)
Begun(c) ==
    /\ c.pc \in {"upgrade", "downgrade"} => Covers(c.rev - 1, c.view)
    /\ c.pc = "upgrade" /\ c.at > 1 =>
          /\ c.rev = 1 => {"users", "projects", "columns"} \subseteq c.view
          /\ c.rev = 2 => "run_columns" \in c.view
          /\ c.rev = 3 => \A p \in exists : draft[p] > 0 \/ p \in c.fill
    /\ c.pc = "upgrade" /\ c.rev = 1 /\ c.at > 2 => "project_drafts" \in c.view
    /\ c.pc = "upgrade" /\ c.rev = 1 /\ c.at > 3 => "artifacts" \in c.view

Promised ==
    Transactional \/ downgrades = 0 =>
        /\ Covers(stamp, schema)
        /\ stamp = 3 => \A p \in exists : draft[p] > 0
        /\ Begun(command)

StampInv == Typed /\ Ordered(command) /\ Promised

LEMMA Literals ==
    /\ Parts = {"users", "projects", "project_drafts", "artifacts", "run_columns", "columns"}
    /\ DOMAIN Bootstrap = 1..6 /\ Bootstrap[1] = "users" /\ Bootstrap[2] = "projects"
    /\ \A i \in 1..6 : Bootstrap[i] \in Parts /\ (Bootstrap[i] = "projects" => i = 2)
    /\ Len(Upgrades[1]) = 3 /\ DOMAIN Upgrades[1] = 1..3
    /\ Upgrades[1][1] = "columns" /\ Upgrades[1][2] = "project_drafts" /\ Upgrades[1][3] = "artifacts"
    /\ Len(Upgrades[2]) = 1 /\ DOMAIN Upgrades[2] = 1..1 /\ Upgrades[2][1] = "run_columns"
    /\ Len(Upgrades[3]) = 1 /\ DOMAIN Upgrades[3] = 1..1 /\ Upgrades[3][1] = "backfill"
    /\ LastRevision = 3
<1>1. DOMAIN Bootstrap = 1..6
  BY DEF Bootstrap
<1>2. Parts = {Bootstrap[1], Bootstrap[2], Bootstrap[3], Bootstrap[4], Bootstrap[5], Bootstrap[6]}
  BY <1>1 DEF Parts
<1>. QED
  BY <1>1, <1>2 DEF Bootstrap, Upgrades, LastRevision

\* The statement after one of a revision is another of its statements or its end.
LEMMA NextStatement ==
    ASSUME NEW r \in 1..3, NEW a \in Nat, (r = 1 /\ a \in 1..3) \/ (r # 1 /\ a = 1)
    PROVE  a + 1 \in 1..(Len(Upgrades[r]) + 1)
<1>1. CASE r = 1
  <2>1. Len(Upgrades[r]) = 3 /\ a \in 1..3
    BY <1>1, Literals
  <2>. QED
    BY <2>1
<1>2. CASE r # 1
  <2>1. r = 2 \/ r = 3
    BY <1>2
  <2>2. Len(Upgrades[r]) = 1 /\ a = 1
    BY <1>2, <2>1, Literals
  <2>. QED
    BY <2>2
<1>. QED
  BY <1>1, <1>2

LEMMA DropLiterals ==
    /\ \A r \in 1..3 : \A i \in DOMAIN Downgrades[r] :
          Downgrades[r][i] \notin {"users", "projects"} /\ (r # 1 => Downgrades[r][i] = "run_columns" /\ r = 2)
BY DEF Downgrades

(* A revision whose statements are all done is covered. *)
LEMMA AllDone ==
    ASSUME Typed, Ordered(command), Begun(command), command.pc = "upgrade",
           command.at = Len(Upgrades[command.rev]) + 1
    PROVE  /\ Covers(command.rev, command.view)
           /\ command.rev = 3 => \A p \in exists : draft[p] > 0 \/ p \in command.fill
<1>1. command.rev \in 1..3
  BY Literals DEF Ordered
<1>2. CASE command.rev = 1
  BY <1>2, Literals DEF Begun, Covers
<1>3. CASE command.rev = 2
  BY <1>3, Literals DEF Begun, Covers
<1>4. CASE command.rev = 3
  BY <1>4, Literals DEF Begun, Covers
<1>. QED
  BY <1>1, <1>2, <1>3, <1>4

LEMMA IdleFacts ==
    Idle \in Command /\ Idle.pc = "idle" /\ Idle.view = {} /\ Idle.fill = {}
BY Literals DEF Idle, Command

(* What init_db creates next exists, and everything before it does. *)
LEMMA FirstMissing ==
    ASSUME Missing # {}
    PROVE  First(Missing) \in 1..6 /\ \A j \in Missing : First(Missing) <= j
<1>1. Missing \subseteq 1..6
  BY Literals DEF Missing
<1>2. \E i \in Missing : \A j \in Missing : i <= j
  <2>1. ASSUME NEW n \in 1..6, \A j \in Missing : n <= j, n \notin Missing
        PROVE  \A j \in Missing : n + 1 <= j
    BY <1>1, <2>1
  <2>2. \A j \in Missing : 1 <= j
    BY <1>1
  <2>. DEFINE Least(n) == n \in Missing /\ \A j \in Missing : n <= j
              Above(n) == \A j \in Missing : n <= j
  <2>3. \A n \in 1..6 : Above(n) => Least(n) \/ Above(n + 1)
    BY <2>1
  <2>4. Above(7) => Missing = {}
    BY <1>1
  <2>5. Above(1)
    BY <2>2
  <2>. HIDE DEF Above
  <2>6. \E n \in 1..6 : Least(n)
    <3>. HIDE DEF Least
    <3>1. Above(1) => Least(1) \/ Above(2)
      BY <2>3, 1 + 1 = 2
    <3>2. Above(2) => Least(2) \/ Above(3)
      BY <2>3, 2 + 1 = 3
    <3>3. Above(3) => Least(3) \/ Above(4)
      BY <2>3, 3 + 1 = 4
    <3>4. Above(4) => Least(4) \/ Above(5)
      BY <2>3, 4 + 1 = 5
    <3>5. Above(5) => Least(5) \/ Above(6)
      BY <2>3, 5 + 1 = 6
    <3>6. Above(6) => Least(6) \/ Above(7)
      BY <2>3, 6 + 1 = 7
    <3>7. 1 \in 1..6 /\ 2 \in 1..6 /\ 3 \in 1..6 /\ 4 \in 1..6 /\ 5 \in 1..6 /\ 6 \in 1..6
      OBVIOUS
    <3>. QED
      BY <2>4, <2>5, <3>1, <3>2, <3>3, <3>4, <3>5, <3>6, <3>7
  <2>. QED
    BY <2>6
<1>. QED
  BY <1>1, <1>2 DEF First

(* The command ends without an effect. *)
LEMMA EndKeeps ==
    ASSUME StampInv, command' = Idle,
           UNCHANGED <<dialect, schema, stamp, exists, versions, draft, downgrades>>
    PROVE  StampInv'
BY IdleFacts DEF StampInv, Typed, UsersFirst, Ordered, Promised, Begun, Transactional, Covers

(* The start of a backend: the schema only grows. *)
LEMMA StartKeeps ==
    ASSUME StampInv, NEW b \in Backends, StartStep(b)
    PROVE  StampInv'
<1>1. UNCHANGED <<dialect, stamp, exists, versions, draft, downgrades, command>>
  BY DEF StartStep, StartProduction, StartDevelopment, Create, AddColumns, Look, Seed, Find, Insert,
     fixed, data, bounds
<1>2. \/ schema' = schema
      \/ schema' = Parts
      \/ Missing # {} /\ schema' = schema \cup {Bootstrap[First(Missing)]}
      \/ \E part \in Guarded : schema' = schema \cup {part}
  <2>1. CASE AddColumns(b)
    BY <2>1 DEF AddColumns
  <2>2. CASE ~AddColumns(b)
    BY <2>2 DEF StartStep, StartProduction, StartDevelopment, Create, Look, Seed, Find, Insert, seeds
  <2>. QED
    BY <2>1, <2>2
<1>3. schema \subseteq schema' /\ schema' \subseteq Parts /\ UsersFirst(schema')
  <2>1. CASE schema' = schema
    BY <2>1 DEF StampInv, Typed
  <2>2. CASE schema' = Parts
    BY <2>2, Literals DEF StampInv, Typed, UsersFirst
  <2>3. CASE Missing # {} /\ schema' = schema \cup {Bootstrap[First(Missing)]}
    <3>1. First(Missing) \in 1..6 /\ \A j \in Missing : First(Missing) <= j
      BY <2>3, FirstMissing
    <3>2. Bootstrap[First(Missing)] \in Parts
      BY <3>1, Literals
    <3>3. Bootstrap[First(Missing)] = "projects" => "users" \in schema
      <4>1. 1 \notin Missing => "users" \in schema
        BY Literals DEF Missing
      <4>. QED
        BY <3>1, <4>1, Literals
    <3>. QED
      BY <2>3, <3>2, <3>3 DEF StampInv, Typed, UsersFirst
  <2>4. ASSUME NEW part \in Guarded, schema' = schema \cup {part}
        PROVE  schema \subseteq schema' /\ schema' \subseteq Parts /\ UsersFirst(schema')
    <3>1. part \in Parts /\ part # "projects"
      BY Literals DEF Guarded
    <3>. QED
      BY <2>4, <3>1 DEF StampInv, Typed, UsersFirst
  <2>. QED
    BY <1>2, <2>1, <2>2, <2>3, <2>4
<1>. QED
  BY <1>1, <1>3 DEF StampInv, Typed, Ordered, Promised, Begun, Transactional, Covers, UsersFirst

(* What is saved keeps its draft; projects are created with one. *)
LEMMA SaveKeeps ==
    ASSUME StampInv, NEW q \in Projects, CreateProject(q) \/ Save(q)
    PROVE  StampInv'
<1>1. UNCHANGED <<dialect, schema, stamp, versions, downgrades, command>>
  BY DEF CreateProject, Save, fixed, bounds
<1>2. /\ exists' \in SUBSET Projects /\ draft' \in [Projects -> Nat]
      /\ \A p \in exists' : p \in exists \/ draft'[p] > 0
      /\ \A p \in Projects : draft[p] > 0 => draft'[p] > 0
  <2>1. exists \in SUBSET Projects /\ draft \in [Projects -> Nat]
    BY DEF StampInv, Typed
  <2>2. CASE CreateProject(q)
    BY <2>1, <2>2 DEF CreateProject
  <2>3. CASE Save(q)
    BY <2>1, <2>3 DEF Save
  <2>. QED
    BY <2>2, <2>3
<1>. QED
  BY <1>1, <1>2 DEF StampInv, Typed, Ordered, Promised, Begun, Transactional, Covers, UsersFirst

(* A command begins. *)
LEMMA BeginKeeps ==
    ASSUME StampInv, NEW target \in {AskedRevision, LastRevision}, Upgrade(target) \/ Downgrade
    PROVE  StampInv'
<1>1. UNCHANGED <<dialect, schema, stamp, exists, versions, draft>> /\ schema \subseteq Parts
  BY DEF Upgrade, Downgrade, fixed, data, StampInv, Typed
<1>2. /\ stamp \in 0..3 /\ target \in 0..3 /\ downgrades \in Nat
  BY Literals DEF StampInv, Typed, AskedRevision
<1>3. CASE Upgrade(target)
  <2>1. /\ command' = [Idle EXCEPT !.pc = "upgrade", !.rev = stamp + 1, !.target = target,
                                   !.at = 1, !.view = schema]
        /\ stamp < target /\ UNCHANGED downgrades
    BY <1>3 DEF Upgrade, bounds
  <2>2. stamp + 1 \in 1..3 /\ stamp + 1 \in 0..3 /\ stamp + 1 <= target
    BY <1>2, <2>1
  <2>3. /\ command'.pc = "upgrade" /\ command'.rev = stamp + 1 /\ command'.at = 1
        /\ command'.view = schema /\ command'.target = target
    BY <2>1 DEF Idle
  <2>4. command' \in Command
    BY <1>1, <1>2, <2>1, <2>2 DEF Idle, Command, LastRevision
  <2>5. Typed'
    BY <1>1, <2>1, <2>3, <2>4 DEF StampInv, Typed, UsersFirst
  <2>6. Ordered(command)'
    <3>1. 1 \in 1..(Len(Upgrades[stamp + 1]) + 1)
      BY <2>2, Literals
    <3>. QED
      BY <1>1, <1>2, <2>2, <2>3, <3>1 DEF Ordered, LastRevision
  <2>7. Promised'
    <3>1. command'.rev - 1 = stamp
      BY <1>2, <2>3
    <3>. QED
      BY <1>1, <2>1, <2>3, <3>1 DEF StampInv, Promised, Begun, Transactional, Covers
  <2>. QED
    BY <2>5, <2>6, <2>7 DEF StampInv
<1>4. CASE Downgrade
  <2>1. /\ command' = [Idle EXCEPT !.pc = "downgrade", !.rev = stamp, !.at = 1, !.view = schema]
        /\ stamp > 0 /\ downgrades' = downgrades + 1
    BY <1>4 DEF Downgrade
  <2>2. /\ command'.pc = "downgrade" /\ command'.rev = stamp /\ command'.at = 1
        /\ command'.view = schema
    BY <2>1 DEF Idle
  <2>3. command' \in Command
    <3>1. command' = [pc |-> "downgrade", rev |-> stamp, target |-> 0, at |-> 1,
                      view |-> schema, fill |-> {}]
      BY <2>1 DEF Idle
    <3>. QED
      BY <1>1, <1>2, <3>1 DEF Command, LastRevision
  <2>4. Typed'
    BY <1>1, <1>2, <2>1, <2>2, <2>3 DEF StampInv, Typed, UsersFirst
  <2>5. Ordered(command)'
    BY <1>1, <1>2, <2>1, <2>2 DEF Ordered, LastRevision
  <2>6. Promised'
    BY <1>1, <1>2, <2>1, <2>2 DEF StampInv, Promised, Begun, Transactional, Covers
  <2>. QED
    BY <2>4, <2>5, <2>6 DEF StampInv
<1>. QED
  BY <1>3, <1>4

(* A statement of an upgrade. *)
LEMMA StatementKeeps ==
    ASSUME StampInv, Statement
    PROVE  StampInv'
<1>. DEFINE c == command
            part == Upgrades[c.rev][c.at]
<1>1. /\ UNCHANGED <<dialect, stamp, exists, versions, draft, downgrades>>
      /\ c.pc = "upgrade" /\ c \in Command /\ c.rev \in 1..3
      /\ c.at \in DOMAIN Upgrades[c.rev] /\ c.view \subseteq Parts /\ schema \subseteq Parts
      /\ stamp \in 0..3 /\ stamp < c.rev /\ exists \subseteq Projects
  BY Literals DEF Statement, StampInv, Typed, Ordered, fixed, data, bounds, Command
<1>2. \/ c.rev = 1 /\ c.at = 1 /\ part = "columns"
      \/ c.rev = 1 /\ c.at = 2 /\ part = "project_drafts"
      \/ c.rev = 1 /\ c.at = 3 /\ part = "artifacts"
      \/ c.rev = 2 /\ c.at = 1 /\ part = "run_columns"
      \/ c.rev = 3 /\ c.at = 1 /\ part = "backfill"
  <2>1. c.rev = 1 => c.at = 1 \/ c.at = 2 \/ c.at = 3
    BY <1>1, Literals
  <2>2. c.rev = 2 \/ c.rev = 3 => c.at = 1
    BY <1>1, Literals
  <2>. QED
    BY <1>1, <2>1, <2>2, Literals
<1>. HIDE DEF c
<1>3. CASE Raise
  BY <1>1, <1>3, EndKeeps DEF Raise
<1>4. CASE /\ Fresh /\ command' = [command EXCEPT !.pc = "bootstrap"] /\ UNCHANGED schema
  <2>1. c.rev = 1 /\ c.at = 1
    BY <1>4 DEF Fresh, c
  <2>2. /\ command'.pc = "bootstrap" /\ command'.rev = 1 /\ command'.at = 1 /\ command'.view = c.view
        /\ command' \in Command /\ command'.target = c.target
    BY <1>1, <1>4, <2>1 DEF Command, c
  <2>. QED
    BY <1>1, <1>4, <2>1, <2>2, Literals DEF StampInv, Typed, UsersFirst, Ordered, Promised, Begun,
       Transactional, Covers, c
<1>5. CASE /\ part = "backfill" /\ command' = [command EXCEPT !.at = @ + 1, !.fill = ToFill]
           /\ UNCHANGED schema
  <2>1. c.rev = 3 /\ c.at = 1
    BY <1>2, <1>5
  <2>2. /\ command'.pc = "upgrade" /\ command'.rev = 3 /\ command'.at = 2
        /\ command'.view = c.view /\ command'.fill = ToFill /\ command'.target = c.target
        /\ command' \in Command
    <3>1. ToFill \subseteq Projects
      BY <1>1 DEF ToFill
    <3>2. command' = [c EXCEPT !.at = @ + 1, !.fill = ToFill]
      BY <1>5 DEF c
    <3>3. c.at + 1 = 2 /\ 2 \in Nat
      BY <2>1
    <3>. HIDE DEF ToFill
    <3>4. command' \in Command
      BY <1>1, <3>1, <3>2, <3>3 DEF Command
    <3>. QED
      BY <1>1, <2>1, <3>2, <3>3, <3>4 DEF Command
  <2>3. \A p \in exists : draft[p] > 0 \/ p \in ToFill
    BY <1>1 DEF ToFill, StampInv, Typed
  <2>. QED
    BY <1>1, <1>5, <2>1, <2>2, <2>3, Literals DEF StampInv, Typed, UsersFirst, Ordered, Promised, Begun,
       Transactional, Covers, c
<1>6. CASE part # "backfill" /\ ~Fresh /\ Effect(c.view \cup {part})
  <2>1. part \in Parts /\ (part = "columns" => "projects" \in c.view)
    BY <1>2, <1>6, Literals DEF Fresh, c
  <2>2. command' = [c EXCEPT !.at = @ + 1, !.view = c.view \cup {part}]
    BY <1>6 DEF Effect, c
  <2>. HIDE DEF part
  <2>3. /\ command'.pc = "upgrade" /\ command'.rev = c.rev /\ command'.at = c.at + 1
        /\ command'.view = c.view \cup {part} /\ command'.target = c.target
        /\ command' \in Command
    <3>1. c.at \in Nat /\ c.at + 1 \in Nat /\ c.view \cup {part} \in SUBSET Parts
      BY <1>1, <2>1 DEF Command
    <3>2. command' \in Command
      BY <1>1, <2>2, <3>1 DEF Command
    <3>. QED
      BY <1>1, <2>2, <3>2 DEF Command
  <2>4. schema' = schema \/ schema' = command'.view
    BY <1>6, <2>3 DEF Effect
  <2>5. Typed'
    <3>1. UsersFirst(command'.view)
      BY <1>1, <1>2, <2>1, <2>3, Literals DEF StampInv, Typed, UsersFirst, c, part
    <3>. QED
      BY <1>1, <2>1, <2>3, <2>4, <3>1 DEF StampInv, Typed
  <2>6. Ordered(command)'
    <3>1. c.at + 1 \in 1..(Len(Upgrades[c.rev]) + 1)
      <4>1. c.rev \in 1..3 /\ c.at \in Nat
        BY <1>1 DEF Command
      <4>2. (c.rev = 1 /\ c.at \in 1..3) \/ (c.rev # 1 /\ c.at = 1)
        BY <1>2
      <4>. QED
        BY <4>1, <4>2, NextStatement
    <3>. QED
      BY <1>1, <2>3, <3>1 DEF StampInv, Ordered, c
  <2>7. Promised'
    <3>. SUFFICES ASSUME Transactional \/ downgrades = 0
                  PROVE  Covers(stamp, schema') /\ Begun(command)'
      BY <1>1 DEF StampInv, Promised, Transactional
    <3>1. Covers(stamp, schema) /\ Begun(c) /\ UsersFirst(c.view)
      BY DEF StampInv, Promised, Typed, c
    <3>2. Covers(c.rev - 1, c.view)
      BY <1>1, <3>1 DEF Begun
    <3>3. Covers(c.rev - 1, command'.view)
      BY <2>3, <3>2 DEF Covers
    <3>4. Covers(stamp, schema')
      BY <1>1, <2>4, <3>1, <3>3 DEF Covers
    <3>. DEFINE v == command'.view
    <3>5. v = c.view \cup {part} /\ c.view \subseteq v /\ part \in v
      BY <2>3
    <3>6. CASE c.rev = 1
      <4>1. {"users", "projects", "columns"} \subseteq v
        BY <1>2, <2>1, <3>1, <3>5, <3>6, <1>1 DEF Begun, UsersFirst, part
      <4>2. c.at + 1 > 2 => "project_drafts" \in v
        BY <1>2, <3>1, <3>5, <3>6, <1>1 DEF Begun, part
      <4>3. c.at + 1 > 3 => "artifacts" \in v
        BY <1>2, <3>5, <3>6 DEF part
      <4>. QED
        BY <1>1, <2>3, <3>3, <3>4, <3>6, <4>1, <4>2, <4>3 DEF Begun
    <3>7. CASE c.rev = 2
      <4>1. "run_columns" \in v
        BY <1>2, <3>5, <3>7 DEF part
      <4>. QED
        BY <1>1, <2>3, <3>3, <3>4, <3>7, <4>1 DEF Begun
    <3>8. c.rev = 1 \/ c.rev = 2
      BY <1>2, <1>6 DEF part
    <3>. QED
      BY <3>6, <3>7, <3>8
  <2>. QED
    BY <2>5, <2>6, <2>7 DEF StampInv
<1>. QED
  <2>1. \/ Raise
        \/ Fresh /\ command' = [command EXCEPT !.pc = "bootstrap"] /\ UNCHANGED schema
        \/ part = "backfill" /\ command' = [command EXCEPT !.at = @ + 1, !.fill = ToFill] /\ UNCHANGED schema
        \/ part # "backfill" /\ ~Fresh /\ Effect(c.view \cup {part})
    BY DEF Statement, c
  <2>. QED
    BY <1>3, <1>4, <1>5, <1>6, <2>1

(* init_db inside revision 01. *)
LEMMA BootstrapKeeps ==
    ASSUME StampInv, BootstrapStep
    PROVE  StampInv'
<1>1. /\ UNCHANGED <<dialect, stamp, exists, versions, draft, downgrades>>
      /\ command.pc = "bootstrap" /\ command \in Command /\ command.rev = 1
      /\ stamp \in 0..3 /\ stamp < 1 /\ schema \subseteq Parts
  BY DEF BootstrapStep, StampInv, Typed, Ordered, fixed, data, bounds, LastRevision
<1>2. CASE /\ schema' = Parts
           /\ command' = [command EXCEPT !.pc = "upgrade", !.view = Parts, !.at = Len(Upgrades[1]) + 1]
  <2>1. command' = [command EXCEPT !.pc = "upgrade", !.view = Parts, !.at = 4]
    BY <1>2, Literals
  <2>2. /\ command'.pc = "upgrade" /\ command'.rev = 1 /\ command'.at = 4 /\ command'.view = Parts
        /\ command' \in Command /\ command'.target = command.target
    <3>. HIDE DEF Parts
    <3>. QED
      BY <1>1, <2>1 DEF Command
  <2>. QED
    <3>1. UsersFirst(Parts) /\ {"users", "projects", "columns", "project_drafts", "artifacts"} \subseteq Parts
      BY Literals DEF UsersFirst
    <3>2. Typed'
      BY <1>1, <1>2, <2>2, <3>1 DEF StampInv, Typed
    <3>3. Ordered(command)'
      <4>1. Len(Upgrades[1]) + 1 = 4
        BY Literals
      <4>. QED
        BY <1>1, <2>2, <4>1, Literals DEF StampInv, Ordered
    <3>4. Promised'
      BY <1>1, <1>2, <2>2, <3>1 DEF StampInv, Promised, Begun, Transactional, Covers
    <3>. QED
      BY <3>2, <3>3, <3>4 DEF StampInv
<1>3. CASE /\ Missing # {} /\ schema' = schema \cup {Bootstrap[First(Missing)]}
           /\ UNCHANGED command
  <2>1. schema' \subseteq Parts /\ UsersFirst(schema') /\ schema \subseteq schema'
    <3>1. First(Missing) \in 1..6 /\ \A j \in Missing : First(Missing) <= j
      BY <1>3, FirstMissing
    <3>2. Bootstrap[First(Missing)] \in Parts
      BY <3>1, Literals
    <3>3. 1 \notin Missing => "users" \in schema
      BY Literals DEF Missing
    <3>4. Bootstrap[First(Missing)] = "projects" => "users" \in schema
      BY <3>1, <3>3, Literals
    <3>. QED
      BY <1>3, <3>2, <3>4 DEF StampInv, Typed, UsersFirst
  <2>. QED
    BY <1>1, <1>3, <2>1 DEF StampInv, Typed, UsersFirst, Ordered, Promised, Begun, Transactional, Covers
<1>. QED
  BY <1>2, <1>3 DEF BootstrapStep

(* The stamp. *)
LEMMA StampedKeeps ==
    ASSUME StampInv, Stamped
    PROVE  StampInv'
<1>. DEFINE c == command
<1>1. /\ UNCHANGED <<dialect, exists, versions, downgrades>>
      /\ c.pc = "upgrade" /\ c \in Command /\ c.rev \in 1..3 /\ c.view \subseteq Parts
      /\ c.at = Len(Upgrades[c.rev]) + 1 /\ stamp \in 0..3 /\ stamp < c.rev
      /\ schema \subseteq Parts /\ exists \subseteq Projects /\ draft \in [Projects -> Nat]
      /\ c.target \in 0..3 /\ UsersFirst(c.view) /\ UsersFirst(schema)
  BY Literals DEF Stamped, StampInv, Typed, Ordered, fixed, bounds, Command
<1>2. Transactional \/ downgrades = 0 =>
        /\ Covers(c.rev, c.view)
        /\ c.rev = 3 => \A p \in exists : draft[p] > 0 \/ p \in c.fill
  BY <1>1, AllDone DEF StampInv, Promised
<1>. HIDE DEF c
<1>3. /\ Filled \in [Projects -> Nat]
      /\ \A p \in Projects : draft[p] > 0 \/ p \in c.fill => Filled[p] > 0
  <2>1. versions \in [Projects -> Nat]
    BY SchemaAssumption DEF StampInv, Typed
  <2>2. \A p \in Projects : FirstDraft(p) \in Nat /\ FirstDraft(p) > 0
    BY <2>1 DEF FirstDraft
  <2>. QED
    BY <1>1, <2>2 DEF Filled, c
<1>4. \/ UNCHANGED <<schema, stamp, draft>> /\ c.rev < c.target
      \/ schema' = c.view /\ stamp' = c.rev /\ draft' = Filled
  BY DEF Stamped, c
<1>5. /\ schema' \subseteq Parts /\ UsersFirst(schema') /\ stamp' \in 0..3 /\ stamp' <= c.rev
      /\ draft' \in [Projects -> Nat]
  BY <1>1, <1>3, <1>4
<1>6. Transactional \/ downgrades = 0 =>
        /\ Covers(stamp', schema')
        /\ stamp' = 3 => \A p \in exists : draft'[p] > 0
  BY <1>1, <1>2, <1>3, <1>4 DEF StampInv, Promised
<1>7. CASE command' = Idle
  BY <1>1, <1>5, <1>6, <1>7, IdleFacts, Literals
     DEF StampInv, Typed, UsersFirst, Ordered, Promised, Begun, Transactional
<1>8. CASE c.rev # c.target /\ command' = [command EXCEPT !.rev = @ + 1, !.at = 1]
  <2>1. c.rev <= c.target
    BY <1>1 DEF StampInv, Ordered, c
  <2>2. c.rev + 1 \in 1..3 /\ c.rev + 1 \in 0..3 /\ c.rev + 1 <= c.target
    BY <1>1, <1>8, <2>1
  <2>3. command' = [c EXCEPT !.rev = c.rev + 1, !.at = 1]
    BY <1>8 DEF c
  <2>4. /\ command'.pc = "upgrade" /\ command'.rev = c.rev + 1 /\ command'.at = 1
        /\ command'.view = c.view /\ command'.target = c.target
        /\ command' \in Command
    BY <1>1, <2>2, <2>3 DEF Command, LastRevision
  <2>5. Typed'
    BY <1>1, <1>5, <2>4, Literals DEF StampInv, Typed
  <2>6. Ordered(command)'
    <3>1. 1 \in 1..(Len(Upgrades[c.rev + 1]) + 1)
      BY <2>2, Literals
    <3>. QED
      BY <1>1, <1>5, <2>2, <2>4, <3>1 DEF Ordered, LastRevision
  <2>7. Promised'
    <3>1. command'.rev - 1 = c.rev
      BY <1>1, <2>4
    <3>. QED
      BY <1>1, <1>2, <1>6, <2>4, <3>1 DEF Promised, Begun, Transactional, Covers
  <2>. QED
    BY <2>5, <2>6, <2>7 DEF StampInv
<1>. QED
  BY <1>7, <1>8 DEF Stamped, c

(* A downgrade keeps what the revisions before its own have done; on       *)
(* SQLite nothing is promised from now on.                                 *)
LEMMA DowngradeKeeps ==
    ASSUME StampInv, DropStep \/ Unstamped
    PROVE  StampInv'
<1>. DEFINE c == command
<1>1. /\ UNCHANGED <<dialect, exists, versions, downgrades>>
      /\ c.pc = "downgrade" /\ c \in Command /\ c.rev \in 1..3 /\ c.rev = stamp
      /\ c.view \subseteq Parts /\ schema \subseteq Parts /\ draft \in [Projects -> Nat]
      /\ downgrades > 0 /\ UsersFirst(c.view) /\ UsersFirst(schema)
  BY Literals DEF DropStep, Unstamped, StampInv, Typed, Ordered, fixed, bounds, Command
<1>2. NoDrafts \in [Projects -> Nat]
  BY DEF NoDrafts
<1>3. Transactional => Covers(stamp, schema) /\ Covers(stamp - 1, c.view)
                       /\ (stamp = 3 => \A p \in exists : draft[p] > 0)
  BY <1>1 DEF StampInv, Promised, Begun
<1>. HIDE DEF c
<1>4. ASSUME DropStep PROVE StampInv'
  <2>. DEFINE part == Downgrades[c.rev][c.at]
  <2>1. /\ c.at \in DOMAIN Downgrades[c.rev] /\ UNCHANGED stamp
        /\ draft' \in [Projects -> Nat] /\ (Transactional => draft' = draft)
    BY <1>1, <1>2, <1>4 DEF DropStep, c
  <2>2. part \notin {"users", "projects"} /\ (c.rev # 1 => part = "run_columns" /\ c.rev = 2)
    BY <1>1, <2>1, DropLiterals
  <2>3. CASE Raise
    <3>1. command' = Idle /\ UNCHANGED schema
      BY <2>3 DEF Raise
    <3>. QED
      BY <1>1, <1>3, <2>1, <3>1, IdleFacts
         DEF StampInv, Typed, UsersFirst, Ordered, Promised, Begun, Transactional
  <2>4. CASE Effect(c.view \ {part})
    <3>. HIDE DEF part
    <3>1. c.at \in Nat /\ c.at + 1 \in Nat
      BY <1>1 DEF Command
    <3>2. command' = [c EXCEPT !.at = c.at + 1, !.view = c.view \ {part}]
      BY <2>4 DEF Effect, c
    <3>3. command' \in Command
      BY <1>1, <3>1, <3>2 DEF Command
    <3>4. /\ command'.pc = "downgrade" /\ command'.rev = c.rev
          /\ command'.view = c.view \ {part}
      BY <1>1, <3>2 DEF Command
    <3>5. schema' = IF Transactional THEN schema ELSE command'.view
      BY <2>4, <3>4 DEF Effect
    <3>6. UsersFirst(c.view \ {part})
      BY <1>1, <2>2 DEF UsersFirst
    <3>7. Typed'
      BY <1>1, <2>1, <3>3, <3>4, <3>5, <3>6 DEF StampInv, Typed
    <3>8. Ordered(command)'
      BY <1>1, <2>1, <3>4, Literals DEF StampInv, Ordered
    <3>9. Promised'
      <4>. SUFFICES ASSUME Transactional PROVE Covers(stamp, schema) /\ Begun(command)'
                                               /\ (stamp = 3 => \A p \in exists : draft[p] > 0)
        BY <1>1, <2>1, <3>5 DEF Promised, Transactional
      <4>1. Covers(stamp - 1, c.view \ {part})
        BY <1>1, <1>3, <2>2 DEF Covers
      <4>. QED
        BY <1>1, <1>3, <3>4, <4>1 DEF Begun
    <3>. QED
      BY <3>7, <3>8, <3>9 DEF StampInv
  <2>. QED
    BY <1>4, <2>3, <2>4 DEF DropStep, c
<1>5. ASSUME Unstamped PROVE StampInv'
  <2>1. /\ command' = Idle /\ schema' = c.view /\ stamp' = c.rev - 1
        /\ draft' = IF c.rev = 1 THEN NoDrafts ELSE draft
    BY <1>5 DEF Unstamped, c
  <2>2. stamp' \in 0..3 /\ stamp' # 3 /\ stamp' = stamp - 1 /\ draft' \in [Projects -> Nat]
    BY <1>1, <1>2, <2>1
  <2>3. Typed'
    BY <1>1, <2>1, <2>2, IdleFacts, Literals DEF StampInv, Typed, UsersFirst
  <2>4. Promised'
    <3>. SUFFICES ASSUME Transactional PROVE Covers(stamp', schema') /\ Begun(Idle)'
      BY <1>1, <2>1, <2>2 DEF Promised, Transactional
    <3>1. Covers(stamp', schema')
      BY <1>3, <2>1, <2>2
    <3>. QED
      BY <3>1, IdleFacts DEF Begun
  <2>. QED
    BY <2>1, <2>3, <2>4, IdleFacts DEF StampInv, Ordered
<1>. QED
  BY <1>4, <1>5

-----------------------------------------------------------------------------
LEMMA StampInvInit == Init => StampInv
<1>. SUFFICES ASSUME Init PROVE StampInv
  OBVIOUS
<1>1. schema \subseteq Parts /\ UsersFirst(schema)
  BY Literals DEF Init, UsersFirst
<1>2. exists \subseteq Projects /\ draft \in [Projects -> Nat] /\ stamp = 0 /\ stamp \in 0..LastRevision
  BY DEF Init, LastRevision
<1>. QED
  BY <1>1, <1>2, IdleFacts DEF Init, StampInv, Typed, UsersFirst, Ordered, Promised, Begun, Covers

LEMMA StampInvNext ==
    ASSUME StampInv, [Next]_vars
    PROVE  StampInv'
<1>1. ASSUME NEW b \in Backends, Stop(b) PROVE StampInv'
  BY <1>1 DEF Stop, fixed, data, StampInv, Typed, Ordered, Promised, Begun, Transactional, Covers,
     UsersFirst
<1>2. ASSUME CommandDies PROVE StampInv'
  BY <1>2, EndKeeps DEF CommandDies, fixed, data
<1>3. ASSUME UNCHANGED vars PROVE StampInv'
  BY <1>3 DEF vars, fixed, data, bounds, StampInv, Typed, Ordered, Promised, Begun, Transactional,
     Covers, UsersFirst
<1>4. ASSUME Downgrade PROVE StampInv'
  BY <1>4, BeginKeeps
<1>. QED
  BY <1>1, <1>2, <1>3, <1>4, StartKeeps, SaveKeeps, BeginKeeps, StatementKeeps, BootstrapKeeps,
     StampedKeeps, DowngradeKeeps DEF Next, CommandStep

(* On PostgreSQL always, and on SQLite until a downgrade: whoever dies or  *)
(* races, a stamp is only there when its revision's work is.               *)
THEOREM StampMeansDoneHolds == Spec => []StampMeansDone
<1>1. StampInv /\ [Next]_vars => StampInv'
  BY StampInvNext
<1>2. StampInv => StampMeansDone
  BY DEF StampInv, Promised, StampMeansDone, Covers
<1>. QED
  BY <1>1, <1>2, StampInvInit, PTL DEF Spec

-----------------------------------------------------------------------------
(* Drafts.                                                                 *)

(* A draft that a backfill has inserted and not committed is still missing *)
(* for the others.                                                         *)
Waiting(c) ==
    /\ c.fill # {} => c.pc = "upgrade" /\ c.rev = 3
    /\ \A p \in c.fill : p \in exists /\ draft[p] = 0

(* Nothing is served during a downgrade, which sees what is there.         *)
Dropping(c) ==
    c.pc = "downgrade" =>
        /\ AllDown
        /\ ~Transactional => c.view = schema
        /\ c.at \in 1..(Len(Downgrades[c.rev]) + 1)
        /\ c.rev = 1 /\ c.at = 3 => "project_drafts" \notin c.view

Absent == \A p \in Projects \ exists : draft[p] = 0

DraftInv == StampInv /\ Absent /\ Waiting(command) /\ Dropping(command)

LEMMA DowngradeLengths ==
    /\ Len(Downgrades[1]) = 2 /\ DOMAIN Downgrades[1] = 1..2
    /\ Downgrades[1][1] = "artifacts" /\ Downgrades[1][2] = "project_drafts"
    /\ Len(Downgrades[2]) = 1 /\ DOMAIN Downgrades[2] = 1..1 /\ Downgrades[2][1] = "run_columns"
    /\ Len(Downgrades[3]) = 0 /\ DOMAIN Downgrades[3] = {}
BY DEF Downgrades

LEMMA DraftInvInit == Init => DraftInv
BY StampInvInit, IdleFacts DEF Init, DraftInv, Absent, Waiting, Dropping

(* While a downgrade runs, only the downgrade does anything. *)
LEMMA NothingServed ==
    ASSUME DraftInv, command.pc = "downgrade"
    PROVE  /\ \A b \in Backends : ~StartStep(b) /\ ~Stop(b)
           /\ \A p \in Projects : ~CreateProject(p) /\ ~Save(p)
<1>1. \A b \in Backends : backend[b].pc \in {"down", "refused"}
  BY DEF DraftInv, Dropping, AllDown, Up
<1>2. command # Idle
  BY IdleFacts
<1>. QED
  BY <1>1, <1>2 DEF StartStep, StartProduction, StartDevelopment, Create, AddColumns, Look, Seed, Find, Insert,
     Stop, Up, CreateProject, Save, Guarded

LEMMA DropStepKeeps ==
    ASSUME DraftInv, DropStep
    PROVE  Waiting(command)' /\ Dropping(command)'
<1>. DEFINE c == command
            part == Downgrades[c.rev][c.at]
<1>1. /\ UNCHANGED <<dialect, exists, backend>> /\ c.pc = "downgrade" /\ c \in Command
      /\ c.rev \in 1..3 /\ c.at \in DOMAIN Downgrades[c.rev]
      /\ c.fill = {} /\ AllDown /\ (~Transactional => c.view = schema)
  BY Literals DEF DropStep, DraftInv, StampInv, Typed, Ordered, Waiting, Dropping, fixed
<1>. HIDE DEF c
<1>2. CASE Raise
  BY <1>2, IdleFacts DEF Raise, Waiting, Dropping
<1>3. CASE Effect(c.view \ {part})
  <2>1. c.rev = 1 /\ c.at + 1 = 3 => part = "project_drafts"
    <3>1. c.at \in Nat
      BY <1>1 DEF Command
    <3>. QED
      BY <3>1, DowngradeLengths
  <2>2. c.at \in Nat /\ c.at + 1 \in 1..(Len(Downgrades[c.rev]) + 1)
    <3>1. CASE c.rev = 1
      BY <1>1, <3>1, DowngradeLengths
    <3>2. CASE c.rev = 2
      BY <1>1, <3>2, DowngradeLengths
    <3>3. CASE c.rev = 3
      BY <1>1, <3>3, DowngradeLengths
    <3>. QED
      BY <1>1, <3>1, <3>2, <3>3
  <2>. HIDE DEF part
  <2>3. command' = [c EXCEPT !.at = c.at + 1, !.view = c.view \ {part}]
    BY <1>3 DEF Effect, c
  <2>4. /\ command'.pc = "downgrade" /\ command'.rev = c.rev /\ command'.fill = {}
        /\ command'.at = c.at + 1 /\ command'.view = c.view \ {part}
    BY <1>1, <2>3 DEF Command
  <2>5. ~Transactional => schema' = command'.view
    BY <1>3, <2>4 DEF Effect
  <2>. QED
    BY <1>1, <2>1, <2>2, <2>4, <2>5 DEF Waiting, Dropping, AllDown, Up, Transactional
<1>. QED
  BY <1>2, <1>3 DEF DropStep, c

LEMMA UpgradeStepKeeps ==
    ASSUME DraftInv, Statement \/ BootstrapStep \/ Stamped
    PROVE  Waiting(command)' /\ Dropping(command)'
<1>. DEFINE c == command
<1>1. /\ UNCHANGED exists /\ c \in Command /\ c.pc \in {"upgrade", "bootstrap"}
      /\ c.rev \in 1..3 /\ c.rev <= c.target /\ c.target \in 0..3
      /\ exists \subseteq Projects /\ draft \in [Projects -> Nat]
      /\ (c.pc = "bootstrap" => c.rev = 1) /\ Waiting(c)
  BY Literals DEF Statement, BootstrapStep, Stamped, DraftInv, StampInv, Typed, Ordered, data, Command
<1>. HIDE DEF c
<1>2. CASE command' = Idle
  BY <1>2, IdleFacts DEF Waiting, Dropping
<1>3. ASSUME Statement, command' # Idle PROVE Waiting(command)' /\ Dropping(command)'
  <2>1. UNCHANGED draft /\ c.pc = "upgrade"
    BY <1>3 DEF Statement, data, c
  <2>2. CASE /\ Fresh /\ command' = [c EXCEPT !.pc = "bootstrap"]
    <3>1. command'.pc = "bootstrap" /\ command'.fill = c.fill
      BY <1>1, <2>2 DEF Command
    <3>2. c.fill = {}
      BY <1>1, <2>2 DEF Fresh, Waiting, c
    <3>. QED
      BY <3>1, <3>2 DEF Waiting, Dropping
  <2>3. CASE /\ Upgrades[c.rev][c.at] = "backfill"
             /\ command' = [c EXCEPT !.at = @ + 1, !.fill = ToFill]
    <3>1. command'.pc = "upgrade" /\ command'.fill = ToFill /\ command'.rev = c.rev
      BY <1>1, <2>1, <2>3 DEF Command
    <3>2. c.rev = 3
      <4>1. c.at \in DOMAIN Upgrades[c.rev]
        BY <1>3 DEF Statement, c
      <4>2. CASE c.rev = 1
        BY <2>3, <4>1, <4>2, Literals
      <4>3. CASE c.rev = 2
        BY <2>3, <4>1, <4>3, Literals
      <4>. QED
        BY <1>1, <4>2, <4>3
    <3>. QED
      BY <1>1, <2>1, <3>1, <3>2 DEF Waiting, Dropping, ToFill
  <2>4. CASE \E view : command' = [c EXCEPT !.at = @ + 1, !.view = view]
    <3>1. command'.pc = "upgrade" /\ command'.fill = c.fill /\ command'.rev = c.rev
      BY <1>1, <2>1, <2>4 DEF Command
    <3>. QED
      BY <1>1, <2>1, <3>1 DEF Waiting, Dropping
  <2>5. \/ Fresh /\ command' = [c EXCEPT !.pc = "bootstrap"]
        \/ /\ Upgrades[c.rev][c.at] = "backfill"
           /\ command' = [c EXCEPT !.at = @ + 1, !.fill = ToFill]
        \/ Effect(c.view \cup {Upgrades[c.rev][c.at]})
    BY <1>3 DEF Statement, Raise, c
  <2>. QED
    BY <2>2, <2>3, <2>4, <2>5 DEF Effect, c
<1>4. ASSUME BootstrapStep PROVE Waiting(command)' /\ Dropping(command)'
  <2>1. c.fill = {} /\ c.pc = "bootstrap" /\ UNCHANGED draft
    BY <1>1, <1>4 DEF BootstrapStep, Waiting, data, c
  <2>2. command' = c \/ command' = [c EXCEPT !.pc = "upgrade", !.view = Parts, !.at = Len(Upgrades[1]) + 1]
    BY <1>4 DEF BootstrapStep, c
  <2>3. command'.pc # "downgrade" /\ command'.fill = {}
    BY <1>1, <2>1, <2>2 DEF Command
  <2>. QED
    BY <2>3 DEF Waiting, Dropping
<1>5. ASSUME Stamped, command' # Idle PROVE Waiting(command)' /\ Dropping(command)'
  <2>1. command' = [c EXCEPT !.rev = @ + 1, !.at = 1] /\ c.rev # c.target /\ c.pc = "upgrade"
    BY <1>5 DEF Stamped, c
  <2>2. c.fill = {}
    BY <1>1, <2>1 DEF Waiting
  <2>3. command'.pc = "upgrade" /\ command'.fill = {}
    BY <1>1, <2>1, <2>2 DEF Command
  <2>. QED
    BY <2>3 DEF Waiting, Dropping
<1>. QED
  BY <1>2, <1>3, <1>4, <1>5

LEMMA AbsentKeeps ==
    ASSUME DraftInv, [Next]_vars
    PROVE  Absent'
<1>1. draft \in [Projects -> Nat] /\ exists \subseteq Projects /\ Absent
  BY DEF DraftInv, StampInv, Typed
<1>2. CASE UNCHANGED <<draft, exists>>
  BY <1>1, <1>2 DEF Absent
<1>3. ASSUME NEW q \in Projects, CreateProject(q) \/ Save(q) PROVE Absent'
  BY <1>1, <1>3 DEF Absent, CreateProject, Save
<1>4. ASSUME Stamped PROVE Absent'
  BY <1>1, <1>4 DEF Absent, Stamped, Filled, DraftInv, Waiting
<1>5. ASSUME draft' = NoDrafts PROVE Absent'
  BY <1>5 DEF Absent, NoDrafts
<1>6. ASSUME DropStep \/ Unstamped PROVE draft' = NoDrafts \/ UNCHANGED <<draft, exists>>
  BY <1>6 DEF DropStep, Unstamped
<1>7. ASSUME NEW b \in Backends, StartStep(b) \/ Stop(b) PROVE UNCHANGED <<draft, exists>>
  BY <1>7 DEF StartStep, StartProduction, StartDevelopment, Create, AddColumns, Look, Seed, Find, Insert, Stop, data
<1>8. ASSUME \/ \E target \in {AskedRevision, LastRevision} : Upgrade(target)
             \/ Statement \/ BootstrapStep \/ Downgrade \/ CommandDies \/ UNCHANGED vars
      PROVE  UNCHANGED <<draft, exists>>
  BY <1>8 DEF Upgrade, Statement, BootstrapStep, Downgrade, CommandDies, vars, data
<1>. QED
  BY <1>2, <1>3, <1>4, <1>5, <1>6, <1>7, <1>8 DEF Next, CommandStep

LEMMA DraftInvNext ==
    ASSUME DraftInv, [Next]_vars
    PROVE  DraftInv'
<1>1. StampInv'
  BY StampInvNext DEF DraftInv
<1>. SUFFICES Waiting(command)' /\ Dropping(command)'
  BY <1>1, AbsentKeeps DEF DraftInv
<1>2. ASSUME NEW b \in Backends, StartStep(b) \/ Stop(b) PROVE Waiting(command)' /\ Dropping(command)'
  <2>1. command.pc # "downgrade"
    BY <1>2, NothingServed
  <2>2. UNCHANGED <<command, exists, draft>>
    BY <1>2 DEF StartStep, StartProduction, StartDevelopment, Create, AddColumns, Look, Seed, Find, Insert,
       Stop, data
  <2>. QED
    BY <2>1, <2>2 DEF DraftInv, Waiting, Dropping
<1>3. ASSUME NEW q \in Projects, CreateProject(q) \/ Save(q) PROVE Waiting(command)' /\ Dropping(command)'
  <2>1. command.pc # "downgrade"
    BY <1>3, NothingServed
  <2>2. UNCHANGED command
    BY <1>3 DEF CreateProject, Save
  <2>3. exists \subseteq Projects /\ draft \in [Projects -> Nat]
    BY DEF DraftInv, StampInv, Typed
  <2>4. \A p \in command.fill : p \in exists' /\ draft'[p] = 0
    <3>1. \A p \in command.fill : p \in exists /\ draft[p] = 0 /\ p # q
      BY <1>3 DEF DraftInv, Waiting, CreateProject, Save
    <3>. QED
      BY <1>3, <2>3, <3>1 DEF CreateProject, Save
  <2>. QED
    BY <2>1, <2>2, <2>4 DEF DraftInv, Waiting, Dropping
<1>4. ASSUME NEW target \in {AskedRevision, LastRevision}, Upgrade(target)
      PROVE  Waiting(command)' /\ Dropping(command)'
  <2>1. command'.pc = "upgrade" /\ command'.fill = {}
    BY <1>4 DEF Upgrade, Idle
  <2>. QED
    BY <2>1 DEF Waiting, Dropping
<1>5. ASSUME Downgrade PROVE Waiting(command)' /\ Dropping(command)'
  <2>1. /\ command'.pc = "downgrade" /\ command'.fill = {} /\ command'.at = 1
        /\ command'.rev = stamp /\ command'.view = schema
        /\ AllDown /\ UNCHANGED <<backend, schema, dialect>> /\ stamp > 0
    BY <1>5 DEF Downgrade, Idle, fixed
  <2>2. stamp \in 1..3
    BY <2>1, Literals DEF DraftInv, StampInv, Typed
  <2>3. 1 \in 1..(Len(Downgrades[stamp]) + 1)
    BY <2>2, DowngradeLengths
  <2>. QED
    BY <2>1, <2>3 DEF Waiting, Dropping, AllDown, Up
<1>6. ASSUME CommandDies \/ Unstamped PROVE Waiting(command)' /\ Dropping(command)'
  BY <1>6, IdleFacts DEF CommandDies, Unstamped, Waiting, Dropping
<1>7. ASSUME UNCHANGED vars PROVE Waiting(command)' /\ Dropping(command)'
  BY <1>7 DEF vars, fixed, data, DraftInv, Waiting, Dropping, AllDown, Up, Transactional
<1>. QED
  BY <1>2, <1>3, <1>4, <1>5, <1>6, <1>7, DropStepKeeps, UpgradeStepKeeps DEF Next, CommandStep

LEMMA OnlyTheTableTakes ==
    ASSUME DraftInv, [Next]_vars, NEW p \in Projects, draft'[p] < draft[p]
    PROVE  "project_drafts" \notin schema'
<1>1. draft \in [Projects -> Nat] /\ versions \in [Projects -> Nat] /\ exists \subseteq Projects
  BY SchemaAssumption DEF DraftInv, StampInv, Typed
<1>2. CASE UNCHANGED draft
  BY <1>1, <1>2
<1>3. ASSUME NEW q \in Projects, CreateProject(q) \/ Save(q) PROVE FALSE
  <2>1. CASE CreateProject(q)
    <3>1. draft[q] = 0
      BY <2>1 DEF CreateProject, DraftInv, Absent
    <3>2. draft'[p] = draft[p] \/ (p = q /\ draft'[p] = 1)
      BY <1>1, <2>1 DEF CreateProject
    <3>. QED
      BY <1>1, <3>1, <3>2
  <2>2. CASE Save(q)
    <3>1. draft'[p] = draft[p] \/ draft'[p] = draft[p] + 1
      BY <1>1, <2>2 DEF Save
    <3>. QED
      BY <1>1, <3>1
  <2>. QED
    BY <1>3, <2>1, <2>2
<1>4. ASSUME Stamped PROVE FALSE
  <2>1. \A q \in command.fill : draft[q] = 0
    BY DEF DraftInv, Waiting
  <2>2. FirstDraft(p) \in Nat
    BY <1>1 DEF FirstDraft
  <2>3. draft'[p] = draft[p] \/ draft'[p] = Filled[p]
    BY <1>4 DEF Stamped
  <2>4. Filled[p] \in Nat /\ Filled[p] >= draft[p]
    BY <1>1, <2>1, <2>2 DEF Filled
  <2>. QED
    BY <1>1, <2>3, <2>4
<1>5. ASSUME DropStep, draft' # draft PROVE "project_drafts" \notin schema'
  <2>. DEFINE part == Downgrades[command.rev][command.at]
  <2>1. /\ part = "project_drafts" /\ ~Transactional
        /\ command.pc = "downgrade"
        /\ IF part \in command.view THEN Effect(command.view \ {part}) ELSE Raise
    BY <1>5 DEF DropStep
  <2>2. command.view = schema
    BY <2>1 DEF DraftInv, Dropping
  <2>. QED
    BY <2>1, <2>2 DEF Effect, Raise
<1>6. ASSUME Unstamped, draft' # draft PROVE "project_drafts" \notin schema'
  <2>1. /\ command.pc = "downgrade" /\ command.rev = 1 /\ schema' = command.view
        /\ command.at = Len(Downgrades[command.rev]) + 1
    BY <1>6 DEF Unstamped
  <2>2. command.at = 3
    BY <2>1, DowngradeLengths
  <2>. QED
    BY <2>1, <2>2 DEF DraftInv, Dropping
<1>7. ASSUME NEW b \in Backends, StartStep(b) \/ Stop(b) PROVE UNCHANGED draft
  BY <1>7 DEF StartStep, StartProduction, StartDevelopment, Create, AddColumns, Look, Seed, Find, Insert, Stop, data
<1>8. ASSUME \/ \E target \in {AskedRevision, LastRevision} : Upgrade(target)
             \/ Statement \/ BootstrapStep \/ Downgrade \/ CommandDies \/ UNCHANGED vars
      PROVE  UNCHANGED draft
  BY <1>8 DEF Upgrade, Statement, BootstrapStep, Downgrade, CommandDies, vars, data
<1>. QED
  BY <1>2, <1>3, <1>4, <1>5, <1>6, <1>7, <1>8 DEF Next, CommandStep

(* No start, upgrade, save or death takes the version of a draft back:     *)
(* only the downgrade that drops the table of drafts does.                 *)
THEOREM DraftsKeptHolds == Spec => DraftsKept
<1>1. DraftInv /\ [Next]_vars => DraftInv'
  BY DraftInvNext
<1>2. DraftInv /\ [Next]_vars =>
        [\A p \in Projects : draft'[p] < draft[p] => "project_drafts" \notin schema']_vars
  BY OnlyTheTableTakes
<1>. QED
  BY <1>1, <1>2, DraftInvInit, PTL DEF Spec, DraftsKept

=============================================================================
