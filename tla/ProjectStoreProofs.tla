------------------------- MODULE ProjectStoreProofs -------------------------
(***************************************************************************)
(* What holds of ProjectStore for every set of callers and runs.           *)
(*                                                                         *)
(* For any number of operations between their reads and their writes:      *)
(* two confirmations can read the same last revision.  That they never end *)
(* up with the same one follows from three facts: a stage's revision was   *)
(* the last one when the stage was confirmed, the last one only grows, and *)
(* a number that is taken is refused.                                      *)
(*                                                                         *)
(* For any number of operations of which only one replaces the draft:      *)
(* what a save replaces (BInv).                                            *)
(*                                                                         *)
(* With one operation at a time (MaxOpen = 1): what is confirmed, rendered *)
(* or spoken is what the draft holds.  The invariants come in layers, each *)
(* of which uses the ones before: IInv; SInv, what an operation has        *)
(* checked still holds when it writes; RInv, the reviewed parts; AInv, the *)
(* assignment and its videos.                                              *)
(***************************************************************************)
EXTENDS ProjectStore, SequenceTheorems, FiniteSetTheorems, TLAPS

-----------------------------------------------------------------------------
(* The inductive invariant *)

(* An operation that works for a run names one, and one that confirms      *)
(* stages has a stage left.                                                *)
Sound(k) ==
    /\ k \in Call
    /\ k.op \notin {"none", "autosave", "save", "rename", "pdf"} => k.run \in Runs
    /\ k.op = "confirm" => k.rest # <<>>

Numbered == \A r \in Runs, s \in Stages : stage[r][s].revision <= project.revision

IInv ==
    /\ TypeOK
    /\ \A c \in Callers : Sound(call[c])
    /\ Numbered
    /\ RevisionsDistinct

(* The typed part of the state, for the lemmas below. *)
Typed ==
    /\ TypeOK
    /\ \A c \in Callers : Sound(call[c])

-----------------------------------------------------------------------------
(* Calls *)

LEMMA BlankTyped ==
    /\ Blank \in Content /\ BlankDraft \in Draft /\ BlankProject \in Project
    /\ Sound(IdleCall)
BY DEF Blank, BlankDraft, BlankProject, IdleCall, Content, Draft, Project, Call, Ops, Sound,
       Stages

(* A call that becomes a sound one. *)
LEMMA BecomeSound ==
    ASSUME Typed, NEW c \in Callers, NEW rec, Sound(rec), Become(c, rec)
    PROVE  call' \in [Callers -> Call] /\ \A d \in Callers : Sound(call[d])'
<1>1. call \in [Callers -> Call]
  BY DEF Typed, TypeOK
<1>2. rec \in Call
  BY DEF Sound
<1>3. call' = [call EXCEPT ![c] = rec]
  BY DEF Become
<1>4. call' \in [Callers -> Call]
  BY <1>1, <1>2, <1>3
<1>5. ASSUME NEW d \in Callers PROVE Sound(call'[d])
  <2>1. call'[d] = IF d = c THEN rec ELSE call[d]
    BY <1>1, <1>3
  <2>2. Sound(call[d])
    BY DEF Typed
  <2> QED BY <2>1, <2>2
<1>6. \A d \in Callers : Sound(call[d])'
  BY <1>5 DEF Sound
<1> QED BY <1>4, <1>6

LEMMA FinishSound ==
    ASSUME Typed, NEW c \in Callers, Finish(c)
    PROVE  call' \in [Callers -> Call] /\ \A d \in Callers : Sound(call[d])'
BY BecomeSound, BlankTyped DEF Finish

(* Opening a sound call. *)
LEMMA OpenSound ==
    ASSUME Typed, NEW c \in Callers, NEW rec, Sound(rec),
           NEW pc \in {"upload", "freeze", "open"}, OpenAt(c, rec, pc)
    PROVE  call' \in [Callers -> Call] /\ \A d \in Callers : Sound(call[d])'
<1>1. project \in Project
  BY DEF Typed, TypeOK
<1>2. Sound([rec EXCEPT !.pc = pc, !.seen = project])
  BY <1>1 DEF Sound, Call
<1>3. Become(c, [rec EXCEPT !.pc = pc, !.seen = project])
  BY DEF OpenAt
<1> QED BY <1>2, <1>3, BecomeSound

-----------------------------------------------------------------------------
(* Stages and artifacts *)

LEMMA MarkStaleTyped ==
    ASSUME Typed, NEW r, NEW S, MarkStale(r, S)
    PROVE  /\ stage' \in [Runs -> [Stages -> Stage]]
           /\ \A q \in Runs, s \in Stages : stage'[q][s].revision = stage[q][s].revision
<1>1. stage \in [Runs -> [Stages -> Stage]]
  BY DEF Typed, TypeOK
<1> DEFINE new(q, s) == IF q = r /\ s \in S /\ Confirmed(q, s)
                        THEN [stage[q][s] EXCEPT !.status = "stale"] ELSE stage[q][s]
<1>2. ASSUME NEW q \in Runs, NEW s \in Stages
      PROVE  new(q, s) \in Stage /\ new(q, s).revision = stage[q][s].revision
  <2>1. PICK u \in Stage : u = stage[q][s]
    BY <1>1
  <2>2. /\ [u EXCEPT !.status = "stale"] \in Stage
        /\ [u EXCEPT !.status = "stale"].revision = u.revision
    BY DEF Stage
  <2> QED BY <2>1, <2>2
<1>3. stage' = [q \in Runs |-> [s \in Stages |-> new(q, s)]]
  BY DEF MarkStale
<1> HIDE DEF new
<1> QED BY <1>2, <1>3

LEMMA WithdrawTyped ==
    ASSUME Typed, NEW r, Withdraw(r)
    PROVE  /\ stage' \in [Runs -> [Stages -> Stage]]
           /\ \A q \in Runs, s \in Stages : stage'[q][s].revision = stage[q][s].revision
           /\ audio' \subseteq [run : Runs, script : Nat]
           /\ render' \subseteq [run : Runs, type : {"video", "video_highlight"}, parts : Content]
<1>1. MarkStale(r, Stages) /\ audio' \subseteq audio /\ render' \subseteq render
  BY DEF Withdraw
<1>2. /\ audio \subseteq [run : Runs, script : Nat]
      /\ render \subseteq [run : Runs, type : {"video", "video_highlight"}, parts : Content]
  BY DEF Typed, TypeOK
<1> QED BY <1>1, <1>2, MarkStaleTyped

LEMMA SupersededTyped ==
    ASSUME Typed, NEW r
    PROVE  SupersededRun(r) \in [Runs -> Run]
<1>1. run \in [Runs -> Run]
  BY DEF Typed, TypeOK
<1>2. ASSUME NEW q \in Runs
      PROVE  (IF q = r /\ run[q].status = "live"
              THEN [run[q] EXCEPT !.status = "superseded"] ELSE run[q]) \in Run
  <2>1. PICK u \in Run : u = run[q]
    BY <1>1
  <2>2. [u EXCEPT !.status = "superseded"] \in Run
    BY DEF Run
  <2> QED BY <2>1, <2>2
<1> QED BY <1>2 DEF SupersededRun

(* The contents that operations put together. *)
LEMMA ContentsTyped ==
    ASSUME Typed
    PROVE  /\ Fresh \in Nat
           /\ \A c \in Callers : \A S : Edited(c, S) \in Content
           /\ \A r \in Runs : KeptHighlights(r) \in Content
           /\ \A r \in Runs : [s \in Stages |-> stage[r][s].parts[s]] \in Content
           /\ \A r \in Runs : [s \in Stages |-> stage[r][s].revision] \in [Stages -> Nat]
           /\ \A r \in Runs, s \in Stages : stage[r][s].parts \in Content
<1>1. edits \in Nat /\ stage \in [Runs -> [Stages -> Stage]] /\ loaded \in [Callers -> Draft]
      /\ project \in Project
  BY DEF Typed, TypeOK
<1>2. Fresh \in Nat
  BY <1>1 DEF Fresh
<1>3. ASSUME NEW r \in Runs, NEW s \in Stages
      PROVE  stage[r][s].parts \in Content /\ stage[r][s].revision \in Nat
             /\ stage[r][s].parts[s] \in Nat
  <2>1. stage[r][s] \in Stage
    BY <1>1
  <2> QED BY <2>1 DEF Stage, Content
<1>4. ASSUME NEW c \in Callers, NEW S PROVE Edited(c, S) \in Content
  <2>1. loaded[c].parts \in Content
    BY <1>1 DEF Draft
  <2> QED BY <1>2, <2>1 DEF Edited, Content
<1>5. ASSUME NEW r \in Runs PROVE KeptHighlights(r) \in Content
  <2>1. project.draft.parts \in Content /\ stage[r]["layout"].parts \in Content
    BY <1>1, <1>3 DEF Project, Draft, Stages
  <2>2. [s \in Stages |-> Fresh] \in Content
    BY <1>2 DEF Content
  <2>3. CASE Confirmed(r, "layout")
    BY <2>1, <2>3 DEF KeptHighlights
  <2>4. CASE ~Confirmed(r, "layout") /\ project.draft.partial = r
    BY <2>1, <2>4 DEF KeptHighlights
  <2>5. CASE ~Confirmed(r, "layout") /\ project.draft.partial # r
    BY <2>2, <2>5 DEF KeptHighlights
  <2> QED BY <2>3, <2>4, <2>5
<1>6. ASSUME NEW r \in Runs
      PROVE  /\ [s \in Stages |-> stage[r][s].parts[s]] \in Content
             /\ [s \in Stages |-> stage[r][s].revision] \in [Stages -> Nat]
  BY <1>3 DEF Content
<1> QED BY <1>2, <1>3, <1>4, <1>5, <1>6

LEMMA AutoConfirmedTyped == \A r \in Runs : AutoConfirmed(r) \in Seq(Stages)
<1> SUFFICES ASSUME NEW r \in Runs PROVE AutoConfirmed(r) \in Seq(Stages)
  OBVIOUS
<1>1. "layout" \in Stages /\ "script" \in Stages /\ "assignment" \in Stages
  BY DEF Stages
<1>2. /\ <<>> \in Seq(Stages) /\ <<"script">> \in Seq(Stages)
      /\ <<"layout", "script", "assignment">> \in Seq(Stages)
  BY <1>1
<1>3. CASE r \in Reviewed
  BY <1>2, <1>3 DEF AutoConfirmed
<1>4. CASE r \notin Reviewed /\ Mode[r] = "hl"
  BY <1>2, <1>4 DEF AutoConfirmed
<1>5. CASE r \notin Reviewed /\ Mode[r] # "hl"
  BY <1>2, <1>5 DEF AutoConfirmed
<1> QED BY <1>3, <1>4, <1>5

(* The call with which a tab sends a draft. *)
SaveOf(d, op) == [IdleCall EXCEPT !.op = op, !.draft = d]
OpensSave(c) == OpenSave(c, "autosave") \/ OpenSave(c, "save") \/ OpenRename(c)

LEMMA SaveSound ==
    ASSUME NEW d \in Draft, NEW op \in Saves
    PROVE  /\ Sound(SaveOf(d, op)) /\ SaveOf(d, op).op = op /\ SaveOf(d, op).draft = d
           /\ SaveOf(d, op).rest = <<>>
<1>1. IdleCall \in Call /\ op \in Ops /\ IdleCall.rest = <<>>
  BY BlankTyped DEF Sound, Ops, IdleCall
<1> QED BY <1>1 DEF SaveOf, Sound, Call, Saves

(* Every save sends a draft that follows the one in the database. *)
LEMMA SaveIsSent ==
    ASSUME Typed, NEW c \in Callers, NEW op, OpenSave(c, op)
    PROVE  \E d \in Draft : d.version = project.draft.version + 1 /\ Open(c, SaveOf(d, op))
<1>1. project \in Project /\ loaded[c] \in Draft
  BY DEF Typed, TypeOK
<1>2. PICK S \in SUBSET Stages, p \in Runs \cup {None} :
          Open(c, [IdleCall EXCEPT !.op = op,
                      !.draft = [version |-> project.draft.version + 1,
                                 parts |-> Edited(c, S), partial |-> p]])
  BY <1>1 DEF OpenSave, Draft
<1>3. Edited(c, S) \in Content /\ project.draft.version + 1 \in Nat
  BY <1>1, ContentsTyped DEF Project, Draft
<1>4. PICK d \in Draft : d = [version |-> project.draft.version + 1,
                              parts |-> Edited(c, S), partial |-> p]
  BY <1>3 DEF Draft
<1> QED BY <1>2, <1>4 DEF SaveOf

LEMMA RenameIsSent ==
    ASSUME Typed, NEW c \in Callers, OpenRename(c)
    PROVE  \E d \in Draft : d.version = project.draft.version + 1 /\ Open(c, SaveOf(d, "rename"))
<1>1. PICK e \in Draft : e = project.draft
  BY DEF Typed, TypeOK, Project
<1>2. PICK n \in Nat : n = e.version + 1
  BY DEF Draft
<1>3. [e EXCEPT !.version = n] \in Draft /\ [e EXCEPT !.version = n].version = n
  BY DEF Draft
<1>4. Open(c, [IdleCall EXCEPT !.op = "rename", !.draft = [e EXCEPT !.version = n]])
  BY <1>1, <1>2 DEF OpenRename
<1> QED BY <1>1, <1>2, <1>3, <1>4 DEF SaveOf

LEMMA SaveIsOpened ==
    ASSUME Typed, NEW c \in Callers, OpensSave(c)
    PROVE  \E d \in Draft :
               /\ d.version = project.draft.version + 1
               /\ \/ Open(c, SaveOf(d, "autosave")) /\ BaseMatches(c, "autosave")
                  \/ Open(c, SaveOf(d, "save")) \/ Open(c, SaveOf(d, "rename"))
<1>1. OpenSave(c, "autosave") => BaseMatches(c, "autosave")
  BY DEF OpenSave
<1> QED BY <1>1, SaveIsSent, RenameIsSent DEF OpensSave

-----------------------------------------------------------------------------
(* Every step keeps the types *)

LEMMA TabTyped ==
    ASSUME Typed, NEW c \in Callers, Tab(c)
    PROVE  Typed'
<1> USE DEF Typed, TypeOK
<1>1. /\ project \in Project /\ edits \in Nat /\ loaded \in [Callers -> Draft]
      /\ call[c] \in Call /\ call \in [Callers -> Call] /\ Sound(IdleCall)
      /\ IdleCall \in Call
  BY BlankTyped DEF Sound
<1>2. CASE Load(c)
  BY <1>1, <1>2 DEF Load, Project, Sound
<1>3. CASE OpensSave(c)
  <2>1. PICK d \in Draft : Open(c, SaveOf(d, "autosave")) \/ Open(c, SaveOf(d, "save"))
                            \/ Open(c, SaveOf(d, "rename"))
    BY <1>3, SaveIsOpened
  <2>2. /\ UNCHANGED <<project, run, stage, audio, render, loaded>>
        /\ edits' = edits + 1
    BY <1>3 DEF OpensSave, OpenSave, OpenRename, Edit, Fresh
  <2>3. call' \in [Callers -> Call] /\ \A e \in Callers : Sound(call[e])'
    BY <2>1, SaveSound, OpenSound DEF Open, Saves
  <2>4. edits' \in Nat
    BY <1>1, <2>2
  <2> QED BY <2>2, <2>3, <2>4
<1>4. CASE CommitSave(c)
  <2>1. /\ project' = [project EXCEPT !.draft = call[c].draft]
        /\ loaded' = loaded \/ loaded' = [loaded EXCEPT ![c] = call[c].draft]
        /\ Finish(c) /\ audio' \subseteq audio /\ render' \subseteq render
        /\ UNCHANGED <<run, edits>>
    BY <1>4 DEF CommitSave
  <2>2. stage' \in [Runs -> [Stages -> Stage]]
    BY <1>4, MarkStaleTyped DEF CommitSave
  <2>3. call[c].draft \in Draft
    BY <1>1 DEF Call
  <2>4. project' \in Project /\ loaded' \in [Callers -> Draft]
    BY <1>1, <2>1, <2>3 DEF Project
  <2>5. call' \in [Callers -> Call] /\ \A d \in Callers : Sound(call[d])'
    BY <2>1, FinishSound
  <2> QED BY <2>1, <2>2, <2>4, <2>5
<1>5. CASE OpenPdf(c)
  <2>1. Sound([IdleCall EXCEPT !.op = "pdf"])
    BY <1>1 DEF Sound, Call, Ops
  <2>2. call' \in [Callers -> Call] /\ \A d \in Callers : Sound(call[d])'
    BY <1>5, <2>1, OpenSound DEF OpenPdf
  <2> QED BY <1>5, <2>2 DEF OpenPdf
<1>6. CASE PdfStored(c)
  <2>1. PICK k \in Call : k = call[c]
    BY <1>1
  <2>2. PICK s \in Project : s = k.seen
    BY DEF Call
  <2>3. [s EXCEPT !.draft = project.draft] \in Project
    BY <1>1 DEF Project
  <2>4. Sound([k EXCEPT !.pc = "open", !.seen = [s EXCEPT !.draft = project.draft]])
    BY <2>1, <2>3 DEF Sound, Call
  <2>5. Become(c, [k EXCEPT !.pc = "open", !.seen = [s EXCEPT !.draft = project.draft]])
    BY <1>6, <2>1, <2>2 DEF PdfStored
  <2>6. call' \in [Callers -> Call] /\ \A d \in Callers : Sound(call[d])'
    BY <2>4, <2>5, BecomeSound
  <2> QED BY <1>6, <2>6 DEF PdfStored
<1>7. CASE CommitPdf(c)
  <2> DEFINE empty == [BlankDraft EXCEPT !.version = call[c].seen.draft.version + 1]
  <2>1. /\ project' = [source |-> project.source + 1, active |-> None, draft |-> empty,
                       revision |-> project.revision]
        /\ run' = SupersededRun(call[c].seen.active)
        /\ Withdraw(call[c].seen.active)
        /\ Finish(c) /\ UNCHANGED <<edits, loaded>>
    BY <1>7 DEF CommitPdf
  <2>2. empty \in Draft
    <3>1. PICK v \in Nat : v = call[c].seen.draft.version + 1
      BY <1>1 DEF Call, Project, Draft
    <3>2. PICK b \in Draft : b = BlankDraft
      BY BlankTyped
    <3>3. [b EXCEPT !.version = v] \in Draft
      BY DEF Draft
    <3> QED BY <3>1, <3>2, <3>3
  <2>3. project' \in Project
    <3>1. PICK e \in Draft : e = empty
      BY <2>2
    <3>2. project.source + 1 \in Nat /\ project.revision \in Nat
      BY <1>1 DEF Project
    <3>3. [source |-> project.source + 1, active |-> None, draft |-> e,
           revision |-> project.revision] \in Project
      BY <3>2 DEF Project
    <3> QED BY <2>1, <3>1, <3>3
  <2>4. call' \in [Callers -> Call] /\ \A d \in Callers : Sound(call[d])'
    BY <2>1, FinishSound
  <2>5. run' \in [Runs -> Run]
    BY <2>1, SupersededTyped
  <2> QED BY <2>1, <2>3, <2>4, <2>5, WithdrawTyped
<1> QED BY <1>2, <1>3, <1>4, <1>5, <1>6, <1>7 DEF Tab, OpensSave

LEMMA ReviewTyped ==
    ASSUME Typed, NEW c \in Callers, Review(c)
    PROVE  Typed'
<1> USE DEF Typed, TypeOK
<1>1. /\ project \in Project /\ edits \in Nat /\ loaded \in [Callers -> Draft]
      /\ call[c] \in Call /\ call \in [Callers -> Call] /\ IdleCall \in Call
      /\ Sound(call[c])
  BY BlankTyped DEF Sound
<1>2. ASSUME NEW r \in Runs, NEW s \in Stages, StartConfirm(c, r, s) PROVE Typed'
  <2> DEFINE rest == IF s = "script" /\ Mode[r] = "hl" /\ ~Confirmed(r, "layout")
                     THEN <<"layout", "script">> ELSE <<s>>
  <2>1. rest \in Seq(Stages) /\ rest # <<>>
    <3>1. "layout" \in Stages /\ "script" \in Stages
      BY DEF Stages
    <3>2. <<"layout", "script">> \in Seq(Stages) /\ <<s>> \in Seq(Stages)
      BY <3>1
    <3>3. Len(<<"layout", "script">>) = 2 /\ Len(<<s>>) = 1
      OBVIOUS
    <3> QED BY <3>2, <3>3, EmptySeq
  <2>2. Become(c, [IdleCall EXCEPT !.op = "confirm", !.pc = "between", !.run = r,
                      !.draft = loaded[c], !.rest = rest])
    BY <1>2 DEF StartConfirm
  <2> HIDE DEF rest
  <2>3. Sound([IdleCall EXCEPT !.op = "confirm", !.pc = "between", !.run = r,
                  !.draft = loaded[c], !.rest = rest])
    BY <1>1, <2>1 DEF Sound, Call, Ops
  <2>4. call' \in [Callers -> Call] /\ \A d \in Callers : Sound(call[d])'
    BY <2>2, <2>3, BecomeSound
  <2> QED BY <1>2, <2>4 DEF StartConfirm
<1>3. CASE OpenConfirm(c)
  <2>1. call' \in [Callers -> Call] /\ \A d \in Callers : Sound(call[d])'
    BY <1>1, <1>3, OpenSound DEF OpenConfirm, Open
  <2> QED BY <1>3, <2>1 DEF OpenConfirm
<1>4. CASE CommitConfirm(c)
  <2> DEFINE r == call[c].run  s == Head(call[c].rest)
             new == [revision |-> call[c].seen.revision + 1, status |-> "confirmed",
                     parts |-> call[c].seen.draft.parts]
  <2>1. /\ call[c].op = "confirm"
        /\ project' = [project EXCEPT !.revision = call[c].seen.revision + 1]
        /\ stage' = [stage EXCEPT ![r][s] = new]
        /\ UNCHANGED <<run, audio, render, edits, loaded>>
    BY <1>4 DEF CommitConfirm
  <2>2. call[c].seen.revision + 1 \in Nat /\ call[c].seen.draft.parts \in Content
    BY <1>1 DEF Call, Project, Draft
  <2>3. new \in Stage
    BY <2>2 DEF Stage
  <2>4. project' \in Project
    BY <1>1, <2>1, <2>2 DEF Project
  <2>5. stage' \in [Runs -> [Stages -> Stage]]
    <3> HIDE DEF new, r, s
    <3> QED BY <2>1, <2>3
  <2>6. call' \in [Callers -> Call] /\ \A d \in Callers : Sound(call[d])'
    <3>1. CASE Len(call[c].rest) = 1
      BY <1>4, <3>1, FinishSound DEF CommitConfirm
    <3>2. CASE Len(call[c].rest) # 1
      <4>1. PICK k \in Call : k = call[c]
        BY <1>1
      <4>2. /\ k.rest \in Seq(Stages) /\ k.rest # <<>> /\ Len(k.rest) # 1
            /\ k.run \in Runs
        BY <1>1, <2>1, <3>2, <4>1 DEF Sound, Call
      <4>3. Tail(k.rest) \in Seq(Stages) /\ Tail(k.rest) # <<>>
        <5>1. Len(k.rest) \in Nat /\ Len(k.rest) # 0
          BY <4>2, EmptySeq
        <5>2. Tail(k.rest) \in Seq(Stages) /\ Len(Tail(k.rest)) = Len(k.rest) - 1
          BY <4>2, HeadTailProperties
        <5>3. Len(Tail(k.rest)) # 0
          BY <4>2, <5>1, <5>2
        <5>4. Len(<<>>) = 0
          OBVIOUS
        <5> QED BY <5>2, <5>3, <5>4, Zenon
      <4>4. PICK tail \in Seq(Stages) : tail = Tail(k.rest)
        BY <4>3
      <4>5. Sound([k EXCEPT !.pc = "between", !.rest = tail, !.seen = BlankProject])
        BY <1>1, <2>1, <4>1, <4>2, <4>3, <4>4, BlankTyped DEF Sound, Call
      <4>6. Become(c, [call[c] EXCEPT !.pc = "between", !.rest = Tail(@), !.seen = BlankProject])
        BY <1>4, <3>2 DEF CommitConfirm
      <4>7. Become(c, [k EXCEPT !.pc = "between", !.rest = tail, !.seen = BlankProject])
        BY <4>1, <4>4, <4>6
      <4> QED BY <4>5, <4>7, BecomeSound
    <3> QED BY <3>1, <3>2
  <2> QED BY <2>1, <2>4, <2>5, <2>6
<1> QED BY <1>2, <1>3, <1>4 DEF Review

LEMMA GenerationTyped ==
    ASSUME Typed, NEW c \in Callers, Generation(c)
    PROVE  Typed'
<1> USE DEF Typed, TypeOK
<1>1. /\ project \in Project /\ edits \in Nat /\ loaded \in [Callers -> Draft]
      /\ run \in [Runs -> Run] /\ stage \in [Runs -> [Stages -> Stage]]
      /\ call[c] \in Call /\ call \in [Callers -> Call] /\ IdleCall \in Call
      /\ Sound(call[c])
  BY BlankTyped DEF Sound
<1>2. project.draft.version + 1 \in Nat /\ project.revision + 1 \in Nat
      /\ project.draft.partial \in Runs \cup {None}
  BY <1>1 DEF Project, Draft
<1>3. ASSUME NEW r \in Runs, OpenRun(c, r) PROVE Typed'
  <2>1. Sound([IdleCall EXCEPT !.op = "run", !.run = r])
    BY <1>1 DEF Sound, Call, Ops
  <2>2. call' \in [Callers -> Call] /\ \A d \in Callers : Sound(call[d])'
    BY <1>3, <2>1, OpenSound DEF OpenRun, Open
  <2> QED BY <1>3, <2>2 DEF OpenRun
<1>4. CASE CommitRun(c)
  <2> DEFINE r == call[c].run  seen == call[c].seen
             new == [status |-> "live", source |-> seen.source, generated |-> FALSE]
  <2>1. /\ call[c].op = "run"
        /\ project' = [project EXCEPT !.active = r]
        /\ run' = [SupersededRun(seen.active) EXCEPT ![r] = new]
        /\ Withdraw(seen.active)
        /\ Finish(c) /\ UNCHANGED <<edits, loaded>>
    BY <1>4 DEF CommitRun
  <2>2. r \in Runs
    BY <1>1, <2>1 DEF Sound
  <2>3. new \in Run
    BY <1>1 DEF Run, Call, Project
  <2>4. project' \in Project
    BY <1>1, <2>1, <2>2 DEF Project
  <2>5. run' \in [Runs -> Run]
    <3>1. SupersededRun(seen.active) \in [Runs -> Run]
      BY SupersededTyped
    <3> HIDE DEF new, r, seen
    <3> QED BY <2>1, <2>3, <3>1
  <2>6. call' \in [Callers -> Call] /\ \A d \in Callers : Sound(call[d])'
    BY <2>1, FinishSound
  <2> QED BY <2>1, <2>4, <2>5, <2>6, WithdrawTyped
<1>5. ASSUME NEW r \in Runs, OpenGenerate(c, r) PROVE Typed'
  <2> DEFINE parts == [KeptHighlights(r) EXCEPT !["script"] = Fresh]
             draft == [version |-> project.draft.version + 1, parts |-> parts, partial |-> None]
  <2>1. edits' \in Nat
    BY <1>1, <1>5 DEF OpenGenerate, Edit, Fresh
  <2>2. parts \in Content
    BY ContentsTyped DEF Content
  <2>3. draft \in Draft
    <3> HIDE DEF parts
    <3> QED BY <1>2, <2>2 DEF Draft
  <2>4. AutoConfirmed(r) \in Seq(Stages)
    BY AutoConfirmedTyped
  <2>5. Open(c, [IdleCall EXCEPT !.op = "generate", !.run = r, !.draft = draft,
                    !.rest = AutoConfirmed(r)])
        /\ UNCHANGED <<project, run, stage, audio, render, loaded>>
    BY <1>5 DEF OpenGenerate
  <2> HIDE DEF draft
  <2>6. Sound([IdleCall EXCEPT !.op = "generate", !.run = r, !.draft = draft,
                  !.rest = AutoConfirmed(r)])
    BY <1>1, <2>3, <2>4 DEF Sound, Call, Ops
  <2>7. call' \in [Callers -> Call] /\ \A d \in Callers : Sound(call[d])'
    BY <2>5, <2>6, OpenSound DEF Open
  <2> QED BY <2>1, <2>5, <2>7
<1>6. CASE CommitGenerate(c)
  <2> DEFINE r == call[c].run
  <2>1. /\ call[c].op = "generate"
        /\ project' = [project EXCEPT !.draft = call[c].draft, !.active = r, !.revision = @ + 1]
        /\ run' = [run EXCEPT ![r].generated = TRUE]
        /\ UNCHANGED <<stage, audio, render, edits, loaded>>
    BY <1>6 DEF CommitGenerate
  <2>2. r \in Runs /\ call[c].draft \in Draft
    BY <1>1, <2>1 DEF Sound, Call
  <2>3. project' \in Project
    <3>1. PICK n \in Nat : n = project.revision + 1
      BY <1>2
    <3>2. project' = [project EXCEPT !.draft = call[c].draft, !.active = r, !.revision = n]
      BY <1>1, <2>1, <3>1
    <3> QED BY <1>1, <2>2, <3>2 DEF Project
  <2>4. run' \in [Runs -> Run]
    BY <1>1, <2>1, <2>2 DEF Run
  <2>5. call' \in [Callers -> Call] /\ \A d \in Callers : Sound(call[d])'
    <3>1. CASE call[c].rest = <<>>
      BY <1>6, <3>1, FinishSound DEF CommitGenerate
    <3>2. CASE call[c].rest # <<>>
      <4>1. Sound([call[c] EXCEPT !.op = "confirm", !.pc = "between", !.seen = BlankProject])
        BY <1>1, <2>2, <3>2, BlankTyped DEF Sound, Call, Ops
      <4>2. Become(c, [call[c] EXCEPT !.op = "confirm", !.pc = "between", !.seen = BlankProject])
        BY <1>6, <3>2 DEF CommitGenerate
      <4> QED BY <4>1, <4>2, BecomeSound
    <3> QED BY <3>1, <3>2
  <2> QED BY <2>1, <2>3, <2>4, <2>5
<1>7. ASSUME NEW r \in Runs, StartAssign(c, r) PROVE Typed'
  <2> DEFINE parts == [s \in Stages |-> stage[r][s].parts[s]]
             outputs == [s \in Stages |-> stage[r][s].revision]
             draft == [BlankDraft EXCEPT !.parts = parts]
  <2>1. parts \in Content /\ outputs \in [Stages -> Nat]
    BY ContentsTyped
  <2>2. draft \in Draft
    <3>1. PICK b \in Draft : b = BlankDraft
      BY BlankTyped
    <3> HIDE DEF parts
    <3> QED BY <2>1, <3>1 DEF Draft
  <2>3. Become(c, [IdleCall EXCEPT !.op = "assign", !.pc = "working", !.run = r,
                      !.outputs = outputs, !.draft = [@ EXCEPT !.parts = parts]])
        /\ UNCHANGED <<project, run, stage, audio, render, edits, loaded>>
    BY <1>7 DEF StartAssign
  <2>4. Become(c, [IdleCall EXCEPT !.op = "assign", !.pc = "working", !.run = r,
                      !.outputs = outputs, !.draft = draft])
    BY <2>3 DEF IdleCall
  <2> HIDE DEF draft, outputs
  <2>5. Sound([IdleCall EXCEPT !.op = "assign", !.pc = "working", !.run = r,
                  !.outputs = outputs, !.draft = draft])
    BY <1>1, <2>1, <2>2 DEF Sound, Call, Ops
  <2>6. call' \in [Callers -> Call] /\ \A d \in Callers : Sound(call[d])'
    BY <2>4, <2>5, BecomeSound
  <2> QED BY <2>3, <2>6
<1>8. CASE OpenAssign(c)
  <2> DEFINE parts == [call[c].draft.parts EXCEPT !["assignment"] = Fresh]
             draft == [version |-> project.draft.version + 1, partial |-> project.draft.partial,
                       parts |-> parts]
  <2>1. edits' \in Nat
    BY <1>1, <1>8 DEF OpenAssign, Edit, Fresh
  <2>2. parts \in Content
    <3>1. call[c].draft.parts \in Content
      BY <1>1 DEF Call, Draft
    <3> QED BY <3>1, ContentsTyped DEF Content
  <2>3. draft \in Draft
    <3> HIDE DEF parts
    <3> QED BY <1>2, <2>2 DEF Draft
  <2>4. Open(c, [call[c] EXCEPT !.draft = draft]) /\ call[c].op = "assign"
        /\ UNCHANGED <<project, run, stage, audio, render, loaded>>
    BY <1>8 DEF OpenAssign
  <2> HIDE DEF draft
  <2>5. Sound([call[c] EXCEPT !.draft = draft])
    BY <1>1, <2>3, <2>4 DEF Sound, Call
  <2>6. call' \in [Callers -> Call] /\ \A d \in Callers : Sound(call[d])'
    BY <2>4, <2>5, OpenSound DEF Open
  <2> QED BY <2>1, <2>4, <2>6
<1>9. CASE CommitAssign(c)
  <2>1. /\ project' = [project EXCEPT !.draft = call[c].draft, !.revision = @ + 1]
        /\ Finish(c) /\ UNCHANGED <<run, stage, audio, render, edits, loaded>>
    BY <1>9 DEF CommitAssign
  <2>2. project' \in Project
    <3>1. PICK n \in Nat : n = project.revision + 1
      BY <1>2
    <3>2. project' = [project EXCEPT !.draft = call[c].draft, !.revision = n]
      BY <1>1, <2>1, <3>1
    <3>3. call[c].draft \in Draft
      BY <1>1 DEF Call
    <3> QED BY <1>1, <3>2, <3>3 DEF Project
  <2>3. call' \in [Callers -> Call] /\ \A d \in Callers : Sound(call[d])'
    BY <2>1, FinishSound
  <2> QED BY <2>1, <2>2, <2>3
<1> QED BY <1>3, <1>4, <1>5, <1>6, <1>7, <1>8, <1>9 DEF Generation

LEMMA MediaTyped ==
    ASSUME Typed, NEW c \in Callers, Media(c)
    PROVE  Typed'
<1> USE DEF Typed, TypeOK
<1>1. /\ project \in Project /\ loaded \in [Callers -> Draft]
      /\ call[c] \in Call /\ call \in [Callers -> Call] /\ IdleCall \in Call
      /\ Sound(call[c]) /\ Sound(IdleCall) /\ loaded[c] \in Draft /\ project.draft \in Draft
  BY BlankTyped DEF Sound, Project
<1>2. ASSUME NEW r \in Runs, OpenVideo(c, r) PROVE Typed'
  <2>1. Sound([IdleCall EXCEPT !.op = "video", !.run = r, !.draft = project.draft])
    BY <1>1 DEF Sound, Call, Ops
  <2>2. call' \in [Callers -> Call] /\ \A d \in Callers : Sound(call[d])'
    BY <1>2, <2>1, OpenSound DEF OpenVideo
  <2> QED BY <1>2, <2>2 DEF OpenVideo
<1>3. CASE FreezeInput(c)
  <2>1. call[c].seen.revision + 1 \in Nat
    BY <1>1 DEF Call, Project
  <2>2. project' \in Project
    BY <1>1, <1>3, <2>1 DEF FreezeInput, Project
  <2>3. Sound([call[c] EXCEPT !.pc = "working", !.seen = BlankProject])
    BY <1>1, BlankTyped DEF Sound, Call
  <2>4. call' \in [Callers -> Call] /\ \A d \in Callers : Sound(call[d])'
    BY <1>3, <2>3, BecomeSound DEF FreezeInput
  <2> QED BY <1>3, <2>2, <2>4 DEF FreezeInput
<1>4. ASSUME NEW r \in Runs, StartHighlight(c, r) PROVE Typed'
  <2> DEFINE parts == stage[r]["assignment"].parts
             outputs == [s \in Stages |-> stage[r][s].revision]
             draft == [BlankDraft EXCEPT !.parts = parts]
  <2>1. parts \in Content /\ outputs \in [Stages -> Nat]
    BY ContentsTyped DEF Stages
  <2>2. draft \in Draft
    <3>1. PICK b \in Draft : b = BlankDraft
      BY BlankTyped
    <3> HIDE DEF parts
    <3> QED BY <2>1, <3>1 DEF Draft
  <2>3. Become(c, [IdleCall EXCEPT !.op = "video_highlight", !.pc = "working", !.run = r,
                      !.outputs = outputs, !.draft = [@ EXCEPT !.parts = parts]])
        /\ UNCHANGED <<project, run, stage, audio, render, edits, loaded>>
    BY <1>4 DEF StartHighlight
  <2>4. Become(c, [IdleCall EXCEPT !.op = "video_highlight", !.pc = "working", !.run = r,
                      !.outputs = outputs, !.draft = draft])
    BY <2>3 DEF IdleCall
  <2> HIDE DEF draft, outputs
  <2>5. Sound([IdleCall EXCEPT !.op = "video_highlight", !.pc = "working", !.run = r,
                  !.outputs = outputs, !.draft = draft])
    BY <1>1, <2>1, <2>2 DEF Sound, Call, Ops
  <2>6. call' \in [Callers -> Call] /\ \A d \in Callers : Sound(call[d])'
    BY <2>4, <2>5, BecomeSound
  <2> QED BY <2>3, <2>6
<1>5. CASE OpenRender(c)
  <2>1. call' \in [Callers -> Call] /\ \A d \in Callers : Sound(call[d])'
    BY <1>1, <1>5, OpenSound DEF OpenRender, Open
  <2> QED BY <1>5, <2>1 DEF OpenRender
<1>6. CASE CommitRender(c)
  <2> DEFINE new == [run |-> call[c].run, type |-> call[c].op, parts |-> call[c].draft.parts]
  <2>1. /\ call[c].op \in {"video", "video_highlight"}
        /\ project' = [project EXCEPT !.revision = @ + 1]
        /\ render' = render \cup {new}
        /\ Finish(c) /\ UNCHANGED <<run, stage, audio, edits, loaded>>
    BY <1>6 DEF CommitRender
  <2>2. project' \in Project
    <3>1. PICK n \in Nat : n = project.revision + 1
      BY <1>1 DEF Project
    <3>2. project' = [project EXCEPT !.revision = n]
      BY <1>1, <2>1, <3>1
    <3> QED BY <1>1, <3>2 DEF Project
  <2>3. new \in [run : Runs, type : {"video", "video_highlight"}, parts : Content]
    BY <1>1, <2>1 DEF Sound, Call, Draft
  <2>4. call' \in [Callers -> Call] /\ \A d \in Callers : Sound(call[d])'
    BY <2>1, FinishSound
  <2> HIDE DEF new
  <2> QED BY <2>1, <2>2, <2>3, <2>4
<1>7. ASSUME NEW r \in Runs, StartPreview(c, r) PROVE Typed'
  <2>1. Sound([IdleCall EXCEPT !.op = "preview", !.pc = "working", !.run = r,
                  !.draft = loaded[c]])
    BY <1>1 DEF Sound, Call, Ops
  <2>2. call' \in [Callers -> Call] /\ \A d \in Callers : Sound(call[d])'
    BY <1>7, <2>1, BecomeSound DEF StartPreview
  <2> QED BY <1>7, <2>2 DEF StartPreview
<1>8. CASE OpenPreview(c)
  <2>1. call' \in [Callers -> Call] /\ \A d \in Callers : Sound(call[d])'
    BY <1>1, <1>8, OpenSound DEF OpenPreview, Open
  <2> QED BY <1>8, <2>1 DEF OpenPreview
<1>9. CASE CommitPreview(c)
  <2> DEFINE new == [run |-> call[c].run, script |-> call[c].draft.parts["script"]]
  <2>1. /\ call[c].op = "preview" /\ audio' = audio \cup {new}
        /\ Finish(c) /\ UNCHANGED <<project, run, stage, render, edits, loaded>>
    BY <1>9 DEF CommitPreview
  <2>2. new \in [run : Runs, script : Nat]
    BY <1>1, <2>1 DEF Sound, Call, Draft, Content, Stages
  <2>3. call' \in [Callers -> Call] /\ \A d \in Callers : Sound(call[d])'
    BY <2>1, FinishSound
  <2> HIDE DEF new
  <2> QED BY <2>1, <2>2, <2>3
<1> QED BY <1>2, <1>3, <1>4, <1>5, <1>6, <1>7, <1>8, <1>9 DEF Media

LEMMA RefuseTyped ==
    ASSUME Typed, NEW c \in Callers, Refuse(c)
    PROVE  Typed'
<1>1. call' \in [Callers -> Call] /\ \A d \in Callers : Sound(call[d])'
  BY FinishSound DEF Refuse
<1> QED BY <1>1 DEF Refuse, Typed, TypeOK

LEMMA StepTyped ==
    ASSUME Typed, [Next]_vars
    PROVE  Typed'
<1>1. ASSUME NEW c \in Callers, Tab(c) \/ Review(c) \/ Generation(c) \/ Media(c) \/ Refuse(c)
      PROVE  Typed'
  BY <1>1, TabTyped, ReviewTyped, GenerationTyped, MediaTyped, RefuseTyped
<1>2. CASE Next
  BY <1>1, <1>2 DEF Next
<1>3. CASE UNCHANGED vars
  BY <1>3 DEF vars, Typed, TypeOK, Sound
<1> QED BY <1>2, <1>3

-----------------------------------------------------------------------------
(* Revisions *)

(* A step that revises no stage and does not take the last number back.    *)
LEMMA StagesKept ==
    ASSUME IInv, Typed',
           \A r \in Runs, s \in Stages : stage'[r][s].revision = stage[r][s].revision,
           project'.revision >= project.revision
    PROVE  Numbered' /\ RevisionsDistinct'
<1>1. project.revision \in Nat /\ project'.revision \in Nat
  BY DEF IInv, Typed, TypeOK, Project
<1>2. \A r \in Runs, s \in Stages : stage[r][s].revision \in Nat
  <2>1. stage \in [Runs -> [Stages -> Stage]]
    BY DEF IInv, TypeOK
  <2> QED BY <2>1 DEF Stage
<1>3. Numbered'
  BY <1>1, <1>2 DEF IInv, Numbered
<1>4. RevisionsDistinct'
  BY DEF IInv, RevisionsDistinct
<1> QED BY <1>3, <1>4

(* A stage that is confirmed gets a number that no stage has. *)
LEMMA ConfirmDistinct ==
    ASSUME IInv, NEW c \in Callers, CommitConfirm(c)
    PROVE  Numbered' /\ RevisionsDistinct'
<1> DEFINE r == call[c].run  s == Head(call[c].rest)
           n == project.revision + 1
           new == [revision |-> n, status |-> "confirmed",
                   parts |-> call[c].seen.draft.parts]
<1>1. project \in Project /\ project.revision \in Nat /\ n \in Nat
      /\ stage \in [Runs -> [Stages -> Stage]]
  BY DEF IInv, TypeOK, Project
<1>2. call[c].seen.revision + 1 = n
  BY DEF CommitConfirm, RevisionFree
<1>3. project' = [project EXCEPT !.revision = n] /\ stage' = [stage EXCEPT ![r][s] = new]
  BY <1>2 DEF CommitConfirm
<1>4. project'.revision = n
  BY <1>1, <1>3 DEF Project
<1>5. ASSUME NEW q \in Runs, NEW u \in Stages
      PROVE  /\ stage[q][u].revision \in Nat /\ stage[q][u].revision < n
             /\ stage'[q][u].revision = IF q = r /\ u = s THEN n ELSE stage[q][u].revision
  <2>1. stage[q][u] \in Stage
    BY <1>1
  <2>2. stage[q][u].revision \in Nat /\ stage[q][u].revision <= project.revision
    BY <2>1 DEF Stage, IInv, Numbered
  <2>3. stage'[q][u] = IF q = r /\ u = s THEN new ELSE stage[q][u]
    <3> HIDE DEF new, r, s
    <3> QED BY <1>1, <1>3
  <2>4. new.revision = n
    OBVIOUS
  <2> QED BY <1>1, <2>2, <2>3, <2>4
<1> HIDE DEF r, s, n, new
<1>6. Numbered'
  BY <1>1, <1>4, <1>5 DEF Numbered
<1>7. ASSUME NEW q \in Runs, NEW p \in Runs, NEW u \in Stages, NEW v \in Stages,
             stage'[q][u].revision = stage'[p][v].revision, stage'[q][u].revision > 0
      PROVE  q = p /\ u = v
  <2>1. CASE q = r /\ u = s
    BY <1>1, <1>5, <1>7, <2>1
  <2>2. CASE ~(q = r /\ u = s)
    <3>1. stage'[q][u].revision = stage[q][u].revision /\ stage[q][u].revision < n
          /\ stage[q][u].revision \in Nat
      BY <1>5, <2>2
    <3>2. CASE p = r /\ v = s
      <4>1. stage'[p][v].revision = n
        BY <1>5, <3>2
      <4>2. stage[q][u].revision = n
        BY <1>7, <3>1, <4>1
      <4>3. \A x \in Nat : ~(x < x)
        OBVIOUS
      <4> QED BY <3>1, <4>2, <4>3
    <3>3. CASE ~(p = r /\ v = s)
      <4>1. stage'[p][v].revision = stage[p][v].revision
        BY <1>5, <3>3
      <4>2. stage[q][u].revision = stage[p][v].revision /\ stage[q][u].revision > 0
        BY <1>7, <3>1, <4>1
      <4>3. RevisionsDistinct
        BY DEF IInv
      <4> QED BY <4>2, <4>3 DEF RevisionsDistinct
    <3> QED BY <3>2, <3>3
  <2> QED BY <2>1, <2>2
<1>8. RevisionsDistinct'
  BY <1>7 DEF RevisionsDistinct
<1> QED BY <1>6, <1>8

(* The other steps. *)
LEMMA RevisionGrows ==
    ASSUME IInv, NEW c \in Callers, ~CommitConfirm(c),
           Tab(c) \/ Review(c) \/ Generation(c) \/ Media(c) \/ Refuse(c)
    PROVE  /\ \A q \in Runs, s \in Stages : stage'[q][s].revision = stage[q][s].revision
           /\ project'.revision >= project.revision
<1> USE DEF IInv
<1>1. Typed /\ project \in Project /\ project.revision \in Nat
  BY DEF Typed, TypeOK, Project
<1>2. CASE Tab(c)
  <2>1. CASE CommitSave(c)
    <3>1. project'.revision = project.revision
      BY <1>1, <2>1 DEF CommitSave, Project
    <3> QED BY <1>1, <2>1, <3>1, MarkStaleTyped DEF CommitSave
  <2>2. CASE CommitPdf(c)
    <3>1. project'.revision = project.revision
      BY <2>2 DEF CommitPdf
    <3> QED BY <1>1, <2>2, <3>1, WithdrawTyped DEF CommitPdf
  <2>3. CASE Load(c) \/ OpensSave(c) \/ OpenPdf(c) \/ PdfStored(c)
    <3>1. UNCHANGED <<project, stage>>
      BY <2>3 DEF Load, OpensSave, OpenSave, OpenRename, OpenPdf, PdfStored
    <3> QED BY <1>1, <3>1
  <2> QED BY <1>2, <2>1, <2>2, <2>3 DEF Tab, OpensSave
<1>3. CASE Review(c)
  <2>1. UNCHANGED <<project, stage>>
    BY <1>3 DEF Review, StartConfirm, OpenConfirm
  <2> QED BY <1>1, <2>1
<1>4. CASE Generation(c)
  <2>1. CASE CommitRun(c)
    <3>1. project'.revision = project.revision
      BY <1>1, <2>1 DEF CommitRun, Project
    <3> QED BY <1>1, <2>1, <3>1, WithdrawTyped DEF CommitRun
  <2>2. CASE CommitGenerate(c) \/ CommitAssign(c)
    <3>1. UNCHANGED stage
      BY <2>2 DEF CommitGenerate, CommitAssign
    <3>2. project'.revision = project.revision + 1
      BY <1>1, <2>2 DEF CommitGenerate, CommitAssign, Project
    <3> QED BY <1>1, <3>1, <3>2
  <2>3. CASE (\E r \in Runs : OpenRun(c, r) \/ OpenGenerate(c, r) \/ StartAssign(c, r))
             \/ OpenAssign(c)
    <3>1. UNCHANGED <<project, stage>>
      BY <2>3 DEF OpenRun, OpenGenerate, StartAssign, OpenAssign
    <3> QED BY <1>1, <3>1
  <2> QED BY <1>4, <2>1, <2>2, <2>3 DEF Generation
<1>5. CASE Media(c)
  <2>1. CASE FreezeInput(c)
    <3>1. UNCHANGED stage /\ call[c].seen.revision = project.revision
      BY <2>1 DEF FreezeInput, RevisionFree
    <3>2. project'.revision = call[c].seen.revision + 1
      BY <1>1, <2>1 DEF FreezeInput, Project
    <3> QED BY <1>1, <3>1, <3>2
  <2>2. CASE CommitRender(c)
    <3>1. UNCHANGED stage
      BY <2>2 DEF CommitRender
    <3>2. project'.revision = project.revision + 1
      BY <1>1, <2>2 DEF CommitRender, Project
    <3> QED BY <1>1, <3>1, <3>2
  <2>3. CASE (\E r \in Runs : OpenVideo(c, r) \/ StartHighlight(c, r) \/ StartPreview(c, r))
             \/ OpenRender(c) \/ OpenPreview(c) \/ CommitPreview(c)
    <3>1. UNCHANGED <<project, stage>>
      BY <2>3 DEF OpenVideo, StartHighlight, StartPreview, OpenRender, OpenPreview, CommitPreview
    <3> QED BY <1>1, <3>1
  <2> QED BY <1>5, <2>1, <2>2, <2>3 DEF Media
<1>6. CASE Refuse(c)
  BY <1>1, <1>6 DEF Refuse
<1> QED BY <1>2, <1>3, <1>4, <1>5, <1>6

-----------------------------------------------------------------------------
(* The theorems *)

LEMMA IInvHolds == Spec => []IInv
<1>1. Init => IInv
  <2> SUFFICES ASSUME Init PROVE IInv
    OBVIOUS
  <2>1. TypeOK
    <3>1. run \in [Runs -> Run]
      BY DEF Init, Run
    <3>2. stage \in [Runs -> [Stages -> Stage]]
      BY BlankTyped DEF Init, Stage
    <3>3. call \in [Callers -> Call]
      BY BlankTyped DEF Init, Sound
    <3> QED BY <3>1, <3>2, <3>3, BlankTyped DEF Init, TypeOK
  <2>2. \A c \in Callers : Sound(call[c])
    BY BlankTyped DEF Init
  <2>3. \A r \in Runs, s \in Stages : stage[r][s].revision = 0
    BY DEF Init
  <2>4. project.revision = 0
    BY DEF Init, BlankProject
  <2> QED BY <2>1, <2>2, <2>3, <2>4 DEF IInv, Numbered, RevisionsDistinct
<1>2. IInv /\ [Next]_vars => IInv'
  <2> SUFFICES ASSUME IInv, [Next]_vars PROVE IInv'
    OBVIOUS
  <2>1. Typed
    BY DEF IInv, Typed
  <2>2. Typed'
    BY <2>1, StepTyped
  <2>3. Numbered' /\ RevisionsDistinct'
    <3>1. ASSUME NEW c \in Callers,
                 Tab(c) \/ Review(c) \/ Generation(c) \/ Media(c) \/ Refuse(c)
          PROVE  Numbered' /\ RevisionsDistinct'
      <4>1. CASE CommitConfirm(c)
        BY <4>1, ConfirmDistinct
      <4>2. CASE ~CommitConfirm(c)
        BY <2>2, <3>1, <4>2, RevisionGrows, StagesKept
      <4> QED BY <4>1, <4>2
    <3>2. CASE Next
      BY <3>1, <3>2 DEF Next
    <3>3. CASE UNCHANGED vars
      BY <3>3 DEF vars, IInv, Numbered, RevisionsDistinct
    <3> QED BY <3>2, <3>3
  <2> QED BY <2>2, <2>3 DEF IInv, Typed
<1> QED BY <1>1, <1>2, PTL DEF Spec

(* Every variable keeps its type: whatever operations overlap, a draft     *)
(* always has a content for each part, and a call that confirms or         *)
(* generates always names a run of the table.                              *)
THEOREM StoreTypeCorrect == Spec => []TypeOK
<1>1. IInv => TypeOK
  BY DEF IInv
<1> QED BY <1>1, IInvHolds, PTL

(* Two confirmed stages never have the same output revision, however many  *)
(* confirmations (confirm_review_stage) and frozen render inputs race for  *)
(* the next number.                                                        *)
THEOREM ConfirmationsDistinct == Spec => []RevisionsDistinct
<1>1. IInv => RevisionsDistinct
  BY DEF IInv
<1> QED BY <1>1, IInvHolds, PTL

-----------------------------------------------------------------------------
(* One operation at a time                                                 *)
(*                                                                         *)
(* With MaxOpen = 1 the database works as if operations were serialised:   *)
(* what an operation has read and checked still holds when it writes.  The *)
(* calls that work for minutes are not open meanwhile, and an open call    *)
(* meets none of the others.                                               *)

IsOpen(c) == call[c].pc \in {"upload", "freeze", "open"}

(* Where the operations can be. *)
Shape(k) ==
    /\ k.op \in {"autosave", "save", "rename", "run", "generate"} => k.pc = "open"
    /\ k.op = "pdf" => k.pc \in {"upload", "open"}
    /\ k.pc = "upload" => k.op = "pdf"
    /\ k.pc = "freeze" => k.op = "video"
    /\ k.pc = "idle" => k.op = "none"
    /\ k.op \notin {"confirm", "generate"} => k.rest = <<>>

(* What the operation of c has checked when it was opened. *)
Checked(c) ==
    /\ call[c].op = "run" => run[call[c].run].status = "none"
    /\ call[c].op = "generate" => RunCurrent(call[c].run)
    /\ call[c].op = "confirm" => Confirmable(c)
    /\ call[c].op = "assign" => ContextCurrent(c)
    /\ call[c].op \in {"video", "video_highlight"} => RenderInputCurrent(c)
    /\ call[c].op = "preview" => ScriptCurrent(call[c].run, call[c].draft.parts)
    /\ call[c].op \in {"autosave", "save", "rename", "generate", "assign"} =>
           call[c].draft.version = project.draft.version + 1

Shaped == \A c \in Callers : Shape(call[c])
Alone == \A c, d \in Callers : IsOpen(c) /\ IsOpen(d) => c = d
UpToDate == \A c \in Callers : IsOpen(c) => call[c].seen = project /\ Checked(c)

(* The active run is the only live one, and the only one whose stages are  *)
(* confirmed.                                                              *)
LiveIsActive == \A r \in Runs : run[r].status = "live" <=> project.active = r
GeneratedExists == \A r \in Runs : run[r].generated => run[r].status # "none"
ConfirmedIsActive == \A r \in Runs, s \in Stages : Confirmed(r, s) => project.active = r

SInv ==
    /\ Shaped /\ Alone /\ UpToDate
    /\ LiveIsActive /\ GeneratedExists /\ ConfirmedIsActive /\ StageOrder

-----------------------------------------------------------------------------
(* What the steps do to calls and stages *)

(* Only the call of c changes. *)
OnlyCall(c) == \A d \in Callers : d # c => call'[d] = call[d]

LEMMA BecomeCall ==
    ASSUME Typed, NEW c \in Callers, NEW rec, Become(c, rec)
    PROVE  call'[c] = rec /\ OnlyCall(c)
BY DEF Typed, TypeOK, Become, OnlyCall

LEMMA FinishCall ==
    ASSUME Typed, NEW c \in Callers, Finish(c)
    PROVE  /\ call'[c] = IdleCall /\ OnlyCall(c)
           /\ Shape(call'[c]) /\ ~IsOpen(c)' /\ call'[c].op = "none" /\ call'[c].rest = <<>>
<1>1. call'[c] = IdleCall /\ OnlyCall(c)
  BY BecomeCall DEF Finish
<1> QED BY <1>1 DEF Shape, IsOpen, IdleCall

(* An operation is opened when no other one is open. *)
LEMMA NobodyOpen ==
    ASSUME MaxOpen = 1, Alone, Cardinality(Opened) < MaxOpen
    PROVE  \A d \in Callers : ~IsOpen(d)
<1> SUFFICES ASSUME NEW d \in Callers, IsOpen(d) PROVE FALSE
  OBVIOUS
<1>1. Opened = {d}
  BY DEF Opened, IsOpen, Alone
<1>2. Cardinality(Opened) = 1
  BY <1>1, FS_Singleton
<1> QED BY <1>2

LEMMA OpenedCall ==
    ASSUME MaxOpen = 1, Alone, Typed, NEW c \in Callers, NEW rec, Sound(rec),
           NEW pc \in {"upload", "freeze", "open"}, OpenAt(c, rec, pc)
    PROVE  /\ OnlyCall(c) /\ \A d \in Callers : ~IsOpen(d)
           /\ call'[c].pc = pc /\ call'[c].seen = project
           /\ call'[c].op = rec.op /\ call'[c].run = rec.run /\ call'[c].draft = rec.draft
           /\ call'[c].outputs = rec.outputs /\ call'[c].rest = rec.rest
<1>1. call'[c] = [rec EXCEPT !.pc = pc, !.seen = project] /\ OnlyCall(c)
  BY BecomeCall DEF OpenAt
<1>2. rec \in Call
  BY DEF Sound
<1>3. \A d \in Callers : ~IsOpen(d)
  BY NobodyOpen DEF OpenAt
<1> QED BY <1>1, <1>2, <1>3 DEF Call

LEMMA StaleStages ==
    ASSUME Typed, NEW r, NEW S, MarkStale(r, S), NEW q \in Runs, NEW s \in Stages
    PROVE  /\ stage'[q][s].parts = stage[q][s].parts
           /\ stage'[q][s].revision = stage[q][s].revision
           /\ Confirmed(q, s)' <=> Confirmed(q, s) /\ ~(q = r /\ s \in S)
<1>1. stage[q][s] \in Stage
  BY DEF Typed, TypeOK
<1>2. stage'[q][s] = IF q = r /\ s \in S /\ Confirmed(q, s)
                     THEN [stage[q][s] EXCEPT !.status = "stale"] ELSE stage[q][s]
  BY DEF MarkStale
<1>3. CASE q = r /\ s \in S /\ Confirmed(q, s)
  <2>1. /\ stage'[q][s].parts = stage[q][s].parts
        /\ stage'[q][s].revision = stage[q][s].revision /\ stage'[q][s].status = "stale"
    BY <1>1, <1>2, <1>3 DEF Stage
  <2> QED BY <1>3, <2>1 DEF Confirmed
<1>4. CASE ~(q = r /\ s \in S /\ Confirmed(q, s))
  BY <1>2, <1>4 DEF Confirmed
<1> QED BY <1>3, <1>4

(* When the active run stops being it, no stage stays confirmed. *)
LEMMA WithdrawnStages ==
    ASSUME Typed, SInv, Withdraw(project.active), NEW q \in Runs, NEW s \in Stages
    PROVE  /\ stage'[q][s].parts = stage[q][s].parts
           /\ stage'[q][s].revision = stage[q][s].revision
           /\ ~Confirmed(q, s)'
BY StaleStages DEF Withdraw, SInv, ConfirmedIsActive

(* The active run is live, so that it is superseded. *)
LEMMA SupersededStatus ==
    ASSUME Typed, SInv, NEW q \in Runs
    PROVE  /\ SupersededRun(project.active)[q].generated = run[q].generated
           /\ SupersededRun(project.active)[q].status =
                  IF q = project.active THEN "superseded" ELSE run[q].status
<1>1. run[q] \in Run
  BY DEF Typed, TypeOK
<1>2. SupersededRun(project.active)[q] =
          IF q = project.active /\ run[q].status = "live"
          THEN [run[q] EXCEPT !.status = "superseded"] ELSE run[q]
  BY DEF SupersededRun
<1>3. run[q].status = "live" <=> project.active = q
  BY DEF SInv, LiveIsActive
<1> QED BY <1>1, <1>2, <1>3 DEF Run

-----------------------------------------------------------------------------
(* What each operation does, step by step                                  *)

(* c moves on; nothing is written. *)
Quiet(c) == OnlyCall(c) /\ UNCHANGED <<project, run, stage, audio, render>>

(* c reads and checks: nobody else is open. *)
Opens(c) ==
    /\ Quiet(c) /\ \A d \in Callers : ~IsOpen(d)
    /\ call'[c].seen = project

(* c writes what it was opened for. *)
Commits(c) ==
    /\ OnlyCall(c) /\ IsOpen(c) /\ call[c].seen = project /\ Checked(c) /\ ~IsOpen(c)'
    /\ \A d \in Callers : d # c => ~IsOpen(d)

LEMMA Committed ==
    ASSUME SInv, NEW c \in Callers, call[c].pc = "open" \/ call[c].pc = "freeze",
           OnlyCall(c), ~IsOpen(c)'
    PROVE  Commits(c)
BY DEF SInv, Alone, UpToDate, Commits, IsOpen

LEMMA OpenSaveEffect ==
    ASSUME MaxOpen = 1, Typed, SInv, NEW c \in Callers, OpensSave(c)
    PROVE  /\ Opens(c) /\ call'[c].pc = "open" /\ call'[c].op \in Saves
           /\ call'[c].rest = <<>> /\ call'[c].draft.version = project.draft.version + 1
           /\ UNCHANGED loaded
<1>1. Alone /\ UNCHANGED <<project, run, stage, audio, render, loaded>>
  BY DEF SInv, OpensSave, OpenSave, OpenRename
<1>2. PICK d \in Draft, op \in Saves :
          d.version = project.draft.version + 1 /\ OpenAt(c, SaveOf(d, op), "open")
  BY SaveIsOpened DEF Open, Saves
<1>3. /\ OnlyCall(c) /\ \A e \in Callers : ~IsOpen(e)
      /\ call'[c].pc = "open" /\ call'[c].seen = project
      /\ call'[c].op = op /\ call'[c].draft = d /\ call'[c].rest = <<>>
  BY <1>1, <1>2, SaveSound, OpenedCall
<1> QED BY <1>1, <1>2, <1>3 DEF Opens, Quiet

LEMMA CommitSaveEffect ==
    ASSUME Typed, SInv, NEW c \in Callers, CommitSave(c)
    PROVE  LET S == Changed(project.draft.parts, call[c].draft.parts) IN
           /\ Commits(c) /\ call[c].op \in Saves /\ Shape(call'[c])
           /\ call'[c].op = "none" /\ call'[c].rest = <<>>
           /\ project'.draft = call[c].draft /\ project'.active = project.active
           /\ project'.revision = project.revision
           /\ run' = run /\ MarkStale(project.active, Invalidated(S))
           /\ audio' = (IF "script" \in S THEN {} ELSE audio)
           /\ render' = (IF S # {} THEN {} ELSE render)
<1>1. Commits(c)
  BY Committed, FinishCall DEF CommitSave
<1>2. call[c].seen = project /\ project \in Project
  BY <1>1 DEF Commits, Typed, TypeOK
<1>3. project' = [project EXCEPT !.draft = call[c].draft] /\ Finish(c)
  BY DEF CommitSave
<1>4. /\ project'.draft = call[c].draft /\ project'.active = project.active
      /\ project'.revision = project.revision
  BY <1>2, <1>3 DEF Project
<1> QED BY <1>1, <1>2, <1>3, <1>4, FinishCall DEF CommitSave

LEMMA OpenPdfEffect ==
    ASSUME MaxOpen = 1, Typed, SInv, NEW c \in Callers, OpenPdf(c)
    PROVE  /\ Opens(c) /\ call'[c].pc = "upload" /\ call'[c].op = "pdf" /\ call'[c].rest = <<>>
           /\ UNCHANGED loaded
<1> DEFINE k == [IdleCall EXCEPT !.op = "pdf"]
<1>1. Alone /\ Sound(IdleCall) /\ IdleCall \in Call
  BY BlankTyped DEF SInv, Sound
<1>2. k.op = "pdf" /\ k.rest = <<>> /\ Sound(k)
  BY <1>1 DEF Sound, Call, Ops, IdleCall
<1>3. OpenAt(c, k, "upload") /\ UNCHANGED <<project, run, stage, audio, render, loaded>>
  BY DEF OpenPdf
<1> HIDE DEF k
<1>4. /\ OnlyCall(c) /\ \A e \in Callers : ~IsOpen(e)
      /\ call'[c].pc = "upload" /\ call'[c].seen = project
      /\ call'[c].op = k.op /\ call'[c].rest = k.rest
  BY <1>1, <1>2, <1>3, OpenedCall
<1> QED BY <1>2, <1>3, <1>4 DEF Opens, Quiet

LEMMA PdfStoredEffect ==
    ASSUME Typed, SInv, NEW c \in Callers, PdfStored(c)
    PROVE  /\ Quiet(c) /\ IsOpen(c) /\ call'[c].seen = project /\ call[c].op = "pdf"
           /\ call'[c].pc = "open" /\ call'[c].op = "pdf" /\ call'[c].rest = <<>>
           /\ UNCHANGED loaded
<1>1. IsOpen(c) /\ UNCHANGED <<project, run, stage, audio, render, loaded>>
  BY DEF PdfStored, IsOpen
<1>2. call'[c] = [call[c] EXCEPT !.pc = "open", !.seen = [@ EXCEPT !.draft = project.draft]]
      /\ OnlyCall(c)
  BY BecomeCall DEF PdfStored
<1>3. call[c] \in Call /\ call[c].seen = project /\ project \in Project /\ call[c].op = "pdf"
      /\ call[c].rest = <<>>
  BY <1>1 DEF Typed, TypeOK, SInv, UpToDate, Shaped, Shape, PdfStored
<1>4. [project EXCEPT !.draft = project.draft] = project
  BY <1>3 DEF Project
<1> QED BY <1>1, <1>2, <1>3, <1>4 DEF Call, Quiet

LEMMA CommitPdfEffect ==
    ASSUME Typed, SInv, NEW c \in Callers, CommitPdf(c)
    PROVE  /\ Commits(c) /\ call[c].op = "pdf" /\ Shape(call'[c])
           /\ call'[c].op = "none" /\ call'[c].rest = <<>>
           /\ project'.draft.version = project.draft.version + 1 /\ project'.active = None
           /\ project'.revision = project.revision
           /\ run' = SupersededRun(project.active) /\ Withdraw(project.active)
           /\ UNCHANGED loaded
<1>1. Commits(c)
  BY Committed, FinishCall DEF CommitPdf
<1>2. call[c].seen = project
  BY <1>1 DEF Commits
<1>3. project' = [source |-> project.source + 1, active |-> None,
                  draft |-> [BlankDraft EXCEPT !.version = project.draft.version + 1],
                  revision |-> project.revision]
      /\ Finish(c)
  BY <1>2 DEF CommitPdf
<1>4. project'.draft.version = project.draft.version + 1
  BY <1>3, BlankTyped DEF Draft
<1> QED BY <1>1, <1>2, <1>3, <1>4, FinishCall DEF CommitPdf

LEMMA StartConfirmEffect ==
    ASSUME Typed, NEW c \in Callers, NEW r \in Runs, NEW s \in Stages, StartConfirm(c, r, s)
    PROVE  /\ Quiet(c) /\ call'[c].pc = "between" /\ call'[c].op = "confirm"
           /\ call'[c].run = r /\ Idle(c) /\ UNCHANGED loaded
           /\ call'[c].rest \in {<<"layout", "script">>, <<s>>}
           /\ call'[c].rest = <<"layout", "script">> => s = "script"
           /\ run[r].generated \/ s = "layout"
           /\ s = "assignment" /\ OneReviewer => \A d \in Callers : call[d].op # "assign"
<1> DEFINE rest == IF s = "script" /\ Mode[r] = "hl" /\ ~Confirmed(r, "layout")
                   THEN <<"layout", "script">> ELSE <<s>>
           k == [IdleCall EXCEPT !.op = "confirm", !.pc = "between", !.run = r,
                    !.draft = loaded[c], !.rest = rest]
<1>1. Become(c, k) /\ Idle(c) /\ UNCHANGED <<project, run, stage, audio, render, loaded>>
      /\ (run[r].generated \/ s = "layout")
      /\ (s = "assignment" /\ OneReviewer => \A d \in Callers : call[d].op # "assign")
  BY DEF StartConfirm, Begins
<1>2. rest \in {<<"layout", "script">>, <<s>>} /\ (rest = <<"layout", "script">> => s = "script")
  <2>1. <<"layout", "script">> # <<s>>
    <3>1. Len(<<"layout", "script">>) = 2 /\ Len(<<s>>) = 1
      OBVIOUS
    <3> QED BY <3>1
  <2> QED BY <2>1
<1> HIDE DEF rest
<1>3. k.op = "confirm" /\ k.pc = "between" /\ k.run = r /\ k.rest = rest
  BY DEF IdleCall
<1> HIDE DEF k
<1>4. OnlyCall(c) /\ call'[c] = k
  BY <1>1, BecomeCall
<1> QED BY <1>1, <1>2, <1>3, <1>4 DEF Quiet

LEMMA OpenConfirmEffect ==
    ASSUME MaxOpen = 1, Typed, SInv, NEW c \in Callers, OpenConfirm(c)
    PROVE  /\ Opens(c) /\ call'[c].pc = "open" /\ call'[c].op = "confirm" /\ call[c].op = "confirm"
           /\ call'[c].run = call[c].run /\ call'[c].draft = call[c].draft
           /\ call'[c].rest = call[c].rest /\ Confirmable(c) /\ UNCHANGED loaded
<1>1. /\ call[c].op = "confirm" /\ Confirmable(c) /\ OpenAt(c, call[c], "open")
      /\ UNCHANGED <<project, run, stage, audio, render, loaded>>
  BY DEF OpenConfirm, Open
<1>2. Alone /\ Sound(call[c])
  BY DEF SInv, Typed
<1> QED BY <1>1, <1>2, OpenedCall DEF Opens, Quiet

LEMMA CommitConfirmEffect ==
    ASSUME Typed, SInv, NEW c \in Callers, CommitConfirm(c)
    PROVE  LET r == call[c].run  s == Head(call[c].rest) IN
           /\ Commits(c) /\ call[c].op = "confirm" /\ Shape(call'[c])
           /\ call'[c].op \in {"none", "confirm"}
           /\ call'[c].op = "confirm" => call'[c].run = r
           /\ ToConfirm(c)' \subseteq ToConfirm(c)
           /\ r \in Runs /\ s \in Stages /\ s \in ToConfirm(c) /\ Confirmable(c)
           /\ project'.draft = project.draft /\ project'.active = project.active
           /\ project'.revision = project.revision + 1
           /\ \A q \in Runs, u \in Stages :
                 /\ Confirmed(q, u)' <=> Confirmed(q, u) \/ (q = r /\ u = s)
                 /\ q = r /\ u = s => /\ stage'[q][u].parts = project.draft.parts
                                      /\ stage'[q][u].revision = project.revision + 1
                 /\ ~(q = r /\ u = s) => stage'[q][u] = stage[q][u]
           /\ UNCHANGED <<run, audio, render, loaded>>
<1> DEFINE r == call[c].run  s == Head(call[c].rest)
           new == [revision |-> project.revision + 1, status |-> "confirmed",
                   parts |-> project.draft.parts]
<1>1. /\ call[c] \in Call /\ Sound(call[c]) /\ project \in Project
      /\ stage \in [Runs -> [Stages -> Stage]]
      /\ call[c].op = "confirm" /\ call[c].pc = "open"
  BY DEF Typed, TypeOK, CommitConfirm
<1>2. call[c].seen = project /\ Confirmable(c)
  BY <1>1 DEF SInv, UpToDate, Checked, IsOpen
<1>3. /\ project' = [project EXCEPT !.revision = project.revision + 1]
      /\ stage' = [stage EXCEPT ![r][s] = new]
      /\ UNCHANGED <<run, audio, render, loaded>>
  BY <1>2 DEF CommitConfirm
<1>4. PICK rest \in Seq(Stages) : rest = call[c].rest
  BY <1>1 DEF Call
<1>5. rest # <<>> /\ r \in Runs
  BY <1>1, <1>4 DEF Sound
<1>6. Len(rest) \in Nat /\ Len(rest) # 0 /\ Head(rest) = rest[1] /\ Head(rest) \in Stages
  BY <1>5, EmptySeq, HeadTailProperties
<1>7. s \in Stages /\ s \in ToConfirm(c)
  BY <1>4, <1>6 DEF ToConfirm
<1>8. /\ OnlyCall(c) /\ Shape(call'[c]) /\ ~IsOpen(c)' /\ call'[c].op \in {"none", "confirm"}
      /\ (call'[c].op = "confirm" => call'[c].run = r)
      /\ ToConfirm(c)' \subseteq ToConfirm(c)
  <2>1. CASE Len(call[c].rest) = 1
    <3>1. Finish(c)
      BY <2>1 DEF CommitConfirm
    <3>2. Len(<<>>) = 0
      OBVIOUS
    <3>3. ToConfirm(c)' = {}
      BY <3>1, <3>2, FinishCall DEF ToConfirm
    <3> QED BY <3>1, <3>3, FinishCall
  <2>2. CASE Len(call[c].rest) # 1
    <3> DEFINE tail == Tail(rest)
               k == [call[c] EXCEPT !.pc = "between", !.rest = tail, !.seen = BlankProject]
    <3>1. Become(c, k)
      BY <1>4, <2>2 DEF CommitConfirm
    <3>2. k.pc = "between" /\ k.op = "confirm" /\ k.run = r /\ k.rest = tail
      BY <1>1 DEF Call
    <3>3. Len(tail) = Len(rest) - 1 /\ \A n \in 1..Len(tail) : tail[n] = rest[n + 1]
      BY <1>4, <1>5, HeadTailProperties
    <3> HIDE DEF k, tail
    <3>4. OnlyCall(c) /\ call'[c] = k
      BY <3>1, BecomeCall
    <3>5. ASSUME NEW x \in ToConfirm(c)' PROVE x \in ToConfirm(c)
      <4>1. PICK n \in 1..Len(tail) : x = tail[n]
        BY <3>2, <3>4, <3>5 DEF ToConfirm
      <4>2. n + 1 \in 1..Len(rest) /\ x = rest[n + 1]
        BY <1>6, <3>3, <4>1
      <4> QED BY <1>4, <4>2 DEF ToConfirm
    <3> QED BY <3>2, <3>4, <3>5 DEF Shape, IsOpen
  <2> QED BY <2>1, <2>2
<1>9. Commits(c)
  BY <1>1, <1>8, Committed
<1>10. /\ project'.draft = project.draft /\ project'.active = project.active
       /\ project'.revision = project.revision + 1
  BY <1>1, <1>3 DEF Project
<1>11. new.status = "confirmed" /\ new.parts = project.draft.parts
       /\ new.revision = project.revision + 1
  OBVIOUS
<1>12. ASSUME NEW q \in Runs, NEW u \in Stages
       PROVE  stage'[q][u] = IF q = r /\ u = s THEN new ELSE stage[q][u]
  <2> HIDE DEF new, r, s
  <2> QED BY <1>1, <1>3
<1> HIDE DEF new
<1> QED BY <1>1, <1>2, <1>3, <1>5, <1>7, <1>8, <1>9, <1>10, <1>11, <1>12 DEF Confirmed

LEMMA OpenRunEffect ==
    ASSUME MaxOpen = 1, Typed, SInv, NEW c \in Callers, NEW r \in Runs, OpenRun(c, r)
    PROVE  /\ Opens(c) /\ call'[c].pc = "open" /\ call'[c].op = "run" /\ call'[c].rest = <<>>
           /\ call'[c].run = r /\ run[r].status = "none" /\ UNCHANGED loaded
<1> DEFINE k == [IdleCall EXCEPT !.op = "run", !.run = r]
<1>1. Alone /\ Sound(IdleCall) /\ IdleCall \in Call
  BY BlankTyped DEF SInv, Sound
<1>2. k.op = "run" /\ k.rest = <<>> /\ k.run = r /\ Sound(k)
  BY <1>1 DEF Sound, Call, Ops, IdleCall
<1>3. OpenAt(c, k, "open") /\ run[r].status = "none"
      /\ UNCHANGED <<project, run, stage, audio, render, loaded>>
  BY DEF OpenRun, Open
<1> HIDE DEF k
<1>4. /\ OnlyCall(c) /\ \A e \in Callers : ~IsOpen(e)
      /\ call'[c].pc = "open" /\ call'[c].seen = project
      /\ call'[c].op = k.op /\ call'[c].rest = k.rest /\ call'[c].run = k.run
  BY <1>1, <1>2, <1>3, OpenedCall
<1> QED BY <1>2, <1>3, <1>4 DEF Opens, Quiet

LEMMA CommitRunEffect ==
    ASSUME Typed, SInv, NEW c \in Callers, CommitRun(c)
    PROVE  LET r == call[c].run IN
           /\ Commits(c) /\ call[c].op = "run" /\ Shape(call'[c]) /\ r \in Runs
           /\ run[r].status = "none" /\ ~run[r].generated
           /\ call'[c].op = "none" /\ call'[c].rest = <<>>
           /\ project'.draft = project.draft /\ project'.active = r
           /\ project'.revision = project.revision
           /\ \A q \in Runs : /\ run'[q].generated = run[q].generated
                              /\ run'[q].status = IF q = r THEN "live"
                                                  ELSE IF q = project.active THEN "superseded"
                                                  ELSE run[q].status
           /\ Withdraw(project.active) /\ UNCHANGED loaded
<1> DEFINE r == call[c].run
           new == [status |-> "live", source |-> project.source, generated |-> FALSE]
<1>1. /\ call[c] \in Call /\ project \in Project /\ run \in [Runs -> Run] /\ r \in Runs
      /\ call[c].op = "run" /\ call[c].pc = "open"
  BY DEF Typed, TypeOK, Sound, CommitRun, SInv, Shaped, Shape
<1>2. Commits(c) /\ call[c].seen = project
  BY <1>1, Committed, FinishCall DEF CommitRun, Commits
<1>3. run[r].status = "none" /\ ~run[r].generated
  BY <1>1, <1>2 DEF Commits, Checked, SInv, GeneratedExists
<1>4. /\ project' = [project EXCEPT !.active = r] /\ Withdraw(project.active)
      /\ run' = [SupersededRun(project.active) EXCEPT ![r] = new] /\ Finish(c) /\ UNCHANGED loaded
  BY <1>2 DEF CommitRun
<1>5. /\ project'.draft = project.draft /\ project'.active = r
      /\ project'.revision = project.revision
  BY <1>1, <1>4 DEF Project
<1>6. ASSUME NEW q \in Runs
      PROVE  run'[q] = IF q = r THEN new ELSE SupersededRun(project.active)[q]
  <2>1. SupersededRun(project.active) \in [Runs -> Run]
    BY SupersededTyped
  <2> HIDE DEF new, r
  <2> QED BY <1>4, <2>1
<1>7. new.status = "live" /\ new.generated = FALSE
  OBVIOUS
<1> HIDE DEF new
<1>8. ASSUME NEW q \in Runs
      PROVE  /\ run'[q].generated = run[q].generated
             /\ run'[q].status = IF q = r THEN "live"
                                 ELSE IF q = project.active THEN "superseded" ELSE run[q].status
  <2>1. run[q].generated \in BOOLEAN
    BY <1>1 DEF Run
  <2>2. CASE q = r
    BY <1>3, <1>6, <1>7, <2>1, <2>2
  <2>3. CASE q # r
    BY <1>6, <2>3, SupersededStatus
  <2> HIDE DEF r
  <2> QED BY <2>2, <2>3
<1> QED BY <1>1, <1>2, <1>3, <1>4, <1>5, <1>8, FinishCall

LEMMA OpenGenerateEffect ==
    ASSUME MaxOpen = 1, Typed, SInv, NEW c \in Callers, NEW r \in Runs, OpenGenerate(c, r)
    PROVE  /\ Opens(c) /\ call'[c].pc = "open" /\ call'[c].op = "generate"
           /\ call'[c].run = r /\ RunCurrent(r) /\ (run[r].generated => Retry)
           /\ call'[c].draft.version = project.draft.version + 1
           /\ Confirmed(r, "layout") =>
                 call'[c].draft.parts["layout"] = stage[r]["layout"].parts["layout"]
           /\ UNCHANGED loaded
<1> DEFINE parts == [KeptHighlights(r) EXCEPT !["script"] = Fresh]
           draft == [version |-> project.draft.version + 1, parts |-> parts, partial |-> None]
           k == [IdleCall EXCEPT !.op = "generate", !.run = r, !.draft = draft,
                    !.rest = AutoConfirmed(r)]
<1>1. Alone /\ Sound(IdleCall) /\ IdleCall \in Call /\ project \in Project
  BY BlankTyped DEF SInv, Sound, Typed, TypeOK
<1>2. /\ OpenAt(c, k, "open") /\ RunCurrent(r) /\ (run[r].generated => Retry)
      /\ UNCHANGED <<project, run, stage, audio, render, loaded>>
  BY DEF OpenGenerate, Open
<1>3. KeptHighlights(r) \in Content /\ parts \in Content
  BY ContentsTyped DEF Content
<1>4. Confirmed(r, "layout") => parts["layout"] = stage[r]["layout"].parts["layout"]
  BY <1>3 DEF KeptHighlights, Content, Stages
<1>5. draft \in Draft /\ draft.version = project.draft.version + 1 /\ draft.parts = parts
  <2> HIDE DEF parts
  <2>1. project.draft.version + 1 \in Nat
    BY <1>1 DEF Project, Draft
  <2> QED BY <1>3, <2>1 DEF Draft
<1>6. AutoConfirmed(r) \in Seq(Stages)
  <2>1. /\ <<>> \in Seq(Stages) /\ <<"script">> \in Seq(Stages)
        /\ <<"layout", "script", "assignment">> \in Seq(Stages)
    BY DEF Stages
  <2> QED BY <2>1 DEF AutoConfirmed
<1> HIDE DEF draft, parts
<1>7. k.op = "generate" /\ k.run = r /\ k.draft = draft /\ Sound(k)
  BY <1>1, <1>5, <1>6 DEF Sound, Call, Ops, IdleCall
<1> HIDE DEF k
<1>8. /\ OnlyCall(c) /\ \A e \in Callers : ~IsOpen(e)
      /\ call'[c].pc = "open" /\ call'[c].seen = project
      /\ call'[c].op = k.op /\ call'[c].draft = k.draft /\ call'[c].run = k.run
  BY <1>1, <1>2, <1>7, OpenedCall
<1> QED BY <1>2, <1>4, <1>5, <1>7, <1>8 DEF Opens, Quiet

LEMMA CommitGenerateEffect ==
    ASSUME Typed, SInv, NEW c \in Callers, CommitGenerate(c)
    PROVE  LET r == call[c].run IN
           /\ Commits(c) /\ call[c].op = "generate" /\ Shape(call'[c])
           /\ r \in Runs /\ RunCurrent(r)
           /\ call'[c].op \in {"none", "confirm"}
           /\ call'[c].op = "none" => call'[c].rest = <<>>
           /\ call'[c].op = "confirm" => call'[c].run = r /\ call'[c].rest = call[c].rest
           /\ project'.draft = call[c].draft /\ project'.active = r
           /\ project'.revision = project.revision + 1
           /\ \A q \in Runs : /\ run'[q].status = run[q].status
                              /\ run'[q].generated = IF q = r THEN TRUE ELSE run[q].generated
           /\ UNCHANGED <<stage, audio, render, loaded>>
<1> DEFINE r == call[c].run
<1>1. /\ call[c] \in Call /\ project \in Project /\ run \in [Runs -> Run] /\ r \in Runs
      /\ call[c].op = "generate" /\ call[c].pc = "open"
  BY DEF Typed, TypeOK, Sound, CommitGenerate, SInv, Shaped, Shape
<1>2. /\ project' = [project EXCEPT !.draft = call[c].draft, !.active = r, !.revision = @ + 1]
      /\ run' = [run EXCEPT ![r].generated = TRUE]
      /\ UNCHANGED <<stage, audio, render, loaded>>
  BY DEF CommitGenerate
<1>3. /\ OnlyCall(c) /\ Shape(call'[c]) /\ ~IsOpen(c)' /\ call'[c].op \in {"none", "confirm"}
      /\ (call'[c].op = "none" => call'[c].rest = <<>>)
      /\ (call'[c].op = "confirm" => call'[c].run = r /\ call'[c].rest = call[c].rest)
  <2>1. CASE call[c].rest = <<>>
    <3>1. Finish(c)
      BY <2>1 DEF CommitGenerate
    <3> QED BY <3>1, FinishCall
  <2>2. CASE call[c].rest # <<>>
    <3> DEFINE k == [call[c] EXCEPT !.op = "confirm", !.pc = "between", !.seen = BlankProject]
    <3>1. Become(c, k)
      BY <2>2 DEF CommitGenerate
    <3>2. k.pc = "between" /\ k.op = "confirm" /\ k.run = r /\ k.rest = call[c].rest
      BY <1>1 DEF Call
    <3> HIDE DEF k
    <3>3. OnlyCall(c) /\ call'[c] = k
      BY <3>1, BecomeCall
    <3> QED BY <3>2, <3>3 DEF Shape, IsOpen
  <2> QED BY <2>1, <2>2
<1>4. Commits(c) /\ RunCurrent(r)
  BY <1>1, <1>3, Committed DEF Commits, Checked
<1>5. /\ project'.draft = call[c].draft /\ project'.active = r
      /\ project'.revision = project.revision + 1
  BY <1>1, <1>2 DEF Project
<1>6. ASSUME NEW q \in Runs
      PROVE  /\ run'[q].status = run[q].status
             /\ run'[q].generated = IF q = r THEN TRUE ELSE run[q].generated
  <2>1. run[q] \in Run
    BY <1>1
  <2>2. run'[q] = IF q = r THEN [run[q] EXCEPT !.generated = TRUE] ELSE run[q]
    BY <1>1, <1>2
  <2> QED BY <2>1, <2>2 DEF Run
<1> QED BY <1>1, <1>2, <1>3, <1>4, <1>5, <1>6

LEMMA StartAssignEffect ==
    ASSUME Typed, NEW c \in Callers, NEW r \in Runs, StartAssign(c, r)
    PROVE  /\ Quiet(c) /\ call'[c].pc = "working" /\ call'[c].op = "assign"
           /\ call'[c].run = r /\ call'[c].rest = <<>> /\ UNCHANGED loaded
           /\ Confirmed(r, "layout") /\ Confirmed(r, "script")
           /\ OneReviewer => /\ ~Confirmed(r, "assignment")
                             /\ \A d \in Callers : "assignment" \notin ToConfirm(d)
           /\ \A s \in Stages : /\ call'[c].outputs[s] = stage[r][s].revision
                                /\ call'[c].draft.parts[s] = stage[r][s].parts[s]
<1> DEFINE parts == [s \in Stages |-> stage[r][s].parts[s]]
           outputs == [s \in Stages |-> stage[r][s].revision]
           draft == [BlankDraft EXCEPT !.parts = parts]
           k == [IdleCall EXCEPT !.op = "assign", !.pc = "working", !.run = r,
                    !.outputs = outputs, !.draft = draft]
<1>1. Become(c, k)
  <2>1. Become(c, [IdleCall EXCEPT !.op = "assign", !.pc = "working", !.run = r,
                      !.outputs = outputs, !.draft = [@ EXCEPT !.parts = parts]])
    BY DEF StartAssign
  <2> QED BY <2>1 DEF IdleCall
<1>2. /\ Confirmed(r, "layout") /\ Confirmed(r, "script")
      /\ UNCHANGED <<project, run, stage, audio, render, loaded>>
      /\ (OneReviewer => ~Confirmed(r, "assignment")
                         /\ \A d \in Callers : "assignment" \notin ToConfirm(d))
  BY DEF StartAssign
<1>3. draft.parts = parts
  BY DEF BlankDraft
<1>4. \A s \in Stages : outputs[s] = stage[r][s].revision /\ parts[s] = stage[r][s].parts[s]
  OBVIOUS
<1> HIDE DEF parts, outputs, draft
<1>5. k.op = "assign" /\ k.pc = "working" /\ k.run = r /\ k.rest = <<>>
      /\ k.outputs = outputs /\ k.draft = draft
  BY DEF IdleCall
<1> HIDE DEF k
<1>6. OnlyCall(c) /\ call'[c] = k
  BY <1>1, BecomeCall
<1> QED BY <1>2, <1>3, <1>4, <1>5, <1>6 DEF Quiet

LEMMA OpenAssignEffect ==
    ASSUME MaxOpen = 1, Typed, SInv, NEW c \in Callers, OpenAssign(c)
    PROVE  /\ Opens(c) /\ call'[c].pc = "open" /\ call'[c].op = "assign" /\ call[c].op = "assign"
           /\ call'[c].run = call[c].run /\ call'[c].rest = <<>>
           /\ call'[c].outputs = call[c].outputs /\ ContextCurrent(c)
           /\ call'[c].draft.version = project.draft.version + 1
           /\ \A s \in {"layout", "script"} :
                 call'[c].draft.parts[s] = call[c].draft.parts[s]
           /\ UNCHANGED loaded
<1> DEFINE parts == [call[c].draft.parts EXCEPT !["assignment"] = Fresh]
           draft == [version |-> project.draft.version + 1, partial |-> project.draft.partial,
                     parts |-> parts]
           k == [call[c] EXCEPT !.draft = draft]
<1>1. /\ Alone /\ project \in Project /\ call[c] \in Call /\ call[c].op = "assign" /\ Sound(call[c])
      /\ call[c].rest = <<>>
  BY DEF SInv, Typed, TypeOK, OpenAssign, Shaped, Shape
<1>2. /\ OpenAt(c, k, "open") /\ ContextCurrent(c)
      /\ UNCHANGED <<project, run, stage, audio, render, loaded>>
  BY DEF OpenAssign, Open
<1>3. /\ parts \in Content
      /\ parts["layout"] = call[c].draft.parts["layout"]
      /\ parts["script"] = call[c].draft.parts["script"]
  <2>1. call[c].draft.parts \in Content
    BY <1>1 DEF Call, Draft
  <2> QED BY <2>1, ContentsTyped DEF Content, Stages
<1>4. draft \in Draft /\ draft.version = project.draft.version + 1 /\ draft.parts = parts
  <2> HIDE DEF parts
  <2>1. project.draft.version + 1 \in Nat /\ project.draft.partial \in Runs \cup {None}
    BY <1>1 DEF Project, Draft
  <2> QED BY <1>3, <2>1 DEF Draft
<1> HIDE DEF draft, parts
<1>5. /\ k.op = "assign" /\ k.run = call[c].run /\ k.draft = draft /\ k.rest = <<>>
      /\ k.outputs = call[c].outputs /\ Sound(k)
  BY <1>1, <1>4 DEF Sound, Call
<1> HIDE DEF k
<1>6. /\ OnlyCall(c) /\ \A e \in Callers : ~IsOpen(e)
      /\ call'[c].pc = "open" /\ call'[c].seen = project
      /\ call'[c].op = k.op /\ call'[c].draft = k.draft /\ call'[c].run = k.run
      /\ call'[c].rest = k.rest /\ call'[c].outputs = k.outputs
  BY <1>1, <1>2, <1>5, OpenedCall
<1> QED BY <1>1, <1>2, <1>3, <1>4, <1>5, <1>6 DEF Opens, Quiet

LEMMA CommitAssignEffect ==
    ASSUME Typed, SInv, NEW c \in Callers, CommitAssign(c)
    PROVE  /\ Commits(c) /\ call[c].op = "assign" /\ Shape(call'[c]) /\ ContextCurrent(c)
           /\ call[c].run \in Runs
           /\ call'[c].op = "none" /\ call'[c].rest = <<>>
           /\ project'.draft = call[c].draft /\ project'.active = project.active
           /\ project'.revision = project.revision + 1
           /\ UNCHANGED <<run, stage, audio, render, loaded>>
<1>1. /\ call[c] \in Call /\ project \in Project
      /\ call[c].op = "assign" /\ call[c].pc = "open" /\ call[c].run \in Runs
  BY DEF Typed, TypeOK, CommitAssign, Sound
<1>2. /\ project' = [project EXCEPT !.draft = call[c].draft, !.revision = @ + 1]
      /\ Finish(c) /\ UNCHANGED <<run, stage, audio, render, loaded>>
  BY DEF CommitAssign
<1>3. Commits(c) /\ ContextCurrent(c)
  BY <1>1, <1>2, FinishCall, Committed DEF Commits, Checked
<1>4. /\ project'.draft = call[c].draft /\ project'.active = project.active
      /\ project'.revision = project.revision + 1
  BY <1>1, <1>2 DEF Project
<1> QED BY <1>1, <1>2, <1>3, <1>4, FinishCall

LEMMA OpenVideoEffect ==
    ASSUME MaxOpen = 1, Typed, SInv, NEW c \in Callers, NEW r \in Runs, OpenVideo(c, r)
    PROVE  /\ Opens(c) /\ call'[c].pc = "freeze" /\ call'[c].op = "video" /\ call'[c].rest = <<>>
           /\ call'[c].run = r /\ call'[c].draft = project.draft
           /\ project.active = r /\ run[r].generated /\ UNCHANGED loaded
<1> DEFINE k == [IdleCall EXCEPT !.op = "video", !.run = r, !.draft = project.draft]
<1>1. Alone /\ Sound(IdleCall) /\ IdleCall \in Call /\ project \in Project
  BY BlankTyped DEF SInv, Sound, Typed, TypeOK
<1>2. k.op = "video" /\ k.rest = <<>> /\ k.run = r /\ k.draft = project.draft /\ Sound(k)
  BY <1>1 DEF Sound, Call, Ops, IdleCall, Project
<1>3. OpenAt(c, k, "freeze") /\ project.active = r /\ run[r].generated
      /\ UNCHANGED <<project, run, stage, audio, render, loaded>>
  BY DEF OpenVideo
<1> HIDE DEF k
<1>4. /\ OnlyCall(c) /\ \A e \in Callers : ~IsOpen(e)
      /\ call'[c].pc = "freeze" /\ call'[c].seen = project
      /\ call'[c].op = k.op /\ call'[c].rest = k.rest /\ call'[c].run = k.run
      /\ call'[c].draft = k.draft
  BY <1>1, <1>2, <1>3, OpenedCall
<1> QED BY <1>2, <1>3, <1>4 DEF Opens, Quiet

LEMMA FreezeInputEffect ==
    ASSUME Typed, SInv, NEW c \in Callers, FreezeInput(c)
    PROVE  /\ Commits(c) /\ call[c].op = "video" /\ Shape(call'[c])
           /\ call'[c].op = "video" /\ call'[c].rest = <<>>
           /\ call'[c].run = call[c].run /\ call'[c].draft = call[c].draft
           /\ project'.draft = project.draft /\ project'.active = project.active
           /\ project'.revision = project.revision + 1
           /\ UNCHANGED <<run, stage, audio, render, loaded>>
<1> DEFINE k == [call[c] EXCEPT !.pc = "working", !.seen = BlankProject]
<1>1. /\ call[c] \in Call /\ project \in Project
      /\ call[c].op = "video" /\ call[c].pc = "freeze" /\ call[c].rest = <<>>
  BY DEF Typed, TypeOK, FreezeInput, SInv, Shaped, Shape
<1>2. /\ Become(c, k) /\ project' = [project EXCEPT !.revision = call[c].seen.revision + 1]
      /\ UNCHANGED <<run, stage, audio, render, loaded>>
  BY DEF FreezeInput
<1>3. /\ k.op = "video" /\ k.pc = "working" /\ k.rest = <<>> /\ k.run = call[c].run
      /\ k.draft = call[c].draft
  BY <1>1 DEF Call
<1> HIDE DEF k
<1>4. OnlyCall(c) /\ call'[c] = k
  BY <1>2, BecomeCall
<1>5. Shape(call'[c]) /\ ~IsOpen(c)'
  BY <1>3, <1>4 DEF Shape, IsOpen
<1>6. Commits(c)
  BY <1>1, <1>4, <1>5, Committed
<1>7. /\ project'.draft = project.draft /\ project'.active = project.active
      /\ project'.revision = project.revision + 1
  BY <1>1, <1>2, <1>6 DEF Project, Commits
<1> QED BY <1>1, <1>2, <1>3, <1>4, <1>5, <1>6, <1>7

LEMMA StartHighlightEffect ==
    ASSUME Typed, NEW c \in Callers, NEW r \in Runs, StartHighlight(c, r)
    PROVE  /\ Quiet(c) /\ call'[c].pc = "working" /\ call'[c].op = "video_highlight"
           /\ call'[c].run = r /\ call'[c].rest = <<>> /\ UNCHANGED loaded
           /\ Confirmed(r, "assignment")
           /\ call'[c].outputs["assignment"] = stage[r]["assignment"].revision
           /\ call'[c].draft.parts = stage[r]["assignment"].parts
<1> DEFINE parts == stage[r]["assignment"].parts
           outputs == [s \in Stages |-> stage[r][s].revision]
           draft == [BlankDraft EXCEPT !.parts = parts]
           k == [IdleCall EXCEPT !.op = "video_highlight", !.pc = "working", !.run = r,
                    !.outputs = outputs, !.draft = draft]
<1>1. Become(c, k)
  <2>1. Become(c, [IdleCall EXCEPT !.op = "video_highlight", !.pc = "working", !.run = r,
                      !.outputs = outputs, !.draft = [@ EXCEPT !.parts = parts]])
    BY DEF StartHighlight
  <2> QED BY <2>1 DEF IdleCall
<1>2. Confirmed(r, "assignment") /\ UNCHANGED <<project, run, stage, audio, render, loaded>>
  BY DEF StartHighlight
<1>3. draft.parts = parts
  BY DEF BlankDraft
<1>4. outputs["assignment"] = stage[r]["assignment"].revision
  BY DEF Stages
<1> HIDE DEF outputs, draft
<1>5. k.op = "video_highlight" /\ k.pc = "working" /\ k.run = r /\ k.rest = <<>>
      /\ k.outputs = outputs /\ k.draft = draft
  BY DEF IdleCall
<1> HIDE DEF k
<1>6. OnlyCall(c) /\ call'[c] = k
  BY <1>1, BecomeCall
<1> QED BY <1>2, <1>3, <1>4, <1>5, <1>6 DEF Quiet

LEMMA OpenRenderEffect ==
    ASSUME MaxOpen = 1, Typed, SInv, NEW c \in Callers, OpenRender(c)
    PROVE  /\ Opens(c) /\ call'[c].pc = "open" /\ call'[c].op = call[c].op
           /\ call[c].op \in {"video", "video_highlight"}
           /\ call'[c].run = call[c].run /\ call'[c].draft = call[c].draft
           /\ call'[c].outputs = call[c].outputs /\ call'[c].rest = call[c].rest
           /\ RenderInputCurrent(c) /\ UNCHANGED loaded
<1>1. /\ call[c].op \in {"video", "video_highlight"} /\ RenderInputCurrent(c)
      /\ OpenAt(c, call[c], "open") /\ UNCHANGED <<project, run, stage, audio, render, loaded>>
  BY DEF OpenRender, Open
<1>2. Alone /\ Sound(call[c])
  BY DEF SInv, Typed
<1> QED BY <1>1, <1>2, OpenedCall DEF Opens, Quiet

LEMMA CommitRenderEffect ==
    ASSUME Typed, SInv, NEW c \in Callers, CommitRender(c)
    PROVE  LET new == [run |-> call[c].run, type |-> call[c].op, parts |-> call[c].draft.parts] IN
           /\ Commits(c) /\ call[c].op \in {"video", "video_highlight"} /\ Shape(call'[c])
           /\ call[c].run \in Runs /\ RenderInputCurrent(c)
           /\ call'[c].op = "none" /\ call'[c].rest = <<>>
           /\ project'.draft = project.draft /\ project'.active = project.active
           /\ project'.revision = project.revision + 1
           /\ render' = render \cup {new}
           /\ UNCHANGED <<run, stage, audio, loaded>>
<1>1. /\ call[c] \in Call /\ project \in Project /\ call[c].run \in Runs
      /\ call[c].op \in {"video", "video_highlight"} /\ call[c].pc = "open"
  BY DEF Typed, TypeOK, CommitRender, Sound
<1>2. /\ project' = [project EXCEPT !.revision = @ + 1] /\ Finish(c)
      /\ UNCHANGED <<run, stage, audio, loaded>>
  BY DEF CommitRender
<1>3. Commits(c) /\ RenderInputCurrent(c)
  BY <1>1, <1>2, FinishCall, Committed DEF Commits, Checked
<1>4. /\ project'.draft = project.draft /\ project'.active = project.active
      /\ project'.revision = project.revision + 1
  BY <1>1, <1>2 DEF Project
<1> QED BY <1>1, <1>2, <1>3, <1>4, FinishCall DEF CommitRender

LEMMA StartPreviewEffect ==
    ASSUME Typed, NEW c \in Callers, NEW r \in Runs, StartPreview(c, r)
    PROVE  /\ Quiet(c) /\ call'[c].pc = "working" /\ call'[c].op = "preview"
           /\ call'[c].run = r /\ call'[c].rest = <<>> /\ run[r].generated /\ UNCHANGED loaded
<1> DEFINE k == [IdleCall EXCEPT !.op = "preview", !.pc = "working", !.run = r,
                    !.draft = loaded[c]]
<1>1. /\ Become(c, k) /\ run[r].generated
      /\ UNCHANGED <<project, run, stage, audio, render, loaded>>
  BY DEF StartPreview
<1>2. k.op = "preview" /\ k.pc = "working" /\ k.run = r /\ k.rest = <<>>
  BY DEF IdleCall
<1> HIDE DEF k
<1>3. OnlyCall(c) /\ call'[c] = k
  BY <1>1, BecomeCall
<1> QED BY <1>1, <1>2, <1>3 DEF Quiet

LEMMA OpenPreviewEffect ==
    ASSUME MaxOpen = 1, Typed, SInv, NEW c \in Callers, OpenPreview(c)
    PROVE  /\ Opens(c) /\ call'[c].pc = "open" /\ call'[c].op = "preview" /\ call[c].op = "preview"
           /\ call'[c].run = call[c].run /\ call'[c].draft = call[c].draft
           /\ call'[c].rest = call[c].rest
           /\ ScriptCurrent(call[c].run, call[c].draft.parts) /\ UNCHANGED loaded
<1>1. /\ call[c].op = "preview" /\ ScriptCurrent(call[c].run, call[c].draft.parts)
      /\ OpenAt(c, call[c], "open") /\ UNCHANGED <<project, run, stage, audio, render, loaded>>
  BY DEF OpenPreview, Open
<1>2. Alone /\ Sound(call[c])
  BY DEF SInv, Typed
<1> QED BY <1>1, <1>2, OpenedCall DEF Opens, Quiet

LEMMA CommitPreviewEffect ==
    ASSUME Typed, SInv, NEW c \in Callers, CommitPreview(c)
    PROVE  LET new == [run |-> call[c].run, script |-> call[c].draft.parts["script"]] IN
           /\ Commits(c) /\ call[c].op = "preview" /\ Shape(call'[c])
           /\ call[c].run \in Runs /\ ScriptCurrent(call[c].run, call[c].draft.parts)
           /\ call'[c].op = "none" /\ call'[c].rest = <<>>
           /\ audio' = audio \cup {new}
           /\ UNCHANGED <<project, run, stage, render, loaded>>
<1>1. call[c].run \in Runs /\ call[c].op = "preview" /\ call[c].pc = "open" /\ Finish(c)
  BY DEF Typed, CommitPreview, Sound
<1>2. Commits(c) /\ ScriptCurrent(call[c].run, call[c].draft.parts)
  BY <1>1, FinishCall, Committed DEF Commits, Checked
<1> QED BY <1>1, <1>2, FinishCall DEF CommitPreview

LEMMA RefuseEffect ==
    ASSUME Typed, SInv, NEW c \in Callers, Refuse(c)
    PROVE  /\ Quiet(c) /\ ~IsOpen(c)' /\ Shape(call'[c])
           /\ call'[c].op = "none" /\ call'[c].rest = <<>>
           /\ call[c].op # "assign" \/ call[c].pc = "working"
           /\ UNCHANGED loaded
<1>1. Finish(c) /\ UNCHANGED <<project, run, stage, audio, render, loaded>>
  BY DEF Refuse
<1>2. call[c].op # "assign" \/ call[c].pc = "working"
  <2>1. call[c].pc = "open" => RevisionFree(c)
    BY DEF RevisionFree, SInv, UpToDate, IsOpen
  <2> QED BY <2>1 DEF Refuse, Refused, SInv, Shaped, Shape
<1> QED BY <1>1, <1>2, FinishCall DEF Quiet

-----------------------------------------------------------------------------
(* Every step keeps SInv *)

LEMMA CheckedStays ==
    ASSUME UNCHANGED <<project, run, stage>>, NEW d \in Callers, call'[d] = call[d]
    PROVE  Checked(d)' <=> Checked(d)
BY DEF Checked, RunCurrent, Confirmable, ContextCurrent, RenderInputCurrent, ScriptCurrent,
       StageIsStill, Required, Confirmed

LEMMA QuietSerial ==
    ASSUME SInv, NEW c \in Callers, Quiet(c), Shape(call'[c]),
           IsOpen(c)' => /\ \A d \in Callers : d # c => ~IsOpen(d)
                         /\ call'[c].seen = project /\ Checked(c)'
    PROVE  SInv'
<1> USE DEF Quiet
<1>1. Shaped'
  BY DEF SInv, Shaped, Shape, OnlyCall
<1>2. \A d \in Callers : d # c => (IsOpen(d)' <=> IsOpen(d))
  BY DEF IsOpen, OnlyCall
<1>3. Alone'
  BY <1>2 DEF SInv, Alone
<1>4. ASSUME NEW d \in Callers, IsOpen(d)' PROVE call'[d].seen = project' /\ Checked(d)'
  <2>1. CASE d = c
    BY <1>4, <2>1
  <2>2. CASE d # c
    <3>1. call'[d] = call[d] /\ IsOpen(d)
      BY <1>2, <1>4, <2>2 DEF OnlyCall
    <3>2. call[d].seen = project /\ Checked(d)
      BY <3>1 DEF SInv, UpToDate
    <3> QED BY <3>1, <3>2, CheckedStays
  <2> QED BY <2>1, <2>2
<1>5. UpToDate'
  BY <1>4 DEF UpToDate
<1>6. LiveIsActive' /\ GeneratedExists' /\ ConfirmedIsActive' /\ StageOrder'
  BY DEF SInv, LiveIsActive, GeneratedExists, ConfirmedIsActive, StageOrder, Confirmed
<1> QED BY <1>1, <1>3, <1>5, <1>6 DEF SInv

(* A write ends the only open operation. *)
LEMMA CommitSerial ==
    ASSUME SInv, NEW c \in Callers, Commits(c), Shape(call'[c]),
           LiveIsActive', GeneratedExists', ConfirmedIsActive', StageOrder'
    PROVE  SInv'
<1>1. Shaped'
  BY DEF SInv, Shaped, Shape, OnlyCall, Commits
<1>2. \A d \in Callers : ~IsOpen(d)'
  BY DEF IsOpen, OnlyCall, Commits
<1>3. Alone' /\ UpToDate'
  BY <1>2 DEF Alone, UpToDate
<1> QED BY <1>1, <1>3 DEF SInv

LEMMA TabSerial ==
    ASSUME MaxOpen = 1, Typed, SInv, NEW c \in Callers, Tab(c)
    PROVE  SInv'
<1>1. LiveIsActive /\ GeneratedExists /\ ConfirmedIsActive /\ StageOrder /\ None \notin Runs
  BY ProjectStoreAssumption DEF SInv
<1>2. CASE Load(c)
  <2>1. Quiet(c) /\ call' = call
    BY <1>2 DEF Load, Quiet, OnlyCall
  <2>2. Shape(call'[c]) /\ (IsOpen(c)' => IsOpen(c)) /\ (Checked(c)' <=> Checked(c))
    BY <2>1, CheckedStays DEF SInv, Shaped, IsOpen, Quiet
  <2>3. IsOpen(c) => /\ \A d \in Callers : d # c => ~IsOpen(d)
                     /\ call[c].seen = project /\ Checked(c)
    BY DEF SInv, Alone, UpToDate
  <2> QED BY <2>1, <2>2, <2>3, QuietSerial
<1>3. CASE OpensSave(c)
  <2>1. Shape(call'[c]) /\ Checked(c)'
    BY <1>3, OpenSaveEffect DEF Shape, Checked, Opens, Quiet, Saves
  <2> QED BY <1>3, <2>1, OpenSaveEffect, QuietSerial DEF Opens
<1>4. CASE CommitSave(c)
  <2>1. PICK S : /\ MarkStale(project.active, Invalidated(S)) /\ run' = run
                 /\ project'.active = project.active
    BY <1>4, CommitSaveEffect
  <2>2. ASSUME NEW q \in Runs, NEW s \in Stages
        PROVE  Confirmed(q, s)' <=>
                  Confirmed(q, s) /\ ~(q = project.active /\ s \in Invalidated(S))
    BY <2>1, StaleStages
  <2>3. LiveIsActive' /\ GeneratedExists' /\ ConfirmedIsActive'
    BY <1>1, <2>1, <2>2 DEF LiveIsActive, GeneratedExists, ConfirmedIsActive
  <2>4. StageOrder'
    BY <1>1, <2>2 DEF StageOrder, Invalidated, ConfirmedIsActive, Stages
  <2> QED BY <1>4, <2>3, <2>4, CommitSaveEffect, CommitSerial
<1>5. CASE OpenPdf(c)
  <2>1. Shape(call'[c]) /\ Checked(c)'
    BY <1>5, OpenPdfEffect DEF Shape, Checked
  <2> QED BY <1>5, <2>1, OpenPdfEffect, QuietSerial DEF Opens
<1>6. CASE PdfStored(c)
  <2>1. Shape(call'[c]) /\ Checked(c)'
    BY <1>6, PdfStoredEffect DEF Shape, Checked
  <2>2. \A d \in Callers : d # c => ~IsOpen(d)
    BY <1>6, PdfStoredEffect DEF SInv, Alone
  <2> QED BY <1>6, <2>1, <2>2, PdfStoredEffect, QuietSerial
<1>7. CASE CommitPdf(c)
  <2>1. /\ project'.active = None /\ run' = SupersededRun(project.active)
        /\ Withdraw(project.active) /\ Commits(c) /\ Shape(call'[c])
    BY <1>7, CommitPdfEffect
  <2>2. LiveIsActive' /\ GeneratedExists'
    BY <1>1, <2>1, SupersededStatus DEF LiveIsActive, GeneratedExists
  <2>3. ConfirmedIsActive' /\ StageOrder'
    BY <2>1, WithdrawnStages DEF ConfirmedIsActive, StageOrder, Stages
  <2> QED BY <2>1, <2>2, <2>3, CommitSerial
<1> QED BY <1>2, <1>3, <1>4, <1>5, <1>6, <1>7 DEF Tab, OpensSave

LEMMA ReviewSerial ==
    ASSUME MaxOpen = 1, Typed, SInv, NEW c \in Callers, Review(c)
    PROVE  SInv'
<1>1. LiveIsActive /\ GeneratedExists /\ ConfirmedIsActive /\ StageOrder
  BY DEF SInv
<1>2. ASSUME NEW r \in Runs, NEW s \in Stages, StartConfirm(c, r, s) PROVE SInv'
  <2>1. Quiet(c) /\ Shape(call'[c]) /\ ~IsOpen(c)'
    BY <1>2, StartConfirmEffect DEF Shape, IsOpen
  <2> QED BY <2>1, QuietSerial
<1>3. CASE OpenConfirm(c)
  <2>1. Shape(call'[c]) /\ Checked(c)'
    BY <1>3, OpenConfirmEffect
    DEF Shape, Checked, Confirmable, Required, Confirmed, Opens, Quiet
  <2> QED BY <1>3, <2>1, OpenConfirmEffect, QuietSerial DEF Opens
<1>4. CASE CommitConfirm(c)
  <2>1. PICK r, s : r = call[c].run /\ s = Head(call[c].rest)
    OBVIOUS
  <2>2. /\ r \in Runs /\ s \in Stages /\ Confirmable(c) /\ Commits(c) /\ Shape(call'[c])
        /\ project'.active = project.active /\ run' = run
        /\ \A q \in Runs, u \in Stages : Confirmed(q, u)' <=> Confirmed(q, u) \/ (q = r /\ u = s)
    BY <1>4, <2>1, CommitConfirmEffect
  <2>3. project.active = r /\ \A u \in Required(r, s) : Confirmed(r, u)
    BY <2>1, <2>2 DEF Confirmable
  <2>4. LiveIsActive' /\ GeneratedExists' /\ ConfirmedIsActive'
    BY <1>1, <2>2, <2>3 DEF LiveIsActive, GeneratedExists, ConfirmedIsActive
  <2>5. s = "assignment" => Confirmed(r, "layout") /\ Confirmed(r, "script")
    BY <2>3 DEF Required
  <2>6. StageOrder'
    BY <1>1, <2>2, <2>5 DEF StageOrder, Stages
  <2> QED BY <2>2, <2>4, <2>6, CommitSerial
<1> QED BY <1>2, <1>3, <1>4 DEF Review

LEMMA GenerationSerial ==
    ASSUME MaxOpen = 1, Typed, SInv, NEW c \in Callers, Generation(c)
    PROVE  SInv'
<1>1. LiveIsActive /\ GeneratedExists /\ ConfirmedIsActive /\ StageOrder
      /\ (IsOpen(c) => Checked(c))
  BY DEF SInv, UpToDate
<1>2. ASSUME NEW r \in Runs, OpenRun(c, r) PROVE SInv'
  <2>1. Shape(call'[c]) /\ Checked(c)'
    BY <1>2, OpenRunEffect DEF Shape, Checked, Opens, Quiet
  <2> QED BY <1>2, <2>1, OpenRunEffect, QuietSerial DEF Opens
<1>3. CASE CommitRun(c)
  <2>1. PICK r \in Runs : r = call[c].run
    BY <1>3, CommitRunEffect
  <2>2. /\ Commits(c) /\ Shape(call'[c]) /\ run[r].status = "none" /\ ~run[r].generated
        /\ project'.active = r /\ Withdraw(project.active)
        /\ \A q \in Runs : /\ run'[q].generated = run[q].generated
                           /\ run'[q].status = IF q = r THEN "live"
                                               ELSE IF q = project.active THEN "superseded"
                                               ELSE run[q].status
    BY <1>3, <2>1, CommitRunEffect
  <2>3. LiveIsActive' /\ GeneratedExists'
    BY <1>1, <2>2 DEF LiveIsActive, GeneratedExists
  <2>4. ConfirmedIsActive' /\ StageOrder'
    BY <2>2, WithdrawnStages DEF ConfirmedIsActive, StageOrder, Stages
  <2> QED BY <2>2, <2>3, <2>4, CommitSerial
<1>4. ASSUME NEW r \in Runs, OpenGenerate(c, r) PROVE SInv'
  <2>1. Shape(call'[c]) /\ Checked(c)'
    BY <1>4, OpenGenerateEffect DEF Shape, Checked, RunCurrent, Opens, Quiet
  <2> QED BY <1>4, <2>1, OpenGenerateEffect, QuietSerial DEF Opens
<1>5. CASE CommitGenerate(c)
  <2>1. PICK r \in Runs : r = call[c].run
    BY <1>5, CommitGenerateEffect
  <2>2. /\ Commits(c) /\ Shape(call'[c]) /\ project.active = r /\ project'.active = r
        /\ stage' = stage
        /\ \A q \in Runs : /\ run'[q].status = run[q].status
                           /\ run'[q].generated = IF q = r THEN TRUE ELSE run[q].generated
    BY <1>5, <2>1, CommitGenerateEffect DEF RunCurrent
  <2>3. LiveIsActive' /\ GeneratedExists'
    BY <1>1, <2>2 DEF LiveIsActive, GeneratedExists
  <2>4. ConfirmedIsActive' /\ StageOrder'
    BY <1>1, <2>2 DEF ConfirmedIsActive, StageOrder, Confirmed
  <2> QED BY <2>2, <2>3, <2>4, CommitSerial
<1>6. ASSUME NEW r \in Runs, StartAssign(c, r) PROVE SInv'
  <2>1. Quiet(c) /\ Shape(call'[c]) /\ ~IsOpen(c)'
    BY <1>6, StartAssignEffect DEF Shape, IsOpen
  <2> QED BY <2>1, QuietSerial
<1>7. CASE OpenAssign(c)
  <2>1. Shape(call'[c])
    BY <1>7, OpenAssignEffect DEF Shape
  <2>2. Checked(c)'
    <3>1. ContextCurrent(c)'
      BY <1>7, OpenAssignEffect DEF ContextCurrent, StageIsStill, Confirmed, Opens, Quiet
    <3> QED BY <1>7, <3>1, OpenAssignEffect DEF Checked, Opens, Quiet
  <2> QED BY <1>7, <2>1, <2>2, OpenAssignEffect, QuietSerial DEF Opens
<1>8. CASE CommitAssign(c)
  <2>1. /\ Commits(c) /\ Shape(call'[c]) /\ project'.active = project.active
        /\ UNCHANGED <<run, stage>>
    BY <1>8, CommitAssignEffect
  <2>2. LiveIsActive' /\ GeneratedExists' /\ ConfirmedIsActive' /\ StageOrder'
    BY <1>1, <2>1 DEF LiveIsActive, GeneratedExists, ConfirmedIsActive, StageOrder, Confirmed
  <2> QED BY <2>1, <2>2, CommitSerial
<1> QED BY <1>2, <1>3, <1>4, <1>5, <1>6, <1>7, <1>8 DEF Generation

LEMMA MediaSerial ==
    ASSUME MaxOpen = 1, Typed, SInv, NEW c \in Callers, Media(c) \/ Refuse(c)
    PROVE  SInv'
<1>1. LiveIsActive /\ GeneratedExists /\ ConfirmedIsActive /\ StageOrder /\ Shape(call[c])
  BY DEF SInv, Shaped
<1>2. ASSUME NEW r \in Runs, OpenVideo(c, r) PROVE SInv'
  <2>1. Shape(call'[c]) /\ Checked(c)'
    BY <1>2, OpenVideoEffect DEF Shape, Checked, RenderInputCurrent, Opens, Quiet
  <2> QED BY <1>2, <2>1, OpenVideoEffect, QuietSerial DEF Opens
<1>3. ASSUME NEW r \in Runs, StartHighlight(c, r) PROVE SInv'
  <2>1. Quiet(c) /\ Shape(call'[c]) /\ ~IsOpen(c)'
    BY <1>3, StartHighlightEffect DEF Shape, IsOpen
  <2> QED BY <2>1, QuietSerial
<1>4. ASSUME NEW r \in Runs, StartPreview(c, r) PROVE SInv'
  <2>1. Quiet(c) /\ Shape(call'[c]) /\ ~IsOpen(c)'
    BY <1>4, StartPreviewEffect DEF Shape, IsOpen
  <2> QED BY <2>1, QuietSerial
<1>5. CASE OpenRender(c)
  <2>1. Shape(call'[c])
    BY <1>1, <1>5, OpenRenderEffect DEF Shape
  <2>2. Checked(c)'
    <3>1. RenderInputCurrent(c)'
      BY <1>5, OpenRenderEffect DEF RenderInputCurrent, StageIsStill, Confirmed, Opens, Quiet
    <3> QED BY <1>5, <3>1, OpenRenderEffect DEF Checked, Opens, Quiet
  <2> QED BY <1>5, <2>1, <2>2, OpenRenderEffect, QuietSerial DEF Opens
<1>6. CASE OpenPreview(c)
  <2>1. Shape(call'[c]) /\ Checked(c)'
    BY <1>1, <1>6, OpenPreviewEffect DEF Shape, Checked, ScriptCurrent, Opens, Quiet
  <2> QED BY <1>6, <2>1, OpenPreviewEffect, QuietSerial DEF Opens
<1>7. CASE FreezeInput(c) \/ CommitRender(c) \/ CommitPreview(c)
  <2>1. /\ Commits(c) /\ Shape(call'[c]) /\ project'.active = project.active
        /\ UNCHANGED <<run, stage>>
    BY <1>7, FreezeInputEffect, CommitRenderEffect, CommitPreviewEffect
  <2>2. LiveIsActive' /\ GeneratedExists' /\ ConfirmedIsActive' /\ StageOrder'
    BY <1>1, <2>1 DEF LiveIsActive, GeneratedExists, ConfirmedIsActive, StageOrder, Confirmed
  <2> QED BY <2>1, <2>2, CommitSerial
<1>8. CASE Refuse(c)
  BY <1>8, RefuseEffect, QuietSerial
<1> QED BY <1>2, <1>3, <1>4, <1>5, <1>6, <1>7, <1>8 DEF Media

LEMMA SInvHolds ==
    ASSUME MaxOpen = 1
    PROVE  Spec => []SInv
<1>1. Init => SInv
  <2> SUFFICES ASSUME Init PROVE SInv
    OBVIOUS
  <2>1. \A c \in Callers : Shape(call[c]) /\ ~IsOpen(c)
    BY DEF Init, IdleCall, Shape, IsOpen
  <2>2. \A r \in Runs : run[r].status = "none" /\ ~run[r].generated /\ project.active # r
    BY ProjectStoreAssumption DEF Init, BlankProject
  <2>3. \A r \in Runs, s \in Stages : ~Confirmed(r, s)
    BY DEF Init, Confirmed
  <2> QED BY <2>1, <2>2, <2>3 DEF SInv, Shaped, Alone, UpToDate, LiveIsActive, GeneratedExists,
        ConfirmedIsActive, StageOrder, Stages
<1>2. IInv /\ SInv /\ [Next]_vars => SInv'
  <2> SUFFICES ASSUME IInv, SInv, [Next]_vars PROVE SInv'
    OBVIOUS
  <2>1. Typed
    BY DEF IInv, Typed
  <2>2. CASE Next
    BY <2>1, <2>2, TabSerial, ReviewSerial, GenerationSerial, MediaSerial DEF Next
  <2>3. CASE UNCHANGED vars
    BY <2>3 DEF vars, SInv, Shaped, Shape, Alone, UpToDate, LiveIsActive, GeneratedExists,
       ConfirmedIsActive, StageOrder, Confirmed, IsOpen, Checked, RunCurrent, Confirmable,
       ContextCurrent, RenderInputCurrent, ScriptCurrent, StageIsStill, Required
  <2> QED BY <2>2, <2>3
<1> QED BY <1>1, <1>2, IInvHolds, PTL DEF Spec

-----------------------------------------------------------------------------
(* What has been reviewed is what the draft holds                          *)
(*                                                                         *)
(* A run generates once (Retry = FALSE).  The work in progress remembers   *)
(* revisions and versions; as both only grow, finding the remembered one   *)
(* means that nothing has been put in its place.                           *)

Working(c) ==
    LET k == call[c] IN
    /\ k.op = "confirm" /\ "script" \in ToConfirm(c) => run[k.run].generated
    /\ k.op = "generate" =>
          /\ ~run[k.run].generated
          /\ Confirmed(k.run, "layout") =>
                k.draft.parts["layout"] = stage[k.run]["layout"].parts["layout"]
    /\ k.op \in {"assign", "video", "video_highlight", "preview"} => run[k.run].generated
    /\ k.op = "assign" => \A s \in {"layout", "script"} :
          /\ k.outputs[s] <= project.revision
          /\ stage[k.run][s].revision = k.outputs[s] =>
                k.draft.parts[s] = stage[k.run][s].parts[s]
    /\ k.op = "video" =>
          /\ k.draft.version <= project.draft.version
          /\ k.draft.version = project.draft.version => k.draft = project.draft

AllWorking == \A c \in Callers : Working(c)
ScriptIsResult == \A r \in Runs : Confirmed(r, "script") => run[r].generated
ReviewIsCurrent ==
    \A r \in Runs, s \in {"layout", "script"} :
        Confirmed(r, s) => stage[r][s].parts[s] = project.draft.parts[s]
AudioIsOfResult == \A a \in audio : run[a.run].generated

RInv == AllWorking /\ ScriptIsResult /\ ReviewIsCurrent /\ AudioIsOfResult /\ AudioIsCurrent

(* What a step may do to what the work remembers. *)
Progress ==
    /\ \A r \in Runs : run[r].generated => run'[r].generated
    /\ project.revision <= project'.revision
    /\ \A q \in Runs, s \in Stages :
          \/ /\ stage'[q][s].revision = stage[q][s].revision
             /\ stage'[q][s].parts = stage[q][s].parts
          \/ stage'[q][s].revision > project.revision
    /\ project'.draft = project.draft \/ project'.draft.version > project.draft.version

LEMMA Numbers ==
    ASSUME Typed
    PROVE  /\ project.revision \in Nat /\ project.draft.version \in Nat
           /\ \A c \in Callers : /\ call[c].draft.version \in Nat /\ loaded[c].version \in Nat
                                 /\ \A s \in Stages : call[c].outputs[s] \in Nat
           /\ \A q \in Runs, s \in Stages : stage[q][s].revision \in Nat
<1>1. project \in Project /\ call \in [Callers -> Call] /\ loaded \in [Callers -> Draft]
      /\ stage \in [Runs -> [Stages -> Stage]]
  BY DEF Typed, TypeOK
<1>2. project.revision \in Nat /\ project.draft.version \in Nat
  BY <1>1 DEF Project, Draft
<1>3. ASSUME NEW c \in Callers
      PROVE  /\ call[c].draft.version \in Nat /\ loaded[c].version \in Nat
             /\ \A s \in Stages : call[c].outputs[s] \in Nat
  <2>1. call[c] \in Call /\ loaded[c] \in Draft
    BY <1>1
  <2> QED BY <2>1 DEF Call, Draft
<1>4. ASSUME NEW q \in Runs, NEW s \in Stages PROVE stage[q][s].revision \in Nat
  <2>1. stage[q][s] \in Stage
    BY <1>1
  <2> QED BY <2>1 DEF Stage
<1> QED BY <1>2, <1>3, <1>4

LEMMA WorkingStays ==
    ASSUME Typed, Typed', SInv, NEW d \in Callers, call'[d] = call[d], Working(d),
           \/ UNCHANGED <<project, run, stage>>
           \/ Progress /\ ~IsOpen(d)
    PROVE  Working(d)'
<1>1. CASE UNCHANGED <<project, run, stage>>
  BY <1>1 DEF Working, ToConfirm, Confirmed
<1>2. CASE Progress /\ ~IsOpen(d)
  <2> DEFINE k == call[d]
  <2>0. project' \in Project
    BY DEF Typed, TypeOK
  <2>1. k.op # "generate"
    BY <1>2 DEF SInv, Shaped, Shape, IsOpen
  <2>2. k.op \in {"confirm", "assign", "video", "video_highlight", "preview"} => k.run \in Runs
    BY DEF Typed, Sound
  <2>3. k.op = "confirm" /\ "script" \in ToConfirm(d)' => run'[k.run].generated
    BY <1>2, <2>2 DEF Working, Progress, ToConfirm
  <2>4. k.op \in {"assign", "video", "video_highlight", "preview"} => run'[k.run].generated
    BY <1>2, <2>2 DEF Working, Progress
  <2>5. ASSUME k.op = "assign", NEW s \in {"layout", "script"}
        PROVE  /\ k.outputs[s] <= project'.revision
               /\ stage'[k.run][s].revision = k.outputs[s] =>
                     k.draft.parts[s] = stage'[k.run][s].parts[s]
    <3>1. k.run \in Runs /\ s \in Stages /\ k.outputs[s] <= project.revision
          /\ (stage[k.run][s].revision = k.outputs[s] =>
                 k.draft.parts[s] = stage[k.run][s].parts[s])
      BY <2>2, <2>5 DEF Working, Stages
    <3>2. k.outputs[s] \in Nat /\ project.revision \in Nat /\ project'.revision \in Nat
      BY <2>0, <3>1, Numbers DEF Project
    <3> HIDE DEF k
    <3> QED BY <1>2, <3>1, <3>2 DEF Progress
  <2>6. ASSUME k.op = "video"
        PROVE  /\ k.draft.version <= project'.draft.version
               /\ k.draft.version = project'.draft.version => k.draft = project'.draft
    <3>1. /\ k.draft.version <= project.draft.version
          /\ k.draft.version = project.draft.version => k.draft = project.draft
      BY <2>6 DEF Working
    <3>2. /\ k.draft.version \in Nat /\ project.draft.version \in Nat
          /\ project'.draft.version \in Nat
      BY <2>0, Numbers DEF Project, Draft
    <3> HIDE DEF k
    <3> QED BY <1>2, <3>1, <3>2 DEF Progress
  <2> QED BY <2>1, <2>3, <2>4, <2>5, <2>6 DEF Working
<1> QED BY <1>1, <1>2

(* Nothing but the call of c has changed. *)
LEMMA QuietReview ==
    ASSUME Typed, Typed', SInv, RInv, NEW c \in Callers, Quiet(c), Working(c)'
    PROVE  RInv' /\ Progress
<1>1. ASSUME NEW d \in Callers PROVE Working(d)'
  BY WorkingStays DEF Quiet, OnlyCall, RInv, AllWorking
<1>2. RInv'
  BY <1>1 DEF Quiet, RInv, AllWorking, ScriptIsResult, ReviewIsCurrent, AudioIsOfResult,
     AudioIsCurrent, Confirmed
<1>3. Progress
  BY Numbers DEF Quiet, Progress
<1> QED BY <1>2, <1>3

LEMMA CommitReview ==
    ASSUME Typed, Typed', SInv, RInv, NEW c \in Callers, Commits(c), Progress, Working(c)',
           ScriptIsResult', ReviewIsCurrent', AudioIsOfResult', AudioIsCurrent'
    PROVE  RInv' /\ Progress
<1>1. ASSUME NEW d \in Callers PROVE Working(d)'
  BY WorkingStays DEF Commits, OnlyCall, RInv, AllWorking
<1> QED BY <1>1 DEF RInv, AllWorking

LEMMA AtRest ==
    ASSUME NEW c \in Callers,
           call'[c].op \notin {"confirm", "generate", "assign", "video", "video_highlight",
                              "preview"}
    PROVE  Working(c)'
BY DEF Working

LEMMA TabReview ==
    ASSUME MaxOpen = 1, Typed, Typed', SInv, RInv, NEW c \in Callers, Tab(c)
    PROVE  RInv' /\ Progress
<1> USE DEF RInv
<1>1. CASE Load(c)
  <2>1. Quiet(c) /\ call'[c] = call[c]
    BY <1>1 DEF Load, Quiet, OnlyCall
  <2>2. Working(c)'
    BY <2>1, WorkingStays DEF Quiet, AllWorking
  <2> QED BY <2>1, <2>2, QuietReview
<1>2. CASE OpensSave(c) \/ OpenPdf(c) \/ PdfStored(c)
  <2>1. Quiet(c) /\ call'[c].op \in {"autosave", "save", "rename", "pdf"}
    BY <1>2, OpenSaveEffect, OpenPdfEffect, PdfStoredEffect DEF Opens, Saves
  <2> QED BY <2>1, AtRest, QuietReview
<1>3. CASE CommitSave(c)
  <2> DEFINE T == Changed(project.draft.parts, call[c].draft.parts)
  <2>1. PICK S : S = T
    OBVIOUS
  <2>2. /\ Commits(c) /\ call'[c].op = "none" /\ call[c].op \in Saves /\ run' = run
        /\ project'.draft = call[c].draft /\ project'.active = project.active
        /\ project'.revision = project.revision /\ MarkStale(project.active, Invalidated(S))
        /\ audio' = (IF "script" \in S THEN {} ELSE audio)
    BY <1>3, <2>1, CommitSaveEffect
  <2>3. \A s \in Stages \ S : call[c].draft.parts[s] = project.draft.parts[s]
    BY <2>1 DEF Changed
  <2>4. ASSUME NEW q \in Runs, NEW s \in Stages
        PROVE  /\ stage'[q][s].parts = stage[q][s].parts
               /\ stage'[q][s].revision = stage[q][s].revision
               /\ Confirmed(q, s)' => Confirmed(q, s) /\ (q = project.active => s \notin S)
    BY <2>2, StaleStages DEF Invalidated
  <2>5. project'.draft.version > project.draft.version
    <3>1. call[c].draft.version = project.draft.version + 1
      BY <2>2 DEF Commits, Checked, Saves
    <3> QED BY <2>2, <3>1, Numbers
  <2>6. Progress
    BY <2>2, <2>4, <2>5, Numbers DEF Progress
  <2>7. ScriptIsResult'
    BY <2>2, <2>4 DEF ScriptIsResult, Stages
  <2>8. ReviewIsCurrent'
    BY <2>2, <2>3, <2>4 DEF ReviewIsCurrent, SInv, ConfirmedIsActive, Stages
  <2>9. AudioIsOfResult' /\ AudioIsCurrent'
    BY <2>2, <2>3 DEF AudioIsOfResult, AudioIsCurrent, Stages
  <2> QED BY <2>2, <2>6, <2>7, <2>8, <2>9, AtRest, CommitReview
<1>4. CASE CommitPdf(c)
  <2>1. /\ Commits(c) /\ call'[c].op = "none" /\ project'.active = None
        /\ project'.draft.version = project.draft.version + 1
        /\ project'.revision = project.revision /\ run' = SupersededRun(project.active)
        /\ Withdraw(project.active)
    BY <1>4, CommitPdfEffect
  <2>2. \A q \in Runs : run'[q].generated = run[q].generated
    BY <2>1, SupersededStatus
  <2>3. Progress
    BY <2>1, <2>2, WithdrawnStages, Numbers DEF Progress
  <2>4. ScriptIsResult' /\ ReviewIsCurrent'
    BY <2>1, WithdrawnStages DEF ScriptIsResult, ReviewIsCurrent, Stages
  <2>5. audio' \subseteq audio /\ audio \subseteq [run : Runs, script : Nat]
    BY <2>1 DEF Withdraw, Typed, TypeOK
  <2>6. AudioIsOfResult' /\ AudioIsCurrent'
    BY <2>1, <2>2, <2>5, ProjectStoreAssumption DEF AudioIsOfResult, AudioIsCurrent
  <2> QED BY <2>1, <2>3, <2>4, <2>6, AtRest, CommitReview
<1> QED BY <1>1, <1>2, <1>3, <1>4 DEF Tab, OpensSave

LEMMA ReviewReview ==
    ASSUME MaxOpen = 1, Typed, Typed', SInv, RInv, NEW c \in Callers, Review(c)
    PROVE  RInv' /\ Progress
<1> USE DEF RInv
<1>1. ASSUME NEW r \in Runs, NEW s \in Stages, StartConfirm(c, r, s) PROVE RInv' /\ Progress
  <2>1. /\ Quiet(c) /\ call'[c].op = "confirm" /\ call'[c].run = r
        /\ call'[c].rest \in {<<"layout", "script">>, <<s>>}
        /\ (call'[c].rest = <<"layout", "script">> => s = "script")
        /\ (run[r].generated \/ s = "layout")
    BY <1>1, StartConfirmEffect
  <2>2. ASSUME "script" \in ToConfirm(c)' PROVE s = "script"
    <3>1. CASE call'[c].rest = <<"layout", "script">>
      BY <2>1, <3>1
    <3>2. CASE call'[c].rest = <<s>>
      BY <2>2, <3>2 DEF ToConfirm
    <3> QED BY <2>1, <3>1, <3>2
  <2>3. "script" \in ToConfirm(c)' => run'[r].generated
    BY <2>1, <2>2 DEF Quiet
  <2>4. Working(c)'
    BY <2>1, <2>3 DEF Working
  <2> QED BY <2>1, <2>4, QuietReview
<1>2. CASE OpenConfirm(c)
  <2>1. /\ Quiet(c) /\ call'[c].op = "confirm" /\ call[c].op = "confirm"
        /\ call'[c].run = call[c].run /\ call'[c].rest = call[c].rest
    BY <1>2, OpenConfirmEffect DEF Opens
  <2>2. Working(c)'
    BY <2>1 DEF Working, AllWorking, ToConfirm, Quiet
  <2> QED BY <2>1, <2>2, QuietReview
<1>3. CASE CommitConfirm(c)
  <2>1. PICK r, s : r = call[c].run /\ s = Head(call[c].rest)
    OBVIOUS
  <2>2. /\ Commits(c) /\ call[c].op = "confirm" /\ call'[c].op \in {"none", "confirm"}
        /\ (call'[c].op = "confirm" => call'[c].run = r)
        /\ ToConfirm(c)' \subseteq ToConfirm(c)
        /\ r \in Runs /\ s \in Stages /\ s \in ToConfirm(c)
        /\ project'.draft = project.draft /\ project'.active = project.active
        /\ project'.revision = project.revision + 1
        /\ UNCHANGED <<run, audio>>
    BY <1>3, <2>1, CommitConfirmEffect
  <2>3. ASSUME NEW q \in Runs, NEW u \in Stages
        PROVE  /\ Confirmed(q, u)' <=> Confirmed(q, u) \/ (q = r /\ u = s)
               /\ q = r /\ u = s => /\ stage'[q][u].parts = project.draft.parts
                                    /\ stage'[q][u].revision = project.revision + 1
               /\ ~(q = r /\ u = s) => stage'[q][u] = stage[q][u]
    BY <1>3, <2>1, CommitConfirmEffect
  <2>4. Progress
    BY <2>2, <2>3, Numbers DEF Progress
  <2>5. Working(c)'
    BY <2>1, <2>2 DEF Working, AllWorking
  <2>6. ScriptIsResult'
    <3>1. s = "script" => run[r].generated
      BY <2>1, <2>2 DEF Working, AllWorking
    <3> QED BY <2>2, <2>3, <3>1 DEF ScriptIsResult, Stages
  <2>7. ReviewIsCurrent'
    BY <2>2, <2>3 DEF ReviewIsCurrent, Stages
  <2>8. AudioIsOfResult' /\ AudioIsCurrent'
    BY <2>2 DEF AudioIsOfResult, AudioIsCurrent
  <2> QED BY <2>2, <2>4, <2>5, <2>6, <2>7, <2>8, CommitReview
<1> QED BY <1>1, <1>2, <1>3 DEF Review

LEMMA GenerationReview ==
    ASSUME MaxOpen = 1, ~Retry, Typed, Typed', Numbered, SInv, RInv,
           NEW c \in Callers, Generation(c)
    PROVE  RInv' /\ Progress
<1> USE DEF RInv
<1>1. ASSUME NEW r \in Runs, OpenRun(c, r) PROVE RInv' /\ Progress
  <2>1. Quiet(c) /\ call'[c].op = "run"
    BY <1>1, OpenRunEffect DEF Opens
  <2> QED BY <2>1, AtRest, QuietReview
<1>2. CASE CommitRun(c)
  <2>1. PICK r \in Runs : r = call[c].run
    BY <1>2, CommitRunEffect
  <2>2. /\ Commits(c) /\ ~run[r].generated /\ call'[c].op = "none"
        /\ project'.draft = project.draft /\ project'.active = r
        /\ project'.revision = project.revision /\ Withdraw(project.active)
        /\ \A q \in Runs : run'[q].generated = run[q].generated
    BY <1>2, <2>1, CommitRunEffect
  <2>3. Progress
    BY <2>2, WithdrawnStages, Numbers DEF Progress
  <2>4. ScriptIsResult' /\ ReviewIsCurrent'
    BY <2>2, WithdrawnStages DEF ScriptIsResult, ReviewIsCurrent, Stages
  <2>5. audio' \subseteq audio /\ audio \subseteq [run : Runs, script : Nat]
    BY <2>2 DEF Withdraw, Typed, TypeOK
  <2>6. AudioIsOfResult' /\ AudioIsCurrent'
    BY <2>2, <2>5 DEF AudioIsOfResult, AudioIsCurrent
  <2> QED BY <2>2, <2>3, <2>4, <2>6, AtRest, CommitReview
<1>3. ASSUME NEW r \in Runs, OpenGenerate(c, r) PROVE RInv' /\ Progress
  <2>1. /\ Quiet(c) /\ call'[c].op = "generate" /\ call'[c].run = r /\ ~run[r].generated
        /\ (Confirmed(r, "layout") =>
               call'[c].draft.parts["layout"] = stage[r]["layout"].parts["layout"])
    BY <1>3, OpenGenerateEffect DEF Opens
  <2>2. Working(c)'
    BY <2>1 DEF Working, Quiet, Confirmed
  <2> QED BY <2>1, <2>2, QuietReview
<1>4. CASE CommitGenerate(c)
  <2>1. PICK r \in Runs : r = call[c].run
    BY <1>4, CommitGenerateEffect
  <2>2. /\ Commits(c) /\ call[c].op = "generate" /\ project.active = r
        /\ call'[c].op \in {"none", "confirm"} /\ (call'[c].op = "confirm" => call'[c].run = r)
        /\ project'.draft = call[c].draft /\ project'.active = r
        /\ project'.revision = project.revision + 1
        /\ \A q \in Runs : run'[q].generated = IF q = r THEN TRUE ELSE run[q].generated
        /\ UNCHANGED <<stage, audio>>
    BY <1>4, <2>1, CommitGenerateEffect DEF RunCurrent
  <2>3. /\ ~run[r].generated
        /\ (Confirmed(r, "layout") =>
               call[c].draft.parts["layout"] = stage[r]["layout"].parts["layout"])
        /\ call[c].draft.version = project.draft.version + 1
    BY <2>1, <2>2 DEF Working, AllWorking, Commits, Checked
  <2>4. Progress
    <3>1. ASSUME NEW q \in Runs, run[q].generated PROVE run'[q].generated
      BY <2>2, <3>1
    <3> QED BY <2>2, <2>3, <3>1, Numbers DEF Progress
  <2>5. Working(c)'
    BY <2>1, <2>2 DEF Working
  <2>6. ScriptIsResult'
    BY <2>2 DEF ScriptIsResult, Confirmed
  <2>7. ReviewIsCurrent'
    <3>1. ASSUME NEW q \in Runs, NEW s \in {"layout", "script"}, Confirmed(q, s)'
          PROVE  stage'[q][s].parts[s] = project'.draft.parts[s]
      <4>1. Confirmed(q, s) /\ q = r
        BY <2>2, <3>1 DEF SInv, ConfirmedIsActive, Confirmed, Stages
      <4>2. s = "layout"
        BY <2>3, <4>1 DEF ScriptIsResult
      <4> QED BY <2>2, <2>3, <4>1, <4>2
    <3> QED BY <3>1 DEF ReviewIsCurrent
  <2>8. audio \subseteq [run : Runs, script : Nat]
    BY DEF Typed, TypeOK
  <2>9. AudioIsOfResult' /\ AudioIsCurrent'
    BY <2>2, <2>3, <2>8 DEF AudioIsOfResult, AudioIsCurrent
  <2> QED BY <2>2, <2>4, <2>5, <2>6, <2>7, <2>9, CommitReview
<1>5. ASSUME NEW r \in Runs, StartAssign(c, r) PROVE RInv' /\ Progress
  <2>1. /\ Quiet(c) /\ call'[c].op = "assign" /\ call'[c].run = r /\ run[r].generated
        /\ \A s \in Stages : /\ call'[c].outputs[s] = stage[r][s].revision
                             /\ call'[c].draft.parts[s] = stage[r][s].parts[s]
    BY <1>5, StartAssignEffect DEF ScriptIsResult
  <2>2. ASSUME NEW s \in {"layout", "script"}
        PROVE  /\ call'[c].outputs[s] <= project.revision
               /\ call'[c].draft.parts[s] = stage[r][s].parts[s]
    BY <2>1 DEF Numbered, Stages
  <2>3. Working(c)'
    BY <2>1, <2>2 DEF Working, Quiet
  <2> QED BY <2>1, <2>3, QuietReview
<1>6. CASE OpenAssign(c)
  <2>1. /\ Quiet(c) /\ call'[c].op = "assign" /\ call[c].op = "assign"
        /\ call'[c].run = call[c].run /\ call'[c].outputs = call[c].outputs
        /\ \A s \in {"layout", "script"} :
              call'[c].draft.parts[s] = call[c].draft.parts[s]
    BY <1>6, OpenAssignEffect DEF Opens
  <2>2. Working(c)'
    BY <2>1 DEF Working, AllWorking, Quiet
  <2> QED BY <2>1, <2>2, QuietReview
<1>7. CASE CommitAssign(c)
  <2>1. PICK r \in Runs : r = call[c].run
    BY <1>7, CommitAssignEffect
  <2>2. /\ Commits(c) /\ call[c].op = "assign" /\ ContextCurrent(c) /\ call'[c].op = "none"
        /\ project'.draft = call[c].draft /\ project'.active = project.active
        /\ project'.revision = project.revision + 1
        /\ UNCHANGED <<run, stage, audio>>
    BY <1>7, CommitAssignEffect
  <2>3. ASSUME NEW s \in {"layout", "script"}
        PROVE  /\ Confirmed(r, s) /\ call[c].draft.parts[s] = stage[r][s].parts[s]
               /\ call[c].draft.parts[s] = project.draft.parts[s]
    BY <2>1, <2>2 DEF ContextCurrent, StageIsStill, Working, AllWorking, ReviewIsCurrent
  <2>4. call[c].draft.version = project.draft.version + 1
    BY <2>2 DEF Commits, Checked
  <2>5. Progress
    BY <2>2, <2>4, Numbers DEF Progress
  <2>6. ScriptIsResult' /\ AudioIsOfResult'
    BY <2>2 DEF ScriptIsResult, Confirmed, AudioIsOfResult
  <2>7. ReviewIsCurrent' /\ AudioIsCurrent'
    BY <2>2, <2>3 DEF ReviewIsCurrent, AudioIsCurrent, Confirmed
  <2> QED BY <2>2, <2>5, <2>6, <2>7, AtRest, CommitReview
<1> QED BY <1>1, <1>2, <1>3, <1>4, <1>5, <1>6, <1>7 DEF Generation

LEMMA MediaReview ==
    ASSUME MaxOpen = 1, Typed, Typed', SInv, RInv, NEW c \in Callers, Media(c) \/ Refuse(c)
    PROVE  RInv' /\ Progress
<1> USE DEF RInv
<1>1. ASSUME NEW r \in Runs, OpenVideo(c, r) PROVE RInv' /\ Progress
  <2>1. /\ Quiet(c) /\ call'[c].op = "video" /\ call'[c].run = r
        /\ call'[c].draft = project.draft /\ run[r].generated
    BY <1>1, OpenVideoEffect DEF Opens
  <2>2. Working(c)'
    BY <2>1, Numbers DEF Working, Quiet
  <2> QED BY <2>1, <2>2, QuietReview
<1>2. ASSUME NEW r \in Runs, StartHighlight(c, r) PROVE RInv' /\ Progress
  <2>1. /\ Quiet(c) /\ call'[c].op = "video_highlight" /\ call'[c].run = r
        /\ Confirmed(r, "assignment")
    BY <1>2, StartHighlightEffect
  <2>2. run[r].generated
    BY <2>1 DEF SInv, StageOrder, ScriptIsResult
  <2>3. Working(c)'
    BY <2>1, <2>2 DEF Working, Quiet
  <2> QED BY <2>1, <2>3, QuietReview
<1>3. ASSUME NEW r \in Runs, StartPreview(c, r) PROVE RInv' /\ Progress
  <2>1. Quiet(c) /\ call'[c].op = "preview" /\ call'[c].run = r /\ run[r].generated
    BY <1>3, StartPreviewEffect
  <2>2. Working(c)'
    BY <2>1 DEF Working, Quiet
  <2> QED BY <2>1, <2>2, QuietReview
<1>4. CASE OpenRender(c)
  <2>1. /\ Quiet(c) /\ call'[c].op = call[c].op /\ call'[c].run = call[c].run
        /\ call[c].op \in {"video", "video_highlight"} /\ call'[c].draft = call[c].draft
    BY <1>4, OpenRenderEffect DEF Opens
  <2>2. Working(c)'
    BY <2>1 DEF Working, AllWorking, Quiet
  <2> QED BY <2>1, <2>2, QuietReview
<1>5. CASE OpenPreview(c)
  <2>1. /\ Quiet(c) /\ call'[c].op = "preview" /\ call[c].op = "preview"
        /\ call'[c].run = call[c].run
    BY <1>5, OpenPreviewEffect DEF Opens
  <2>2. Working(c)'
    BY <2>1 DEF Working, AllWorking, Quiet
  <2> QED BY <2>1, <2>2, QuietReview
<1>6. CASE FreezeInput(c) \/ CommitRender(c)
  <2>1. /\ Commits(c) /\ project'.draft = project.draft /\ project'.active = project.active
        /\ project'.revision = project.revision + 1 /\ UNCHANGED <<run, stage, audio>>
    BY <1>6, FreezeInputEffect, CommitRenderEffect
  <2>2. Working(c)'
    <3>1. CASE FreezeInput(c)
      <4>1. /\ call'[c].op = "video" /\ call[c].op = "video" /\ call'[c].run = call[c].run
            /\ call'[c].draft = call[c].draft
        BY <3>1, FreezeInputEffect
      <4> QED BY <2>1, <4>1 DEF Working, AllWorking
    <3>2. CASE CommitRender(c)
      BY <3>2, CommitRenderEffect, AtRest
    <3> QED BY <1>6, <3>1, <3>2
  <2>3. Progress
    BY <2>1, Numbers DEF Progress
  <2>4. ScriptIsResult' /\ ReviewIsCurrent' /\ AudioIsOfResult' /\ AudioIsCurrent'
    BY <2>1 DEF ScriptIsResult, ReviewIsCurrent, AudioIsOfResult, AudioIsCurrent, Confirmed
  <2> QED BY <2>1, <2>2, <2>3, <2>4, CommitReview
<1>7. CASE CommitPreview(c)
  <2> DEFINE new == [run |-> call[c].run, script |-> call[c].draft.parts["script"]]
  <2>1. /\ Commits(c) /\ call[c].op = "preview" /\ call[c].run \in Runs /\ call'[c].op = "none"
        /\ ScriptCurrent(call[c].run, call[c].draft.parts)
        /\ audio' = audio \cup {new} /\ UNCHANGED <<project, run, stage>>
    BY <1>7, CommitPreviewEffect
  <2>2. Progress
    BY <2>1, Numbers DEF Progress
  <2>3. run[new.run].generated /\ new.script = project.draft.parts["script"]
    BY <2>1 DEF Working, AllWorking, ScriptCurrent
  <2> HIDE DEF new
  <2>4. AudioIsOfResult' /\ AudioIsCurrent'
    BY <2>1, <2>3 DEF AudioIsOfResult, AudioIsCurrent
  <2>5. ScriptIsResult' /\ ReviewIsCurrent'
    BY <2>1 DEF ScriptIsResult, ReviewIsCurrent, Confirmed
  <2> QED BY <2>1, <2>2, <2>4, <2>5, AtRest, CommitReview
<1>8. CASE Refuse(c)
  <2>1. Quiet(c) /\ call'[c].op = "none"
    BY <1>8, RefuseEffect
  <2> QED BY <2>1, AtRest, QuietReview
<1> QED BY <1>1, <1>2, <1>3, <1>4, <1>5, <1>6, <1>7, <1>8 DEF Media

LEMMA StepReview ==
    ASSUME MaxOpen = 1, ~Retry, IInv, IInv', SInv, RInv, [Next]_vars
    PROVE  RInv' /\ Progress
<1>1. Typed /\ Typed' /\ Numbered
  BY DEF IInv, Typed
<1>2. CASE Next
  BY <1>1, <1>2, TabReview, ReviewReview, GenerationReview, MediaReview DEF Next
<1>3. CASE UNCHANGED vars
  <2>1. Progress
    BY <1>1, <1>3, Numbers DEF vars, Progress
  <2> QED BY <1>3, <2>1 DEF vars, RInv, AllWorking, Working, ToConfirm, ScriptIsResult,
        ReviewIsCurrent, AudioIsOfResult, AudioIsCurrent, Confirmed
<1> QED BY <1>2, <1>3

LEMMA RInvHolds ==
    ASSUME MaxOpen = 1, ~Retry
    PROVE  Spec => []RInv
<1>1. Init => RInv
  <2> SUFFICES ASSUME Init PROVE RInv
    OBVIOUS
  <2>1. AllWorking
    BY DEF Init, IdleCall, AllWorking, Working
  <2>2. \A r \in Runs, s \in Stages : ~Confirmed(r, s)
    BY DEF Init, Confirmed
  <2>3. audio = {}
    BY DEF Init
  <2> QED BY <2>1, <2>2, <2>3 DEF RInv, ScriptIsResult, ReviewIsCurrent, AudioIsOfResult,
        AudioIsCurrent, Stages
<1>2. IInv /\ IInv' /\ SInv /\ RInv /\ [Next]_vars => RInv'
  BY StepReview
<1> QED BY <1>1, <1>2, IInvHolds, SInvHolds, PTL DEF Spec

-----------------------------------------------------------------------------
(* The assignment has one reviewer                                         *)
(*                                                                         *)
(* While an assignment is generated, the one of the same run is neither    *)
(* confirmed nor offered for confirmation (OneReviewer), so that the       *)
(* result of the job takes nothing away from a confirmed assignment, nor   *)
(* from the videos made of it.                                             *)

(* What a video with highlights is made from. *)
Highlighting(c) ==
    LET k == call[c] IN
    k.op = "video_highlight" =>
        /\ k.outputs["assignment"] <= project.revision
        /\ stage[k.run]["assignment"].revision = k.outputs["assignment"] =>
              k.draft.parts = stage[k.run]["assignment"].parts

AllHighlighting == \A c \in Callers : Highlighting(c)
OneReview ==
    \A c, d \in Callers :
        call[c].op = "assign" /\ call[d].run = call[c].run => "assignment" \notin ToConfirm(d)
Unconfirmed ==
    \A c \in Callers : call[c].op = "assign" => ~Confirmed(call[c].run, "assignment")
AssignmentIsCurrent ==
    \A r \in Runs :
        Confirmed(r, "assignment") => stage[r]["assignment"].parts = project.draft.parts
RenderIsOfResult == \A a \in render : run[a.run].generated
HighlightIsConfirmed ==
    \A a \in render :
        a.type = "video_highlight" /\ a.run = project.active => Confirmed(a.run, "assignment")

AInv ==
    /\ AllHighlighting /\ OneReview /\ Unconfirmed /\ AssignmentIsCurrent
    /\ RenderIsOfResult /\ HighlightIsConfirmed /\ RenderIsCurrent

(* A call that begins to generate an assignment finds nobody confirming    *)
(* one, and one that is to confirm an assignment nobody generating one.    *)
TakesTurns(c) ==
    /\ call'[c].op = "assign" =>
          \/ call[c].op = "assign" /\ call'[c].run = call[c].run
          \/ \A d \in Callers : "assignment" \notin ToConfirm(d)
    /\ call'[c].op \in {"confirm", "generate"} =>
          \/ ToConfirm(c)' \subseteq ToConfirm(c) /\ call'[c].run = call[c].run
          \/ "assignment" \notin ToConfirm(c)'
          \/ \A d \in Callers : call[d].op = "assign" => call[d].run # call'[c].run

LEMMA NothingToConfirm ==
    ASSUME SInv, NEW d \in Callers, call[d].op \notin {"confirm", "generate"}
    PROVE  ToConfirm(d) = {}
<1>1. call[d].rest = <<>>
  BY DEF SInv, Shaped, Shape
<1>2. Len(<<>>) = 0
  OBVIOUS
<1> QED BY <1>1, <1>2 DEF ToConfirm

LEMMA ReviewersTakeTurns ==
    ASSUME SInv, SInv', OneReview, NEW c \in Callers, OnlyCall(c), TakesTurns(c)
    PROVE  OneReview'
<1> SUFFICES ASSUME NEW a \in Callers, NEW d \in Callers, call'[a].op = "assign",
                    call'[d].run = call'[a].run, "assignment" \in ToConfirm(d)'
             PROVE  FALSE
  BY DEF OneReview
<1>1. call'[d].op \in {"confirm", "generate"} /\ d # a
  <2>1. ASSUME call'[d].op \notin {"confirm", "generate"} PROVE FALSE
    <3>1. call'[d].rest = <<>>
      BY <2>1 DEF SInv, Shaped, Shape
    <3>2. Len(<<>>) = 0
      OBVIOUS
    <3> QED BY <3>1, <3>2 DEF ToConfirm
  <2> QED BY <2>1
<1>2. CASE d # c /\ a # c
  BY <1>2 DEF OnlyCall, OneReview, ToConfirm
<1>3. CASE d = c
  <2>1. call'[a] = call[a]
    BY <1>1, <1>3 DEF OnlyCall
  <2> QED BY <1>1, <1>3, <2>1 DEF TakesTurns, OneReview
<1>4. CASE a = c
  <2>1. call'[d] = call[d] /\ "assignment" \in ToConfirm(d)
    BY <1>1, <1>4 DEF OnlyCall, ToConfirm
  <2> QED BY <1>4, <2>1 DEF TakesTurns, OneReview
<1> QED BY <1>2, <1>3, <1>4

LEMMA HighlightingStays ==
    ASSUME Typed, Typed', NEW d \in Callers, call'[d] = call[d], Highlighting(d), Progress
    PROVE  Highlighting(d)'
<1> SUFFICES ASSUME call[d].op = "video_highlight"
             PROVE  /\ call[d].outputs["assignment"] <= project'.revision
                    /\ stage'[call[d].run]["assignment"].revision = call[d].outputs["assignment"] =>
                          call[d].draft.parts = stage'[call[d].run]["assignment"].parts
  BY DEF Highlighting
<1>1. call[d].run \in Runs /\ "assignment" \in Stages
  BY DEF Typed, Sound, Stages
<1>2. /\ call[d].outputs["assignment"] \in Nat /\ project.revision \in Nat
      /\ project'.revision \in Nat
  BY <1>1, Numbers DEF Typed, TypeOK, Project
<1> QED BY <1>1, <1>2 DEF Highlighting, Progress

LEMMA QuietVideos ==
    ASSUME Typed, Typed', SInv, SInv', AInv, Progress, NEW c \in Callers, Quiet(c),
           TakesTurns(c), Highlighting(c)',
           call'[c].op = "assign" => ~Confirmed(call'[c].run, "assignment")
    PROVE  AInv'
<1>1. ASSUME NEW d \in Callers PROVE Highlighting(d)'
  BY HighlightingStays DEF Quiet, OnlyCall, AInv, AllHighlighting
<1>2. OneReview'
  BY ReviewersTakeTurns DEF Quiet, AInv
<1>3. Unconfirmed'
  BY DEF Quiet, OnlyCall, AInv, Unconfirmed, Confirmed
<1>4. AssignmentIsCurrent' /\ RenderIsOfResult' /\ HighlightIsConfirmed' /\ RenderIsCurrent'
  BY DEF Quiet, AInv, AssignmentIsCurrent, RenderIsOfResult, HighlightIsConfirmed,
     RenderIsCurrent, Confirmed
<1> QED BY <1>1, <1>2, <1>3, <1>4 DEF AInv, AllHighlighting

(* A write that confirms no assignment. *)
LEMMA CommitVideos ==
    ASSUME Typed, Typed', SInv, SInv', AInv, Progress, NEW c \in Callers, Commits(c),
           call'[c].op \in {"none", "video"},
           \A r \in Runs : Confirmed(r, "assignment")' => Confirmed(r, "assignment"),
           AssignmentIsCurrent', RenderIsOfResult', HighlightIsConfirmed', RenderIsCurrent'
    PROVE  AInv'
<1>1. ASSUME NEW d \in Callers PROVE Highlighting(d)'
  <2>1. CASE d = c
    BY <2>1 DEF Highlighting
  <2>2. CASE d # c
    BY <2>2, HighlightingStays DEF Commits, OnlyCall, AInv, AllHighlighting
  <2> QED BY <2>1, <2>2
<1>2. OneReview'
  <2>1. TakesTurns(c)
    BY DEF TakesTurns
  <2> QED BY <2>1, ReviewersTakeTurns DEF Commits, AInv
<1>3. Unconfirmed'
  <2> SUFFICES ASSUME NEW d \in Callers, call'[d].op = "assign"
               PROVE  ~Confirmed(call[d].run, "assignment")'
    BY DEF Unconfirmed
  <2>1. d # c /\ call'[d] = call[d]
    BY DEF Commits, OnlyCall
  <2>2. call[d].run \in Runs /\ ~Confirmed(call[d].run, "assignment")
    BY <2>1 DEF AInv, Unconfirmed, Typed, Sound
  <2> QED BY <2>1, <2>2 DEF Confirmed
<1> QED BY <1>1, <1>2, <1>3 DEF AInv, AllHighlighting

LEMMA Elsewhere ==
    ASSUME NEW c \in Callers,
           call'[c].op \notin {"confirm", "generate", "assign", "video_highlight"}
    PROVE  /\ TakesTurns(c) /\ Highlighting(c)'
           /\ call'[c].op = "assign" => ~Confirmed(call'[c].run, "assignment")
BY DEF TakesTurns, Highlighting

LEMMA TabVideos ==
    ASSUME MaxOpen = 1, Typed, Typed', SInv, SInv', RInv, AInv, Progress,
           NEW c \in Callers, Tab(c)
    PROVE  AInv'
<1> USE DEF AInv
<1>1. CASE Load(c)
  <2>1. Quiet(c) /\ call' = call
    BY <1>1 DEF Load, Quiet, OnlyCall
  <2>2. TakesTurns(c)
    BY <2>1 DEF TakesTurns, ToConfirm
  <2>3. Highlighting(c)'
    BY <2>1, HighlightingStays DEF AllHighlighting
  <2> QED BY <2>1, <2>2, <2>3, QuietVideos DEF Unconfirmed
<1>2. CASE OpensSave(c) \/ OpenPdf(c) \/ PdfStored(c)
  <2>1. Quiet(c) /\ call'[c].op \in {"autosave", "save", "rename", "pdf"}
    BY <1>2, OpenSaveEffect, OpenPdfEffect, PdfStoredEffect DEF Opens, Saves
  <2> QED BY <2>1, Elsewhere, QuietVideos
<1>3. CASE CommitSave(c)
  <2>1. PICK S : S = Changed(project.draft.parts, call[c].draft.parts)
    OBVIOUS
  <2>2. /\ Commits(c) /\ call'[c].op = "none" /\ run' = run
        /\ project'.draft = call[c].draft /\ project'.active = project.active
        /\ MarkStale(project.active, Invalidated(S))
        /\ render' = (IF S # {} THEN {} ELSE render)
    BY <1>3, <2>1, CommitSaveEffect
  <2>3. ASSUME NEW q \in Runs
        PROVE  /\ stage'[q]["assignment"].parts = stage[q]["assignment"].parts
               /\ Confirmed(q, "assignment")' <=>
                     Confirmed(q, "assignment") /\ ~(q = project.active /\ S # {})
    BY <2>2, StaleStages DEF Invalidated, Stages
  <2>4. S = {} => project'.draft.parts = project.draft.parts
    <3>1. project.draft.parts \in Content /\ call[c].draft.parts \in Content
      BY DEF Typed, TypeOK, Project, Draft, Call
    <3>2. S = {} => \A s \in Stages : call[c].draft.parts[s] = project.draft.parts[s]
      BY <2>1 DEF Changed
    <3> QED BY <2>2, <3>1, <3>2 DEF Content
  <2>5. AssignmentIsCurrent'
    BY <2>3, <2>4 DEF AssignmentIsCurrent, SInv, ConfirmedIsActive, Stages
  <2>6. RenderIsOfResult' /\ RenderIsCurrent'
    BY <2>2, <2>4 DEF RenderIsOfResult, RenderIsCurrent
  <2>7. HighlightIsConfirmed'
    <3>1. \A a \in render : a.run \in Runs
      BY DEF Typed, TypeOK
    <3> QED BY <2>2, <2>3, <3>1 DEF HighlightIsConfirmed
  <2> QED BY <2>2, <2>3, <2>5, <2>6, <2>7, CommitVideos
<1>4. CASE CommitPdf(c)
  <2>1. /\ Commits(c) /\ call'[c].op = "none" /\ project'.active = None
        /\ run' = SupersededRun(project.active) /\ Withdraw(project.active)
    BY <1>4, CommitPdfEffect
  <2>2. \A r \in Runs : ~Confirmed(r, "assignment")'
    BY <2>1, WithdrawnStages DEF Stages
  <2>3. \A a \in render' : a \in render /\ a.run \in Runs /\ a.run # project'.active
    BY <2>1, ProjectStoreAssumption DEF Withdraw, Typed, TypeOK
  <2>4. RenderIsOfResult'
    BY <2>1, <2>3, SupersededStatus DEF RenderIsOfResult
  <2>5. AssignmentIsCurrent' /\ HighlightIsConfirmed' /\ RenderIsCurrent'
    BY <2>2, <2>3 DEF AssignmentIsCurrent, HighlightIsConfirmed, RenderIsCurrent
  <2> QED BY <2>1, <2>2, <2>4, <2>5, CommitVideos
<1> QED BY <1>1, <1>2, <1>3, <1>4 DEF Tab, OpensSave

LEMMA ReviewVideos ==
    ASSUME MaxOpen = 1, OneReviewer, Typed, Typed', SInv, SInv', RInv, AInv, Progress,
           NEW c \in Callers, Review(c)
    PROVE  AInv'
<1> USE DEF AInv
<1>1. ASSUME NEW r \in Runs, NEW s \in Stages, StartConfirm(c, r, s) PROVE AInv'
  <2>1. /\ Quiet(c) /\ call'[c].op = "confirm" /\ call'[c].run = r
        /\ call'[c].rest \in {<<"layout", "script">>, <<s>>}
        /\ (s = "assignment" => \A d \in Callers : call[d].op # "assign")
    BY <1>1, StartConfirmEffect
  <2>2. ASSUME "assignment" \in ToConfirm(c)' PROVE s = "assignment"
    <3>1. CASE call'[c].rest = <<"layout", "script">>
      <4>1. Len(<<"layout", "script">>) = 2
        OBVIOUS
      <4>2. PICK n \in 1..2 : <<"layout", "script">>[n] = "assignment"
        BY <2>2, <3>1, <4>1 DEF ToConfirm
      <4> QED BY <4>2
    <3>2. CASE call'[c].rest = <<s>>
      BY <2>2, <3>2 DEF ToConfirm
    <3> QED BY <2>1, <3>1, <3>2
  <2>3. TakesTurns(c) /\ Highlighting(c)'
    BY <2>1, <2>2 DEF TakesTurns, Highlighting
  <2> QED BY <2>1, <2>3, QuietVideos
<1>2. CASE OpenConfirm(c)
  <2>1. /\ Quiet(c) /\ call'[c].op = "confirm"
        /\ call'[c].run = call[c].run /\ call'[c].rest = call[c].rest
    BY <1>2, OpenConfirmEffect DEF Opens
  <2>2. TakesTurns(c) /\ Highlighting(c)'
    BY <2>1 DEF TakesTurns, Highlighting, ToConfirm
  <2> QED BY <2>1, <2>2, QuietVideos
<1>3. CASE CommitConfirm(c)
  <2>1. PICK r, s : r = call[c].run /\ s = Head(call[c].rest)
    OBVIOUS
  <2>2. /\ Commits(c) /\ call'[c].op \in {"none", "confirm"}
        /\ (call'[c].op = "confirm" => call'[c].run = r)
        /\ ToConfirm(c)' \subseteq ToConfirm(c)
        /\ s \in ToConfirm(c)
        /\ project'.draft = project.draft /\ project'.active = project.active
        /\ UNCHANGED <<run, render>>
    BY <1>3, <2>1, CommitConfirmEffect
  <2>3. ASSUME NEW q \in Runs
        PROVE  /\ Confirmed(q, "assignment")' <=>
                     Confirmed(q, "assignment") \/ (q = r /\ s = "assignment")
               /\ \/ stage'[q]["assignment"].parts = project.draft.parts
                  \/ stage'[q]["assignment"] = stage[q]["assignment"]
    BY <1>3, <2>1, CommitConfirmEffect DEF Stages
  <2>4. ASSUME NEW d \in Callers PROVE Highlighting(d)'
    <3>1. CASE d = c
      BY <2>2, <3>1 DEF Highlighting
    <3>2. CASE d # c
      BY <2>2, <3>2, HighlightingStays DEF Commits, OnlyCall, AllHighlighting
    <3> QED BY <3>1, <3>2
  <2>5. OneReview'
    <3>1. TakesTurns(c)
      BY <2>1, <2>2 DEF TakesTurns
    <3> QED BY <2>2, <3>1, ReviewersTakeTurns DEF Commits
  <2>6. Unconfirmed'
    <3> SUFFICES ASSUME NEW d \in Callers, call'[d].op = "assign"
                 PROVE  ~Confirmed(call[d].run, "assignment")'
      BY DEF Unconfirmed
    <3>1. d # c /\ call'[d] = call[d]
      BY <2>2 DEF Commits, OnlyCall
    <3>2. call[d].run \in Runs /\ ~Confirmed(call[d].run, "assignment")
      BY <3>1 DEF Unconfirmed, Typed, Sound
    <3>3. s = "assignment" => call[d].run # r
      BY <2>1, <2>2, <3>1 DEF OneReview
    <3> QED BY <2>3, <3>1, <3>2, <3>3 DEF Confirmed
  <2>7. AssignmentIsCurrent'
    BY <2>2, <2>3 DEF AssignmentIsCurrent, Confirmed
  <2>8. \A a \in render : a.run \in Runs
    BY DEF Typed, TypeOK
  <2>9. RenderIsOfResult' /\ HighlightIsConfirmed' /\ RenderIsCurrent'
    BY <2>2, <2>3, <2>8 DEF RenderIsOfResult, HighlightIsConfirmed, RenderIsCurrent
  <2> QED BY <2>4, <2>5, <2>6, <2>7, <2>9 DEF AllHighlighting
<1> QED BY <1>1, <1>2, <1>3 DEF Review

LEMMA GenerationVideos ==
    ASSUME MaxOpen = 1, ~Retry, OneReviewer, Typed, Typed', Numbered, SInv, SInv', RInv, AInv,
           Progress, NEW c \in Callers, Generation(c)
    PROVE  AInv'
<1> USE DEF AInv
<1>0. \A a \in render : a.run \in Runs /\ a.type \in {"video", "video_highlight"}
  BY DEF Typed, TypeOK
<1>1. ASSUME NEW r \in Runs, OpenRun(c, r) PROVE AInv'
  <2>1. Quiet(c) /\ call'[c].op = "run"
    BY <1>1, OpenRunEffect DEF Opens
  <2> QED BY <2>1, Elsewhere, QuietVideos
<1>2. CASE CommitRun(c)
  <2>1. PICK r \in Runs : r = call[c].run
    BY <1>2, CommitRunEffect
  <2>2. /\ Commits(c) /\ ~run[r].generated /\ call'[c].op = "none"
        /\ project'.active = r /\ Withdraw(project.active)
        /\ \A q \in Runs : run'[q].generated = run[q].generated
    BY <1>2, <2>1, CommitRunEffect
  <2>3. \A q \in Runs : ~Confirmed(q, "assignment")'
    BY <2>2, WithdrawnStages DEF Stages
  <2>4. \A a \in render' : a \in render /\ a.run # r
    BY <2>2 DEF Withdraw, RenderIsOfResult
  <2>5. RenderIsOfResult'
    BY <1>0, <2>2, <2>4 DEF RenderIsOfResult
  <2>6. AssignmentIsCurrent' /\ HighlightIsConfirmed' /\ RenderIsCurrent'
    BY <2>2, <2>3, <2>4 DEF AssignmentIsCurrent, HighlightIsConfirmed, RenderIsCurrent
  <2> QED BY <2>2, <2>3, <2>5, <2>6, CommitVideos
<1>3. ASSUME NEW r \in Runs, OpenGenerate(c, r) PROVE AInv'
  <2>1. /\ Quiet(c) /\ call'[c].op = "generate" /\ call'[c].run = r /\ ~run[r].generated
    BY <1>3, OpenGenerateEffect DEF Opens
  <2>2. \A d \in Callers : call[d].op = "assign" => call[d].run # r
    BY <2>1 DEF RInv, AllWorking, Working
  <2>3. TakesTurns(c) /\ Highlighting(c)'
    BY <2>1, <2>2 DEF TakesTurns, Highlighting
  <2> QED BY <2>1, <2>3, QuietVideos
<1>4. CASE CommitGenerate(c)
  <2>1. PICK r \in Runs : r = call[c].run
    BY <1>4, CommitGenerateEffect
  <2>2. /\ Commits(c) /\ project.active = r /\ call'[c].op \in {"none", "confirm"}
        /\ (call'[c].op = "confirm" => call'[c].run = r /\ call'[c].rest = call[c].rest)
        /\ project'.active = r
        /\ \A q \in Runs : run'[q].generated = IF q = r THEN TRUE ELSE run[q].generated
        /\ UNCHANGED <<stage, render>>
    BY <1>4, <2>1, CommitGenerateEffect DEF RunCurrent
  <2>3. ~run[r].generated
    BY <1>4, <2>1, CommitGenerateEffect DEF RInv, AllWorking, Working
  <2>4. \A q \in Runs : ~Confirmed(q, "assignment")
    BY <2>2, <2>3 DEF SInv, ConfirmedIsActive, StageOrder, RInv, ScriptIsResult, Stages
  <2>5. \A a \in render : a.run # r
    BY <2>3 DEF RenderIsOfResult
  <2>6. AssignmentIsCurrent' /\ HighlightIsConfirmed' /\ RenderIsCurrent'
    BY <2>2, <2>4, <2>5 DEF AssignmentIsCurrent, HighlightIsConfirmed, RenderIsCurrent, Confirmed
  <2>7. RenderIsOfResult'
    BY <1>0, <2>2, <2>5 DEF RenderIsOfResult
  <2>8. ASSUME NEW d \in Callers PROVE Highlighting(d)'
    <3>1. CASE d = c
      BY <2>2, <3>1 DEF Highlighting
    <3>2. CASE d # c
      BY <2>2, <3>2, HighlightingStays DEF Commits, OnlyCall, AllHighlighting
    <3> QED BY <3>1, <3>2
  <2>9. OneReview'
    <3>1. TakesTurns(c)
      BY <2>1, <2>2 DEF TakesTurns, ToConfirm
    <3> QED BY <2>2, <3>1, ReviewersTakeTurns DEF Commits
  <2>10. Unconfirmed'
    <3> SUFFICES ASSUME NEW d \in Callers, call'[d].op = "assign"
                 PROVE  ~Confirmed(call[d].run, "assignment")'
      BY DEF Unconfirmed
    <3>1. call'[d] = call[d]
      BY <2>2 DEF Commits, OnlyCall
    <3>2. ~Confirmed(call[d].run, "assignment")
      BY <3>1 DEF Unconfirmed
    <3> QED BY <2>2, <3>1, <3>2 DEF Confirmed
  <2> QED BY <2>6, <2>7, <2>8, <2>9, <2>10 DEF AllHighlighting
<1>5. ASSUME NEW r \in Runs, StartAssign(c, r) PROVE AInv'
  <2>1. /\ Quiet(c) /\ call'[c].op = "assign" /\ call'[c].run = r
        /\ ~Confirmed(r, "assignment") /\ \A d \in Callers : "assignment" \notin ToConfirm(d)
    BY <1>5, StartAssignEffect
  <2>2. TakesTurns(c) /\ Highlighting(c)'
    BY <2>1 DEF TakesTurns, Highlighting
  <2> QED BY <2>1, <2>2, QuietVideos
<1>6. CASE OpenAssign(c)
  <2>1. /\ Quiet(c) /\ call'[c].op = "assign" /\ call[c].op = "assign"
        /\ call'[c].run = call[c].run
    BY <1>6, OpenAssignEffect DEF Opens
  <2>2. TakesTurns(c) /\ Highlighting(c)'
    BY <2>1 DEF TakesTurns, Highlighting
  <2> QED BY <2>1, <2>2, QuietVideos DEF Unconfirmed
<1>7. CASE CommitAssign(c)
  <2>1. PICK r \in Runs : r = call[c].run
    BY <1>7, CommitAssignEffect
  <2>2. /\ Commits(c) /\ call[c].op = "assign" /\ ContextCurrent(c) /\ call'[c].op = "none"
        /\ project'.draft = call[c].draft /\ project'.active = project.active
        /\ UNCHANGED <<run, stage, render>>
    BY <1>7, CommitAssignEffect
  <2>3. Confirmed(r, "script") /\ ~Confirmed(r, "assignment")
    BY <2>1, <2>2 DEF ContextCurrent, StageIsStill, Unconfirmed
  <2>4. project.active = r
    BY <2>3 DEF SInv, ConfirmedIsActive, Stages
  <2>5. project'.draft.parts["script"] = project.draft.parts["script"]
    BY <2>1, <2>2 DEF ContextCurrent, StageIsStill, RInv, AllWorking, Working, ReviewIsCurrent
  <2>6. \A q \in Runs : ~Confirmed(q, "assignment")
    BY <2>3, <2>4 DEF SInv, ConfirmedIsActive, Stages
  <2>7. \A a \in render : a.run = r => a.type = "video"
    BY <1>0, <2>3, <2>4 DEF HighlightIsConfirmed
  <2>8. RenderIsCurrent'
    BY <2>2, <2>4, <2>5, <2>7 DEF RenderIsCurrent
  <2>9. AssignmentIsCurrent' /\ RenderIsOfResult' /\ HighlightIsConfirmed'
    BY <2>2, <2>6 DEF AssignmentIsCurrent, RenderIsOfResult, HighlightIsConfirmed, Confirmed
  <2> QED BY <2>2, <2>8, <2>9, CommitVideos DEF Confirmed
<1> QED BY <1>1, <1>2, <1>3, <1>4, <1>5, <1>6, <1>7 DEF Generation

LEMMA MediaVideos ==
    ASSUME MaxOpen = 1, Typed, Typed', Numbered, SInv, SInv', RInv, AInv, Progress,
           NEW c \in Callers, Media(c) \/ Refuse(c)
    PROVE  AInv'
<1> USE DEF AInv
<1>1. ASSUME NEW r \in Runs, OpenVideo(c, r) PROVE AInv'
  <2>1. Quiet(c) /\ call'[c].op = "video"
    BY <1>1, OpenVideoEffect DEF Opens
  <2> QED BY <2>1, Elsewhere, QuietVideos
<1>2. ASSUME NEW r \in Runs, StartHighlight(c, r) PROVE AInv'
  <2>1. /\ Quiet(c) /\ call'[c].op = "video_highlight" /\ call'[c].run = r
        /\ call'[c].outputs["assignment"] = stage[r]["assignment"].revision
        /\ call'[c].draft.parts = stage[r]["assignment"].parts
    BY <1>2, StartHighlightEffect
  <2>2. stage[r]["assignment"].revision <= project.revision
    BY DEF Numbered, Stages
  <2>3. TakesTurns(c) /\ Highlighting(c)'
    BY <2>1, <2>2 DEF TakesTurns, Highlighting, Quiet
  <2> QED BY <2>1, <2>3, QuietVideos
<1>3. ASSUME NEW r \in Runs, StartPreview(c, r) PROVE AInv'
  <2>1. Quiet(c) /\ call'[c].op = "preview"
    BY <1>3, StartPreviewEffect
  <2> QED BY <2>1, Elsewhere, QuietVideos
<1>4. CASE OpenRender(c)
  <2>1. /\ Quiet(c) /\ call'[c].op = call[c].op /\ call'[c].run = call[c].run
        /\ call[c].op \in {"video", "video_highlight"} /\ call'[c].draft = call[c].draft
        /\ call'[c].outputs = call[c].outputs
    BY <1>4, OpenRenderEffect DEF Opens
  <2>2. Highlighting(c)'
    BY <2>1 DEF Highlighting, AllHighlighting, Quiet
  <2>3. TakesTurns(c)
    BY <2>1 DEF TakesTurns
  <2> QED BY <2>1, <2>2, <2>3, QuietVideos
<1>5. CASE OpenPreview(c)
  <2>1. Quiet(c) /\ call'[c].op = "preview"
    BY <1>5, OpenPreviewEffect DEF Opens
  <2> QED BY <2>1, Elsewhere, QuietVideos
<1>6. CASE FreezeInput(c) \/ CommitPreview(c)
  <2>1. /\ Commits(c) /\ call'[c].op \in {"none", "video"}
        /\ project'.draft = project.draft /\ project'.active = project.active
        /\ UNCHANGED <<run, stage, render>>
    BY <1>6, FreezeInputEffect, CommitPreviewEffect
  <2>2. /\ AssignmentIsCurrent' /\ RenderIsOfResult' /\ HighlightIsConfirmed' /\ RenderIsCurrent'
        /\ \A r \in Runs : Confirmed(r, "assignment")' <=> Confirmed(r, "assignment")
    BY <2>1 DEF AssignmentIsCurrent, RenderIsOfResult, HighlightIsConfirmed, RenderIsCurrent,
       Confirmed
  <2> QED BY <2>1, <2>2, CommitVideos
<1>7. CASE CommitRender(c)
  <2>1. PICK r, t, v : r = call[c].run /\ t = call[c].op /\ v = call[c].draft.parts
    OBVIOUS
  <2>2. /\ Commits(c) /\ t \in {"video", "video_highlight"} /\ RenderInputCurrent(c)
        /\ r \in Runs /\ call'[c].op = "none"
        /\ project'.draft = project.draft /\ project'.active = project.active
        /\ render' = render \cup {[run |-> r, type |-> t, parts |-> v]}
        /\ UNCHANGED <<run, stage>>
    BY <1>7, <2>1, CommitRenderEffect
  <2>3. run[r].generated
    BY <2>1, <2>2 DEF RInv, AllWorking, Working
  <2>4. t = "video_highlight" =>
           Confirmed(r, "assignment") /\ v = stage[r]["assignment"].parts
    BY <2>1, <2>2 DEF RenderInputCurrent, StageIsStill, AllHighlighting, Highlighting
  <2>5. v = project.draft.parts
    <3>1. CASE t = "video"
      BY <2>1, <2>2, <3>1 DEF RenderInputCurrent, RInv, AllWorking, Working
    <3>2. CASE t = "video_highlight"
      BY <2>2, <2>4, <3>2 DEF AssignmentIsCurrent
    <3> QED BY <2>2, <3>1, <3>2
  <2>6. RenderIsOfResult'
    BY <2>2, <2>3 DEF RenderIsOfResult
  <2>7. RenderIsCurrent'
    BY <2>2, <2>5 DEF RenderIsCurrent
  <2>8. HighlightIsConfirmed'
    BY <2>2, <2>4 DEF HighlightIsConfirmed, Confirmed
  <2>9. /\ AssignmentIsCurrent'
        /\ \A q \in Runs : Confirmed(q, "assignment")' <=> Confirmed(q, "assignment")
    BY <2>2 DEF AssignmentIsCurrent, Confirmed
  <2> QED BY <2>2, <2>6, <2>7, <2>8, <2>9, CommitVideos
<1>8. CASE Refuse(c)
  <2>1. Quiet(c) /\ call'[c].op = "none"
    BY <1>8, RefuseEffect
  <2> QED BY <2>1, Elsewhere, QuietVideos
<1> QED BY <1>1, <1>2, <1>3, <1>4, <1>5, <1>6, <1>7, <1>8 DEF Media

LEMMA AInvHolds ==
    ASSUME MaxOpen = 1, ~Retry, OneReviewer
    PROVE  Spec => []AInv
<1>1. Init => AInv
  <2> SUFFICES ASSUME Init PROVE AInv
    OBVIOUS
  <2>1. \A c \in Callers : call[c].op = "none"
    BY DEF Init, IdleCall
  <2>2. \A r \in Runs : ~Confirmed(r, "assignment")
    BY DEF Init, Confirmed, Stages
  <2>3. render = {}
    BY DEF Init
  <2> QED BY <2>1, <2>2, <2>3 DEF AInv, AllHighlighting, Highlighting, OneReview, Unconfirmed,
        AssignmentIsCurrent, RenderIsOfResult, HighlightIsConfirmed, RenderIsCurrent
<1>2. IInv /\ IInv' /\ SInv /\ SInv' /\ RInv /\ AInv /\ [Next]_vars => AInv'
  <2> SUFFICES ASSUME IInv, IInv', SInv, SInv', RInv, AInv, [Next]_vars PROVE AInv'
    OBVIOUS
  <2>1. Typed /\ Typed' /\ Numbered
    BY DEF IInv, Typed
  <2>2. Progress
    BY StepReview
  <2>3. CASE Next
    BY <2>1, <2>2, <2>3, TabVideos, ReviewVideos, GenerationVideos, MediaVideos DEF Next
  <2>4. CASE UNCHANGED vars
    BY <2>4 DEF vars, AInv, AllHighlighting, Highlighting, OneReview, Unconfirmed, ToConfirm,
       AssignmentIsCurrent, RenderIsOfResult, HighlightIsConfirmed, RenderIsCurrent, Confirmed
  <2> QED BY <2>3, <2>4
<1> QED BY <1>1, <1>2, IInvHolds, SInvHolds, RInvHolds, PTL DEF Spec

-----------------------------------------------------------------------------
(* What a single step can be                                               *)

Moves(c) ==
    /\ OnlyCall(c)
    /\ project' = project \/ Commits(c)
    /\ \/ project'.active \in {project.active, None}
       \/ project'.active \in Runs /\ run[project'.active].status = "none"
    /\ call[c].op = "assign" /\ call[c].pc = "open" /\ call'[c].op # "assign" => CommitAssign(c)

LEMMA TabMoves ==
    ASSUME MaxOpen = 1, Typed, SInv, NEW c \in Callers, Tab(c)
    PROVE  Moves(c)
<1>1. CASE Load(c)
  BY <1>1 DEF Load, OnlyCall, Moves
<1>2. CASE OpensSave(c) \/ OpenPdf(c) \/ PdfStored(c)
  <2>1. OnlyCall(c) /\ project' = project
    BY <1>2, OpenSaveEffect, OpenPdfEffect, PdfStoredEffect DEF Opens, Quiet
  <2>2. call[c].op # "assign" \/ call[c].pc # "open"
    BY <1>2 DEF OpensSave, OpenSave, OpenRename, OpenPdf, PdfStored, Begins, Idle
  <2> QED BY <2>1, <2>2 DEF Moves
<1>3. CASE CommitSave(c)
  <2>1. Commits(c) /\ call[c].op # "assign" /\ project'.active = project.active
    BY <1>3, CommitSaveEffect DEF Saves
  <2> QED BY <2>1 DEF Moves, Commits
<1>4. CASE CommitPdf(c)
  <2>1. Commits(c) /\ call[c].op = "pdf" /\ project'.active = None
    BY <1>4, CommitPdfEffect
  <2> QED BY <2>1 DEF Moves, Commits
<1> QED BY <1>1, <1>2, <1>3, <1>4 DEF Tab, OpensSave

LEMMA ReviewMoves ==
    ASSUME MaxOpen = 1, Typed, SInv, NEW c \in Callers, Review(c)
    PROVE  Moves(c)
<1>1. ASSUME NEW r \in Runs, NEW s \in Stages, StartConfirm(c, r, s) PROVE Moves(c)
  <2>1. Quiet(c) /\ loaded' = loaded /\ call'[c].op = "confirm" /\ call[c].pc = "idle"
    BY <1>1, StartConfirmEffect DEF Idle
  <2> QED BY <2>1 DEF Moves, Quiet
<1>2. CASE OpenConfirm(c)
  <2>1. Quiet(c) /\ loaded' = loaded /\ call'[c].op = "confirm" /\ call[c].op = "confirm"
    BY <1>2, OpenConfirmEffect DEF Opens
  <2> QED BY <2>1 DEF Moves, Quiet
<1>3. CASE CommitConfirm(c)
  <2>1. /\ Commits(c) /\ loaded' = loaded /\ call'[c].op \in {"none", "confirm"}
        /\ call[c].op = "confirm"
        /\ project'.draft = project.draft /\ project'.active = project.active
    BY <1>3, CommitConfirmEffect
  <2> QED BY <2>1 DEF Moves, Commits
<1> QED BY <1>1, <1>2, <1>3 DEF Review

LEMMA GenerationMoves ==
    ASSUME MaxOpen = 1, Typed, SInv, NEW c \in Callers, Generation(c)
    PROVE  Moves(c)
<1>1. ASSUME NEW r \in Runs, OpenRun(c, r) \/ OpenGenerate(c, r) \/ StartAssign(c, r)
      PROVE  Moves(c)
  <2>1. Quiet(c) /\ loaded' = loaded /\ call'[c].op \in {"run", "generate", "assign"}
    BY <1>1, OpenRunEffect, OpenGenerateEffect, StartAssignEffect DEF Opens
  <2>2. call[c].pc = "idle"
    BY <1>1 DEF OpenRun, OpenGenerate, StartAssign, Begins, Idle
  <2> QED BY <2>1, <2>2 DEF Moves, Quiet
<1>2. CASE OpenAssign(c)
  <2>1. Quiet(c) /\ loaded' = loaded /\ call'[c].op = "assign"
    BY <1>2, OpenAssignEffect DEF Opens
  <2> QED BY <2>1 DEF Moves, Quiet
<1>3. CASE CommitRun(c)
  <2>1. /\ Commits(c) /\ loaded' = loaded /\ call'[c].op = "none" /\ call[c].op = "run"
        /\ project'.draft = project.draft /\ project'.active = call[c].run
        /\ call[c].run \in Runs /\ run[call[c].run].status = "none"
    BY <1>3, CommitRunEffect
  <2> QED BY <2>1 DEF Moves, Commits
<1>4. CASE CommitGenerate(c)
  <2>1. /\ Commits(c) /\ loaded' = loaded /\ call'[c].op \in {"none", "confirm"}
        /\ call[c].op = "generate"
        /\ project'.draft = call[c].draft /\ project'.active = project.active
    BY <1>4, CommitGenerateEffect DEF RunCurrent
  <2>2. project'.draft.version > project.draft.version
    BY <2>1, Numbers DEF Commits, Checked
  <2> QED BY <2>1, <2>2 DEF Moves, Commits
<1>5. CASE CommitAssign(c)
  <2>1. /\ Commits(c) /\ loaded' = loaded /\ call'[c].op = "none" /\ call[c].op = "assign"
        /\ project'.draft = call[c].draft /\ project'.active = project.active
    BY <1>5, CommitAssignEffect
  <2>2. project'.draft.version > project.draft.version
    BY <2>1, Numbers DEF Commits, Checked
  <2> QED BY <1>5, <2>1, <2>2 DEF Moves, Commits
<1> QED BY <1>1, <1>2, <1>3, <1>4, <1>5 DEF Generation

LEMMA MediaMoves ==
    ASSUME MaxOpen = 1, Typed, SInv, NEW c \in Callers, Media(c) \/ Refuse(c)
    PROVE  Moves(c)
<1>1. ASSUME NEW r \in Runs, OpenVideo(c, r) \/ StartHighlight(c, r) \/ StartPreview(c, r)
      PROVE  Moves(c)
  <2>1. Quiet(c) /\ loaded' = loaded /\ call'[c].op \in {"video", "video_highlight", "preview"}
    BY <1>1, OpenVideoEffect, StartHighlightEffect, StartPreviewEffect DEF Opens
  <2>2. call[c].pc = "idle"
    BY <1>1 DEF OpenVideo, StartHighlight, StartPreview, Begins, Idle
  <2> QED BY <2>1, <2>2 DEF Moves, Quiet
<1>2. CASE OpenRender(c) \/ OpenPreview(c)
  <2>1. /\ Quiet(c) /\ loaded' = loaded /\ call'[c].op = call[c].op
        /\ call[c].op \in {"video", "video_highlight", "preview"}
    BY <1>2, OpenRenderEffect, OpenPreviewEffect DEF Opens
  <2> QED BY <2>1 DEF Moves, Quiet
<1>3. CASE FreezeInput(c) \/ CommitRender(c) \/ CommitPreview(c)
  <2>1. /\ Commits(c) /\ loaded' = loaded /\ call'[c].op \in {"none", "video"}
        /\ call[c].op \in {"video", "video_highlight", "preview"}
        /\ project'.draft = project.draft /\ project'.active = project.active
    BY <1>3, FreezeInputEffect, CommitRenderEffect, CommitPreviewEffect
  <2> QED BY <2>1 DEF Moves, Commits
<1>4. CASE Refuse(c)
  <2>1. /\ Quiet(c) /\ loaded' = loaded /\ call'[c].op = "none"
        /\ (call[c].op # "assign" \/ call[c].pc = "working")
    BY <1>4, RefuseEffect
  <2> QED BY <2>1 DEF Moves, Quiet
<1> QED BY <1>1, <1>2, <1>3, <1>4 DEF Media

LEMMA StepMoves ==
    ASSUME MaxOpen = 1, IInv, SInv, Next
    PROVE  \E c \in Callers : Moves(c)
<1>1. Typed
  BY DEF IInv, Typed
<1> QED BY <1>1, TabMoves, ReviewMoves, GenerationMoves, MediaMoves DEF Next

-----------------------------------------------------------------------------
(* Saves                                                                   *)
(*                                                                         *)
(* Any number of operations overlap here; only those that replace the      *)
(* draft are not open together.  Then the version tells the drafts apart,  *)
(* and a tab that names the version it loaded replaces the draft it        *)
(* loaded, whatever is confirmed, rendered or spoken meanwhile and however *)
(* other tabs rename and save.                                             *)

WritersApart == DraftWriters \X DraftWriters \subseteq Apart

Writing(c) == call[c].op \in DraftWriters /\ IsOpen(c)

OneWriter == \A c, d \in Callers : Writing(c) /\ Writing(d) => c = d

(* The version that an open call has read, or the one it will write. *)
Versioned(k, version) ==
    /\ k.op \in Saves \cup {"generate"} => k.pc = "open"
    /\ k.pc = "upload" => k.op = "pdf"
    /\ k.op = "pdf" /\ k.pc = "open" => k.seen.draft.version = version
    /\ k.op \in DraftWriters \ {"pdf"} /\ k.pc = "open" => k.draft.version = version + 1
AllVersioned == \A c \in Callers : Versioned(call[c], project.draft.version)

LoadedIsKnown ==
    \A c \in Callers :
        /\ loaded[c].version <= project.draft.version
        /\ loaded[c].version = project.draft.version => loaded[c] = project.draft
SaveNamesVersion ==
    \A c \in Callers : call[c].op = "autosave" => loaded[c].version = project.draft.version

BInv == OneWriter /\ AllVersioned /\ LoadedIsKnown /\ SaveNamesVersion

(* A step that leaves the draft alone. *)
Keeps(c) ==
    /\ OnlyCall(c) /\ project'.draft = project.draft
    /\ loaded' = loaded \/ Load(c)
    /\ Versioned(call'[c], project.draft.version)
    /\ Writing(c)' => Writing(c) \/ \A d \in Callers : ~Writing(d)
    /\ call'[c].op = "autosave" => loaded[c].version = project.draft.version

(* A step that replaces it. *)
Replaces(c) ==
    /\ OnlyCall(c) /\ Writing(c) /\ call'[c].op \notin DraftWriters
    /\ call'[c].pc \in {"idle", "between"}
    /\ project'.draft.version = project.draft.version + 1
    /\ loaded' = loaded \/ loaded' = [loaded EXCEPT ![c] = project'.draft]

LEMMA WriterOpened ==
    ASSUME WritersApart, Typed, NEW c \in Callers, NEW rec, Sound(rec),
           NEW pc \in {"upload", "freeze", "open"}, OpenAt(c, rec, pc)
    PROVE  /\ OnlyCall(c) /\ call'[c].pc = pc /\ call'[c].seen = project
           /\ call'[c].op = rec.op /\ call'[c].draft = rec.draft
           /\ rec.op \in DraftWriters => \A d \in Callers : ~Writing(d)
<1>1. call'[c] = [rec EXCEPT !.pc = pc, !.seen = project] /\ OnlyCall(c)
  BY BecomeCall DEF OpenAt
<1>2. rec \in Call
  BY DEF Sound
<1>3. ASSUME rec.op \in DraftWriters, NEW d \in Callers, Writing(d) PROVE FALSE
  <2>1. d \in Opened /\ call[d].op \in DraftWriters
    BY <1>3 DEF Writing, IsOpen, Opened
  <2>2. <<rec.op, call[d].op>> \in Apart
    BY <1>3, <2>1 DEF WritersApart
  <2> QED BY <2>1, <2>2 DEF OpenAt
<1> QED BY <1>1, <1>2, <1>3 DEF Call

(* An operation that does not write the draft begins or is opened. *)
LEMMA OtherOpened ==
    ASSUME Typed, NEW c \in Callers, NEW rec, Sound(rec), rec.op \notin DraftWriters,
           NEW pc \in {"freeze", "open"}, OpenAt(c, rec, pc),
           UNCHANGED <<project, loaded>>
    PROVE  Keeps(c)
<1>1. call'[c] = [rec EXCEPT !.pc = pc, !.seen = project] /\ OnlyCall(c)
  BY BecomeCall DEF OpenAt
<1>2. call'[c].op = rec.op /\ call'[c].pc = pc
  BY <1>1 DEF Sound, Call
<1> QED BY <1>1, <1>2 DEF Keeps, Versioned, Writing, DraftWriters, Saves

(* A call that is not open leaves the draft alone. *)
LEMMA RestsOutside ==
    ASSUME Typed, NEW c \in Callers, OnlyCall(c), project'.draft = project.draft, loaded' = loaded,
           call'[c].op \notin Saves \cup {"generate"},
           call'[c].pc \in {"idle", "between", "working"}
    PROVE  Keeps(c)
BY DEF Keeps, Versioned, Writing, IsOpen, Saves

LEMMA FinishedOutside ==
    ASSUME Typed, NEW c \in Callers, Finish(c), project'.draft = project.draft, loaded' = loaded
    PROVE  Keeps(c)
<1>1. call'[c] = IdleCall /\ OnlyCall(c)
  BY BecomeCall DEF Finish
<1> QED BY <1>1, RestsOutside DEF IdleCall, Saves

LEMMA TabWrites ==
    ASSUME WritersApart, Typed, BInv, NEW c \in Callers, Tab(c)
    PROVE  Keeps(c) \/ Replaces(c)
<1>1. project \in Project /\ loaded \in [Callers -> Draft] /\ call[c] \in Call /\ Sound(IdleCall)
  BY BlankTyped DEF Typed, TypeOK
<1>2. Versioned(call[c], project.draft.version)
  BY DEF BInv, AllVersioned
<1>3. CASE Load(c)
  BY <1>2, <1>3 DEF Load, Idle, Keeps, OnlyCall, Writing, IsOpen, Versioned, Saves
<1>4. CASE OpensSave(c)
  <2>1. UNCHANGED <<project, loaded>>
    BY <1>4 DEF OpensSave, OpenSave, OpenRename
  <2>2. PICK d \in Draft, op \in Saves :
            /\ d.version = project.draft.version + 1 /\ OpenAt(c, SaveOf(d, op), "open")
            /\ op = "autosave" => BaseMatches(c, op)
    BY <1>4, SaveIsOpened DEF Open, Saves
  <2>3. op = "autosave" => loaded[c].version = project.draft.version
    BY <2>2 DEF BaseMatches, BaseVersion
  <2>4. /\ OnlyCall(c) /\ call'[c].pc = "open" /\ call'[c].op = op /\ call'[c].draft = d
        /\ \A e \in Callers : ~Writing(e)
    BY <2>2, SaveSound, WriterOpened DEF DraftWriters
  <2> QED BY <2>1, <2>2, <2>3, <2>4 DEF Keeps, Versioned, Saves
<1>5. CASE CommitSave(c)
  <2>1. /\ call[c].op \in Saves /\ call[c].pc = "open"
        /\ project'.draft = call[c].draft /\ Finish(c)
        /\ loaded' = loaded \/ loaded' = [loaded EXCEPT ![c] = call[c].draft]
    BY <1>1, <1>5 DEF CommitSave, Project
  <2>2. call[c].draft.version = project.draft.version + 1
    BY <1>2, <2>1 DEF Versioned, DraftWriters, Saves
  <2>3. call'[c] = IdleCall /\ OnlyCall(c)
    BY <2>1, BecomeCall DEF Finish
  <2> QED BY <2>1, <2>2, <2>3 DEF Replaces, Writing, IsOpen, DraftWriters, Saves, IdleCall
<1>6. CASE OpenPdf(c)
  <2> DEFINE k == [IdleCall EXCEPT !.op = "pdf"]
  <2>1. Sound(k) /\ k.op = "pdf"
    BY <1>1 DEF Sound, Call, Ops
  <2>2. OpenAt(c, k, "upload") /\ UNCHANGED <<project, loaded>>
    BY <1>6 DEF OpenPdf
  <2> HIDE DEF k
  <2>3. /\ OnlyCall(c) /\ call'[c].pc = "upload" /\ call'[c].op = "pdf"
        /\ \A e \in Callers : ~Writing(e)
    BY <2>1, <2>2, WriterOpened DEF DraftWriters
  <2> QED BY <2>2, <2>3 DEF Keeps, Versioned, Saves
<1>7. CASE PdfStored(c)
  <2>1. PICK s \in Project : s = call[c].seen
    BY <1>1 DEF Call
  <2>2. /\ call[c].pc = "upload" /\ UNCHANGED <<project, loaded>>
        /\ Become(c, [call[c] EXCEPT !.pc = "open", !.seen = [s EXCEPT !.draft = project.draft]])
    BY <1>7, <2>1 DEF PdfStored
  <2>3. call[c].op = "pdf" /\ Writing(c)
    BY <1>2, <2>2 DEF Versioned, Writing, IsOpen, DraftWriters
  <2>4. /\ OnlyCall(c)
        /\ call'[c] = [call[c] EXCEPT !.pc = "open", !.seen = [s EXCEPT !.draft = project.draft]]
    BY <2>2, BecomeCall
  <2>5. /\ call'[c].pc = "open" /\ call'[c].op = "pdf"
        /\ call'[c].seen = [s EXCEPT !.draft = project.draft]
    BY <1>1, <2>3, <2>4 DEF Call
  <2>6. call'[c].seen.draft = project.draft
    BY <2>5 DEF Project
  <2> QED BY <2>2, <2>3, <2>4, <2>5, <2>6 DEF Keeps, Versioned, Saves
<1>8. CASE CommitPdf(c)
  <2>1. PICK v \in Nat : v = call[c].seen.draft.version + 1
    BY <1>1 DEF Call, Project, Draft
  <2>2. PICK b \in Draft : b = BlankDraft
    BY BlankTyped
  <2>3. /\ call[c].op = "pdf" /\ call[c].pc = "open" /\ Finish(c) /\ loaded' = loaded
        /\ project'.draft = [b EXCEPT !.version = v]
    BY <1>8, <2>1, <2>2 DEF CommitPdf
  <2>4. project'.draft.version = project.draft.version + 1
    BY <1>2, <2>1, <2>3 DEF Versioned, Draft
  <2>5. call'[c] = IdleCall /\ OnlyCall(c)
    BY <2>3, BecomeCall DEF Finish
  <2> QED BY <2>3, <2>4, <2>5 DEF Replaces, Writing, IsOpen, DraftWriters, Saves, IdleCall
<1> QED BY <1>3, <1>4, <1>5, <1>6, <1>7, <1>8 DEF Tab, OpensSave

LEMMA ReviewKeeps ==
    ASSUME Typed, NEW c \in Callers, Review(c)
    PROVE  Keeps(c)
<1>1. project \in Project /\ call[c] \in Call /\ Sound(call[c]) /\ IdleCall \in Call
  BY BlankTyped DEF Typed, TypeOK, Sound
<1>2. ASSUME NEW r \in Runs, NEW s \in Stages, StartConfirm(c, r, s) PROVE Keeps(c)
  <2>1. Quiet(c) /\ loaded' = loaded /\ call'[c].op = "confirm" /\ call'[c].pc = "between"
    BY <1>2, StartConfirmEffect
  <2> QED BY <2>1, RestsOutside DEF Quiet, Saves
<1>3. CASE OpenConfirm(c)
  BY <1>1, <1>3, OtherOpened DEF OpenConfirm, Open, DraftWriters, Saves
<1>4. CASE CommitConfirm(c)
  <2>1. project'.draft = project.draft /\ loaded' = loaded /\ call[c].op = "confirm"
    BY <1>1, <1>4 DEF CommitConfirm, Project
  <2>2. CASE Finish(c)
    BY <2>1, <2>2, FinishedOutside
  <2>3. CASE Become(c, [call[c] EXCEPT !.pc = "between", !.rest = Tail(@), !.seen = BlankProject])
    <3>1. /\ OnlyCall(c)
          /\ call'[c] = [call[c] EXCEPT !.pc = "between", !.rest = Tail(@), !.seen = BlankProject]
      BY <2>3, BecomeCall
    <3>2. call'[c].op = "confirm" /\ call'[c].pc = "between"
      BY <1>1, <2>1, <3>1 DEF Call
    <3> QED BY <2>1, <3>1, <3>2, RestsOutside DEF Saves
  <2> QED BY <1>4, <2>2, <2>3 DEF CommitConfirm
<1> QED BY <1>2, <1>3, <1>4 DEF Review

LEMMA GenerationWrites ==
    ASSUME WritersApart, Typed, BInv, NEW c \in Callers, Generation(c)
    PROVE  Keeps(c) \/ Replaces(c)
<1>1. /\ project \in Project /\ loaded \in [Callers -> Draft] /\ call[c] \in Call
      /\ Sound(call[c]) /\ Sound(IdleCall) /\ IdleCall \in Call
      /\ project.draft.version + 1 \in Nat
  BY BlankTyped DEF Typed, TypeOK, Sound, Project, Draft
<1>2. Versioned(call[c], project.draft.version)
  BY DEF BInv, AllVersioned
<1>3. ASSUME NEW r \in Runs, OpenRun(c, r) PROVE Keeps(c)
  <2> DEFINE k == [IdleCall EXCEPT !.op = "run", !.run = r]
  <2>1. Sound(k) /\ k.op = "run"
    BY <1>1 DEF Sound, Call, Ops
  <2>2. OpenAt(c, k, "open") /\ UNCHANGED <<project, loaded>>
    BY <1>3 DEF OpenRun, Open
  <2> HIDE DEF k
  <2> QED BY <2>1, <2>2, OtherOpened DEF DraftWriters, Saves
<1>4. CASE CommitRun(c)
  <2>1. project'.draft = project.draft /\ loaded' = loaded /\ Finish(c)
    BY <1>1, <1>4 DEF CommitRun, Project
  <2> QED BY <2>1, FinishedOutside
<1>5. ASSUME NEW r \in Runs, OpenGenerate(c, r) PROVE Keeps(c)
  <2>1. PICK d \in Draft : /\ d.version = project.draft.version + 1
                           /\ Open(c, [IdleCall EXCEPT !.op = "generate", !.run = r, !.draft = d,
                                          !.rest = AutoConfirmed(r)])
    <3>1. PICK parts \in Content : parts = [KeptHighlights(r) EXCEPT !["script"] = Fresh]
      BY ContentsTyped DEF Content
    <3>2. PICK d \in Draft : d = [version |-> project.draft.version + 1, parts |-> parts,
                                  partial |-> None]
      BY <1>1 DEF Draft
    <3> QED BY <1>5, <3>1, <3>2 DEF OpenGenerate
  <2> DEFINE k == [IdleCall EXCEPT !.op = "generate", !.run = r, !.draft = d,
                      !.rest = AutoConfirmed(r)]
  <2>2. Sound(k) /\ k.op = "generate" /\ k.draft = d
    <3>1. AutoConfirmed(r) \in Seq(Stages)
      BY AutoConfirmedTyped
    <3> QED BY <1>1, <3>1 DEF Sound, Call, Ops
  <2>3. OpenAt(c, k, "open") /\ UNCHANGED <<project, loaded>>
    BY <1>5, <2>1 DEF OpenGenerate, Open
  <2> HIDE DEF k
  <2>4. /\ OnlyCall(c) /\ call'[c].pc = "open" /\ call'[c].op = "generate" /\ call'[c].draft = d
        /\ \A e \in Callers : ~Writing(e)
    BY <2>2, <2>3, WriterOpened DEF DraftWriters
  <2> QED BY <2>1, <2>3, <2>4 DEF Keeps, Versioned, Saves
<1>6. CASE CommitGenerate(c)
  <2>1. /\ call[c].op = "generate" /\ project'.draft = call[c].draft /\ loaded' = loaded
    BY <1>1, <1>6 DEF CommitGenerate, Project
  <2>2. Writing(c) /\ call[c].draft.version = project.draft.version + 1
    BY <1>2, <2>1 DEF Versioned, Writing, IsOpen, DraftWriters, Saves
  <2>3. OnlyCall(c) /\ call'[c].op \in {"none", "confirm"} /\ call'[c].pc \in {"idle", "between"}
    <3>1. CASE Finish(c)
      BY <3>1, BecomeCall DEF Finish, IdleCall
    <3>2. CASE Become(c, [call[c] EXCEPT !.op = "confirm", !.pc = "between", !.seen = BlankProject])
      <4>1. /\ OnlyCall(c)
            /\ call'[c] = [call[c] EXCEPT !.op = "confirm", !.pc = "between", !.seen = BlankProject]
        BY <3>2, BecomeCall
      <4> QED BY <1>1, <4>1 DEF Call
    <3> QED BY <1>6, <3>1, <3>2 DEF CommitGenerate
  <2> QED BY <2>1, <2>2, <2>3 DEF Replaces, DraftWriters, Saves
<1>7. ASSUME NEW r \in Runs, StartAssign(c, r) PROVE Keeps(c)
  <2>1. Quiet(c) /\ loaded' = loaded /\ call'[c].op = "assign" /\ call'[c].pc = "working"
    BY <1>7, StartAssignEffect
  <2> QED BY <2>1, RestsOutside DEF Quiet, Saves
<1>8. CASE OpenAssign(c)
  <2>1. call[c].op = "assign" /\ UNCHANGED <<project, loaded>>
    BY <1>8 DEF OpenAssign
  <2>2. PICK d \in Draft : /\ d.version = project.draft.version + 1
                           /\ Open(c, [call[c] EXCEPT !.draft = d])
    <3>1. PICK parts \in Content : parts = [call[c].draft.parts EXCEPT !["assignment"] = Fresh]
      BY <1>1, ContentsTyped DEF Content, Call, Draft
    <3>2. PICK d \in Draft : d = [version |-> project.draft.version + 1,
                                  partial |-> project.draft.partial, parts |-> parts]
      BY <1>1 DEF Draft, Project
    <3> QED BY <1>8, <3>1, <3>2 DEF OpenAssign
  <2> DEFINE k == [call[c] EXCEPT !.draft = d]
  <2>3. Sound(k) /\ k.op = "assign" /\ k.draft = d
    BY <1>1, <2>1 DEF Sound, Call
  <2>4. OpenAt(c, k, "open")
    BY <2>2 DEF Open
  <2> HIDE DEF k
  <2>5. /\ OnlyCall(c) /\ call'[c].pc = "open" /\ call'[c].op = "assign" /\ call'[c].draft = d
        /\ \A e \in Callers : ~Writing(e)
    BY <2>3, <2>4, WriterOpened DEF DraftWriters
  <2> QED BY <2>1, <2>2, <2>5 DEF Keeps, Versioned, Saves
<1>9. CASE CommitAssign(c)
  <2>1. /\ call[c].op = "assign" /\ call[c].pc = "open" /\ project'.draft = call[c].draft
        /\ loaded' = loaded /\ Finish(c)
    BY <1>1, <1>9 DEF CommitAssign, Project
  <2>2. Writing(c) /\ call[c].draft.version = project.draft.version + 1
    BY <1>2, <2>1 DEF Versioned, Writing, IsOpen, DraftWriters, Saves
  <2>3. call'[c] = IdleCall /\ OnlyCall(c)
    BY <2>1, BecomeCall DEF Finish
  <2> QED BY <2>1, <2>2, <2>3 DEF Replaces, DraftWriters, Saves, IdleCall
<1> QED BY <1>3, <1>4, <1>5, <1>6, <1>7, <1>8, <1>9 DEF Generation

LEMMA MediaKeeps ==
    ASSUME Typed, BInv, NEW c \in Callers, Media(c) \/ Refuse(c)
    PROVE  Keeps(c)
<1>1. /\ project \in Project /\ loaded \in [Callers -> Draft] /\ call[c] \in Call
      /\ Sound(call[c]) /\ IdleCall \in Call /\ Sound(IdleCall)
  BY BlankTyped DEF Typed, TypeOK, Sound
<1>2. Versioned(call[c], project.draft.version)
  BY DEF BInv, AllVersioned
<1>3. ASSUME NEW r \in Runs, OpenVideo(c, r) PROVE Keeps(c)
  <2>1. PICK d \in Draft : d = project.draft
    BY <1>1 DEF Project
  <2> DEFINE k == [IdleCall EXCEPT !.op = "video", !.run = r, !.draft = d]
  <2>2. Sound(k) /\ k.op = "video"
    BY <1>1 DEF Sound, Call, Ops
  <2>3. OpenAt(c, k, "freeze") /\ UNCHANGED <<project, loaded>>
    BY <1>3, <2>1 DEF OpenVideo
  <2> HIDE DEF k
  <2> QED BY <2>2, <2>3, OtherOpened DEF DraftWriters, Saves
<1>4. CASE FreezeInput(c)
  <2>1. /\ project'.draft = project.draft /\ loaded' = loaded
        /\ call[c].op \notin Saves \cup {"generate"}
    BY <1>1, <1>2, <1>4 DEF FreezeInput, Project, Versioned
  <2>2. OnlyCall(c) /\ call'[c] = [call[c] EXCEPT !.pc = "working", !.seen = BlankProject]
    BY <1>4, BecomeCall DEF FreezeInput
  <2>3. call'[c].op = call[c].op /\ call'[c].pc = "working"
    BY <1>1, <2>2 DEF Call
  <2> QED BY <2>1, <2>2, <2>3, RestsOutside
<1>5. ASSUME NEW r \in Runs, StartHighlight(c, r) PROVE Keeps(c)
  <2>1. Quiet(c) /\ loaded' = loaded /\ call'[c].op = "video_highlight" /\ call'[c].pc = "working"
    BY <1>5, StartHighlightEffect
  <2> QED BY <2>1, RestsOutside DEF Quiet, Saves
<1>6. ASSUME NEW r \in Runs, StartPreview(c, r) PROVE Keeps(c)
  <2>1. Quiet(c) /\ loaded' = loaded /\ call'[c].op = "preview" /\ call'[c].pc = "working"
    BY <1>6, StartPreviewEffect
  <2> QED BY <2>1, RestsOutside DEF Quiet, Saves
<1>7. CASE OpenRender(c) \/ OpenPreview(c)
  <2>1. /\ call[c].op \in {"video", "video_highlight", "preview"}
        /\ OpenAt(c, call[c], "open") /\ UNCHANGED <<project, loaded>>
    BY <1>7 DEF OpenRender, OpenPreview, Open
  <2> QED BY <1>1, <2>1, OtherOpened DEF DraftWriters, Saves
<1>8. CASE CommitRender(c) \/ CommitPreview(c) \/ Refuse(c)
  <2>1. project'.draft = project.draft /\ loaded' = loaded /\ Finish(c)
    BY <1>1, <1>8 DEF CommitRender, CommitPreview, Refuse, Project
  <2> QED BY <2>1, FinishedOutside
<1> QED BY <1>3, <1>4, <1>5, <1>6, <1>7, <1>8 DEF Media

LEMMA KeepsLoaded ==
    ASSUME Typed, BInv, NEW c \in Callers, Keeps(c)
    PROVE  BInv'
<1>1. loaded \in [Callers -> Draft]
  BY DEF Typed, TypeOK
<1>2. \A d \in Callers : d # c => call'[d] = call[d] /\ (Writing(d)' <=> Writing(d))
  BY DEF Keeps, OnlyCall, Writing, IsOpen
<1>3. \A d \in Callers : loaded'[d] = loaded[d] \/ loaded'[d] = project.draft
  BY <1>1 DEF Keeps, Load
<1>4. OneWriter'
  BY <1>2 DEF BInv, OneWriter, Keeps
<1>5. AllVersioned'
  BY <1>2 DEF BInv, AllVersioned, Keeps
<1>6. LoadedIsKnown'
  <2>1. project.draft.version <= project.draft.version
    BY DEF Typed, TypeOK, Project, Draft
  <2> QED BY <1>3, <2>1 DEF BInv, LoadedIsKnown, Keeps
<1>7. SaveNamesVersion'
  BY <1>2, <1>3 DEF BInv, SaveNamesVersion, Keeps
<1> QED BY <1>4, <1>5, <1>6, <1>7 DEF BInv

LEMMA ReplacesLoaded ==
    ASSUME Typed, BInv, NEW c \in Callers, Replaces(c)
    PROVE  BInv'
<1>1. loaded \in [Callers -> Draft] /\ project \in Project /\ project.draft.version \in Nat
  BY DEF Typed, TypeOK, Project, Draft
<1>2. ASSUME NEW d \in Callers, d # c
      PROVE  /\ call'[d] = call[d] /\ ~Writing(d)
             /\ Versioned(call[d], project.draft.version)
  BY <1>2 DEF Replaces, OnlyCall, BInv, OneWriter, AllVersioned
<1>3. \A d \in Callers : loaded'[d] = loaded[d] \/ loaded'[d] = project'.draft
  BY <1>1 DEF Replaces
<1>4. OneWriter'
  BY <1>2 DEF OneWriter, Writing, IsOpen, Replaces
<1>5. AllVersioned'
  <2> SUFFICES ASSUME NEW d \in Callers PROVE Versioned(call'[d], project'.draft.version)
    BY DEF AllVersioned
  <2>1. CASE d = c
    BY <2>1 DEF Replaces, Versioned, DraftWriters, Saves
  <2>2. CASE d # c
    BY <1>2, <2>2 DEF Versioned, Writing, IsOpen, DraftWriters, Saves
  <2> QED BY <2>1, <2>2
<1>6. LoadedIsKnown'
  <2> SUFFICES ASSUME NEW d \in Callers
               PROVE  /\ loaded'[d].version <= project'.draft.version
                      /\ loaded'[d].version = project'.draft.version => loaded'[d] = project'.draft
    BY DEF LoadedIsKnown
  <2>1. project'.draft.version = project.draft.version + 1
    BY DEF Replaces
  <2>2. CASE loaded'[d] = project'.draft
    BY <1>1, <2>1, <2>2
  <2>3. CASE loaded'[d] = loaded[d]
    <3>1. loaded[d].version <= project.draft.version /\ loaded[d].version \in Nat
      BY <1>1 DEF BInv, LoadedIsKnown, Draft
    <3> QED BY <1>1, <2>1, <2>3, <3>1
  <2> QED BY <1>3, <2>2, <2>3
<1>7. SaveNamesVersion'
  <2> SUFFICES ASSUME NEW d \in Callers, call'[d].op = "autosave" PROVE FALSE
    BY DEF SaveNamesVersion
  <2>1. d # c
    BY DEF Replaces, DraftWriters, Saves
  <2> QED BY <1>2, <2>1 DEF Versioned, Writing, IsOpen, DraftWriters, Saves
<1> QED BY <1>4, <1>5, <1>6, <1>7 DEF BInv

LEMMA BInvHolds ==
    ASSUME WritersApart
    PROVE  Spec => []BInv
<1>1. Init => BInv
  <2> SUFFICES ASSUME Init PROVE BInv
    OBVIOUS
  <2>1. /\ project.draft = BlankDraft /\ BlankDraft.version = 1
        /\ \A c \in Callers : /\ loaded[c] = BlankDraft /\ call[c].op = "none"
                              /\ call[c].pc = "idle"
    BY DEF Init, BlankProject, BlankDraft, IdleCall
  <2> QED BY <2>1 DEF BInv, OneWriter, Writing, IsOpen, AllVersioned, Versioned, LoadedIsKnown,
             SaveNamesVersion, DraftWriters, Saves
<1>2. IInv /\ BInv /\ [Next]_vars => BInv'
  <2> SUFFICES ASSUME IInv, BInv, [Next]_vars PROVE BInv'
    OBVIOUS
  <2>1. Typed
    BY DEF IInv, Typed
  <2>2. ASSUME NEW c \in Callers,
               Tab(c) \/ Review(c) \/ Generation(c) \/ Media(c) \/ Refuse(c)
        PROVE  BInv'
    <3>1. Keeps(c) \/ Replaces(c)
      BY <2>1, <2>2, TabWrites, ReviewKeeps, GenerationWrites, MediaKeeps
    <3> QED BY <2>1, <3>1, KeepsLoaded, ReplacesLoaded
  <2>3. CASE Next
    BY <2>2, <2>3 DEF Next
  <2>4. CASE UNCHANGED vars
    BY <2>4 DEF vars, BInv, OneWriter, Writing, IsOpen, AllVersioned, Versioned, LoadedIsKnown,
       SaveNamesVersion
  <2> QED BY <2>3, <2>4
<1> QED BY <1>1, <1>2, IInvHolds, PTL DEF Spec

-----------------------------------------------------------------------------
(* The theorems on operations one at a time *)

(* The order of the review (confirm_review_stage, _mark_stale): however    *)
(* confirmations, saves, new runs and jobs follow each other, and with     *)
(* whatever number of tabs, a confirmed assignment rests on a confirmed    *)
(* layout and script.                                                      *)
THEOREM OrderOfReview ==
    ASSUME MaxOpen = 1
    PROVE  Spec => []StageOrder
<1>1. SInv => StageOrder
  BY DEF SInv
<1> QED BY <1>1, SInvHolds, PTL

(* A run that a new run or a new PDF has displaced is superseded in the    *)
(* same write (create_generation_run_v2, save_source_pdf).                 *)
THEOREM OneLiveRun ==
    ASSUME MaxOpen = 1
    PROVE  Spec => []LiveRunIsActive
<1>1. SInv => LiveRunIsActive
  BY DEF SInv, LiveIsActive, LiveRunIsActive
<1> QED BY <1>1, SInvHolds, PTL

(* A superseded run never becomes active again: a late generation result   *)
(* (apply_generated_result) is refused, and a new run is one that has not  *)
(* been used.                                                              *)
THEOREM SupersededForGood ==
    ASSUME MaxOpen = 1
    PROVE  Spec => SupersededStaysInactive
<1>1. IInv /\ SInv /\ [Next]_vars =>
        [\A r \in Runs :
            run[r].status = "superseded" /\ project.active # r => project'.active # r]_vars
  <2> SUFFICES ASSUME IInv, SInv, Next
               PROVE  \A r \in Runs : run[r].status = "superseded" /\ project.active # r =>
                                         project'.active # r
    OBVIOUS
  <2>1. PICK c \in Callers : Moves(c)
    BY StepMoves
  <2> QED BY <2>1, ProjectStoreAssumption DEF Moves
<1> QED BY <1>1, IInvHolds, SInvHolds, PTL DEF Spec, SupersededStaysInactive

(* What a tab saves by itself, or before a confirmation, replaces the      *)
(* draft it has loaded and no other (save_project_draft, App.jsx:689, 734, *)
(* 838): what other tabs save and rename in between, with the version they *)
(* have just asked for, is either loaded first or refuses the save.  Of    *)
(* the operations only those that replace the draft may not overlap;       *)
(* confirmations, videos and audio do no harm.                             *)
THEOREM AutosavesReplaceWhatTheyLoaded ==
    ASSUME WritersApart
    PROVE  Spec => SavesAreBased
<1>1. BInv =>
        [\A c \in Callers :
            call[c].op = "autosave" /\ call'[c].op # "autosave" => project.draft = loaded[c]]_vars
  BY DEF BInv, LoadedIsKnown, SaveNamesVersion
<1> QED BY <1>1, BInvHolds, PTL DEF SavesAreBased

(* The result of an assignment job (apply_review_assignment_result) writes *)
(* layout and script back as they are in the draft: they are still the     *)
(* confirmed ones, or the result is refused.                               *)
THEOREM AssignmentWritesBack ==
    ASSUME MaxOpen = 1, ~Retry
    PROVE  Spec => AssignmentKeepsReview
<1>1. IInv /\ SInv /\ RInv /\ [Next]_vars =>
        [\A c \in Callers :
            call[c].op = "assign" /\ call[c].pc = "open" /\ call'[c].op # "assign" =>
              \A s \in {"layout", "script"} :
                  project'.draft.parts[s] = project.draft.parts[s]]_vars
  <2> SUFFICES ASSUME IInv, SInv, RInv, Next, NEW c \in Callers,
                      call[c].op = "assign", call[c].pc = "open", call'[c].op # "assign",
                      NEW s \in {"layout", "script"}
               PROVE  project'.draft.parts[s] = project.draft.parts[s]
    OBVIOUS
  <2>1. PICK d \in Callers : Moves(d)
    BY StepMoves
  <2>2. CommitAssign(c)
    BY <2>1 DEF Moves, OnlyCall
  <2>3. PICK r \in Runs : r = call[c].run
    BY <2>2, CommitAssignEffect DEF IInv, Typed
  <2>4. ContextCurrent(c) /\ project'.draft = call[c].draft
    BY <2>2, CommitAssignEffect DEF IInv, Typed
  <2>5. /\ Confirmed(r, s) /\ stage[r][s].revision = call[c].outputs[s]
    BY <2>3, <2>4 DEF ContextCurrent, StageIsStill
  <2> QED BY <2>3, <2>4, <2>5 DEF RInv, AllWorking, Working, ReviewIsCurrent
<1> QED BY <1>1, IInvHolds, SInvHolds, RInvHolds, PTL DEF Spec, AssignmentKeepsReview

(* An audio artifact that is still active speaks the script of the draft   *)
(* (the script is compared before and after the synthesis, and a save that *)
(* changes it withdraws the audio).                                        *)
THEOREM AudioSpeaksDraft ==
    ASSUME MaxOpen = 1, ~Retry
    PROVE  Spec => []AudioIsCurrent
<1>1. RInv => AudioIsCurrent
  BY DEF RInv
<1> QED BY <1>1, RInvHolds, PTL

(* What a person has confirmed is what the draft holds, for each stage of  *)
(* the active run.                                                         *)
THEOREM ConfirmedStagesCurrent ==
    ASSUME MaxOpen = 1, ~Retry, OneReviewer
    PROVE  Spec => []ConfirmedIsCurrent
<1>1. RInv /\ AInv => ConfirmedIsCurrent
  BY DEF RInv, AInv, ConfirmedIsCurrent, ReviewIsCurrent, AssignmentIsCurrent, Stages
<1> QED BY <1>1, RInvHolds, AInvHolds, PTL

(* A final video that is still active shows the draft, whatever has been   *)
(* edited, confirmed or generated since it was asked for                   *)
(* (assert_final_render_context_current, publish_final_render_result).     *)
THEOREM VideosShowDraft ==
    ASSUME MaxOpen = 1, ~Retry, OneReviewer
    PROVE  Spec => []RenderIsCurrent
<1>1. AInv => RenderIsCurrent
  BY DEF AInv
<1> QED BY <1>1, AInvHolds, PTL
=============================================================================
