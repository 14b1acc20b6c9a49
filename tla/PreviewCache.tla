---------------------------- MODULE PreviewCache ----------------------------
(***************************************************************************)
(* The two caches of preview audio (src/backend/app/service.py): one sound *)
(* file per sentence, one clip per sequence of sentences, both on disk and *)
(* shared by every worker; the row of each file in cache_entries; the      *)
(* manifest of each clip, which names the users who may fetch it; the      *)
(* named locks of a process; and the pruning of what nobody used for long. *)
(*                                                                         *)
(* A thread serves one preview job at a time: it may prune, makes sure of  *)
(* every sentence, makes sure of the clip, and publishes a copy of it as   *)
(* an artifact.  Whether the script is still the one to speak is checked   *)
(* in ProjectStore.                                                        *)
(***************************************************************************)
EXTENDS Naturals, Sequences, FiniteSets

CONSTANTS
    Threads,     \* worker threads of all processes
    Processes,   \* backend processes, which share disk and database
    ProcessOf,   \* the process of a thread
    Users,
    Sentences,   \* what is spoken: text, model, voice and speed
    Clips,       \* the requests' sequences of sentences
    Asked,       \* which user asks for which clip
    None,        \* no sentence, no clip, no lock
    PruneLimit,  \* rows selected by one pruning
    MaxRequests, \* bound: requests
    MaxFaults,   \* bound: failures of a service, the disk or the database, deaths
    MaxAges      \* bound: times that the retention period passes

Entries == Sentences \cup Clips

ASSUME PreviewCacheAssumption ==
    /\ ProcessOf \in [Threads -> Processes]
    /\ Clips \subseteq Seq(Sentences) \ {<<>>}
    /\ Sentences \cap Clips = {} /\ None \notin Entries
    /\ Asked \subseteq Users \X Clips
    /\ PruneLimit \in Nat \ {0}
    /\ MaxRequests \in Nat /\ MaxFaults \in Nat /\ MaxAges \in Nat

VARIABLES
    file,     \* the cached sound of every sentence and clip
    grants,   \* the users named by the manifest of every clip
    row,      \* cache_entries: last_accessed_at within the retention period or not
    pruneDue, \* the processes whose last pruning is over an hour ago
    thread,   \* what each thread is doing
    artifact, \* the preview_audio artifacts: a clip, and what its sound is like
    torn,     \* history: clips whose file was left behind by a making that broke off
    lost,     \* history: threads whose clip was pruned after they had found or made it
    spent     \* bounds: requests, faults and ages so far

vars == <<file, grants, row, pruneDue, thread, artifact, torn, lost, spent>>

Sound == {"none", "partial", "whole"}

PCs == {"idle", "select", "remove", "forget", "lock", "stream",
        "keep", "register", "clip", "make", "mix", "grant", "write", "list",
        "publish", "put", "insert"}

(* `at` is the position of the current sentence, `holds` the named lock    *)
(* the thread has, `hit` whether the file was there (cache_hit), `sound`    *)
(* and `users` what it has read of a clip and of a manifest.  `todo`,      *)
(* `done` and `parts` belong to pruning: the selected rows, those that     *)
(* will be deleted, and the files of the clip directory that is being      *)
(* removed.                                                                *)
Thread == [pc : PCs, user : Users \cup {None}, clip : Clips \cup {None}, at : Nat,
           holds : Entries \cup {None}, pruning : BOOLEAN, hit : BOOLEAN,
           sound : Sound, users : SUBSET Users,
           todo : SUBSET Entries, done : SUBSET Entries, parts : SUBSET {"sound", "manifest"}]

Rest == [pc |-> "idle", user |-> None, clip |-> None, at |-> 0, holds |-> None,
         pruning |-> FALSE, hit |-> FALSE, sound |-> "none", users |-> {},
         todo |-> {}, done |-> {}, parts |-> {}]

TypeOK ==
    /\ file \in [Entries -> Sound]
    /\ grants \in [Clips -> SUBSET Users]
    /\ row \in [Entries -> {"none", "fresh", "old"}]
    /\ pruneDue \subseteq Processes
    /\ thread \in [Threads -> Thread]
    /\ artifact \subseteq [clip : Clips, sound : Sound]
    /\ torn \subseteq Clips /\ lost \subseteq Threads
    /\ spent \in [{"requests", "faults", "ages"} -> Nat]

Init ==
    /\ file = [e \in Entries |-> "none"]
    /\ grants = [c \in Clips |-> {}]
    /\ row = [e \in Entries |-> "none"]
    /\ pruneDue = Processes
    /\ thread = [t \in Threads |-> Rest]
    /\ artifact = {}
    /\ torn = {} /\ lost = {}
    /\ spent = [b \in {"requests", "faults", "ages"} |-> 0]

-----------------------------------------------------------------------------
(* Control *)

At(t, pc) == thread[t].pc = pc
Become(t, rec) == thread' = [thread EXCEPT ![t] = rec]
Go(t, pc) == Become(t, [thread[t] EXCEPT !.pc = pc])
Clip(t) == thread[t].clip
Sentence(t) == Clip(t)[thread[t].at]
Spend(what, bound) == spent[what] < bound /\ spent' = [spent EXCEPT ![what] = @ + 1]

(* get_named_lock: a lock of its process. *)
Free(t, name) ==
    \A u \in Threads : ProcessOf[u] = ProcessOf[t] => thread[u].holds # name
LockedAt(t, name, pc) ==
    [thread[t] EXCEPT !.pc = pc, !.holds = name]
Unlocked(t, pc) == [thread[t] EXCEPT !.pc = pc, !.holds = None]

(* An exception: the locks are released, the job fails. *)
FailHolding(t) ==  \* variant: the lock is not released on an exception
    Become(t, [Rest EXCEPT !.holds = thread[t].holds])
Fail(t) == Become(t, Rest)

-----------------------------------------------------------------------------
(* _maybe_prune_preview_audio_cache *)

(* The lock of pruning is not waited for. *)
MayPrune(t) ==
    /\ ProcessOf[t] \in pruneDue
    /\ \A u \in Threads : ProcessOf[u] = ProcessOf[t] => ~thread[u].pruning

(* On to a sentence; whether it is in the cache is looked up (cache_hit)   *)
(* before the lock is asked for.                                           *)
ToSentence(rec, i) ==
    [rec EXCEPT !.pc = "lock", !.at = i, !.hit = file[rec.clip[i]] # "none"]

Begin(t, u, c) ==
    /\ At(t, "idle") /\ <<u, c>> \in Asked
    /\ Spend("requests", MaxRequests)
    /\ LET new == [Rest EXCEPT !.user = u, !.clip = c] IN
       Become(t, IF MayPrune(t) THEN [new EXCEPT !.pc = "select", !.pruning = TRUE]
                                ELSE ToSentence(new, 1))
    /\ lost' = lost \ {t}
    /\ UNCHANGED <<file, grants, row, pruneDue, artifact, torn>>

SelectOld(t) ==
    /\ At(t, "select")
    /\ LET old == {e \in Entries : row[e] = "old"} IN
       \E S \in SUBSET old :
          /\ Cardinality(S) = PruneLimit \/ (S = old /\ Cardinality(S) <= PruneLimit)
          /\ Become(t, [thread[t] EXCEPT !.pc = "remove", !.todo = S])
    /\ UNCHANGED <<file, grants, row, pruneDue, artifact, torn, lost, spent>>

RemoveSentence(t) ==
    /\ At(t, "remove") /\ thread[t].parts = {}
    /\ \E s \in thread[t].todo \cap Sentences :
          /\ file' = [file EXCEPT ![s] = "none"]
          /\ Become(t, [thread[t] EXCEPT !.todo = @ \ {s}, !.done = @ \cup {s}])
    /\ UNCHANGED <<grants, row, pruneDue, artifact, torn, lost, spent>>

(* shutil.rmtree lists the directory of a clip and then unlinks what it    *)
(* found, one file after the other.                                        *)
Listing(c) == (IF file[c] # "none" THEN {"sound"} ELSE {})
              \cup (IF grants[c] # {} THEN {"manifest"} ELSE {})
OpenDirectory(t) ==
    /\ At(t, "remove") /\ thread[t].parts = {}
    /\ \E c \in thread[t].todo \cap Clips :
          Become(t, [thread[t] EXCEPT !.parts = Listing(c), !.done = @ \cup {c},
                                      !.todo = IF Listing(c) = {} THEN @ \ {c} ELSE @])
    /\ UNCHANGED <<file, grants, row, pruneDue, artifact, torn, lost, spent>>

(* The directory that is being removed. *)
Directory(t) == CHOOSE c \in thread[t].todo \cap thread[t].done : TRUE

(* A request makes the clip, or has found or made it and is about to use it. *)
Uses(t, c) ==
    Clip(t) = c /\ thread[t].pc \in {"mix", "grant", "write", "list", "publish", "put"}

(* The directory without the part p, which is removed or not. *)
Without(t, p) ==
    [thread[t] EXCEPT !.parts = @ \ {p},
                      !.todo = IF thread[t].parts = {p} THEN @ \ {Directory(t)} ELSE @]

RemoveSound(t) ==
    /\ At(t, "remove") /\ "sound" \in thread[t].parts
    /\ LET c == Directory(t) IN
       /\ file' = [file EXCEPT ![c] = "none"]
       /\ torn' = torn \ {c}
       /\ lost' = lost \cup {u \in Threads : Uses(u, c)}
    /\ Become(t, Without(t, "sound"))
    /\ UNCHANGED <<grants, row, pruneDue, artifact, spent>>

RemoveManifest(t) ==
    /\ At(t, "remove") /\ "manifest" \in thread[t].parts
    /\ grants' = [grants EXCEPT ![Directory(t)] = {}]
    /\ Become(t, Without(t, "manifest"))
    /\ UNCHANGED <<file, row, pruneDue, artifact, torn, lost, spent>>

(* A sentence that cannot be removed keeps its row; errors inside a        *)
(* directory are ignored, and the row of the clip is deleted all the same. *)
SkipSentence(t) ==
    /\ At(t, "remove") /\ thread[t].parts = {}
    /\ Spend("faults", MaxFaults)
    /\ \E s \in thread[t].todo \cap Sentences : Become(t, [thread[t] EXCEPT !.todo = @ \ {s}])
    /\ UNCHANGED <<file, grants, row, pruneDue, artifact, torn, lost>>

SkipPart(t) ==
    /\ At(t, "remove")
    /\ Spend("faults", MaxFaults)
    /\ \E p \in thread[t].parts : Become(t, Without(t, p))
    /\ UNCHANGED <<file, grants, row, pruneDue, artifact, torn, lost>>

(* One transaction deletes the rows, whatever they say by now. *)
ForgetRows(t) ==
    /\ At(t, "remove") /\ thread[t].todo = {}
    /\ row' = [e \in Entries |-> IF e \in thread[t].done THEN "none" ELSE row[e]]
    /\ pruneDue' = pruneDue \ {ProcessOf[t]}
    /\ Become(t, [ToSentence(thread[t], 1) EXCEPT !.pruning = FALSE, !.done = {}])
    /\ UNCHANGED <<file, grants, artifact, torn, lost, spent>>

-----------------------------------------------------------------------------
(* ensure_preview_sentence_audio, for the sentence at the current position *)

LockSentenceUnchecked(t) ==  \* variant: what was seen before the lock decides
    /\ At(t, "lock") /\ Free(t, Sentence(t))
    /\ Become(t, [IF thread[t].hit THEN [thread[t] EXCEPT !.pc = "register"]
                  ELSE LockedAt(t, Sentence(t), "stream") EXCEPT !.hit = FALSE])
    /\ UNCHANGED <<file, grants, row, pruneDue, artifact, torn, lost, spent>>
LockSentence(t) ==
    /\ At(t, "lock") /\ Free(t, Sentence(t))
    /\ IF file[Sentence(t)] # "none"
       THEN Go(t, "register")
       ELSE Become(t, [LockedAt(t, Sentence(t), "stream") EXCEPT !.hit = FALSE])
    /\ UNCHANGED <<file, grants, row, pruneDue, artifact, torn, lost, spent>>

(* The answer of the speech service goes to a file of its own... *)
StreamInPlace(t) ==  \* variant: it goes to the final path
    /\ At(t, "stream")
    /\ file' = [file EXCEPT ![Sentence(t)] = "partial"]
    /\ Go(t, "keep")
    /\ UNCHANGED <<grants, row, pruneDue, artifact, torn, lost, spent>>
Stream(t) ==
    /\ At(t, "stream")
    /\ Go(t, "keep")
    /\ UNCHANGED <<file, grants, row, pruneDue, artifact, torn, lost, spent>>

(* ...which replaces the one in the cache when it is complete. *)
Keep(t) ==
    /\ At(t, "keep")
    /\ file' = [file EXCEPT ![Sentence(t)] = "whole"]
    /\ Become(t, Unlocked(t, "register"))
    /\ UNCHANGED <<grants, row, pruneDue, artifact, torn, lost, spent>>

(* _register_cache_entry: no row for a file that is gone. *)
Registered(e) == row' = IF file[e] = "none" THEN row ELSE [row EXCEPT ![e] = "fresh"]

RegisterSentence(t) ==
    /\ At(t, "register")
    /\ Registered(Sentence(t))
    /\ Become(t, IF thread[t].at < Len(Clip(t))
                 THEN ToSentence(thread[t], thread[t].at + 1)
                 ELSE [thread[t] EXCEPT !.pc = "clip", !.at = 0, !.hit = FALSE])
    /\ UNCHANGED <<file, grants, pruneDue, artifact, torn, lost, spent>>

-----------------------------------------------------------------------------
(* The clip: build_audio_preview *)

LockClipAlways(t) ==  \* variant: the clip is written without the lock
    /\ At(t, "clip")
    /\ Go(t, IF file[Clip(t)] = "none" THEN "make" ELSE "grant")
    /\ UNCHANGED <<file, grants, row, pruneDue, artifact, torn, lost, spent>>
LockClip(t) ==
    /\ At(t, "clip") /\ Free(t, Clip(t))
    /\ Become(t, LockedAt(t, Clip(t), IF file[Clip(t)] = "none" THEN "make" ELSE "grant"))
    /\ UNCHANGED <<file, grants, row, pruneDue, artifact, torn, lost, spent>>

(* shutil.copy2 of the only sentence, or ffmpeg -y over all of them: the   *)
(* first file is opened before the clip is created at its final path.      *)
MakeClip(t) ==
    /\ At(t, "make")
    /\ IF file[Head(Clip(t))] = "none"
       THEN Fail(t) /\ UNCHANGED <<file, torn>>
       ELSE /\ file' = [file EXCEPT ![Clip(t)] = "partial"]
            /\ torn' = torn \ {Clip(t)}
            /\ Go(t, "mix")
    /\ UNCHANGED <<grants, row, pruneDue, artifact, lost, spent>>

(* What the makings of these threads leave behind when they break off. *)
LeftBy(T) == {Clip(t) : t \in {u \in T : At(u, "mix") /\ file[Clip(u)] = "partial"}}

(* A file that somebody has unlinked meanwhile is written, and is gone.    *)
(* ffmpeg fails if a further sentence is gone.                             *)
MixClip(t) ==
    /\ At(t, "mix")
    /\ LET missing == \E i \in 2..Len(Clip(t)) : file[Clip(t)[i]] = "none"
           broken == \E i \in 1..Len(Clip(t)) : file[Clip(t)[i]] = "partial" IN
       IF missing
       THEN Fail(t) /\ torn' = torn \cup LeftBy({t}) /\ UNCHANGED file
       ELSE /\ file' = IF file[Clip(t)] = "none" \/ broken THEN file
                       ELSE [file EXCEPT ![Clip(t)] = "whole"]
            /\ Become(t, [thread[t] EXCEPT !.pc = "grant"])
            /\ UNCHANGED torn
    /\ UNCHANGED <<grants, row, pruneDue, artifact, lost, spent>>

(* _grant_preview_clip_access: read the manifest, replace it. *)
ReadGrantsUnlocked(t) ==  \* variant: the lock is released before
    /\ At(t, "grant")
    /\ Become(t, [Unlocked(t, "write") EXCEPT !.users = grants[Clip(t)]])
    /\ UNCHANGED <<file, grants, row, pruneDue, artifact, torn, lost, spent>>
ReadGrants(t) ==
    /\ At(t, "grant")
    /\ Become(t, [thread[t] EXCEPT !.pc = "write", !.users = grants[Clip(t)]])
    /\ UNCHANGED <<file, grants, row, pruneDue, artifact, torn, lost, spent>>

WriteGrants(t) ==
    /\ At(t, "write")
    /\ grants' = [grants EXCEPT ![Clip(t)] = thread[t].users \cup {thread[t].user}]
    /\ Become(t, [thread[t] EXCEPT !.pc = "list", !.users = {}])
    /\ UNCHANGED <<file, row, pruneDue, artifact, torn, lost, spent>>

RegisterClip(t) ==
    /\ At(t, "list")
    /\ Registered(Clip(t))
    /\ Become(t, Unlocked(t, "publish"))
    /\ UNCHANGED <<file, grants, pruneDue, artifact, torn, lost, spent>>

-----------------------------------------------------------------------------
(* publish_preview_audio_result and ArtifactStore.put_stream *)

(* The digest of the clip, and the artifact that has it already. *)
OpenClip(t) ==
    /\ At(t, "publish")
    /\ LET sound == file[Clip(t)] IN
       IF sound = "none" \/ [clip |-> Clip(t), sound |-> sound] \in artifact
       THEN Fail(t)  \* or done: the artifact is used again
       ELSE Go(t, "put")
    /\ UNCHANGED <<file, grants, row, pruneDue, artifact, torn, lost, spent>>

(* The clip is copied to a staging file, which then gets its place in the  *)
(* store: a file without a row is not an artifact yet.                     *)
PutFile(t) ==
    /\ At(t, "put")
    /\ IF file[Clip(t)] = "none" THEN Fail(t)
       ELSE Become(t, [thread[t] EXCEPT !.pc = "insert", !.sound = file[Clip(t)]])
    /\ UNCHANGED <<file, grants, row, pruneDue, artifact, torn, lost, spent>>

InsertArtifact(t) ==
    /\ At(t, "insert")
    /\ artifact' = artifact \cup {[clip |-> Clip(t), sound |-> thread[t].sound]}
    /\ Become(t, Rest)
    /\ UNCHANGED <<file, grants, row, pruneDue, torn, lost, spent>>

-----------------------------------------------------------------------------
(* get_audio_preview_media_path: only for the users of the manifest; the   *)
(* row of the clip, if there is one, counts as used.                       *)
Fetch(u, c) ==
    /\ file[c] # "none" /\ u \in grants[c]
    /\ row[c] = "old"
    /\ row' = [row EXCEPT ![c] = "fresh"]
    /\ UNCHANGED <<file, grants, pruneDue, thread, artifact, torn, lost, spent>>

(* The speech service, ffmpeg, the disk or the database fails. *)
FailsAt == {"select", "remove", "stream", "keep", "register", "make", "mix", "grant",
            "write", "list", "publish", "put", "insert"}
Fault(t) ==
    /\ thread[t].pc \in FailsAt
    /\ Spend("faults", MaxFaults)
    /\ Fail(t)
    /\ torn' = torn \cup LeftBy({t})
    /\ UNCHANGED <<file, grants, row, pruneDue, artifact, lost>>

(* A process dies and starts again: locks and the time of the last pruning *)
(* are in memory.                                                          *)
Crash(p) ==
    /\ Spend("faults", MaxFaults)
    /\ LET dead == {t \in Threads : ProcessOf[t] = p} IN
       /\ thread' = [t \in Threads |-> IF t \in dead THEN Rest ELSE thread[t]]
       /\ torn' = torn \cup LeftBy(dead)
    /\ pruneDue' = pruneDue \cup {p}
    /\ UNCHANGED <<file, grants, row, artifact, lost>>

(* The retention period, at least an hour, passes while nothing is spoken. *)
Age ==
    /\ \A t \in Threads : At(t, "idle")
    /\ Spend("ages", MaxAges)
    /\ row' = [e \in Entries |-> IF row[e] = "fresh" THEN "old" ELSE row[e]]
    /\ pruneDue' = Processes
    /\ UNCHANGED <<file, grants, thread, artifact, torn, lost>>

(* The hour between two prunings passes. *)
Hour ==
    /\ \A t \in Threads : At(t, "idle")
    /\ pruneDue # Processes
    /\ pruneDue' = Processes
    /\ UNCHANGED <<file, grants, row, thread, artifact, torn, lost, spent>>

-----------------------------------------------------------------------------
Prune(t) ==
    \/ SelectOld(t) \/ RemoveSentence(t) \/ OpenDirectory(t)
    \/ RemoveSound(t) \/ RemoveManifest(t) \/ ForgetRows(t)
Speak(t) ==
    \/ LockSentence(t) \/ Stream(t) \/ Keep(t) \/ RegisterSentence(t)
Assemble(t) ==
    \/ LockClip(t) \/ MakeClip(t) \/ MixClip(t)
    \/ ReadGrants(t) \/ WriteGrants(t) \/ RegisterClip(t)
Publish(t) == OpenClip(t) \/ PutFile(t) \/ InsertArtifact(t)

(* What a thread does without an occasion from outside. *)
Step(t) == Prune(t) \/ Speak(t) \/ Assemble(t) \/ Publish(t)

Next ==
    \/ \E t \in Threads : Step(t) \/ SkipSentence(t) \/ SkipPart(t) \/ Fault(t)
    \/ \E t \in Threads, u \in Users, c \in Clips : Begin(t, u, c)
    \/ \E u \in Users, c \in Clips : Fetch(u, c)
    \/ \E p \in Processes : Crash(p)
    \/ Age \/ Hour

(* Worker threads run: a thread that can go on does, and the calls of the  *)
(* speech service and of ffmpeg end.                                       *)
Fairness == \A t \in Threads : WF_vars(Step(t))

Spec == Init /\ [][Next]_vars /\ Fairness

-----------------------------------------------------------------------------
(* A sound file of a sentence is complete from the moment it is there,     *)
(* wherever a thread fails and whenever the process dies: the speech is    *)
(* streamed to a temporary file first (ensure_preview_sentence_audio).     *)
SentenceIsWhole == \A s \in Sentences : file[s] # "partial"

(* While a thread has a sentence spoken, the sentence is not in the cache  *)
(* and no other thread has it spoken: the paid call is made once, because  *)
(* the file is looked for again under the named lock.                      *)
Speaks(t, s) == thread[t].pc \in {"stream", "keep"} /\ Sentence(t) = s
SpokenOnce ==
    \A t \in Threads, s \in Sentences : Speaks(t, s) =>
        /\ file[s] = "none"
        /\ \A u \in Threads : Speaks(u, s) => u = t

(* A user whom a manifest names is named by it until the clip is pruned:   *)
(* two requests that grant access to one clip at the same time both keep   *)
(* it (_grant_preview_clip_access reads and replaces the manifest).        *)
Pruning(c) == \E t \in Threads : At(t, "remove") /\ c \in thread[t].done
GrantsKept == [][\A c \in Clips : ~(grants[c] \subseteq grants'[c]) => Pruning(c)]_vars

(* What a request copies into the store, to publish it as the audio of a   *)
(* script, is a complete clip, but for two cases: the file was left behind *)
(* by a making that broke off (it is written at its final path, and the    *)
(* next request takes it for a hit), or it was pruned after this request   *)
(* had found or made it, and another request is mixing it again at this    *)
(* moment.  Threads that look while another one writes, clips that are     *)
(* made again, and sentences that are pruned, do no other damage.  This is *)
(* of one process: a second one does not share the named locks.            *)
Mixes(t, c) == At(t, "mix") /\ Clip(t) = c
Copies(t) == At(t, "put") /\ thread'[t].pc = "insert"
CopiesAreWhole ==
    [][\A t \in Threads : Copies(t) /\ thread'[t].sound # "whole" =>
           \/ Clip(t) \in torn
           \/ t \in lost /\ \E u \in Threads : Mixes(u, Clip(t))]_vars

(* Every request ends: named locks are released on every path, and no      *)
(* thread waits for one while it holds another.                            *)
RequestEnds == \A t \in Threads : ~At(t, "idle") ~> At(t, "idle")

(* Without the two cases it does not hold: broken clips are published. *)
PublishedIsWhole == \A a \in artifact : a.sound = "whole"

(* Not so when a pruning has selected a row that is renewed before it      *)
(* deletes: the file stays and no row lists it.                            *)
FilesAreListed ==
    (\A t \in Threads : At(t, "idle")) => \A e \in Entries : file[e] # "none" => row[e] # "none"
=============================================================================
