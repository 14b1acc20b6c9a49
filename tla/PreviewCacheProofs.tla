------------------------- MODULE PreviewCacheProofs -------------------------
(***************************************************************************)
(* What holds of PreviewCache for every number of threads, users,          *)
(* sentences, clips, failures and deaths.  In any number of processes a    *)
(* cached sentence is complete; when all threads belong to one process, no *)
(* sentence is spoken twice at a time, no grant is overwritten, and there  *)
(* are two ways only in which an incomplete clip can be published.         *)
(*                                                                         *)
(* The latter three rest on the named locks.  Who is between the look at a *)
(* file and the file, or between the reading of a manifest and its         *)
(* replacement, holds the lock of that file, and nobody else holds it.     *)
(***************************************************************************)
EXTENDS PreviewCache, SequenceTheorems, TLAPS

OneProcess == \A t, u \in Threads : ProcessOf[t] = ProcessOf[u]

-----------------------------------------------------------------------------
(* The inductive invariant.                                                *)

AtSentence == {"lock", "stream", "keep", "register"}
WithSentence == {"stream", "keep"}
WithClip == {"make", "mix", "grant", "write", "list"}

(* What a thread has and holds at each step.                               *)
Sane(r) ==
    /\ r \in Thread
    /\ r.pc # "idle" => r.user \in Users /\ r.clip \in Clips
    /\ r.pc \in AtSentence => r.at \in 1..Len(r.clip)
    /\ r.pc \in WithSentence => r.holds = r.clip[r.at]
    /\ r.pc \in WithClip => r.holds = r.clip
    /\ r.parts # {} => r.pc = "remove" /\ r.todo \cap r.done # {}

(* What it has read of files and manifests is still true, but for users    *)
(* whose grants have been pruned meanwhile.                                *)
Fits(r, f, g) ==
    /\ r.pc \in WithSentence => f[r.clip[r.at]] = "none"
    /\ r.pc = "write" => g[r.clip] \subseteq r.users

Exclusive ==
    \A t, u \in Threads : t # u => thread[t].holds = None \/ thread[t].holds # thread[u].holds

CacheInv ==
    /\ thread \in [Threads -> Thread]
    /\ file \in [Entries -> Sound]
    /\ grants \in [Clips -> SUBSET Users]
    /\ \A t \in Threads : Sane(thread[t]) /\ Fits(thread[t], file, grants)
    /\ Exclusive

LEMMA ClipFacts ==
    ASSUME NEW c \in Clips
    PROVE  /\ c \in Seq(Sentences) /\ c \in Entries /\ c # None /\ c \notin Sentences
           /\ 1 \in 1..Len(c) /\ Len(c) \in Nat
           /\ \A i \in 1..Len(c) : c[i] \in Sentences /\ c[i] \in Entries /\ c[i] # None /\ c[i] \notin Clips
<1>1. c \in Seq(Sentences) /\ c # <<>>
  BY PreviewCacheAssumption
<1>2. Len(c) \in Nat /\ Len(c) # 0 /\ \A i \in 1..Len(c) : c[i] \in Sentences
  BY <1>1, EmptySeq, ElementOfSeq, LenProperties
<1>. QED
  BY <1>1, <1>2, PreviewCacheAssumption DEF Entries

LEMMA RestSane ==
    /\ Rest \in Thread /\ Rest.pc = "idle" /\ Rest.holds = None /\ Rest.parts = {}
    /\ Rest.at = 0 /\ Rest.todo = {} /\ Rest.done = {}
    /\ Sane(Rest) /\ \A f, g : Fits(Rest, f, g)
<1>1. Rest \in Thread
  BY DEF Rest, Thread, PCs, Sound
<1>. QED
  BY <1>1 DEF Rest, Sane, Fits, AtSentence, WithSentence, WithClip

(* A step of one thread keeps the invariant if what the thread becomes is  *)
(* sane and true, if nothing becomes untrue for the others, and if it      *)
(* takes no lock that somebody holds.                                      *)
LEMMA ThreadStep ==
    ASSUME CacheInv, NEW t \in Threads, NEW r,
           Sane(r), Fits(r, file', grants'), Become(t, r),
           file' \in [Entries -> Sound], grants' \in [Clips -> SUBSET Users],
           \A u \in Threads \ {t} : Fits(thread[u], file', grants'),
           \/ r.holds = None \/ r.holds = thread[t].holds
           \/ \A u \in Threads : thread[u].holds # r.holds
    PROVE  CacheInv'
<1>1. /\ thread' \in [Threads -> Thread]
      /\ \A u \in Threads : thread'[u] = IF u = t THEN r ELSE thread[u]
  BY DEF CacheInv, Become, Sane
<1>2. \A u \in Threads : Sane(thread'[u]) /\ Fits(thread'[u], file', grants')
  BY <1>1 DEF CacheInv
<1>3. Exclusive'
  <2>. SUFFICES ASSUME NEW u \in Threads, NEW v \in Threads, u # v, thread'[u].holds # None
                PROVE  thread'[u].holds # thread'[v].holds
    BY DEF Exclusive
  <2>1. \A x, y \in Threads : x # y => thread[x].holds = None \/ thread[x].holds # thread[y].holds
    BY DEF CacheInv, Exclusive
  <2>. QED
    BY <1>1, <2>1
<1>. QED
  BY <1>1, <1>2, <1>3 DEF CacheInv

(* ...which a step that changes neither files nor manifests nor locks, or  *)
(* only removes them, does.                                                *)
LEMMA QuietStep ==
    ASSUME CacheInv, NEW t \in Threads, NEW r,
           Sane(r), Fits(r, file', grants'), Become(t, r),
           file' \in [Entries -> Sound], grants' \in [Clips -> SUBSET Users],
           \A e \in Entries : file'[e] \in {file[e], "none"},
           \A c \in Clips : grants'[c] \subseteq grants[c],
           r.holds = None \/ r.holds = thread[t].holds
    PROVE  CacheInv'
<1>1. ASSUME NEW u \in Threads PROVE Fits(thread[u], file', grants')
  <2>1. Sane(thread[u]) /\ Fits(thread[u], file, grants)
    BY DEF CacheInv
  <2>2. CASE thread[u].pc \in WithSentence
    <3>1. thread[u].clip \in Clips /\ thread[u].at \in 1..Len(thread[u].clip)
      BY <2>1, <2>2 DEF Sane, WithSentence, AtSentence
    <3>2. thread[u].clip[thread[u].at] \in Entries
      BY <3>1, ClipFacts
    <3>. QED
      BY <2>1, <2>2, <3>2 DEF Fits, WithSentence
  <2>3. CASE thread[u].pc = "write"
    <3>1. thread[u].clip \in Clips
      BY <2>1, <2>3 DEF Sane
    <3>. QED
      BY <2>1, <2>3, <3>1 DEF Fits, WithSentence
  <2>. QED
    BY <2>2, <2>3 DEF Fits
<1>. QED
  BY <1>1, ThreadStep

LEMMA Facts ==
    ASSUME CacheInv, NEW t \in Threads
    PROVE  /\ Sane(thread[t]) /\ Fits(thread[t], file, grants) /\ thread[t] \in Thread
           /\ file \in [Entries -> Sound] /\ grants \in [Clips -> SUBSET Users]
           /\ thread[t].pc # "idle" => Clip(t) \in Clips /\ thread[t].user \in Users
           /\ thread[t].pc \in AtSentence => Sentence(t) \in Sentences /\ Sentence(t) \in Entries
                                            /\ Sentence(t) # None /\ Sentence(t) \notin Clips
<1>1. /\ Sane(thread[t]) /\ Fits(thread[t], file, grants) /\ thread[t] \in Thread
      /\ file \in [Entries -> Sound] /\ grants \in [Clips -> SUBSET Users]
  BY DEF CacheInv
<1>2. thread[t].pc # "idle" => Clip(t) \in Clips /\ thread[t].user \in Users
  BY <1>1 DEF Sane, Clip
<1>3. ASSUME thread[t].pc \in AtSentence
      PROVE  /\ Sentence(t) \in Sentences /\ Sentence(t) \in Entries
             /\ Sentence(t) # None /\ Sentence(t) \notin Clips
  <2>1. Clip(t) \in Clips /\ thread[t].at \in 1..Len(Clip(t))
    BY <1>1, <1>2, <1>3 DEF Sane, AtSentence, Clip
  <2>. QED
    BY <2>1, ClipFacts DEF Sentence
<1>. QED
  BY <1>1, <1>2, <1>3

LEMMA OnToSentence ==
    ASSUME NEW x \in Thread, x.user \in Users, x.clip \in Clips, x.parts = {},
           NEW i \in 1..Len(x.clip), file \in [Entries -> Sound]
    PROVE  LET r == ToSentence(x, i)
           IN  /\ Sane(r) /\ r.holds = x.holds /\ r.pc = "lock" /\ r.clip = x.clip /\ r.parts = {}
               /\ \A f, g : Fits(r, f, g)
<1>1. i \in Nat /\ x.clip[i] \in Entries
  BY ClipFacts
<1>2. ToSentence(x, i) \in Thread
  BY <1>1 DEF ToSentence, Thread, PCs
<1>. QED
  BY <1>2 DEF ToSentence, Thread, Sane, Fits, AtSentence, WithSentence, WithClip

(* A thread that fails lets go of everything. *)
LEMMA FailKeeps ==
    ASSUME CacheInv, NEW t \in Threads, Fail(t), UNCHANGED <<file, grants>>
    PROVE  CacheInv'
<1>1. file \in [Entries -> Sound] /\ grants \in [Clips -> SUBSET Users]
  BY DEF CacheInv
<1>. QED
  BY <1>1, RestSane, QuietStep DEF Fail

LEMMA BeginKeeps ==
    ASSUME CacheInv, NEW t \in Threads, NEW u \in Users, NEW c \in Clips, Begin(t, u, c)
    PROVE  CacheInv'
<1>. DEFINE new == [Rest EXCEPT !.user = u, !.clip = c]
            pruned == [new EXCEPT !.pc = "select", !.pruning = TRUE]
<1>1. UNCHANGED <<file, grants>> /\ file \in [Entries -> Sound] /\ grants \in [Clips -> SUBSET Users]
  BY DEF Begin, CacheInv
<1>2. new \in Thread /\ new.user = u /\ new.clip = c /\ new.parts = {} /\ new.holds = None
  BY RestSane DEF Thread
<1>3. /\ pruned \in Thread /\ pruned.user = u /\ pruned.clip = c /\ pruned.parts = {}
      /\ pruned.holds = None /\ pruned.pc = "select"
  BY <1>2 DEF Thread, PCs
<1>4. Sane(pruned) /\ Fits(pruned, file', grants')
  BY <1>3 DEF Sane, Fits, AtSentence, WithSentence, WithClip
<1>5. 1 \in 1..Len(new.clip)
  BY <1>2, ClipFacts
<1>. HIDE DEF new, pruned
<1>6. /\ Sane(ToSentence(new, 1)) /\ ToSentence(new, 1).holds = None
      /\ Fits(ToSentence(new, 1), file', grants')
  BY <1>1, <1>2, <1>5, OnToSentence
<1>7. Become(t, pruned) \/ Become(t, ToSentence(new, 1))
  BY DEF Begin, new, pruned
<1>. QED
  BY <1>1, <1>3, <1>4, <1>6, <1>7, QuietStep

LEMMA PruneKeeps ==
    ASSUME CacheInv, NEW t \in Threads,
           Prune(t) \/ SkipSentence(t) \/ SkipPart(t)
    PROVE  CacheInv'
<1>. DEFINE x == thread[t]
<1>1. /\ Sane(x) /\ Fits(x, file, grants) /\ x \in Thread
      /\ file \in [Entries -> Sound] /\ grants \in [Clips -> SUBSET Users]
      /\ x.pc # "idle" => x.clip \in Clips /\ x.user \in Users
  BY Facts DEF Clip
<1>. HIDE DEF x
<1>2. ASSUME SelectOld(t) PROVE CacheInv'
  <2>1. PICK S \in SUBSET Entries : Become(t, [x EXCEPT !.pc = "remove", !.todo = S])
    BY <1>2 DEF SelectOld, x
  <2>. DEFINE r == [x EXCEPT !.pc = "remove", !.todo = S]
  <2>2. UNCHANGED <<file, grants>> /\ x.pc = "select"
    BY <1>2 DEF SelectOld, x, At
  <2>3. /\ r \in Thread /\ r.pc = "remove" /\ r.parts = x.parts /\ r.holds = x.holds
        /\ r.clip = x.clip /\ r.user = x.user
    BY <1>1 DEF Thread, PCs
  <2>4. Sane(r) /\ Fits(r, file', grants')
    BY <1>1, <2>2, <2>3 DEF Sane, Fits, AtSentence, WithSentence, WithClip
  <2>. HIDE DEF r
  <2>. QED
    BY <1>1, <2>1, <2>2, <2>3, <2>4, QuietStep DEF x, r
<1>3. ASSUME RemoveSentence(t) PROVE CacheInv'
  <2>1. PICK s \in Sentences :
          /\ file' = [file EXCEPT ![s] = "none"]
          /\ Become(t, [x EXCEPT !.todo = @ \ {s}, !.done = @ \cup {s}])
    BY <1>3 DEF RemoveSentence, x
  <2>. DEFINE r == [x EXCEPT !.todo = @ \ {s}, !.done = @ \cup {s}]
  <2>2. UNCHANGED grants /\ x.pc = "remove" /\ x.parts = {}
    BY <1>3 DEF RemoveSentence, x, At
  <2>3. file' \in [Entries -> Sound] /\ \A e \in Entries : file'[e] \in {file[e], "none"}
    BY <1>1, <2>1 DEF Sound
  <2>4. /\ r \in Thread /\ r.pc = "remove" /\ r.parts = {} /\ r.holds = x.holds
        /\ r.clip = x.clip /\ r.user = x.user
    BY <1>1, <2>2 DEF Thread, Entries
  <2>5. Sane(r) /\ Fits(r, file', grants')
    BY <1>1, <2>2, <2>4 DEF Sane, Fits, AtSentence, WithSentence, WithClip
  <2>. HIDE DEF r
  <2>. QED
    BY <1>1, <2>1, <2>2, <2>3, <2>4, <2>5, QuietStep DEF x, r
<1>4. ASSUME OpenDirectory(t) PROVE CacheInv'
  <2>1. PICK c \in Clips : c \in x.todo /\
          Become(t, [x EXCEPT !.parts = Listing(c), !.done = @ \cup {c},
                              !.todo = IF Listing(c) = {} THEN @ \ {c} ELSE @])
    BY <1>4 DEF OpenDirectory, x
  <2>. DEFINE r == [x EXCEPT !.parts = Listing(c), !.done = @ \cup {c},
                             !.todo = IF Listing(c) = {} THEN @ \ {c} ELSE @]
  <2>2. UNCHANGED <<file, grants>> /\ x.pc = "remove"
    BY <1>4 DEF OpenDirectory, x, At
  <2>3. Listing(c) \in SUBSET {"sound", "manifest"}
    BY DEF Listing
  <2>4. /\ r \in Thread /\ r.pc = "remove" /\ r.holds = x.holds
        /\ r.clip = x.clip /\ r.user = x.user
        /\ r.parts # {} => c \in r.todo /\ c \in r.done
    <3>. HIDE DEF Listing
    <3>. QED
      BY <1>1, <2>1, <2>2, <2>3 DEF Thread, Entries
  <2>5. Sane(r) /\ Fits(r, file', grants')
    <3>. HIDE DEF r
    <3>. QED
      BY <1>1, <2>2, <2>4 DEF Sane, Fits, AtSentence, WithSentence, WithClip
  <2>. HIDE DEF r
  <2>. QED
    BY <1>1, <2>1, <2>2, <2>4, <2>5, QuietStep DEF x, r
<1>5. ASSUME RemoveSound(t) \/ RemoveManifest(t) \/ SkipPart(t) PROVE CacheInv'
  <2>. DEFINE d == Directory(t)
              r(p) == [x EXCEPT !.parts = @ \ {p},
                                !.todo = IF x.parts = {p} THEN @ \ {d} ELSE @]
  <2>1. PICK p \in x.parts :
          /\ file' = [file EXCEPT ![d] = "none"] \/ UNCHANGED file
          /\ grants' = [grants EXCEPT ![d] = {}] \/ UNCHANGED grants
          /\ Become(t, r(p))
    BY <1>5 DEF RemoveSound, RemoveManifest, SkipPart, Without, x
  <2>2. x.pc = "remove"
    BY <1>5 DEF RemoveSound, RemoveManifest, SkipPart, x, At
  <2>3. file' \in [Entries -> Sound] /\ \A e \in Entries : file'[e] \in {file[e], "none"}
    BY <1>1, <2>1 DEF Sound
  <2>4. grants' \in [Clips -> SUBSET Users] /\ \A c \in Clips : grants'[c] \subseteq grants[c]
    BY <1>1, <2>1
  <2>5. /\ r(p) \in Thread /\ r(p).pc = "remove" /\ r(p).holds = x.holds
        /\ r(p).clip = x.clip /\ r(p).user = x.user
        /\ r(p).parts = x.parts \ {p} /\ r(p).done = x.done
        /\ r(p).parts # {} => r(p).todo = x.todo
    <3>. HIDE DEF d
    <3>. QED
      BY <1>1, <2>1, <2>2 DEF Thread
  <2>6. Sane(r(p)) /\ Fits(r(p), file', grants')
    <3>. HIDE DEF r
    <3>. QED
      BY <1>1, <2>1, <2>2, <2>5 DEF Sane, Fits, AtSentence, WithSentence, WithClip
  <2>. HIDE DEF r
  <2>. QED
    BY <1>1, <2>1, <2>3, <2>4, <2>5, <2>6, QuietStep DEF x
<1>6. ASSUME SkipSentence(t) PROVE CacheInv'
  <2>. DEFINE r(s) == [x EXCEPT !.todo = @ \ {s}]
  <2>1. PICK s \in Sentences : Become(t, r(s))
    BY <1>6 DEF SkipSentence, x
  <2>2. UNCHANGED <<file, grants>> /\ x.pc = "remove" /\ x.parts = {}
    BY <1>6 DEF SkipSentence, x, At
  <2>3. /\ r(s) \in Thread /\ r(s).pc = "remove" /\ r(s).parts = {} /\ r(s).holds = x.holds
        /\ r(s).clip = x.clip /\ r(s).user = x.user
    BY <1>1, <2>2 DEF Thread
  <2>4. Sane(r(s)) /\ Fits(r(s), file', grants')
    <3>. HIDE DEF r
    <3>. QED
      BY <1>1, <2>2, <2>3 DEF Sane, Fits, AtSentence, WithSentence, WithClip
  <2>. HIDE DEF r
  <2>. QED
    BY <1>1, <2>1, <2>2, <2>3, <2>4, QuietStep DEF x
<1>7. ASSUME ForgetRows(t) PROVE CacheInv'
  <2>. DEFINE s == ToSentence(x, 1)
              r == [s EXCEPT !.pruning = FALSE, !.done = {}]
  <2>1. UNCHANGED <<file, grants>> /\ x.pc = "remove" /\ x.todo = {} /\ Become(t, r)
    BY <1>7 DEF ForgetRows, x, At
  <2>2. x.parts = {} /\ x.clip \in Clips /\ x.user \in Users
    BY <1>1, <2>1 DEF Sane
  <2>3. 1 \in 1..Len(x.clip)
    BY <2>2, ClipFacts
  <2>4. /\ Sane(s) /\ s.holds = x.holds /\ s.pc = "lock" /\ s.clip = x.clip /\ s.parts = {}
        /\ s \in Thread
    BY <1>1, <2>2, <2>3, OnToSentence DEF Sane
  <2>. HIDE DEF s
  <2>5. /\ r \in Thread /\ r.pc = "lock" /\ r.parts = {} /\ r.holds = x.holds
        /\ r.clip = s.clip /\ r.user = s.user /\ r.at = s.at
    BY <2>4 DEF Thread
  <2>6. Sane(r) /\ Fits(r, file', grants')
    <3>. HIDE DEF r
    <3>. QED
      BY <2>4, <2>5 DEF Sane, Fits, AtSentence, WithSentence, WithClip
  <2>. HIDE DEF r
  <2>. QED
    BY <1>1, <2>1, <2>5, <2>6, QuietStep DEF x
<1>. QED
  BY <1>2, <1>3, <1>4, <1>5, <1>6, <1>7 DEF Prune

(* Who writes a file or a manifest holds its lock, so that what the others *)
(* have read remains true.                                                 *)
LEMMA WriterStep ==
    ASSUME CacheInv, NEW t \in Threads, NEW r, NEW e \in Entries,
           thread[t].holds = e,
           Sane(r), Fits(r, file', grants'), Become(t, r),
           file' \in [Entries -> Sound], grants' \in [Clips -> SUBSET Users],
           \A x \in Entries \ {e} : file'[x] = file[x],
           \A c \in Clips \ {e} : grants'[c] = grants[c],
           r.holds = None \/ r.holds = e
    PROVE  CacheInv'
<1>1. ASSUME NEW u \in Threads \ {t} PROVE Fits(thread[u], file', grants')
  <2>1. Sane(thread[u]) /\ Fits(thread[u], file, grants)
    BY DEF CacheInv
  <2>2. thread[u].holds = None \/ thread[u].holds # e
    BY DEF CacheInv, Exclusive
  <2>3. CASE thread[u].pc \in WithSentence
    <3>1. thread[u].clip \in Clips /\ thread[u].at \in 1..Len(thread[u].clip)
      BY <2>1, <2>3 DEF Sane, WithSentence, AtSentence
    <3>2. /\ thread[u].clip[thread[u].at] \in Entries
          /\ thread[u].clip[thread[u].at] # None
          /\ thread[u].holds = thread[u].clip[thread[u].at]
      BY <2>1, <2>3, <3>1, ClipFacts DEF Sane
    <3>3. file'[thread[u].clip[thread[u].at]] = file[thread[u].clip[thread[u].at]]
      BY <2>2, <3>2
    <3>. QED
      BY <2>1, <2>3, <3>3 DEF Fits, WithSentence
  <2>4. CASE thread[u].pc = "write"
    <3>1. /\ thread[u].clip \in Clips /\ thread[u].clip # None
          /\ thread[u].holds = thread[u].clip
      BY <2>1, <2>4, ClipFacts DEF Sane, WithClip
    <3>2. grants'[thread[u].clip] = grants[thread[u].clip]
      BY <2>2, <3>1
    <3>. QED
      BY <2>1, <2>4, <3>2 DEF Fits, WithSentence
  <2>. QED
    BY <2>3, <2>4 DEF Fits
<1>. QED
  BY <1>1, ThreadStep

(* A lock that is taken was free in the process, which is the only one.    *)
LEMMA LockStep ==
    ASSUME OneProcess, CacheInv, NEW t \in Threads, NEW r,
           UNCHANGED <<file, grants>>,
           Free(t, r.holds), Sane(r), Fits(r, file, grants), Become(t, r)
    PROVE  CacheInv'
<1>1. \A u \in Threads : thread[u].holds # r.holds
  BY DEF OneProcess, Free
<1>2. file \in [Entries -> Sound] /\ grants \in [Clips -> SUBSET Users]
  BY DEF CacheInv
<1>3. \A u \in Threads \ {t} : Fits(thread[u], file', grants')
  BY DEF CacheInv
<1>. QED
  BY <1>1, <1>2, <1>3, ThreadStep

LEMMA SpeakKeeps ==
    ASSUME OneProcess, CacheInv, NEW t \in Threads, Speak(t)
    PROVE  CacheInv'
<1>. DEFINE x == thread[t]
            s == x.clip[x.at]
<1>1. /\ Sane(x) /\ Fits(x, file, grants) /\ x \in Thread
      /\ file \in [Entries -> Sound] /\ grants \in [Clips -> SUBSET Users]
  BY Facts DEF Clip
<1>2. x.pc \in AtSentence
  BY DEF Speak, LockSentence, Stream, Keep, RegisterSentence, At, AtSentence
<1>3. x.clip \in Clips /\ x.user \in Users /\ x.at \in 1..Len(x.clip) /\ x.parts = {}
  BY <1>1, <1>2 DEF Sane, AtSentence
<1>4. /\ Sentence(t) = s /\ s \in Sentences /\ s \in Entries /\ s # None /\ s \notin Clips
  BY <1>1, <1>2, Facts DEF Sentence, Clip
<1>. HIDE DEF x
<1>5. ASSUME LockSentence(t) PROVE CacheInv'
  <2>1. UNCHANGED <<file, grants>> /\ Free(t, s)
    BY <1>4, <1>5 DEF LockSentence
  <2>2. CASE file[s] # "none"
    <3>. DEFINE r == [x EXCEPT !.pc = "register"]
    <3>1. Become(t, r)
      BY <1>4, <1>5, <2>2 DEF LockSentence, Go, x
    <3>2. /\ r \in Thread /\ r.pc = "register" /\ r.holds = x.holds /\ r.parts = {}
          /\ r.clip = x.clip /\ r.user = x.user /\ r.at = x.at
      BY <1>1, <1>3 DEF Thread, PCs
    <3>3. Sane(r) /\ Fits(r, file', grants')
      <4>. HIDE DEF r
      <4>. QED
        BY <1>3, <3>2 DEF Sane, Fits, AtSentence, WithSentence, WithClip
    <3>. HIDE DEF r
    <3>. QED
      BY <1>1, <2>1, <3>1, <3>2, <3>3, QuietStep DEF x
  <2>3. CASE file[s] = "none"
    <3>. DEFINE r == [x EXCEPT !.pc = "stream", !.holds = s, !.hit = FALSE]
    <3>1. Become(t, r)
      <4>1. Become(t, [LockedAt(t, s, "stream") EXCEPT !.hit = FALSE])
        BY <1>4, <1>5, <2>3 DEF LockSentence
      <4>2. [LockedAt(t, s, "stream") EXCEPT !.hit = FALSE] = r
        BY <1>1 DEF LockedAt, x, Thread
      <4>. QED
        BY <4>1, <4>2
    <3>2. /\ r \in Thread /\ r.pc = "stream" /\ r.holds = s /\ r.parts = {}
          /\ r.clip = x.clip /\ r.user = x.user /\ r.at = x.at
      BY <1>1, <1>3, <1>4 DEF Thread, PCs
    <3>3. Sane(r) /\ Fits(r, file, grants)
      <4>. HIDE DEF r
      <4>. QED
        BY <1>3, <2>3, <3>2 DEF Sane, Fits, AtSentence, WithSentence, WithClip
    <3>. HIDE DEF r
    <3>. QED
      BY <2>1, <3>1, <3>2, <3>3, LockStep
  <2>. QED
    BY <2>2, <2>3
<1>6. ASSUME Stream(t) PROVE CacheInv'
  <2>. DEFINE r == [x EXCEPT !.pc = "keep"]
  <2>1. UNCHANGED <<file, grants>> /\ x.pc = "stream" /\ Become(t, r)
    BY <1>6 DEF Stream, At, Go, x
  <2>2. x.holds = s /\ file[s] = "none"
    BY <1>1, <2>1 DEF Sane, Fits, WithSentence
  <2>3. /\ r \in Thread /\ r.pc = "keep" /\ r.holds = s /\ r.parts = {}
        /\ r.clip = x.clip /\ r.user = x.user /\ r.at = x.at
    BY <1>1, <1>3, <2>2 DEF Thread, PCs
  <2>4. Sane(r) /\ Fits(r, file', grants')
    <3>. HIDE DEF r
    <3>. QED
      BY <1>3, <2>1, <2>2, <2>3 DEF Sane, Fits, AtSentence, WithSentence, WithClip
  <2>. HIDE DEF r
  <2>. QED
    BY <1>1, <2>1, <2>2, <2>3, <2>4, QuietStep DEF x
<1>7. ASSUME Keep(t) PROVE CacheInv'
  <2>. DEFINE r == [x EXCEPT !.pc = "register", !.holds = None]
  <2>1. /\ UNCHANGED grants /\ file' = [file EXCEPT ![s] = "whole"]
        /\ x.pc = "keep" /\ Become(t, r)
    BY <1>4, <1>7 DEF Keep, At, Unlocked, x
  <2>2. x.holds = s
    BY <1>1, <2>1 DEF Sane, WithSentence
  <2>3. file' \in [Entries -> Sound] /\ \A y \in Entries \ {s} : file'[y] = file[y]
    BY <1>1, <1>4, <2>1 DEF Sound
  <2>4. /\ r \in Thread /\ r.pc = "register" /\ r.holds = None /\ r.parts = {}
        /\ r.clip = x.clip /\ r.user = x.user /\ r.at = x.at
    BY <1>1, <1>3 DEF Thread, PCs
  <2>5. Sane(r) /\ Fits(r, file', grants')
    <3>. HIDE DEF r
    <3>. QED
      BY <1>3, <2>4 DEF Sane, Fits, AtSentence, WithSentence, WithClip
  <2>. HIDE DEF r
  <2>. QED
    BY <1>1, <1>4, <2>1, <2>2, <2>3, <2>4, <2>5, WriterStep DEF x
<1>8. ASSUME RegisterSentence(t) PROVE CacheInv'
  <2>1. UNCHANGED <<file, grants>>
    BY <1>8 DEF RegisterSentence
  <2>2. CASE x.at < Len(x.clip)
    <3>1. Become(t, ToSentence(x, x.at + 1))
      BY <1>8, <2>2 DEF RegisterSentence, Clip, x
    <3>2. x.at + 1 \in 1..Len(x.clip)
      BY <1>3, <2>2, ClipFacts
    <3>3. /\ Sane(ToSentence(x, x.at + 1)) /\ ToSentence(x, x.at + 1).holds = x.holds
          /\ Fits(ToSentence(x, x.at + 1), file', grants')
      BY <1>1, <1>3, <3>2, OnToSentence
    <3>. QED
      BY <1>1, <2>1, <3>1, <3>3, QuietStep DEF x
  <2>3. CASE ~(x.at < Len(x.clip))
    <3>. DEFINE r == [x EXCEPT !.pc = "clip", !.at = 0, !.hit = FALSE]
    <3>1. Become(t, r)
      BY <1>8, <2>3 DEF RegisterSentence, Clip, x
    <3>2. /\ r \in Thread /\ r.pc = "clip" /\ r.holds = x.holds /\ r.parts = {}
          /\ r.clip = x.clip /\ r.user = x.user
      BY <1>1, <1>3 DEF Thread, PCs
    <3>3. Sane(r) /\ Fits(r, file', grants')
      <4>. HIDE DEF r
      <4>. QED
        BY <1>3, <3>2 DEF Sane, Fits, AtSentence, WithSentence, WithClip
    <3>. HIDE DEF r
    <3>. QED
      BY <1>1, <2>1, <3>1, <3>2, <3>3, QuietStep DEF x
  <2>. QED
    BY <2>2, <2>3
<1>. QED
  BY <1>5, <1>6, <1>7, <1>8 DEF Speak

LEMMA AssembleKeeps ==
    ASSUME OneProcess, CacheInv, NEW t \in Threads, Assemble(t)
    PROVE  CacheInv'
<1>. DEFINE x == thread[t]
            c == x.clip
<1>1. /\ Sane(x) /\ Fits(x, file, grants) /\ x \in Thread
      /\ file \in [Entries -> Sound] /\ grants \in [Clips -> SUBSET Users]
  BY Facts
<1>2. x.pc \in {"clip", "make", "mix", "grant", "write", "list"}
  BY DEF Assemble, LockClip, MakeClip, MixClip, ReadGrants, WriteGrants, RegisterClip, At
<1>3. /\ Clip(t) = c /\ c \in Clips /\ c \in Entries /\ c # None
      /\ x.user \in Users /\ x.parts = {}
  BY <1>1, <1>2, ClipFacts DEF Sane, Clip
<1>4. x.pc # "clip" => x.holds = c
  BY <1>1, <1>2 DEF Sane, WithClip
<1>. HIDE DEF x
(* What a thread that holds the lock of its clip goes on with. *)
<1>5. ASSUME NEW pc \in {"mix", "grant"}
      PROVE  LET r == [x EXCEPT !.pc = pc]
             IN  /\ r.holds = x.holds
                 /\ x.holds = c => Sane(r) /\ Fits(r, file', grants')
  <2>. DEFINE r == [x EXCEPT !.pc = pc]
  <2>1. /\ r \in Thread /\ r.pc = pc /\ r.holds = x.holds /\ r.parts = {}
        /\ r.clip = c /\ r.user = x.user
    BY <1>1, <1>3 DEF Thread, PCs
  <2>. HIDE DEF r
  <2>2. x.holds = c => Sane(r) /\ Fits(r, file', grants')
    BY <1>3, <2>1 DEF Sane, Fits, AtSentence, WithSentence, WithClip
  <2>. QED
    BY <2>1, <2>2 DEF r
<1>6. ASSUME LockClip(t) PROVE CacheInv'
  <2>. DEFINE pc == IF file[c] = "none" THEN "make" ELSE "grant"
              r == [x EXCEPT !.pc = pc, !.holds = c]
  <2>1. UNCHANGED <<file, grants>> /\ Free(t, c) /\ Become(t, r)
    BY <1>3, <1>6 DEF LockClip, LockedAt, x
  <2>2. pc \in {"make", "grant"}
    OBVIOUS
  <2>. HIDE DEF pc
  <2>3. /\ r \in Thread /\ r.pc = pc /\ r.holds = c /\ r.parts = {}
        /\ r.clip = c /\ r.user = x.user
    BY <1>1, <1>3, <2>2 DEF Thread, PCs
  <2>. HIDE DEF r
  <2>4. Sane(r) /\ Fits(r, file, grants)
    BY <1>3, <2>2, <2>3 DEF Sane, Fits, AtSentence, WithSentence, WithClip
  <2>. QED
    BY <2>1, <2>3, <2>4, LockStep
<1>7. ASSUME MakeClip(t) PROVE CacheInv'
  <2>1. x.pc = "make" /\ UNCHANGED grants
    BY <1>7 DEF MakeClip, At, x
  <2>2. CASE Fail(t) /\ UNCHANGED file
    BY <2>1, <2>2, FailKeeps
  <2>3. CASE file' = [file EXCEPT ![c] = "partial"] /\ Go(t, "mix")
    <3>1. /\ file' \in [Entries -> Sound] /\ \A y \in Entries \ {c} : file'[y] = file[y]
      BY <1>1, <1>3, <2>3 DEF Sound
    <3>2. Become(t, [x EXCEPT !.pc = "mix"])
      BY <2>3 DEF Go, x
    <3>. QED
      BY <1>1, <1>3, <1>4, <1>5, <2>1, <3>1, <3>2, WriterStep DEF x
  <2>. QED
    BY <1>3, <1>7, <2>2, <2>3 DEF MakeClip
<1>8. ASSUME MixClip(t) PROVE CacheInv'
  <2>1. x.pc = "mix" /\ UNCHANGED grants
    BY <1>8 DEF MixClip, At, x
  <2>2. CASE Fail(t) /\ UNCHANGED file
    BY <2>1, <2>2, FailKeeps
  <2>3. CASE /\ file' = file \/ file' = [file EXCEPT ![c] = "whole"]
             /\ Become(t, [x EXCEPT !.pc = "grant"])
    <3>1. /\ file' \in [Entries -> Sound] /\ \A y \in Entries \ {c} : file'[y] = file[y]
      BY <1>1, <1>3, <2>3 DEF Sound
    <3>. QED
      BY <1>1, <1>3, <1>4, <1>5, <2>1, <2>3, <3>1, WriterStep DEF x
  <2>. QED
    BY <1>3, <1>8, <2>2, <2>3 DEF MixClip, x
<1>9. ASSUME ReadGrants(t) PROVE CacheInv'
  <2>. DEFINE r == [x EXCEPT !.pc = "write", !.users = grants[c]]
  <2>1. UNCHANGED <<file, grants>> /\ x.pc = "grant" /\ Become(t, r)
    BY <1>3, <1>9 DEF ReadGrants, At, x
  <2>2. /\ r \in Thread /\ r.pc = "write" /\ r.holds = x.holds /\ r.parts = {}
        /\ r.clip = c /\ r.user = x.user /\ r.users = grants[c]
    BY <1>1, <1>3 DEF Thread, PCs
  <2>. HIDE DEF r
  <2>3. Sane(r) /\ Fits(r, file', grants')
    BY <1>3, <1>4, <2>1, <2>2 DEF Sane, Fits, AtSentence, WithSentence, WithClip
  <2>. QED
    BY <1>1, <2>1, <2>2, <2>3, QuietStep DEF x
<1>10. ASSUME WriteGrants(t) PROVE CacheInv'
  <2>. DEFINE r == [x EXCEPT !.pc = "list", !.users = {}]
  <2>1. /\ UNCHANGED file /\ x.pc = "write" /\ Become(t, r)
        /\ grants' = [grants EXCEPT ![c] = x.users \cup {x.user}]
    BY <1>3, <1>10 DEF WriteGrants, At, x
  <2>2. /\ grants' \in [Clips -> SUBSET Users]
        /\ \A y \in Clips \ {c} : grants'[y] = grants[y]
    BY <1>1, <1>3, <2>1 DEF Thread
  <2>3. /\ r \in Thread /\ r.pc = "list" /\ r.holds = x.holds /\ r.parts = {}
        /\ r.clip = c /\ r.user = x.user
    BY <1>1, <1>3 DEF Thread, PCs
  <2>. HIDE DEF r
  <2>4. Sane(r) /\ Fits(r, file', grants')
    BY <1>3, <1>4, <2>1, <2>3 DEF Sane, Fits, AtSentence, WithSentence, WithClip
  <2>. QED
    BY <1>1, <1>3, <1>4, <2>1, <2>2, <2>3, <2>4, WriterStep DEF x
<1>11. ASSUME RegisterClip(t) PROVE CacheInv'
  <2>. DEFINE r == [x EXCEPT !.pc = "publish", !.holds = None]
  <2>1. UNCHANGED <<file, grants>> /\ Become(t, r)
    BY <1>11 DEF RegisterClip, Unlocked, x
  <2>2. /\ r \in Thread /\ r.pc = "publish" /\ r.holds = None /\ r.parts = {}
        /\ r.clip = c /\ r.user = x.user
    BY <1>1, <1>3 DEF Thread, PCs
  <2>. HIDE DEF r
  <2>3. Sane(r) /\ Fits(r, file', grants')
    BY <1>3, <2>2 DEF Sane, Fits, AtSentence, WithSentence, WithClip
  <2>. QED
    BY <1>1, <2>1, <2>2, <2>3, QuietStep
<1>. QED
  BY <1>6, <1>7, <1>8, <1>9, <1>10, <1>11 DEF Assemble

LEMMA PublishKeeps ==
    ASSUME CacheInv, NEW t \in Threads, Publish(t)
    PROVE  CacheInv'
<1>. DEFINE x == thread[t]
<1>1. /\ Sane(x) /\ x \in Thread
      /\ file \in [Entries -> Sound] /\ grants \in [Clips -> SUBSET Users]
  BY Facts
<1>2. UNCHANGED <<file, grants>> /\ x.pc \in {"publish", "put", "insert"}
  BY DEF Publish, OpenClip, PutFile, InsertArtifact, At
<1>3. x.clip \in Clips /\ x.clip \in Entries /\ x.user \in Users /\ x.parts = {} /\ Clip(t) = x.clip
  BY <1>1, <1>2, ClipFacts DEF Sane, Clip
<1>. HIDE DEF x
<1>4. CASE Fail(t)
  BY <1>2, <1>4, FailKeeps
<1>5. CASE Become(t, [x EXCEPT !.pc = "put"])
  <2>. DEFINE r == [x EXCEPT !.pc = "put"]
  <2>1. /\ r \in Thread /\ r.pc = "put" /\ r.holds = x.holds /\ r.parts = {}
        /\ r.clip = x.clip /\ r.user = x.user
    BY <1>1, <1>3 DEF Thread, PCs
  <2>. HIDE DEF r
  <2>2. Sane(r) /\ Fits(r, file', grants')
    BY <1>3, <2>1 DEF Sane, Fits, AtSentence, WithSentence, WithClip
  <2>. QED
    BY <1>1, <1>2, <1>5, <2>1, <2>2, QuietStep DEF x, r
<1>6. CASE Become(t, [x EXCEPT !.pc = "insert", !.sound = file[x.clip]])
  <2>. DEFINE r == [x EXCEPT !.pc = "insert", !.sound = file[x.clip]]
  <2>1. /\ r \in Thread /\ r.pc = "insert" /\ r.holds = x.holds /\ r.parts = {}
        /\ r.clip = x.clip /\ r.user = x.user
    BY <1>1, <1>3 DEF Thread, PCs
  <2>. HIDE DEF r
  <2>2. Sane(r) /\ Fits(r, file', grants')
    BY <1>3, <2>1 DEF Sane, Fits, AtSentence, WithSentence, WithClip
  <2>. QED
    BY <1>1, <1>2, <1>6, <2>1, <2>2, QuietStep DEF x, r
<1>. QED
  BY <1>3, <1>4, <1>5, <1>6 DEF Publish, OpenClip, PutFile, InsertArtifact, Go, Fail, x

(* The death of the process, and what happens outside the threads.         *)
LEMMA OutsideKeeps ==
    ASSUME CacheInv,
           \/ \E p \in Processes : Crash(p)
           \/ \E u \in Users, c \in Clips : Fetch(u, c)
           \/ Age \/ Hour \/ UNCHANGED vars
    PROVE  CacheInv'
<1>1. UNCHANGED <<file, grants>>
  BY DEF Crash, Fetch, Age, Hour, vars
<1>2. PICK dead \in SUBSET Threads :
        thread' = [t \in Threads |-> IF t \in dead THEN Rest ELSE thread[t]]
  <2>1. CASE \E p \in Processes : Crash(p)
    BY <2>1 DEF Crash
  <2>2. CASE UNCHANGED thread
    <3>1. thread' = [t \in Threads |-> IF t \in {} THEN Rest ELSE thread[t]]
      BY <2>2 DEF CacheInv
    <3>2. {} \in SUBSET Threads
      OBVIOUS
    <3>. QED
      BY <3>1, <3>2, Zenon
  <2>. QED
    BY <2>1, <2>2 DEF Fetch, Age, Hour, vars
<1>3. thread' \in [Threads -> Thread]
  BY <1>2, RestSane DEF CacheInv
<1>4. \A t \in Threads : Sane(thread'[t]) /\ Fits(thread'[t], file', grants')
  BY <1>1, <1>2, RestSane DEF CacheInv
<1>5. Exclusive'
  BY <1>2, RestSane DEF CacheInv, Exclusive
<1>. QED
  BY <1>1, <1>3, <1>4, <1>5 DEF CacheInv

-----------------------------------------------------------------------------
LEMMA CacheInvInit == Init => CacheInv
<1>. SUFFICES ASSUME Init PROVE CacheInv
  OBVIOUS
<1>1. \A t \in Threads : thread[t] = Rest
  BY DEF Init
<1>2. thread \in [Threads -> Thread] /\ \A t \in Threads : Sane(thread[t]) /\ Fits(thread[t], file, grants)
  BY <1>1, RestSane DEF Init
<1>3. Exclusive
  BY <1>1, RestSane DEF Exclusive
<1>. QED
  BY <1>2, <1>3 DEF Init, CacheInv, Sound

LEMMA CacheInvNext ==
    ASSUME OneProcess, CacheInv, [Next]_vars
    PROVE  CacheInv'
<1>1. ASSUME NEW t \in Threads, Step(t) \/ SkipSentence(t) \/ SkipPart(t) \/ Fault(t) PROVE CacheInv'
  <2>1. CASE Prune(t) \/ SkipSentence(t) \/ SkipPart(t)
    BY <2>1, PruneKeeps
  <2>2. CASE Speak(t)
    BY <2>2, SpeakKeeps
  <2>3. CASE Assemble(t)
    BY <2>3, AssembleKeeps
  <2>4. CASE Publish(t)
    BY <2>4, PublishKeeps
  <2>5. CASE Fault(t)
    BY <2>5, FailKeeps DEF Fault
  <2>. QED
    BY <1>1, <2>1, <2>2, <2>3, <2>4, <2>5 DEF Step
<1>2. ASSUME NEW t \in Threads, NEW u \in Users, NEW c \in Clips, Begin(t, u, c) PROVE CacheInv'
  BY <1>2, BeginKeeps
<1>. QED
  BY <1>1, <1>2, OutsideKeeps DEF Next

(* The manifest of a clip loses a user only to a pruning: who replaces it  *)
(* has read it under the lock.                                             *)
LEMMA OnlyPruningTakes ==
    ASSUME CacheInv, [Next]_vars, NEW c \in Clips, ~(grants[c] \subseteq grants'[c])
    PROVE  Pruning(c)
<1>1. grants \in [Clips -> SUBSET Users]
  BY DEF CacheInv
<1>2. ASSUME NEW t \in Threads, RemoveManifest(t) PROVE Pruning(c)
  <2>1. grants' = [grants EXCEPT ![Directory(t)] = {}] /\ thread[t].parts # {}
    BY <1>2 DEF RemoveManifest
  <2>2. c = Directory(t)
    BY <1>1, <2>1
  <2>3. thread[t].todo \cap thread[t].done # {} /\ At(t, "remove")
    BY <1>2, <2>1, Facts DEF Sane, RemoveManifest
  <2>4. Directory(t) \in thread[t].todo \cap thread[t].done
    BY <2>3 DEF Directory
  <2>. QED
    BY <2>2, <2>3, <2>4 DEF Pruning
<1>3. ASSUME NEW t \in Threads, WriteGrants(t) PROVE FALSE
  <2>1. Clip(t) \in Clips /\ grants[Clip(t)] \subseteq thread[t].users
    BY <1>3, Facts DEF WriteGrants, At, Fits, Clip
  <2>2. grants' = [grants EXCEPT ![Clip(t)] = thread[t].users \cup {thread[t].user}]
    BY <1>3 DEF WriteGrants
  <2>. QED
    BY <1>1, <2>1, <2>2
<1>4. ASSUME UNCHANGED grants PROVE FALSE
  BY <1>4
<1>5. ASSUME NEW t \in Threads, Step(t) PROVE RemoveManifest(t) \/ WriteGrants(t) \/ UNCHANGED grants
  BY <1>5 DEF Step, Prune, Speak, Assemble, Publish, SelectOld, RemoveSentence, OpenDirectory,
     RemoveSound, ForgetRows, LockSentence, Stream, Keep, RegisterSentence, LockClip, MakeClip, MixClip,
     ReadGrants, RegisterClip, OpenClip, PutFile, InsertArtifact
<1>6. ASSUME NEW t \in Threads, SkipSentence(t) \/ SkipPart(t) \/ Fault(t) PROVE UNCHANGED grants
  BY <1>6 DEF SkipSentence, SkipPart, Fault
<1>7. ASSUME \/ \E t \in Threads, u \in Users, d \in Clips : Begin(t, u, d)
             \/ \E u \in Users, d \in Clips : Fetch(u, d)
             \/ \E p \in Processes : Crash(p)
             \/ Age \/ Hour \/ UNCHANGED vars
      PROVE  UNCHANGED grants
  BY <1>7 DEF Begin, Fetch, Crash, Age, Hour, vars
<1>. QED
  BY <1>2, <1>3, <1>4, <1>5, <1>6, <1>7 DEF Next

LEMMA InvSpokenOnce == CacheInv => SpokenOnce
<1>. SUFFICES ASSUME CacheInv, NEW t \in Threads, NEW s \in Sentences, Speaks(t, s)
              PROVE  /\ file[s] = "none"
                     /\ \A u \in Threads : Speaks(u, s) => u = t
  BY DEF SpokenOnce
<1>1. ASSUME NEW u \in Threads, Speaks(u, s)
      PROVE  thread[u].holds = s /\ s # None /\ file[s] = "none"
  <2>1. thread[u].pc \in WithSentence /\ thread[u].pc \in AtSentence /\ Sentence(u) = s
    BY <1>1 DEF Speaks, WithSentence, AtSentence
  <2>. QED
    BY <2>1, Facts DEF Sane, Fits, Sentence, Clip
<1>2. \A u \in Threads : Speaks(u, s) => u = t
  BY <1>1 DEF CacheInv, Exclusive
<1>. QED
  BY <1>1, <1>2

(* In one process, with any number of worker threads, a sentence is never  *)
(* spoken twice at a time nor while it is in the cache.                    *)
THEOREM SpokenOnceHolds ==
    ASSUME OneProcess PROVE Spec => []SpokenOnce
<1>1. CacheInv /\ [Next]_vars => CacheInv'
  BY CacheInvNext
<1>. QED
  BY <1>1, CacheInvInit, InvSpokenOnce, PTL DEF Spec

(* In one process no grant is overwritten by another one, however many     *)
(* requests for the same clip overlap.                                     *)
THEOREM GrantsKeptHolds ==
    ASSUME OneProcess PROVE Spec => GrantsKept
<1>1. CacheInv /\ [Next]_vars => CacheInv'
  BY CacheInvNext
<1>2. CacheInv /\ [Next]_vars => [\A c \in Clips : ~(grants[c] \subseteq grants'[c]) => Pruning(c)]_vars
  BY OnlyPruningTakes
<1>. QED
  BY <1>1, <1>2, CacheInvInit, PTL DEF Spec, GrantsKept

-----------------------------------------------------------------------------
(* Complete files                                                          *)

(* What a write to a sentence needs, in any number of processes.           *)
WholeInv ==
    /\ DOMAIN thread = Threads /\ file \in [Entries -> Sound]
    /\ \A t \in Threads : /\ DOMAIN thread[t] = DOMAIN Rest
                          /\ thread[t].pc # "idle" => Clip(t) \in Clips
    /\ SentenceIsWhole

LEMMA WholeInit == Init => WholeInv
BY RestSane DEF Init, WholeInv, SentenceIsWhole, Sound, Entries

(* What a step does to the files, and what it makes of thread t.           *)
Writes ==
    \/ UNCHANGED file
    \/ \E e : file' = [file EXCEPT ![e] = "none"]
    \/ \E e : file' = [file EXCEPT ![e] = "whole"]
    \/ \E c \in Clips : file' = [file EXCEPT ![c] = "partial"]
Moves(t) ==
    /\ DOMAIN thread' = Threads
    /\ \A u \in Threads \ {t} : thread'[u] = thread[u]
    /\ \/ thread'[t] = Rest
       \/ DOMAIN thread'[t] = DOMAIN Rest /\ thread'[t].clip = Clip(t)

LEMMA WholeStep ==
    ASSUME WholeInv, NEW t \in Threads, thread[t].pc # "idle", Moves(t), Writes
    PROVE  WholeInv'
<1>1. Rest.pc = "idle"
  BY DEF Rest
<1>2. file' \in [Entries -> Sound] /\ \A s \in Sentences : file'[s] # "partial"
  BY PreviewCacheAssumption DEF WholeInv, Writes, SentenceIsWhole, Sound, Entries
<1>3. \A u \in Threads : DOMAIN thread'[u] = DOMAIN Rest /\ (thread'[u].pc # "idle" => thread'[u].clip \in Clips)
  BY <1>1 DEF WholeInv, Moves, Clip
<1> QED BY <1>2, <1>3 DEF WholeInv, Moves, SentenceIsWhole, Clip

(* Whatever thread t does, it keeps its clip until it is done.             *)
LEMMA StepMoves ==
    ASSUME WholeInv, NEW t \in Threads, Step(t) \/ SkipSentence(t) \/ SkipPart(t) \/ Fault(t)
    PROVE  thread[t].pc # "idle" /\ Moves(t) /\ Writes
<1> DEFINE x == thread[t]
<1>0. /\ DOMAIN thread = Threads /\ DOMAIN x = DOMAIN Rest /\ {"pc", "clip"} \subseteq DOMAIN x
      /\ Clip(t) = x.clip
  BY DEF WholeInv, Clip, Rest
<1>1. thread[t].pc # "idle"
  BY DEF Fault, FailsAt, SkipSentence, SkipPart, At, Step, Prune, Speak, Assemble, Publish, SelectOld, RemoveSentence, OpenDirectory,
     RemoveSound, RemoveManifest, ForgetRows, LockSentence, Stream, Keep, RegisterSentence, LockClip, MakeClip, MixClip,
     ReadGrants, WriteGrants, RegisterClip, OpenClip, PutFile, InsertArtifact
<1>2. Writes
  <2>1. CASE MakeClip(t)
    <3>1. UNCHANGED file \/ file' = [file EXCEPT ![Clip(t)] = "partial"]
      BY <2>1 DEF MakeClip
    <3> QED BY <1>1, <3>1 DEF WholeInv, Writes
  <2>2. CASE ~MakeClip(t)
    BY <2>2 DEF Writes, Fault, SkipSentence, SkipPart, Step, Prune, Speak, Assemble, Publish, SelectOld, RemoveSentence, OpenDirectory,
       RemoveSound, RemoveManifest, ForgetRows, LockSentence, Stream, Keep, RegisterSentence, LockClip, MixClip,
       ReadGrants, WriteGrants, RegisterClip, OpenClip, PutFile, InsertArtifact
  <2> QED BY <2>1, <2>2
<1>3. Moves(t)
  <2>0. ASSUME Fail(t) PROVE Moves(t)
    BY <1>0, <2>0 DEF Fail, Become, Moves
  <2>1. ASSUME NEW pc, Go(t, pc) PROVE Moves(t)
    BY <1>0, <2>1 DEF Go, Become, Moves
  <2>2. CASE SelectOld(t)
    BY <1>0, <2>2 DEF SelectOld, Become, Moves
  <2>3. CASE RemoveSentence(t)
    BY <1>0, <2>3 DEF RemoveSentence, Become, Moves
  <2>4. CASE OpenDirectory(t)
    BY <1>0, <2>4 DEF OpenDirectory, Become, Moves
  <2>5. CASE SkipSentence(t)
    BY <1>0, <2>5 DEF SkipSentence, Become, Moves
  <2>6. CASE RemoveSound(t) \/ RemoveManifest(t) \/ SkipPart(t)
    BY <1>0, <2>6 DEF RemoveSound, RemoveManifest, SkipPart, Without, Become, Moves
  <2>7. CASE ForgetRows(t)
    BY <1>0, <2>7 DEF ForgetRows, ToSentence, Become, Moves
  <2>8. CASE LockSentence(t)
    BY <1>0, <2>0, <2>1, <2>8 DEF LockSentence, LockedAt, Become, Moves
  <2>9. CASE Stream(t)
    BY <1>0, <2>0, <2>1, <2>9 DEF Stream, Become, Moves
  <2>10. CASE Keep(t)
    BY <1>0, <2>10 DEF Keep, Unlocked, Become, Moves
  <2>11. CASE RegisterSentence(t)
    BY <1>0, <2>11 DEF RegisterSentence, ToSentence, Become, Moves
  <2>12. CASE LockClip(t)
    BY <1>0, <2>12 DEF LockClip, LockedAt, Become, Moves
  <2>13. CASE MakeClip(t)
    BY <1>0, <2>0, <2>1, <2>13 DEF MakeClip, Become, Moves
  <2>14. CASE MixClip(t)
    BY <1>0, <2>0, <2>1, <2>14 DEF MixClip, Become, Moves
  <2>15. CASE ReadGrants(t)
    BY <1>0, <2>15 DEF ReadGrants, Become, Moves
  <2>16. CASE WriteGrants(t)
    BY <1>0, <2>16 DEF WriteGrants, Become, Moves
  <2>17. CASE RegisterClip(t)
    BY <1>0, <2>17 DEF RegisterClip, Unlocked, Become, Moves
  <2>18. CASE OpenClip(t)
    BY <1>0, <2>0, <2>1, <2>18 DEF OpenClip, Become, Moves
  <2>19. CASE PutFile(t)
    BY <1>0, <2>0, <2>1, <2>19 DEF PutFile, Become, Moves
  <2>20. CASE InsertArtifact(t)
    BY <1>0, <2>20 DEF InsertArtifact, Become, Moves
  <2>21. CASE Fault(t)
    BY <1>0, <2>0, <2>1, <2>21 DEF Fault, Become, Moves
  <2> QED BY <2>2, <2>3, <2>4, <2>5, <2>6, <2>7, <2>8, <2>9, <2>10, <2>11,
             <2>12, <2>13, <2>14, <2>15, <2>16, <2>17, <2>18, <2>19, <2>20, <2>21
          DEF Step, Prune, Speak, Assemble, Publish
<1> QED BY <1>1, <1>2, <1>3

LEMMA WholeNext == ASSUME WholeInv, [Next]_vars PROVE WholeInv'
<1>0. Rest.pc = "idle"
  BY DEF Rest
<1>1. ASSUME NEW t \in Threads, Step(t) \/ SkipSentence(t) \/ SkipPart(t) \/ Fault(t) PROVE WholeInv'
  BY <1>1, StepMoves, WholeStep
<1>2. ASSUME NEW t \in Threads, NEW u \in Users, NEW c \in Clips, Begin(t, u, c) PROVE WholeInv'
  <2> DEFINE new == [Rest EXCEPT !.user = u, !.clip = c]
  <2>1. DOMAIN new = DOMAIN Rest /\ "clip" \in DOMAIN new /\ new.clip = c
    BY DEF Rest
  <2>2. UNCHANGED file /\ (Become(t, [new EXCEPT !.pc = "select", !.pruning = TRUE]) \/ Become(t, ToSentence(new, 1)))
    BY <1>2 DEF Begin
  <2> HIDE DEF new
  <2>3. /\ DOMAIN thread' = Threads
        /\ \A v \in Threads \ {t} : thread'[v] = thread[v]
        /\ DOMAIN thread'[t] = DOMAIN Rest /\ thread'[t].clip = c
    <3>1. CASE Become(t, [new EXCEPT !.pc = "select", !.pruning = TRUE])
      BY <2>1, <3>1 DEF Become, WholeInv
    <3>2. CASE Become(t, ToSentence(new, 1))
      BY <2>1, <3>2 DEF ToSentence, Become, WholeInv
    <3> QED BY <2>2, <3>1, <3>2
  <2> QED BY <2>2, <2>3 DEF WholeInv, Clip, SentenceIsWhole
<1>3. CASE \E p \in Processes : Crash(p)
  BY <1>0, <1>3 DEF Crash, WholeInv, Clip, SentenceIsWhole
<1>4. CASE UNCHANGED <<thread, file>>
  BY <1>4 DEF WholeInv, Clip, SentenceIsWhole
<1> QED BY <1>1, <1>2, <1>3, <1>4 DEF Next, Fetch, Age, Hour, vars

(* The cached sound of a sentence is complete whenever it is there, in any *)
(* number of processes, wherever a thread fails and whichever process dies *)
(* in between: the answer of the speech service goes to a temporary file   *)
(* (ensure_preview_sentence_audio), and only clips are written in place.   *)
THEOREM SentencesAreWhole == Spec => []SentenceIsWhole
<1>1. WholeInv => SentenceIsWhole
  BY DEF WholeInv
<1> QED BY WholeInit, WholeNext, <1>1, PTL DEF Spec

-----------------------------------------------------------------------------
(* Complete clips                                                          *)

(* How far the clip of thread t is, which has the record r: who makes a     *)
(* clip has found none, who mixes it has the incomplete file to itself     *)
(* unless it was pruned, and afterwards the file is complete, or left      *)
(* behind by a making that broke off, or was pruned meanwhile.             *)
Past == {"grant", "write", "list", "publish", "put"}
Intact(t, r, f, x, l) ==
    r.pc # "idle" =>
        /\ r.pc = "make" => f[r.clip] = "none"
        /\ r.pc = "mix" => r.clip \notin x /\ f[r.clip] = (IF t \in l THEN "none" ELSE "partial")
        /\ r.pc \in Past /\ t \notin l => f[r.clip] = "whole" \/ r.clip \in x
        /\ t \in l => r.pc \in Past \cup {"mix", "insert"}
ClipInv ==
    /\ \A t \in Threads : Intact(t, thread[t], file, torn, lost)
    /\ \A c \in Clips : c \in torn => file[c] = "partial"
    /\ \A c \in Clips : file[c] = "partial" /\ c \notin torn => \E t \in Threads : Mixes(t, c)

(* What all layers say of a thread that works.                             *)
LEMMA ThreadFacts ==
    ASSUME WholeInv, CacheInv, ClipInv, NEW t \in Threads, thread[t].pc # "idle"
    PROVE  /\ DOMAIN thread = Threads /\ DOMAIN thread[t] = DOMAIN Rest
           /\ Clip(t) = thread[t].clip /\ Clip(t) \in Clips /\ Clip(t) \in Entries /\ Clip(t) \notin Sentences
           /\ file \in [Entries -> Sound]
           /\ Intact(t, thread[t], file, torn, lost)
           /\ thread[t].pc \in WithClip => thread[t].holds = Clip(t)
           /\ thread[t].pc \in {"stream", "keep"} => Sentence(t) \in Sentences
BY ClipFacts, Facts DEF WholeInv, CacheInv, ClipInv, Clip, Sane, AtSentence

(* Thread t moves; an incomplete clip was so before, and not by t, or t    *)
(* has just begun to mix it.                                               *)
LEMMA ClipStep ==
    ASSUME ClipInv, NEW t \in Threads, Moves(t),
           Intact(t, thread'[t], file', torn', lost'),
           \A u \in Threads \ {t} : Intact(u, thread[u], file', torn', lost'),
           \A c \in Clips : c \in torn' => file'[c] = "partial",
           \A c \in Clips : file'[c] = "partial" /\ c \notin torn' =>
               \/ file[c] = "partial" /\ c \notin torn /\ ~Mixes(t, c)
               \/ thread'[t].pc = "mix" /\ thread'[t].clip = c
    PROVE  ClipInv'
<1>1. \A u \in Threads : Intact(u, thread'[u], file', torn', lost')
  BY DEF Moves
<1>2. ASSUME NEW c \in Clips, file'[c] = "partial", c \notin torn'
      PROVE  \E u \in Threads : thread'[u].pc = "mix" /\ thread'[u].clip = c
  <2>1. CASE file[c] = "partial" /\ c \notin torn /\ ~Mixes(t, c)
    <3>1. PICK u \in Threads : Mixes(u, c)
      BY <1>2, <2>1 DEF ClipInv
    <3>2. u # t
      BY <2>1, <3>1
    <3>3. thread'[u].pc = "mix" /\ thread'[u].clip = c
      BY <3>1, <3>2 DEF Mixes, At, Clip, Moves
    <3> QED BY <3>3
  <2> QED BY <1>2, <2>1
<1> QED BY <1>1, <1>2 DEF ClipInv, Mixes, At, Clip

(* ...which a step that leaves clips alone does.                           *)
LEMMA ClipQuiet ==
    ASSUME ClipInv, WholeInv, WholeInv', NEW t \in Threads, Moves(t), UNCHANGED <<torn, lost>>,
           thread[t].pc # "mix",
           \A c \in Clips : file'[c] = file[c],
           Intact(t, thread'[t], file, torn, lost)
    PROVE  ClipInv'
<1>1. ASSUME NEW u, NEW r, r.pc # "idle" => r.clip \in Clips, Intact(u, r, file, torn, lost)
      PROVE  Intact(u, r, file', torn', lost')
  BY <1>1 DEF Intact
<1>2. \A u \in Threads : thread[u].pc # "idle" => thread[u].clip \in Clips
  BY DEF WholeInv, Clip
<1>3. thread'[t].pc # "idle" => thread'[t].clip \in Clips
  BY DEF WholeInv, Clip
<1>4. /\ Intact(t, thread'[t], file', torn', lost')
      /\ \A u \in Threads \ {t} : Intact(u, thread[u], file', torn', lost')
  BY <1>1, <1>2, <1>3 DEF ClipInv
<1>5. \A c \in Clips : c \in torn' => file'[c] = "partial"
  BY DEF ClipInv
<1> QED BY <1>4, <1>5, ClipStep DEF Mixes, At

(* The steps of a thread.                                                  *)
LEMMA ClipSteps ==
    ASSUME OneProcess, ClipInv, CacheInv, WholeInv, WholeInv', NEW t \in Threads, Step(t) \/ SkipSentence(t) \/ SkipPart(t) \/ Fault(t)
    PROVE  ClipInv'
<1> DEFINE x == thread[t]
           c == x.clip
<1>0. /\ DOMAIN thread = Threads /\ DOMAIN x = DOMAIN Rest
      /\ {"pc", "clip", "sound"} \subseteq DOMAIN x /\ Rest.pc = "idle" 
      /\ file \in [Entries -> Sound]
  BY DEF WholeInv, Rest, Intact
<1>1. Moves(t) /\ x.pc # "idle"
  BY StepMoves
<1>2. Clip(t) = c /\ c \in Clips /\ c \in Entries /\ c \notin Sentences /\ Intact(t, x, file, torn, lost)
  BY <1>1, ThreadFacts
<1>3. x.pc \in WithClip => x.holds = c
  BY <1>1, ThreadFacts
<1>4. ASSUME Fail(t), UNCHANGED <<file, torn, lost>>, x.pc # "mix" PROVE ClipInv'
  <2>1. thread'[t] = Rest
    BY <1>0, <1>4 DEF Fail, Become
  <2>2. Intact(t, thread'[t], file, torn, lost)
    BY <1>0, <2>1 DEF Intact
  <2> QED BY <1>0, <1>1, <1>4, <2>1, <2>2, ClipQuiet
<1>5. CASE SelectOld(t) \/ RemoveSentence(t) \/ OpenDirectory(t) \/ SkipSentence(t) \/ SkipPart(t) \/ RemoveManifest(t)
  <2>1. /\ UNCHANGED <<torn, lost>> /\ x.pc \in {"select", "remove"}
        /\ UNCHANGED file \/ \E s \in Sentences : file' = [file EXCEPT ![s] = "none"]
    BY <1>5 DEF SelectOld, RemoveSentence, OpenDirectory, SkipSentence, SkipPart, RemoveManifest, At
  <2>2. thread'[t].pc = "remove"
    <3>1. CASE SelectOld(t)
      BY <1>0, <3>1 DEF SelectOld, Become
    <3>2. CASE RemoveSentence(t)
      BY <1>0, <3>2 DEF RemoveSentence, Become, At
    <3>3. CASE OpenDirectory(t)
      BY <1>0, <3>3 DEF OpenDirectory, Become, At
    <3>4. CASE SkipSentence(t)
      BY <1>0, <3>4 DEF SkipSentence, Become, At
    <3>5. CASE SkipPart(t) \/ RemoveManifest(t)
      BY <1>0, <3>5 DEF SkipPart, RemoveManifest, Without, Become, At
    <3> QED BY <1>5, <3>1, <3>2, <3>3, <3>4, <3>5
  <2>3. \A d \in Clips : file'[d] = file[d]
    BY <1>0, <2>1, PreviewCacheAssumption DEF Entries
  <2>4. Intact(t, thread'[t], file, torn, lost)
    BY <1>1, <1>2, <2>1, <2>2 DEF Intact, Past
  <2> QED BY <1>1, <2>1, <2>3, <2>4, ClipQuiet
<1>6. CASE ForgetRows(t) \/ LockSentence(t) \/ Stream(t) \/ Keep(t) \/ RegisterSentence(t)
  <2>1. /\ UNCHANGED <<torn, lost>> /\ x.pc \in {"remove", "lock", "stream", "keep", "register"}
        /\ UNCHANGED file \/ (x.pc = "keep" /\ file' = [file EXCEPT ![Sentence(t)] = "whole"])
    BY <1>6 DEF ForgetRows, LockSentence, Stream, Keep, RegisterSentence, At
  <2>2. thread'[t].pc \in {"lock", "register", "stream", "keep", "clip"}
    <3>1. CASE ForgetRows(t)
      BY <1>0, <3>1 DEF ForgetRows, Become, ToSentence
    <3>2. CASE LockSentence(t)
      BY <1>0, <3>2 DEF LockSentence, Become, Go, LockedAt
    <3>3. CASE Stream(t)
      BY <1>0, <3>3 DEF Stream, Become, Go
    <3>4. CASE Keep(t)
      BY <1>0, <3>4 DEF Keep, Become, Unlocked
    <3>5. CASE RegisterSentence(t)
      BY <1>0, <3>5 DEF RegisterSentence, Become, ToSentence
    <3> QED BY <1>6, <3>1, <3>2, <3>3, <3>4, <3>5
  <2>3. \A d \in Clips : file'[d] = file[d]
    <3>1. x.pc = "keep" => Sentence(t) \in Sentences
      BY <1>1, ThreadFacts
    <3> QED BY <1>0, <2>1, <3>1, PreviewCacheAssumption DEF Entries
  <2>4. Intact(t, thread'[t], file, torn, lost)
    BY <1>1, <1>2, <2>1, <2>2 DEF Intact, Past
  <2> QED BY <1>1, <2>1, <2>3, <2>4, ClipQuiet
<1>7. CASE LockClip(t)
  <2>1. /\ UNCHANGED <<torn, lost, file>> /\ x.pc = "clip" /\ Free(t, c)
        /\ thread'[t].pc = IF file[c] = "none" THEN "make" ELSE "grant"
        /\ thread'[t].clip = c
    BY <1>0, <1>2, <1>7 DEF LockClip, LockedAt, Become, At
  <2>2. file[c] = "partial" => c \in torn
    <3>1. SUFFICES ASSUME file[c] = "partial", c \notin torn PROVE FALSE
      OBVIOUS
    <3>2. PICK u \in Threads : Mixes(u, c)
      BY <1>2, <3>1 DEF ClipInv
    <3>3. thread[u].holds = c
      BY <3>2, ThreadFacts DEF Mixes, At, WithClip
    <3> QED BY <2>1, <3>3 DEF Free, OneProcess
  <2>3. file[c] \in {"none", "partial", "whole"}
    BY <1>0, <1>2 DEF Sound
  <2>4. Intact(t, thread'[t], file, torn, lost)
    BY <1>1, <1>2, <2>1, <2>2, <2>3 DEF Intact, Past
  <2> QED BY <1>1, <2>1, <2>4, ClipQuiet
<1>8. CASE MakeClip(t)
  <2>1. UNCHANGED lost /\ x.pc = "make" /\ file[c] = "none" /\ c \notin torn /\ t \notin lost
    BY <1>1, <1>2, <1>8 DEF MakeClip, At, Intact, ClipInv, Past
  <2>2. CASE Fail(t) /\ UNCHANGED <<file, torn>>
    BY <1>4, <2>1, <2>2
  <2>3. CASE file' = [file EXCEPT ![c] = "partial"] /\ torn' = torn \ {c} /\ Go(t, "mix")
    <3>1. thread'[t].pc = "mix" /\ thread'[t].clip = c
      BY <1>0, <2>3 DEF Go, Become
    <3>2. file'[c] = "partial" /\ \A d \in Clips \ {c} : file'[d] = file[d]
      BY <1>0, <1>2, <2>3
    <3>3. UNCHANGED torn
      BY <2>1, <2>3
    <3>4. ASSUME NEW u \in Threads \ {t} PROVE Intact(u, thread[u], file', torn', lost')
      <4>1. Intact(u, thread[u], file, torn, lost)
        BY DEF ClipInv
      <4>2. CASE thread[u].clip = c /\ thread[u].pc # "idle"
        <5>1. thread[u].pc \notin WithClip
          BY <1>2, <1>3, <2>1, <4>2, ThreadFacts, ClipFacts DEF WithClip, CacheInv, Exclusive
        <5> QED BY <2>1, <3>3, <4>1, <4>2, <5>1 DEF Intact, WithClip, Past
      <4>3. CASE ~(thread[u].clip = c /\ thread[u].pc # "idle")
        <5>1. thread[u].pc # "idle" => thread[u].clip \in Clips
          BY DEF WholeInv, Clip
        <5> QED BY <2>1, <3>2, <3>3, <4>1, <4>3, <5>1 DEF Intact
      <4> QED BY <4>2, <4>3
    <3>5. Intact(t, thread'[t], file', torn', lost')
      BY <2>1, <3>1, <3>2, <3>3 DEF Intact, Past
    <3>6. \A d \in Clips : d \in torn' => file'[d] = "partial"
      BY <3>2, <3>3 DEF ClipInv
    <3>7. \A d \in Clips : file'[d] = "partial" /\ d \notin torn' =>
             \/ file[d] = "partial" /\ d \notin torn /\ ~Mixes(t, d)
             \/ thread'[t].pc = "mix" /\ thread'[t].clip = d
      <4>1. \A d : ~Mixes(t, d)
        BY <2>1 DEF Mixes, At
      <4> QED BY <3>1, <3>2, <3>3, <4>1
    <3> QED BY <1>1, <3>4, <3>5, <3>6, <3>7, ClipStep
  <2> QED BY <1>2, <1>8, <2>2, <2>3 DEF MakeClip
<1>9. ASSUME UNCHANGED <<file, lost>>, thread'[t] = Rest, x.pc = "mix",
             torn' = torn \cup (IF file[c] = "partial" THEN {c} ELSE {})
      PROVE  ClipInv'
  <2>1. ASSUME NEW u \in Threads \ {t} PROVE Intact(u, thread[u], file', torn', lost')
    <3>1. Intact(u, thread[u], file, torn, lost)
      BY DEF ClipInv
    <3>2. thread[u].pc = "mix" => thread[u].clip # c
      BY <1>2, <1>3, <1>9, ThreadFacts, ClipFacts DEF WithClip, CacheInv, Exclusive
    <3> QED BY <1>9, <3>1, <3>2 DEF Intact
  <2>2. Intact(t, thread'[t], file', torn', lost')
    BY <1>0, <1>9 DEF Intact
  <2>3. \A d \in Clips : d \in torn' => file'[d] = "partial"
    BY <1>9 DEF ClipInv
  <2>4. \A d \in Clips : file'[d] = "partial" /\ d \notin torn' => file[d] = "partial" /\ d \notin torn /\ ~Mixes(t, d)
    BY <1>2, <1>9 DEF Mixes
  <2> QED BY <1>1, <2>1, <2>2, <2>3, <2>4, ClipStep
<1>10. CASE MixClip(t)
  <2>1. UNCHANGED lost /\ x.pc = "mix" /\ c \notin torn /\ file[c] = (IF t \in lost THEN "none" ELSE "partial")
    BY <1>1, <1>2, <1>10 DEF MixClip, At, Intact
  <2>2. CASE Fail(t) /\ torn' = torn \cup LeftBy({t}) /\ UNCHANGED file
    <3>1. thread'[t] = Rest
      BY <1>0, <2>2 DEF Fail, Become
    <3>2. LeftBy({t}) = IF file[c] = "partial" THEN {c} ELSE {}
      BY <1>2, <2>1 DEF LeftBy, At
    <3> QED BY <1>9, <2>1, <2>2, <3>1, <3>2
  <2>3. CASE ~(Fail(t) /\ torn' = torn \cup LeftBy({t}) /\ UNCHANGED file)
    <3>1. \A i \in 1..Len(c) : file[c[i]] # "partial"
      BY <1>2, ClipFacts DEF WholeInv, SentenceIsWhole
    <3>2. /\ file' = IF file[c] = "none" THEN file ELSE [file EXCEPT ![c] = "whole"]
          /\ UNCHANGED torn
          /\ Become(t, [x EXCEPT !.pc = "grant"])
      BY <1>2, <1>10, <2>3, <3>1 DEF MixClip
    <3>3. thread'[t].pc = "grant" /\ thread'[t].clip = c
      BY <1>0, <3>2 DEF Become
    <3>4. /\ t \notin lost => file'[c] = "whole"
          /\ file'[c] # "partial"
          /\ file[c] = "none" => UNCHANGED file
      BY <1>0, <1>2, <2>1, <3>2
    <3>5. \A d \in Clips \ {c} : file'[d] = file[d]
      BY <1>0, <1>2, <3>2
    <3>6. ASSUME NEW u \in Threads \ {t} PROVE Intact(u, thread[u], file', torn', lost')
      <4>1. Intact(u, thread[u], file, torn, lost)
        BY DEF ClipInv
      <4>2. CASE thread[u].clip = c /\ thread[u].pc # "idle"
        <5>1. thread[u].pc \notin WithClip
          BY <1>2, <1>3, <2>1, <4>2, ThreadFacts, ClipFacts DEF WithClip, CacheInv, Exclusive
        <5> QED BY <2>1, <3>2, <3>4, <4>1, <4>2, <5>1 DEF Intact, WithClip, Past
      <4>3. CASE ~(thread[u].clip = c /\ thread[u].pc # "idle")
        <5>1. thread[u].pc # "idle" => thread[u].clip \in Clips
          BY DEF WholeInv, Clip
        <5> QED BY <2>1, <3>2, <3>5, <4>1, <4>3, <5>1 DEF Intact
      <4> QED BY <4>2, <4>3
    <3>7. Intact(t, thread'[t], file', torn', lost')
      BY <2>1, <3>2, <3>3, <3>4 DEF Intact, Past
    <3>8. \A d \in Clips : d \in torn' => file'[d] = "partial"
      BY <2>1, <3>2, <3>5 DEF ClipInv
    <3>9. \A d \in Clips : file'[d] = "partial" /\ d \notin torn' => file[d] = "partial" /\ d \notin torn /\ ~Mixes(t, d)
      BY <1>2, <3>2, <3>4, <3>5 DEF Mixes
    <3> QED BY <1>1, <3>6, <3>7, <3>8, <3>9, ClipStep
  <2> QED BY <2>2, <2>3
<1>11. CASE ReadGrants(t) \/ WriteGrants(t) \/ RegisterClip(t)
  <2>1. UNCHANGED <<file, torn, lost>> /\ x.pc \in {"grant", "write", "list"}
    BY <1>11 DEF ReadGrants, WriteGrants, RegisterClip, At
  <2>2. thread'[t].pc \in {"write", "list", "publish"} /\ thread'[t].clip = c
    <3>1. CASE ReadGrants(t)
      BY <1>0, <3>1 DEF ReadGrants, Become
    <3>2. CASE WriteGrants(t)
      BY <1>0, <3>2 DEF WriteGrants, Become
    <3>3. CASE RegisterClip(t)
      BY <1>0, <3>3 DEF RegisterClip, Unlocked, Become
    <3> QED BY <1>11, <3>1, <3>2, <3>3
  <2>3. Intact(t, thread'[t], file, torn, lost)
    BY <1>1, <1>2, <2>1, <2>2 DEF Intact, Past
  <2> QED BY <1>1, <2>1, <2>3, ClipQuiet
<1>12. CASE OpenClip(t) \/ PutFile(t)
  <2>1. UNCHANGED <<file, torn, lost>> /\ x.pc \in {"publish", "put"}
    BY <1>12 DEF OpenClip, PutFile, At
  <2>2. CASE Fail(t)
    BY <1>4, <2>1, <2>2
  <2>3. CASE ~Fail(t)
    <3>1. /\ thread'[t].clip = c
          /\ \/ thread'[t].pc = "put"
             \/ thread'[t].pc = "insert" /\ thread'[t].sound = file[c]
      <4>1. CASE OpenClip(t)
        BY <1>0, <2>3, <4>1 DEF OpenClip, Go, Become
      <4>2. CASE PutFile(t)
        <5>1. Become(t, [x EXCEPT !.pc = "insert", !.sound = file[c]])
          BY <1>2, <2>3, <4>2 DEF PutFile
        <5> QED BY <1>0, <5>1 DEF Become
      <4> QED BY <1>12, <4>1, <4>2
    <3>2. Intact(t, thread'[t], file, torn, lost)
      BY <1>1, <1>2, <2>1, <3>1 DEF Intact, Past
    <3> QED BY <1>1, <2>1, <3>2, ClipQuiet
  <2> QED BY <2>2, <2>3
<1>13. CASE InsertArtifact(t)
  <2>1. UNCHANGED <<file, torn, lost>> /\ x.pc = "insert" /\ thread'[t] = Rest
    BY <1>0, <1>2, <1>13 DEF InsertArtifact, Become, At
  <2> QED BY <1>0, <1>1, <2>1, ClipQuiet DEF Intact
<1>14. CASE Fault(t)
  <2>1. Fail(t) /\ UNCHANGED <<file, lost>> /\ torn' = torn \cup LeftBy({t})
    BY <1>14 DEF Fault
  <2>2. thread'[t] = Rest
    BY <1>0, <2>1 DEF Fail, Become
  <2>3. CASE x.pc = "mix"
    <3>1. LeftBy({t}) = IF file[c] = "partial" THEN {c} ELSE {}
      BY <1>2, <2>3 DEF LeftBy, At
    <3> QED BY <1>9, <2>1, <2>2, <2>3, <3>1
  <2>4. CASE x.pc # "mix"
    <3>1. LeftBy({t}) = {}
      BY <2>4 DEF LeftBy, At
    <3> QED BY <1>4, <2>1, <2>4, <3>1
  <2> QED BY <2>3, <2>4
<1>15. CASE RemoveSound(t)
  <2> DEFINE d == Directory(t)
  <2>1. /\ x.pc = "remove"
        /\ file' = [file EXCEPT ![d] = "none"]
        /\ torn' = torn \ {d}
        /\ lost' = lost \cup {u \in Threads : Uses(u, d)}
    BY <1>15 DEF RemoveSound, At
  <2>2. thread'[t].pc = "remove" /\ t \notin lost
    BY <1>0, <1>1, <1>2, <1>15, <2>1 DEF RemoveSound, Without, Become, At, Intact, Past
  <2> HIDE DEF d
  <2>3. Intact(t, thread'[t], file', torn', lost')
    BY <2>1, <2>2 DEF Intact, Past, Uses
  <2>4. ASSUME NEW u \in Threads \ {t} PROVE Intact(u, thread[u], file', torn', lost')
    <3>1. Intact(u, thread[u], file, torn, lost)
      BY DEF ClipInv
    <3>2. thread[u].pc # "idle" => thread[u].clip \in Entries
      BY DEF WholeInv, Clip, Entries
    <3>3. u \in lost' <=> u \in lost \/ (thread[u].clip = d /\ thread[u].pc \in Past \cup {"mix"})
      BY <2>1 DEF Uses, Clip, Past
    <3>4. CASE thread[u].clip = d
      BY <1>0, <2>1, <3>1, <3>2, <3>3, <3>4 DEF Intact, Past
    <3>5. CASE thread[u].clip # d
      BY <1>0, <2>1, <3>1, <3>2, <3>3, <3>5 DEF Intact, Past
    <3> QED BY <3>4, <3>5
  <2>5. \A e \in Clips : e \in torn' => file'[e] = "partial"
    BY <1>0, <2>1 DEF ClipInv, Entries
  <2>6. \A e \in Clips : file'[e] = "partial" /\ e \notin torn' => file[e] = "partial" /\ e \notin torn /\ ~Mixes(t, e)
    BY <1>0, <2>1 DEF Mixes, At, Entries
  <2> QED BY <1>1, <2>3, <2>4, <2>5, <2>6, ClipStep
<1> QED BY <1>5, <1>6, <1>7, <1>8, <1>10, <1>11, <1>12, <1>13, <1>14, <1>15
        DEF Step, Prune, Speak, Assemble, Publish

LEMMA ClipNext ==
    ASSUME OneProcess, ClipInv, CacheInv, WholeInv, [Next]_vars
    PROVE  ClipInv'
<1>0. WholeInv' /\ Rest.pc = "idle"
  BY WholeNext DEF Rest
<1>1. ASSUME NEW t \in Threads, Step(t) \/ SkipSentence(t) \/ SkipPart(t) \/ Fault(t) PROVE ClipInv'
  BY <1>0, <1>1, ClipSteps
<1>2. ASSUME NEW t \in Threads, NEW u \in Users, NEW c \in Clips, Begin(t, u, c) PROVE ClipInv'
  <2> DEFINE new == [Rest EXCEPT !.user = u, !.clip = c]
  <2>1. DOMAIN new = DOMAIN Rest /\ {"pc", "clip"} \subseteq DOMAIN new
    BY DEF Rest
  <2>2. UNCHANGED <<file, torn>> /\ thread[t].pc = "idle" /\ lost' = lost \ {t}
        /\ (Become(t, [new EXCEPT !.pc = "select", !.pruning = TRUE]) \/ Become(t, ToSentence(new, 1)))
    BY <1>2 DEF Begin, At
  <2> HIDE DEF new
  <2>3. /\ DOMAIN thread' = Threads
        /\ \A v \in Threads \ {t} : thread'[v] = thread[v]
        /\ thread'[t].pc \in {"select", "lock"}
    <3>1. CASE Become(t, [new EXCEPT !.pc = "select", !.pruning = TRUE])
      BY <2>1, <3>1 DEF Become, WholeInv
    <3>2. CASE Become(t, ToSentence(new, 1))
      BY <2>1, <3>2 DEF ToSentence, Become, WholeInv
    <3> QED BY <2>2, <3>1, <3>2
  <2>4. \A v \in Threads : Intact(v, thread'[v], file', torn', lost')
    <3>1. Intact(t, thread'[t], file', torn', lost')
      BY <2>2, <2>3 DEF Intact, Past
    <3>2. ASSUME NEW v \in Threads \ {t} PROVE Intact(v, thread'[v], file', torn', lost')
      BY <2>2, <2>3 DEF ClipInv, Intact
    <3> QED BY <3>1, <3>2
  <2>5. \A v \in Threads, d \in Clips : Mixes(v, d) => thread'[v].pc = "mix" /\ thread'[v].clip = d
    BY <2>2, <2>3 DEF Mixes, At, Clip
  <2>6. /\ \A d \in Clips : d \in torn' => file'[d] = "partial"
        /\ \A d \in Clips : file'[d] = "partial" /\ d \notin torn' => \E v \in Threads : thread'[v].pc = "mix" /\ thread'[v].clip = d
    BY <2>2, <2>5 DEF ClipInv
  <2> QED BY <2>4, <2>6 DEF ClipInv, Mixes, At, Clip
<1>3. ASSUME NEW p \in Processes, Crash(p) PROVE ClipInv'
  <2> DEFINE dead == {t \in Threads : ProcessOf[t] = p}
  <2>1. /\ thread' = [t \in Threads |-> IF t \in dead THEN Rest ELSE thread[t]]
        /\ torn' = torn \cup LeftBy(dead)
        /\ UNCHANGED <<file, lost>>
    BY <1>3 DEF Crash
  <2>2. \A t \in dead : ~At(t, "mix") \/ file[Clip(t)] # "partial" \/ Clip(t) \in torn'
    BY <2>1 DEF LeftBy
  <2>3. dead = Threads \/ dead = {}
    BY DEF OneProcess
  <2>4. \A d : d \in torn' => d \in torn \/ (file[d] = "partial" /\ dead = Threads)
    BY <2>1, <2>3 DEF LeftBy
  <2> HIDE DEF dead
  <2>5. ASSUME NEW t \in Threads PROVE Intact(t, thread'[t], file', torn', lost')
    BY <1>0, <2>1, <2>3, <2>4 DEF ClipInv, Intact
  <2>6. ASSUME NEW d \in Clips, file'[d] = "partial", d \notin torn'
        PROVE  \E t \in Threads : thread'[t].pc = "mix" /\ thread'[t].clip = d
    <3>1. PICK t \in Threads : Mixes(t, d)
      BY <2>1, <2>6 DEF ClipInv
    <3>2. t \notin dead
      BY <2>1, <2>2, <2>6, <3>1 DEF Mixes
    <3> QED BY <2>1, <3>1, <3>2 DEF Mixes, At, Clip
  <2>7. \A d \in Clips : d \in torn' => file'[d] = "partial"
    BY <2>1, <2>4 DEF ClipInv
  <2> QED BY <2>5, <2>6, <2>7 DEF ClipInv, Mixes, At, Clip
<1>4. CASE UNCHANGED <<thread, file, torn, lost>>
  BY <1>4 DEF ClipInv, Mixes, At, Clip
<1> QED BY <1>1, <1>2, <1>3, <1>4 DEF Next, Fetch, Age, Hour, vars

LEMMA ClipInit == Init => ClipInv
BY DEF Init, ClipInv, Intact, Rest, Entries

(* What a thread copies it finds at the final path of its clip.            *)
LEMMA CopyStep ==
    ASSUME WholeInv, CacheInv, ClipInv, [Next]_vars, NEW t \in Threads, Copies(t)
    PROVE  Clip(t) \in Clips /\ file[Clip(t)] # "none" /\ thread'[t].sound = file[Clip(t)]
<1>0. thread[t].pc = "put" /\ thread'[t].pc = "insert" /\ Rest.pc = "idle"
      /\ DOMAIN thread = Threads /\ DOMAIN thread[t] = DOMAIN Rest /\ "sound" \in DOMAIN thread[t]
      /\ Clip(t) \in Clips
  BY DEF Copies, At, WholeInv, Rest
<1>1. ASSUME NEW u \in Threads, Step(u) \/ SkipSentence(u) \/ SkipPart(u) \/ Fault(u) PROVE PutFile(t)
  <2>1. u = t
    BY <1>0, <1>1, StepMoves DEF Moves
  <2>2. ~Fail(t)
    BY <1>0 DEF Fail, Become
  <2> QED BY <1>0, <1>1, <2>1, <2>2 DEF Fault, SkipSentence, SkipPart, At, Step, Prune, Speak, Assemble, Publish,
     SelectOld, RemoveSentence, OpenDirectory, RemoveSound, RemoveManifest, ForgetRows, LockSentence, Stream, Keep,
     RegisterSentence, LockClip, MakeClip, MixClip, ReadGrants, WriteGrants, RegisterClip, OpenClip, InsertArtifact
<1>2. ASSUME NEW v \in Threads, NEW u \in Users, NEW c \in Clips, Begin(v, u, c) PROVE FALSE
  <2>1. thread[v].pc = "idle" /\ \E r : Become(v, r)
    BY <1>2 DEF Begin, At
  <2> QED BY <1>0, <2>1 DEF Become
<1>3. ASSUME NEW p \in Processes, Crash(p) PROVE FALSE
  BY <1>0, <1>3 DEF Crash
<1>4. ASSUME UNCHANGED thread PROVE FALSE
  BY <1>0, <1>4
<1>5. PutFile(t)
  <2>1. CASE \E u \in Threads : Step(u) \/ SkipSentence(u) \/ SkipPart(u) \/ Fault(u)
    BY <1>1, <2>1
  <2>2. CASE UNCHANGED vars \/ Age \/ Hour \/ \E u \in Users, c \in Clips : Fetch(u, c)
    BY <1>4, <2>2 DEF vars, Age, Hour, Fetch
  <2> QED BY <1>2, <1>3, <2>1, <2>2 DEF Next
<1>6. ~Fail(t)
  BY <1>0 DEF Fail, Become
<1>7. file[Clip(t)] # "none" /\ Become(t, [thread[t] EXCEPT !.pc = "insert", !.sound = file[Clip(t)]])
  BY <1>5, <1>6 DEF PutFile
<1> QED BY <1>0, <1>7 DEF Become

(* In one process what is copied, to be published as the audio of a        *)
(* script, is a complete clip, but for the two cases that the property     *)
(* names: a file that a broken making left behind, and a clip that was     *)
(* pruned under the request and is being mixed again.  Otherwise           *)
(* build_audio_preview looks at the final path under the named lock, so    *)
(* that it never meets the clip of a thread that is still mixing, and what *)
(* it found or made stays whole after the lock is released, as nobody      *)
(* writes over what is there.                                              *)
THEOREM OnlyTwoWaysToBreak ==
    ASSUME OneProcess PROVE Spec => CopiesAreWhole
<1>1. CacheInv /\ [Next]_vars => CacheInv'
  BY CacheInvNext
<1>2. WholeInv /\ [Next]_vars => WholeInv'
  BY WholeNext
<1>3. ClipInv /\ CacheInv /\ WholeInv /\ [Next]_vars => ClipInv'
  BY ClipNext
<1>4. ClipInv /\ CacheInv /\ WholeInv /\ [Next]_vars =>
        [\A t \in Threads : Copies(t) /\ thread'[t].sound # "whole" =>
            \/ Clip(t) \in torn
            \/ t \in lost /\ \E u \in Threads : Mixes(u, Clip(t))]_vars
  <2> SUFFICES ASSUME ClipInv, CacheInv, WholeInv, [Next]_vars, NEW t \in Threads,
                      Copies(t), thread'[t].sound # "whole", Clip(t) \notin torn
               PROVE  t \in lost /\ \E u \in Threads : Mixes(u, Clip(t))
    OBVIOUS
  <2>1. Clip(t) \in Clips /\ file[Clip(t)] # "none" /\ thread'[t].sound = file[Clip(t)]
    BY CopyStep
  <2>2. file[Clip(t)] = "partial"
    BY <2>1 DEF WholeInv, Sound, Entries
  <2>3. t \in lost
    BY <2>2 DEF ClipInv, Intact, Copies, At, Clip, Past
  <2> QED BY <2>1, <2>2, <2>3 DEF ClipInv
<1> QED BY <1>1, <1>2, <1>3, <1>4, CacheInvInit, WholeInit, ClipInit, PTL DEF Spec, CopiesAreWhole

=============================================================================
