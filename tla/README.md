# LectureCraft in TLA+

LectureCraft turns a PDF of slides into a narrated lecture. A FastAPI backend keeps projects in a
database and generates scripts, audio and videos in background jobs; a React frontend edits and
reviews them. Studies with participants are run on it, so it also records what they do and exports it.
This directory holds specifications of the backend, the
configurations that check them with TLC, and theorems about them proved with TLAPS.

Paths below are relative to `src/`. `jobs.py`, `storage_persistence.py`, `service.py`, `main.py`,
`persistence.py`, `db.py`, `cache.py` and `storage.py` are in `backend/app/`, the modules of the lecture
pipeline in `backend/src/auto_lecture/`.

## 1. The system

| Part | State it keeps | Operations | Modelled |
|---|---|---|---|
| Job manager (`jobs.py`) | `jobs` dict and queue of each process, one row per job in `jobs` | submit (four kinds), poll, cancel, claim, progress, publish, fail, complete, restore | `JobManager`, `JobLifecycle` |
| Project store (`storage_persistence.py`) | projects, drafts, revisions, runs, stage versions, artifacts | load, save, replace PDF, create run, confirm stage, apply result, render, preview | `ProjectStore`; creation of projects in `StudyLog` |
| Generation service (`service.py`) | files in a job's workspace | generate, assign, render, preview audio | `LecturePipeline`; preview's checks in `ProjectStore` |
| Preview caches (`service.py`, `cache.py`) | sentence and clip files, `cache_entries`, manifests | ensure, concatenate, grant, register, publish, prune | `PreviewCache` |
| Lecture pipeline (`backend/src/auto_lecture/`, `run_all.py`) | files of a run, globals of `lecture_concat` | layout, script, assignment, voice, clips, video, audio lecture | `LecturePipeline` |
| Accounts and sessions (`persistence.py`, `main.py`) | users, `user_sessions`, rate limiter buckets | log in, renew, expire, log out | `Accounts` |
| Experiments, events, export (`persistence.py`) | participants, runs, `edit_events`, `correction_memories`, exports | join, record, admit, export | `StudyLog` |
| Database layer (`db.py`, `alembic/`) | the schema and its stamp, seeds | bootstrap, migrate up and down, check, `db_conn` | `Schema`; the atomicity of `db_conn` in all modules |
| Artifact store (`storage.py`) | files and their rows | stage, rename, insert | in `PreviewCache` and `StudyLog` |
| HTTP API (`main.py`) | none of its own but the limiter | endpoints, CSRF, gateway | the callers in all modules |
| Frontend storage client (`frontend/src/utils`, `App.jsx`) | loaded version, kept events | save, load, poll, review flow | base version and review flow in `ProjectStore`, batches of events in `StudyLog` |
| Frontend editor, playback, views; administration | editor state, clock | edit, undo, play, report | no (section 10) |

**How the parts interact.** A tab loads a project and saves its draft with the version it believes
current. It uploads a PDF, creates a generation run, and the endpoint submits a job for it. The
request thread puts a record into the memory of the process and a row into `jobs`; a worker thread
takes the job from the queue, claims the row, works for minutes in the lecture pipeline, and applies
the result to the
project. The tab polls the job, then walks a person through the review stages (layout, script,
assignment); a second kind of job generates the assignment from what was confirmed. Previews and
final videos are two more kinds of jobs, made from the draft or from confirmed stages. A process
that starts restores the jobs that the database still has as queued or running. With every save
the tab sends the events that happened; an administrator later admits runs and exports them.

**What makes it hard.** Requests run in a thread pool beside the workers. A job lives in memory and
in a row, and the row is overwritten by snapshots taken outside the lock. The database operations
read, check, and then write, and only the writes form a transaction. Jobs compute for minutes
between reading their input and publishing their result, in files that a death leaves half written and
in globals that a second worker would share. Processes die and start again, leases of two hours
outlive them, and a restart may overlap with the old process. SQLite and PostgreSQL differ in what a
failed statement and a statement on the schema do. The steps of the pipeline pass sentences, regions and
audio on by position and by number, and each begins to count somewhere else. Everything of this kind
that the code is exposed to is listed, with its line and the property that covers it, under `hazards` in
`PROJECT.json`.

**What makes each part correct.** *Jobs:* every accepted job ends, exactly once; completed means
published, cancelled means not published; one execution at a time, at most `MaxRetries + 1` in
all; memory, row and run agree when nothing is going on. *Store:* no edit is silently lost; a
confirmed stage, an active audio or video is made from what the draft holds; a confirmed assignment rests on
a confirmed layout and script; there is one live run; revisions are numbered once. *Caches:* a
file at its final path is complete, a sentence is paid for once, access is not lost. *Pipeline:* a
completed run covers the deck, a video shows its own job's slides, and every module counts sentences and
regions alike. *Sessions:* an ended session is never renewed; a window has at most so many logins. *Studies:*
an answered batch is stored; an export holds what was asked for and nothing else. *Schema:* a stamp
means that the work is done; no draft goes back; an upgrade finishes. *Editor:* undo and redo are
inverse, ids stay unique, autosave never sends an old state last.

## 2. Plan

| | Modules | Proved |
|---|---|---|
| done | `JobManager`, `JobLifecycle` | types and all safety properties of the runs, the safety part of the refinement |
| done | `ProjectStore` | types and all safety properties, operations one at a time; `RevisionsDistinct` for any overlap |
| done | `LecturePipeline` | all properties of the run |
| done | `Accounts`, `StudyLog` | all properties of the run |
| done | `PreviewCache` | all safety properties of the run |
| done | `Schema` | all safety properties of the run |

Left, in this order:

1. The frontend: debounced autosave, explicit save and late responses of one tab, composed with
   `ProjectStore`'s versions.
2. An abstract specification of the review workflow (what may be confirmed after what) that
   `ProjectStore` with serialised operations implements.
3. Pure algorithms as operators checked against reference definitions: sentence timings, grouping,
   coordinates.

## 3. JobManager

### State

| Variable | Code |
|---|---|
| `mem[i][j]` | `JobManager.jobs` of process `i`: a `JobRecord`, or absent |
| `db[j]` | the row of the job; `fresh` abbreviates "`lease_expires_at` is in the future" |
| `queue[i]` | `JobManager._queue` |
| `run[r]` | status and job of a row of `generation_runs`, and whether the project points at it |
| `worker[i][w]`, `request[c]` | where a worker or a request thread is, and the snapshot it carries |
| `todo[i]` | the rows that the restore has selected |
| `inst[i]` | whether process `i` is starting, serving or dead |
| `applied`, `claims`, `faults` | history: publications, executions, failed database operations |

Actions are the regions the code makes atomic: a `with self._jobs_lock` block (guarded by
`LockFree`) or one database transaction. `_persist_job` is two regions, the snapshot and the write,
so a snapshot in flight is part of a thread's state. The main actions:

| Action | Code |
|---|---|
| `Submit`, `SubmitUnsaved`, `AttachRun`, `AttachFails`, `Enqueue` | the four `submit_*`, `attach_job_to_run`, `mark_generation_run_submission_failed` |
| `GetJob`, `ReuseRow` | `get_job` and `submit_preview_audio` when they fall back to the row |
| `Cancel`, `SnapCancel`, `PersistCancel`, `CancelTerminal` | `cancel_job` |
| `Take`, `Claim`, `ClaimLost`, `ClaimRecord` | `_worker_loop`, `_claim_job` |
| `CheckPasses`, `Stop` | `_raise_if_cancel_requested` (also before every report of progress), `_mark_cancelled` |
| `Report`, `Apply`, `Complete`, `Attach`, `Fail` | the handlers `_run_*_job` and the `except` clauses of the loop |
| `PersistRecord`, `SyncRun` | `_persist_job`, `_sync_generation_run_status` |
| `Start`, `RestoreJob`, `RestoreLost`, `Serve` | `start`, `_restore_pending_project_runs` |
| `Crash`, `CrashInRestore`, `LeaseExpires`, `Supersede` | the environment: death, time, `create_generation_run_v2` and `save_source_pdf` |

`AttachFails` is several steps, and each of its writes may fail: then a queued row outlives the request that was
answered with an error. An exception while a process takes over its rows ends the start, which is a death
(`CrashInRestore`); a job at its retry limit is failed without a look at its run, as in the code.

Abstractions: progress numbers, messages and payloads are left out. A handler's work is one `work` state with
up to `MaxReports` progress reports. Preview audio sets its artifact id in a lock block right before
the completion; the two are one action, because the id is not persisted in between. A preview
request that equals an earlier one is answered with that job, which creates nothing; only when its record
has failed or was cancelled while the row does not say so yet does the row replace the record
(`ReuseRow`). The other kinds of
jobs differ in whether the run must be active when they are submitted, in when they check for a
cancel request, and in where they can fail; generation, assignment and preview jobs occur in the runs, and a
final render differs from an assignment only in its limit and in one more place where it can fail.

`JobLifecycle` is the abstract specification: what a client of one process that stays up may rely
on, among it that a result is published at most once. `JobManager` implements it with `status` mapped to the record
and `published` to `applied`, the number of publications.

### Properties

`CompletedIsPublished` (no copy of a job, wherever it is, says completed before the result is
out), `RecordFollowsThread`, `CancelledIsUnpublished`, `OneExecutionUnlessCancelled`,
`ExecutionsBounded`, `LeaseIsServed`, `UncancelledRowAgrees`, `RunFollowsJob`,
`RecordStaysFinished` (action), `JobEnds`, `QueuedCancelTakesEffect` (liveness) and
`ImplementsLifecycle` (refinement) hold. Some are weaker than one would wish, because the
stronger form fails: `RowAgreesWithRecord` and `OneExecution` without their exceptions,
`CancelRequestIsKept`, `CompletedIncludesResult`, `ProjectRunsWithinLimit`, `CancelIsAnswered`,
`JobEndsAfterRestart`.

### Runs

| Run | Instance | Shows |
|---|---|---|
| `job_process` | 1 process with 1 worker (the default), generation and preview job of one run, fairness | safety between threads, liveness, refinement |
| `job_restart` | 3 processes after each other, an assignment job or a preview job that is asked for again | retries and leases |
| `job_processes` | 2 processes at once, 1 failing operation, a death (also within the restore), a blocked manager | types, completion, claims |
| `job_v_cancel` (violation) | a client cancels a job that is over | `cancel_job` of a finished job deadlocks on `_jobs_lock` (`jobs.py:557`) |

More configurations produce counterexamples and are kept to be run by hand:

| Configuration | Counterexample |
|---|---|
| `JobManager_v_row.cfg` | `RowAgreesWithRecord`: a late cancel snapshot brings a finished row back to running |
| `JobManager_v_two.cfg` | `OneExecution`: the same, back to queued, while another process executes the job |
| `JobManager_v_retry.cfg` | `ExecutionsBounded`: a death within the restore is not counted as a retry |
| `JobManager_v_result.cfg` | `CompletedIncludesResult`: a completed job loses its result in a restart |
| `JobManager_v_kept.cfg` | `CancelRequestIsKept`: a progress snapshot erases a stop request of a new run or PDF |
| `JobManager_v_resume.cfg` | `JobEndsAfterRestart`: a restart within the lease never resumes the job |
| `JobManager_v_limit.cfg` | `ProjectRunsWithinLimit`: the limit of generation jobs counts a kind that does not exist |
| `JobManager_v_reuse.cfg` | `RecordStaysFinished`: a preview that is asked for again while its failure or cancellation is being saved turns into a running job that nobody runs |

**Bounds.** `MaxAlive`: how many processes overlap; 1 is the usual deployment (one uvicorn process),
2 is a restart that overlaps with the old process. `MaxCrashes` 2 with `MaxRetries` 1 lets an execution
be lost, retried and lost again, so that the limit is reached. `MaxReports` 1
gives one intermediate snapshot, and more of them add nothing but equal ones. `MaxFaults` 1 makes each
database operation fail once in some behaviour. One client suffices because a second request thread
would only add another late snapshot, and one worker in each process because workers of one process
and of two differ only in the memory they share, which the lock protects. `LeaseCoversRun` says that a job does not work longer than its lease
of two hours; without it two executions are unavoidable and `OneExecution` is not the code's claim.
`CancelFinished`, `RepeatPreviews` and `CrashWhileRestoring` switch off behaviours whose consequences have
configurations of their own. In `job_restart` one of two jobs of different kinds is submitted
(`OneSubmitted`), and processes that come one after the other are interchangeable. Deadlock is not checked: the numbers of jobs, processes and faults are
bounded, so a behaviour may end.

**Fairness.** `FairSpec` has weak fairness of each worker's step, of a request that is being served,
of starting and restoring a process, and of time running out for a lease. The workers are threads that
loop forever, and their blocking calls are bounded by time-outs of the services they use. Nothing is
assumed of clients: they need not ask for anything. Without strong fairness on the lock, `JobEnds`
still holds, because every holder of the lock releases it (except in `CancelTerminal`, which is why
`job_process` leaves it out and `job_v_cancel` shows it).

## 4. ProjectStore

### State

| Variable | Code |
|---|---|
| `project` | row of `projects` (PDF, active run), `project_drafts` (version, content), last revision number |
| `run[r]` | row of `generation_runs` as far as the store needs it |
| `stage[r][s]` | latest `review_stage_versions` row of a stage: confirmed or stale, revision, content |
| `audio`, `render` | active artifacts and the content they were made from |
| `loaded[c]` | the draft a tab has |
| `call[c]` | the operation of a tab or worker, with what it has read |

A draft has three parts: what `_layout_signature`, `_script_signature` and `_assignment_signature`
compute. A new content is a new number, so equality of parts is the equality of signatures.
`db_conn` opens a connection and commits at its end. The SELECTs before the first write take no
lock, so every operation is an `Open...` action, which reads and checks, and a `Commit...` action,
which writes as one transaction what it has computed from the reads. `MaxOpen = 1` serialises the
operations, and still leaves minutes between the input and the output of a job: jobs are `working`, not
open. `MaxOpen = 2` is the real database. `Apart` names pairs of operations that are not open together: with it an
instance lets some operations overlap and not others.

| Actions | Code |
|---|---|
| `Load`, `OpenSave`, `OpenRename`, `CommitSave` | `get_project_v2`, `save_project_draft`; in the browser the autosave, `saveProject` and `updateProjectName` |
| `OpenPdf`, `PdfStored`, `CommitPdf` | `save_source_pdf` |
| `OpenRun`, `CommitRun` | `create_generation_run_v2` |
| `StartConfirm`, `OpenConfirm`, `CommitConfirm` | the review flow in `App.jsx`, `confirm_review_stage` |
| `OpenGenerate`, `CommitGenerate` | `apply_generated_result` and the stages that a run without review confirms itself |
| `StartAssign`, `OpenAssign`, `CommitAssign` | `get_review_assignment_context`, `apply_review_assignment_result` |
| `OpenVideo`, `FreezeInput`, `StartHighlight`, `OpenRender`, `CommitRender` | `create_final_render_input_revision`, `get_final_render_context`, `publish_final_render_result` |
| `StartPreview`, `OpenPreview`, `CommitPreview` | `build_audio_preview`, `publish_preview_audio_result` |
| `Refuse` | the 409 answers and the refused duplicate revision number |

Abstractions: the reads of one operation are one step. Left out: the early return for an unchanged PDF, saves that
change nothing, checkpoints (they only add a revision), archiving, and the run statuses that belong
to `JobManager`. Two revisions with one number are refused by `UNIQUE`: confirmations and frozen inputs, the
operations whose revisions are referred to later, check it when they commit (`RevisionFree`), and any other that
takes a number may be refused as well (`Refuse`). The autosave names the version its tab loaded; the saves a user asks for
and the renaming load the project first and name what they find. `OneReviewer` is the review
flow of one tab: it does not offer to generate an assignment again while one is confirmed or being confirmed. Without it,
regenerating an assignment over a confirmed one leaves the old confirmation in place (a listed
hazard). `Retry` lets a run be generated a second time, as a restored job does.

### Runs

| Run | Question |
|---|---|
| `store_review` | edits, confirmations and an assignment job over one run; confirmations and videos may overlap, which is what competes for revision numbers |
| `store_runs` | two runs and two PDFs, videos and audio while the draft is edited, saved, and the project renamed, serialised |

Counterexamples, and one check that holds, to be run by hand:

| Configuration | Shows |
|---|---|
| `ProjectStore_writers.cfg` | `SavesAreBased` holds when everything overlaps but the operations that replace the draft |
| `ProjectStore_v_save.cfg` | `SavesAreBased`: of two overlapping saves one is lost |
| `ProjectStore_v_superseded.cfg` | `SupersededStaysInactive`: a result is applied over a newer run |
| `ProjectStore_v_reread.cfg` | `EverySaveIsBased`, serialised: a save that the user asked for names the version it has just loaded and overwrites an edit of another tab |
| `ProjectStore_v_render.cfg`, `ProjectStore_v_audio.cfg` | `RenderIsCurrent`, `AudioIsCurrent`: a save during a publication leaves outdated media active |
| `ProjectStore_v_confirm.cfg` | `ConfirmedIsCurrent`: a save during a confirmation confirms outdated content |
| `ProjectStore_v_again.cfg` | `AudioIsCurrent`, serialised: a retried generation replaces the script, and the audio of the first stays |
| `ProjectStore_v_run.cfg` | `LiveRunIsActive`: of two runs created at once, one is never superseded |

So with operations one at a time the store keeps its invariants, except that only the autosave is
protected by its version: `SavesAreBased` is about it alone. When two operations overlap,
the numbering of confirmed revisions remains and the rest is lost: the checks are right, the transactions
around them are too short.

**Bounds.** Two callers are a person and a job, or two tabs. In `store_review` three edits let a part
be generated, edited, and edited or assigned again after a confirmation, and five revisions let all stages be
confirmed and one of them again. In `store_runs` a draft is generated and edited once, five revisions
reach a video with highlights, and two runs and two PDFs replace each other. `Explored` picks the operations
a run is about. Callers are symmetric, and all properties checked under symmetry are
invariants or action properties that treat callers alike.

## 5. PreviewCache

| Variable | Code |
|---|---|
| `file`, `grants` | sound of a sentence or clip at its final path; users in a clip's manifest |
| `row` | `cache_entries`: accessed within the retention period, before, or no row |
| `thread[t]` | what a worker thread is doing, the named lock it holds, what it has read |
| `pruneDue` | the processes whose last pruning is over an hour ago (a variable of the module) |
| `artifact` | the `preview_audio` artifacts |
| `torn` | history: clips whose file was left behind by a making that broke off |
| `lost` | history: threads whose clip was pruned after they had found or made it |

| Actions | Code |
|---|---|
| `Begin`, `SelectOld`, `RemoveSentence`, `OpenDirectory`, `RemoveSound`, `RemoveManifest`, `SkipSentence`, `SkipPart`, `ForgetRows` | `build_audio_preview`, `_maybe_prune_preview_audio_cache` |
| `LockSentence`, `Stream`, `Keep`, `RegisterSentence` | `ensure_preview_sentence_audio` under `get_named_lock` |
| `LockClip`, `MakeClip`, `MixClip`, `ReadGrants`, `WriteGrants`, `RegisterClip` | `build_audio_preview`, `_grant_preview_clip_access`, `_register_cache_entry` |
| `OpenClip`, `PutFile`, `InsertArtifact` | `publish_preview_audio_result`, `ArtifactStore.put_stream` |
| `Fetch` | `get_audio_preview_media_path` |
| `Fault`, `Crash`, `Age`, `Hour` | failing services, death of a process, time |

Sound is `none`, `partial` or `whole`; what is spoken, its length and its format are left out. A write to a
file that was unlinked meanwhile succeeds and leaves nothing.

Run `preview_cache`: two worker threads of one process (the module's locks are those of a process), two
users, clips of one and of two sentences that share one, three requests, one failure or death, one
retention period. Three requests are the fewest with which two threads meet over a clip that a third
made; `PruneLimit` 2 is less than the number of rows, so that a pruning leaves some. Nobody prunes before
something is old, which takes an `Age`. A sentence that cannot be removed keeps its row; errors within a clip's
directory are ignored and its row is deleted. Properties: `SentenceIsWhole`, `SpokenOnce`,
`GrantsKept` and `CopiesAreWhole` (actions), `RequestEnds` (liveness). Fairness: weak fairness of each thread's `Step`; the
calls of the speech service have time-outs and ffmpeg ends.

What the code does not promise: that a published clip is complete (`PublishedIsWhole`). There are two ways
to break it, each with a configuration to be run by hand, and `CopiesAreWhole` says that there is no third:

| Configuration | Counterexample to `PublishedIsWhole` |
|---|---|
| `PreviewCache_v_torn.cfg` | a mixing breaks off and leaves its file at the final path, where the next request finds it (`service.py:265`) |
| `PreviewCache_v_pruned.cfg` | a clip is pruned after a request has found it, and mixed again at its final path while that request copies it |

With two processes `SpokenOnce` fails (the locks are not shared). `FilesAreListed` fails, because a pruning
deletes a row that was renewed after its selection.

## 6. Schema

| Variable | Code |
|---|---|
| `schema`, `stamp` | the tables and columns that exist, in six parts; `alembic_version` |
| `exists`, `versions`, `draft` | rows of `projects`, `MAX(version_number)` of `project_versions`, the version in `project_drafts` |
| `defaults`, `admin` | the rows seeded by `init_db`, the bootstrap administrator |
| `backend[b]` | where a process is in `startup_event` |
| `command` | the Alembic command: revision, next statement, its view of the schema, uncommitted drafts |

| Actions | Code |
|---|---|
| `StartProduction`, `StartDevelopment` | `startup_event`, `assert_storage_schema_ready` |
| `Create`, `AddColumns`, `Look`, `Seed`, `Find`, `Insert` | `init_db`, `_ensure_column`, `ensure_bootstrap_admin` |
| `Upgrade`, `Statement`, `BootstrapStep`, `Stamped` | `alembic upgrade`, the three revisions, `init_db` within the first |
| `Downgrade`, `DropStep`, `Unstamped` | `alembic downgrade -1` |
| `CreateProject`, `Save`, `Stop`, `CommandDies` | users, deaths |

On PostgreSQL a command is one transaction. On SQLite every statement on the schema takes effect at
once, and only the data and the stamp of a revision are one transaction. Assumed: nobody starts or
serves during a downgrade, and a developer runs Alembic while the development server is stopped. Between the look at
the columns and the ALTER another process may have added them: then the ALTER raises and the start fails.

Run `schema`: both databases, both origins (empty, or a legacy database without the catalogue) and both
modes, two backends, two projects, one save, one downgrade, one death. One death is enough, as a second one
would meet the states of the first. Properties: `StampMeansDone`, `DraftsKept` (action),
`UpgradeFinishes` and `DevelopmentServes` (liveness). Fairness: `SF` of a backend's start (a supervisor
starts it again; it may be refused in between), `WF` of the command's steps, `SF` of
`Upgrade(LastRevision)` (the operator repeats the upgrade until it succeeds; development servers
disable it while they are up).

`Schema_types.cfg` checks `TypeOK` and `ServedIsComplete`. `Schema_v_head.cfg` refutes `HeadIsAccepted`: the
message of the readiness check says to run `alembic upgrade head` (`db.py:812`), but the check asks for
revision 2 (`db.py:799`) and there is a third.

What the properties had to leave out, because the code does not promise it: on SQLite a downgrade
that breaks off leaves a stamp without its parts; an upgrade on SQLite that dies within revision 01,
an upgrade of an empty PostgreSQL database that dies after `init_db`'s own commit, and one of a legacy
database on which a development server was started, find a table they want to create and raise
forever; at stamp 2 a legacy project has no draft.

## 7. Accounts and StudyLog

`Accounts` has the requests of `main.py` that concern sessions: login with the sliding window, session
reading, renewal, expiry, logout, joining an experiment. `StudyLog` extends it by what a request does with
its session: creating projects and runs, saving events, admitting runs and exporting.

| Variable | Code |
|---|---|
| `clock`, `bucket`, `accepted` | time in ticks, `_RATE_LIMIT_BUCKETS`, history of accepted attempts |
| `session`, `issued`, `ended` | `user_sessions`; history of issued and ended tokens |
| `participant` | `experiment_participants` |
| `request[q]` | where a request thread is, and what it has read |
| `project`, `run` | owner, experiment and active run of a project; owner, usage and admission of a run |
| `made`, `event`, `answered` | events in the browser, `edit_events`, history of answered batches |
| `memory`, `export`, `admitted` | `correction_memories`, files and rows of exports, history of admissions |

| Actions | Code |
|---|---|
| `LimitClient`, `LimitAccount`, `WrongPassword`, `CreateSession` | `auth_login_endpoint`, `_rate_limit_or_raise`, `login_user`, `_create_session_record` |
| `ReadSession`, `Renew`, `Expire`, `Logout`, `Join` | `get_session_context`, `logout_session`, `join_experiment` |
| `Create`, `CreateRun` | `create_project_v2`, `create_generation_run_v2` with the experiment of the session |
| `AskEvents`, `ReadProject`, `Store` | `saveProject` in `projectStore.js`, `save_project_events` |
| `Admit` | `update_run_analysis_status` |
| `Collect`, `PutExport`, `InsertExport` | `_load_correction_memory_rows_for_export`, `put_admin_export`, the row |
| `Tick`, `Restart` | time, death of the process |

Abstractions: registration and guest sessions are logins without the limiter; one client address; the clock is read in
the tick in which the limiter's lock is taken; joining and logging out read the session once. A session is never
deactivated, because no code sets `is_active` to 0. An event is attributed to the run that is active when it is
saved (`projectStore.js:126`).

Run `study` (PostgreSQL, as in production): one person who also administers, two requests at a time, two sessions,
two logins per address and one per account, a window and a lifetime of 1, five moves (requests, ticks,
restarts). A second attempt on the account is refused by the account's bucket alone, a third by the address's, and a
lifetime of 1 lets a session expire between two statements of a request. Five moves let two requests overlap over a session
that expires or that somebody logs out, and reach an export of a run that was
admitted. Properties: `WithinLimit`, `EndedStaysEnded`, `ExportIsSound`, `EventsFollowProject`. No fairness: nothing
of it has to happen without a request.

Run `study_v_events` (violation, PostgreSQL, three moves): `AnsweredIsStored`. `docs/api-contract.md:191-193` lets clients send
events again, but the INSERT of an event that is stored already aborts the transaction, the exception is
swallowed (`persistence.py:1180`), and the batch is answered with success without a trace of it. On SQLite, which production
refuses (`main.py:507`), it holds.

`WithinLimit` only counts from the last restart, because the buckets are in memory.

## 8. LecturePipeline

What the worker does for a job between `Claim` and `Apply` of `JobManager`, for five flows: `audio` and
`visual` (a run without review), `reviewed` (a run that stops for review), `assignment` and `render`.

| Variable | Code |
|---|---|
| `flow`, `pc`, `retry`, `cancel` | the job and its step |
| `disk[j]` | its workspace: images, scripts, mappings, audio parts, clips, materials, outline, script, video |
| `layout[j]` | `outputs/LP_output/<run>.pdf`: per page none, cut or whole |
| `concat`, `build[j]` | the globals of `lecture_concat`, the locals of `run_concat` |
| `marks[j]` | the sentences that an assignment gives to a region |
| `result[j]` | the response |

| Actions | Code |
|---|---|
| `EnsurePdf`, `EnsureImages`, `SavePage` | `ensure_pdf_images` |
| `EnsureLpOutputs`, `OpenResult`, `DumpResult` | `lp_outputs_ready`, the layout results |
| `SnapshotAndScan`, `WriteScript`, `AssignRegions`, `SpeakScript`, `Animate` | `run_all.py` and the steps it runs |
| `SetPaths`, `Collect`, `BuildSlide`, `JoinSlides`, `NoLecture` | `lecture_concat` |
| `StartMaterials`, `ExtractMaterial`, `WriteMaterials`, `WriteOutline`, `Narrate`, `Stitch` | `audio_only_lecture` |
| `Match`, `Prepare` | `generate_review_assignment`, `export_video` with `write_custom_lp_outputs` and `write_custom_mapping_outputs` |
| `Respond`, `Publish` | `parse_visual_outputs`, `build_visual_script_review_response` and what is returned |
| `Start`, `Cancelled`, `Fail`, `Crash` | the worker, the cancel checks, an exception, a death and the restore |

Text is the sequence of a narration's sentence ends: the voice is cut at full stops only, the timeline
at every mark. A model's answer is one of a few mappings: in order, with a sentence twice, or with a
sentence and a region that do not exist; numbers below 1 are not enumerated. A region is a number; times, cropping, drawing
and encoding are left out. The failure of one plain clip drops its sentence (`Kept`), that of an
animated one fails the job, and so does an image that is missing when slides are built. `persist_generation_research_outputs` copies files only, and the cache of
responses is disabled in the code. A job that is over forgets what nobody reads.

Run `pipeline`: two jobs of any flows, one worker (the default of `LECTURE_CRAFT_JOB_WORKERS`), two pages,
one death, one retry, two material workers. Two pages tell pages from positions, two jobs share the
globals, one death leaves every kind of half-written file, a second one would leave the same. Properties:
`CompletedIsWhole`, `VideoIsOwn`, `VideoFollowsTimeline`, `RenderShowsAssigned`. Run
`pipeline_v_chapters` (violation): `SentenceOnItsChapter`, because `sentence_split_ja` removes the blank lines
by which `build_audio_sentences` pairs paragraphs with chapters.

| Configuration, by hand | Counterexample |
|---|---|
| `LecturePipeline_v_workers.cfg` | `VideoIsOwn` with two workers: `set_paths` of one job moves the other's directories |
| `LecturePipeline_v_layout.cfg` | `LayoutIsWhole`: layout results lie outside the workspace that a retry clears, and half of one counts as a result without regions |
| `LecturePipeline_v_gap.cfg` | `GapShowsItsPage`: the gaps of a video are counted by all slides, the slides by those that were made |

## 9. Proofs

The theorems hold for every value of the constants that satisfies the module's assumption, which only gives
the constants their types, and the further assumptions of the tables. Each rests on an inductive invariant. What
this invariant adds to the property is what the code relies on without saying so.

### JobManager (`JobManagerProofs`, `JobSteps`, `JobGuarantees`)

| Theorem | Property | Assumes | From |
|---|---|---|---|
| `TypeCorrect` | `TypeOK` | | `IInv` |
| `CompletedOnlyIfPublished` | `CompletedIsPublished` | | `IInv` |
| `RecordIsHeld` | `RecordFollowsThread` | | `TInv` |
| `FinishedRecordsStay` | `RecordStaysFinished` | no `RepeatPreviews` | `TInv` |
| `CancelledStaysUnpublished` | `CancelledIsUnpublished` | one process | `OInv` |
| `RunsFollow` | `RunFollowsJob` | one process, no faults | `OInv` |
| `RowsAgree` | `UncancelledRowAgrees` | one process, no faults, no `RepeatPreviews` | `OInv` |
| `ProcessKeepsLifecycle` | safety of `ImplementsLifecycle`, with "published at most once" | one process that does not die, no `RepeatPreviews` | `OInv` |
| `ExecutedOnceAtATime` | at most one thread works on the job | `LeaseCoversRun`, nobody asks to cancel the job | `Leased`, `Single` |
| `CancelledOrOnce` | `OneExecutionUnlessCancelled` | `LeaseCoversRun`, no process dies, no `RepeatPreviews` | the same, `CancelKept` |
| `RetryLimit` | `ExecutionsBounded` | `MaxAlive = 1`, no faults, no death within a restore | `CInv` |
| `HeldJobsAreServed` | `LeaseIsServed` | no faults | `DInv` |

- `IInv == Typed /\ Published`. `Typed` adds to `TypeOK` that a busy thread has a job and a busy
  request a process. `Published` says `CompletedIsPublished` copy by copy (rows, records, snapshots
  of workers and requests, selected rows), and that a thread between publication and completion has
  published. The latter is what makes it inductive: `Complete` is the only action that writes
  completed from nothing, every other action copies what exists.
- `TInv`: within a process a job is in one place at a time, the queue, one thread or one request that hands it over
  (`Once`), and its record says so: queued while it waits, running and leased while a handler has it, and what
  the thread's snapshot says once it ended (`Waiting`, `Held`, `Ended`). The queue holds no job twice, which is why
  no second thread can ever move a record.
- `OInv(p)`: what holds when all goes through one process `p`: a job that has not reached its publication has not
  published (`Unpublished`), every cancelled copy comes from a cancelled record (`CancelledOnce`), row and run are
  the record except where a thread is between its two writes (`Agree`, `RunAgrees`).
- `Leased` and `Single`, of one job: a thread that has claimed it holds its lease, or the row is over; and there is one
  such thread in all processes together. A claim needs a row that nobody holds, and a restore a lease that is over.
  `CancelKept` is the other branch of `CancelledOrOnce`: from the first cancel request on, a record of a living process has the
  flag, through every action but a death. With three processes the death of the one that cancelled leaves its late snapshot in the row
  and no copy with the flag, so the assumption is needed; with two nobody is left to be the second
  thread, and `job_processes` checks that case with a death.
- `CInv`: a copy of a job that could still be claimed has at least as many retries counted as executions begun
  (`Spare`), whether it is in the row, the record, a thread, a selected row or a late snapshot. A death within a restore breaks
  it (`JobManager_v_retry.cfg`).
- `DInv`: an uncancelled row that is leased to a living process is in its queue or with a thread while it is queued, and with a
  thread while it runs (`Served`); what cancel requests have flagged stays flagged until their snapshot is taken (`Asked`).

`JobSteps` says first what each action changes, copy by copy; the other proofs use these lemmas in place of the
nested updates. The assumptions are those under which the runs check the properties: one process is the usual
deployment, and the configurations `_v_row`, `_v_two`, `_v_retry` and `_v_reuse` show what becomes of the
properties without them.

### ProjectStore (`ProjectStoreProofs`)

| Theorem | Property | Assumes | From |
|---|---|---|---|
| `StoreTypeCorrect` | `TypeOK` | | `IInv` |
| `ConfirmationsDistinct` | `RevisionsDistinct` | | `IInv` |
| `OrderOfReview` | `StageOrder` | `MaxOpen = 1` | `SInv` |
| `OneLiveRun` | `LiveRunIsActive` | `MaxOpen = 1` | `SInv` |
| `SupersededForGood` | `SupersededStaysInactive` | `MaxOpen = 1` | `SInv` |
| `AssignmentWritesBack` | `AssignmentKeepsReview` | `MaxOpen = 1`, no `Retry` | `RInv` |
| `AudioSpeaksDraft` | `AudioIsCurrent` | `MaxOpen = 1`, no `Retry` | `RInv` |
| `ConfirmedStagesCurrent` | `ConfirmedIsCurrent` | `MaxOpen = 1`, no `Retry`, `OneReviewer` | `AInv` |
| `VideosShowDraft` | `RenderIsCurrent` | `MaxOpen = 1`, no `Retry`, `OneReviewer` | `AInv` |
| `AutosavesReplaceWhatTheyLoaded` | `SavesAreBased` | `WritersApart` | `BInv` |

`MaxOpen = 1` says that operations do not overlap, with any number of tabs, workers, runs and jobs that work
between them. The code does not enforce it: the theorems say that its checks are the right ones, and the `_v_`
configurations with `MaxOpen = 2` that its transactions are too short for them. `WritersApart` is less: of the operations
that replace the draft no two are open together, everything else overlaps at will. `IInv` to `AInv` use each the one before, `BInv`
only `IInv`.

- `IInv`: types, the soundness of calls (an open call has the runs, stages and contents its commit needs), `Numbered` (no
  stage has a revision later than the project's last) and `RevisionsDistinct`. A confirmation gets the
  number after the last one that it read, and `RevisionFree` lets it commit only if that is still the last.
- `SInv`: what the open operation has read is the state (`UpToDate`), exactly the active run is live, and only its stages are confirmed.
- `RInv`: what a working job remembers of the stages and the draft it began with (`AllWorking`): if the revisions and
  the version are still the same, so are the contents. With it, a confirmed layout or script is the draft's.
- `AInv`: the same of the assignment. Nobody generates one while it is confirmed or being confirmed (`OneReview`,
  which is what `OneReviewer` assumes of the review flow), so a video with highlights rests on a confirmed one.
- `BInv`: a tab that names the draft's version has loaded that draft, an autosave under way names it, and one operation
  that replaces the draft is under way.

### The other modules

| Theorem | Property | Assumes | From |
|---|---|---|---|
| `VideoIsItsJobs` (`LecturePipelineProofs`) | `VideoIsOwn` | `Workers = 1` | `OwnInv` |
| `CompletedCoversTheDeck` | `CompletedIsWhole` | | `CoversInv` |
| `VideoFollowsItsTimeline` | `VideoFollowsTimeline` | | `DrawnInv` |
| `RenderShowsItsAssignment` | `RenderShowsAssigned` | `Workers = 1` | `RenderInv` |
| `SessionsStayEnded` (`StudyLogProofs`) | `EndedStaysEnded` | | `SessionInv` |
| `ExportsAreSound` | `ExportIsSound` | | `StudyInv` |
| `EventsAreRecordedOnce` | `EventsFollowProject` | | `RecordedInv` |
| `LimiterHolds` | `WithinLimit` | | `LimitInv` |
| `SpokenOnceHolds` (`PreviewCacheProofs`) | `SpokenOnce` | `OneProcess` | `CacheInv` |
| `GrantsKeptHolds` | `GrantsKept` | `OneProcess` | `CacheInv` |
| `SentencesAreWhole` | `SentenceIsWhole` | | `WholeInv` |
| `OnlyTwoWaysToBreak` | `CopiesAreWhole` | `OneProcess` | `ClipInv` |
| `StampMeansDoneHolds` (`SchemaProofs`) | `StampMeansDone` | | `StampInv` |
| `DraftsKeptHolds` | `DraftsKept` | | `DraftInv` |

- `OwnInv` says that at most one job runs, that the globals name it from `SetPaths` to its last use of them,
  and that all slides it has taken, on its disk and in its result, are its own. Steps that touch none of this are
  handled together (`Quiet`).
- `CoversInv` says for each job and step which pages must have an image, a material and a place in the response by
  then. Jobs do not disturb each other here, so no assumption on workers is needed.
- `DrawnInv`: whoever makes a slide of a job, with whatever globals, does so after the job has made everything it is
  drawn from (`SlidesDrawn`), so its clips are those of the timeline (`Traced`). The lemmas on `InTurn` say that a
  set of sentences in rising order is numbered by the count of those before, which is what the modules have in common.
- `RenderInv` is `OwnInv`, `DrawnInv` and that a render's mapping is the one made of its assignment (`GivenInv`): the
  place of a sentence's region counted by the layout results, by the mapping and in the clip's name is the same.
- `SessionInv` adds that ended tokens were issued and that a request
  carries an issued token. New sessions get new tokens, and a renewal updates only a row that is there.
- `StudyInv` follows the experiment from the session to the project, the event, the memory
  and the rows a request has collected: each says that its user participates. `Grows` says that participants,
  admissions and files only grow, so that what was read remains true while the request goes on.
- `RecordedInv` adds that a request which is about to store has read the owner and the experiment of a project that exists
  (`Based`); neither changes later (`Settled`), and a run stays with its project. It holds on both databases.
- `LimitInv`: a bucket is the end of the history of its key, what it has forgotten is older than the window, and attempts as many
  apart as the limit are more than a window apart (`Spaced`). Of a window the invariant is applied to its first attempt.
- `CacheInv` says which lock a thread
  holds at each step (`Sane`), that what it has read under the lock is still true (`Fits`) and that no two hold the
  same lock (`Exclusive`). Only the holder of a lock writes the file it names, and a pruning only removes,
  which makes nothing in `Fits` untrue.
- `WholeInv` needs no lock: only clips are written at their final path. `ClipInv` adds that a partial clip
  not left behind by a broken making is being mixed by a thread, which holds its lock, and that a thread past the lock whose clip
  was not pruned has a whole one (`Intact`).
- `StampInv` adds to the property what the command's view of the schema holds after
  each statement (`Begun`), that the revision at work is not stamped yet (`Ordered`), and that users are
  created before projects. On SQLite it promises nothing once a downgrade has begun.
- `DraftInv` adds that a draft in an uncommitted backfill is missing for everybody else (`Waiting`), so that
  no save can have counted it up, and that nothing is served during a downgrade (`Dropping`).

### What is only model-checked

Every safety property of the passing runs has a theorem. Four assume more than the run of their property: `CancelledOrOnce`,
whose run has a death, and `OrderOfReview`, `AssignmentWritesBack` and `ConfirmedStagesCurrent`, whose run lets confirmations and
videos overlap. The liveness properties (`JobEnds`, `QueuedCancelTakesEffect`, `RequestEnds`, `UpgradeFinishes`, `DevelopmentServes`) and the
liveness of `ImplementsLifecycle` are checked by TLC only: fairness and `ENABLED` are out of TLAPS's reach. The
counterexamples of the `_v_` configurations are TLC's as well.

## 10. Not modelled

- Administration: reports that only read. Frontend views: rendering.
- Frontend editor: one synchronous reducer in one tab, nothing is persisted; its edits are `Edit` of
  `ProjectStore`. Frontend playback: timers of a browser; its jobs are those of `JobManager`.
- The debounce of the autosave and late answers within one tab (planned).
- Checkpoints, archiving and listing of projects, saves that change nothing.
- Review records (`persistence.py` 1917-1988), which append without reading, and functions that nothing calls.
- CSRF and CORS checks, the media proxy, the gateway to external tools, limits other than that of logins.
- Times and durations in seconds, image cropping, prompts, encoding, disk limits: data that no property distinguishes.
- Command-line runners of experiments and deployment scripts; what they decide (numbers of processes
  and workers, the order of migration and start) are the constants and fairness above.

## 11. Files

- `JobManager.tla`, `JobLifecycle.tla`, `JobManagerProofs.tla`, `JobSteps.tla` (extends it: the steps, copy by copy, and
  the invariant of the threads), `JobGuarantees.tla` (extends that)
- `ProjectStore.tla`, `ProjectStoreProofs.tla`
- `PreviewCache.tla`, `PreviewCacheProofs.tla`
- `Schema.tla`, `SchemaProofs.tla`
- `Accounts.tla`, `StudyLog.tla` (extends it), `StudyLogProofs.tla`
- `LecturePipeline.tla`, `LecturePipelineProofs.tla`
- `MC<module>.tla` and `<module>_<run>.cfg`: the instances for TLC. `Schema_types.cfg`, `ProjectStore_writers.cfg` and the `_v_` configurations that
  `PROJECT.json` does not list are run by hand; `TypeOK` of `PreviewCache` and `StudyLog` holds in the
  instances of their runs when it is listed there; `_v_` ones end in a counterexample.
- `PROJECT.json`: components, runs, mutants, map to the source, findings, hazards, theorems.

Operators marked *variant* are plausible mistakes: each replaces one definition in a mutant and
makes the property it is listed with fail. Nothing else uses them.

`tlc -config JobManager_process.cfg MCJobManager.tla` runs one check, `tlapm JobManagerProofs.tla`
checks the proofs of a module.
