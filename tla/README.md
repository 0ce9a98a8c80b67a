# MentisEterna: TLA+ models and proofs

MentisEterna is a personal note server: a Go process over one SQLite file, a Vue
front end, S3 replicas for media, an Ollama host for OCR, speech to text,
titles, tags and embeddings. This directory keeps formal models of its core
logic, the TLC configurations that check them on small instances, and TLAPS
proofs of what matters most. Every definition is read off the Go source;
`PROJECT.json` maps each one to its lines, together about 37% of the
implementation.

## 1. Inventory

| Component (source) | State it keeps | Operations | What is hard | What makes it correct |
| --- | --- | --- | --- | --- |
| Job system (`internal/jobs/jobs.go`, `ensureJobTables`) | table `job_runs` with a partial unique index on active (job, payload); task registry; workers | `Enqueue`, `RetryRun`, `CancelRun`, ticks, `atomicDequeue`, `runWorker`, janitor, `zombieRecovery`, `Start`, `Stop` | SELECT then UPDATE claims, INSERT then SELECT dedupe, crash between claim and outcome, deletion of active rows, ignored write errors | one executor per run, identical work does not overlap unless the janitor deletes a row at work, settled is final, oldest first, everything ends |
| Live hub (`internal/server/live.go`) | connected clients with bounded channels, device registry | `register`, `registerDevice`, `routeToDevice`, `broadcast`, `unregister`, loops | target lists used after the unlock, eviction of slow clients, channel close | users are isolated, a device has one route, closed is forgotten |
| Chunked upload (`internal/server/chunked_upload.go`, `frontend/src/workers`) | `upload_sessions` row, chunk files; IndexedDB in the browser | start, chunk, finish, auto-finish, cancel, status, expiry | concurrent chunks, claim of the finalization, crash while assembling, late duplicates | one file per session, never from a torn chunk, a claim gets a final status unless the write of that status itself fails |
| Media store (`internal/media/service.go`) | `files`, `file_s3`, S3 objects, cache | create, upload, repair, sweep, remove, purge of unknown objects | several tables and S3 without a common transaction, retries | an acknowledged live file can be read, what the table calls uploaded is there |
| Note files (`service.go`, `notes.go`, `files.go`) | references, pending rows, placeholders | reconcile, attach, delete, resolve, cleanup | references read in several queries before they are used, read-modify-write of the text | what is attached lives (but for the cases below), what is abandoned goes |
| LLM gate and leases (`internal/llm/gate.go`, `backend.go`) | slots, last finish; use counts, stop timers | acquire, cooldown, retry, begin, release, stop | slots and cooldown are separate; a timer against a new user | the slots bound the work, the gap is kept, an idle model is stopped |
| Notes and index (`internal/server/notes.go`, `internal/searchindex`) | notes, versions, tags, parents; chunks and vectors | create, update, delete; index, title, tag and reindex jobs | jobs on a note that changes or goes, dropped duplicates | the index belongs to live notes, never goes back, is built |
| Ingest and recognition (`internal/server/ingest.go`, `internal/media/stt.go`, `ocr.go`) | note, file, result or error per file, vectors | ingest, transcribe, append, tag, embed, reindex | several commits, jobs executed again, models that fail | what is recognised reaches the note and is found |
| Database start (`internal/db/db.go`, `internal/tags`) | schema, old column, full-text rows and triggers | `Open`, `migrate`, every `ensure...` | each statement commits alone; a start may be cut off on a database of any release | texts, jobs and tags survive, full text follows the notes |
| Sign-in (`server/auth.go`, `login_throttle.go`, `webauthn.go`, `db/auth.go`) | sessions, ceremonies, passkeys; failure counters in memory | login, logout, validate, passkey ceremonies, throttle | check and record are apart, answers arrive twice | a ceremony counts once, sessions are independent, waits are bounded |
| Backups (`internal/backup`, `cmd/restore`) | bundles on S3 endpoints | snapshot, bundle, put, purge, restore | files lost after the snapshot, slow and overlapping purges, other endpoints at restore | a complete bundle for every period, a restore that is readable |
| Task notes (`pkg/notetype/task`, `server/subtasks.go`) | task row, subtasks, status | save, tick, set status, planning job | ids go stale, labels read before the model answers | no subtask twice, ticks hit what was seen |
| Task overview (`pkg/notetype/taskoverview`) | generations of daily tasks | score, pick, store, view | makers in one second, a restart within a second, tasks deleted on the way | a list is one maker's, whole, and the right one |
| Recipes (`pkg/notetype/recipe`, `server/recipe_categories.go`) | ingredients with category and manual flag | save, import, categorize one or all | a goroutine per save, slow answers | picks stay, the rest gets the model's category |
| Grocery lists (`pkg/notetype/recipeoverview`) | lists, links | generate, update, delete | units, words and numbers merged and rounded; recipes change meanwhile | a list asks for what its recipes need, up to the rounding |
| Search (`internal/server/search.go`) | none | rank | floating point | not modelled |
| Printer, print layouts (`pkg/printer`) | device handle | print | device I/O | not modelled |
| Front end (`frontend/src`) | audio queue, live sync, device pairing | queue, merge, pair | two tabs, restarts | the upload worker only |
| HTTP plumbing, configuration, commands | none | routing, parsing | none | not modelled |

How they interact: HTTP handlers write notes and files to SQLite and call
`Manager.Enqueue`; workers execute tasks that call the media service, the LLM
clients and the index; every job event goes to the live hub, which sends it to
the connected browsers; backups read the database and the media store.

The arrows that are modelled: `JobQueue` is the base of the jobs in every other
module. NoteIndex, Transcripts and MediaStore keep of it what it is checked and
proved to promise: identical runs do not overlap (no run there lives for the
janitor's 30 days), a planned or running twin is dropped, an interrupted run is planned
again, a failed one is visible.
ChunkedUpload ends with a file; NoteFiles starts where it ends, with the
session's result and the placeholder in the note's body. A file row that
NoteFiles soft-deletes is the `SoftDelete` of MediaStore and of Backups. The
requests of Transcripts and NoteIndex to a model pass LLMCalls. Migrations ends
with the tables all others start from.

## 2. Plan

| Order | Module | State |
| --- | --- | --- |
| 1 | `JobLedger`, `JobQueue`, `JobQueueProofs` | written, checked, proved |
| 2 | `LiveHub`, `ChunkedUpload`, `NoteFiles`, `MediaStore` | written, checked, proved |
| 3 | `LLMCalls`, `NoteIndex`, `Transcripts` | written, checked, proved |
| 4 | `Backups`, `Sessions`, `TaskNotes`, `RecipeCategories`, with `NoteIndex` together in `Services` | written, checked, proved |
| 5 | `Migrations`, `DailyTasks`, `GroceryLists`, added to `Services` in `Tables` | written, checked, proved but for the sums of `ListsMatch` |
| 6 | the front end's audio queue and merge of remote edits; `NoteIndex` on top of `JobLedger` instead of its own copy of the promises | open |

Theorems next in line: a bound on the gaps that overlapping purges leave, which has
to rank the bundles that purges of different times may each be about to delete; and
`TablesTyped`, part by part, of which the invariants of section 5 hold the pieces they
need.

## 3. The modules and the code

In all of them one action is one SQL statement, one transaction, one file or
store operation, one answer of a model, or one stretch of code under a lock:
SQLite serializes statements and every other goroutine may run between two of
them. Definitions named `X_Something` directly before a definition `X` are
mutants: plausible bugs, each of which violates the property it is listed with.
A variable `config` chooses a scenario once and for all, so that a run covers
several without their product; `used` counts against its bounds.

**JobQueue** (`internal/jobs/jobs.go`). `status`, `key`, `retries`, `created`
are the columns of `job_runs`; `known` is `job_definitions`; `tasks` the
registry. Callers: `Enqueue`, `RetryRun`, `InsertPlannedRun`, `InsertRejected`,
`LookupExisting`, `CancelRun`. Scheduler: `SchedulerTick`. Workers:
`SelectCandidate`, `NothingPlanned`, `ClaimRun`, `LoseClaim` (`atomicDequeue`),
`RunTask`, `RecordOutcome`, `NoTask`, `ReportDone` (`runWorker`; the janitor is
a task, its DELETE happens in `RunTask`). Process: `Start` (with
`zombieRecovery`), `Stop`, `Exit`, `Crash`. The partial unique index is `Twins`.
A write may fail (`Fault`, at most `MaxFaults` times): the code ignores the
error of the outcome, the row stays `running` until the next start. An observer that
panics after `done` was recorded makes it `errored` (`ReportDone`); one that panics at
another event ends the process, which is `Crash`. `created` compares as the formatted timestamps do.
*Left out*: the log table, the result text, the one-off dedupe migration.

**JobLedger** is what the job system promises: a run is submitted, dispatched by
one worker, settled, cancelled, purged; a restart returns dispatched runs.
`JobQueue!Ledger` maps the table and the workers on it.

**LiveHub** (`internal/server/live.go`). `clients`, `devices`, `deviceID` are the
hub; `send` and `closed` the channel of each client; `stack` holds what each
goroutine still has to do, because `sendToClient` evicts a slow client in the
middle of a send and the eviction broadcasts in turn. `view` is what a browser
believes of its devices. A send on a closed channel panics
(`SendOnClosed`): the HTTP server recovers its handlers and read loops, a job
worker what its task notifies and the event `done` (jobs.go:645), and the goroutine's
remaining frames are lost. Nothing recovers the events a scheduler or a worker emits
outside the task (jobs.go:564, 600, 609, and 624 inside the recovery): there the
process dies (`ProcessEnds`), and the next one starts with empty tables.
*Left out*: ping timing, JSON, the contents of relayed messages.

**ChunkedUpload** (`internal/server/chunked_upload.go`,
`frontend/src/workers/uploadWorker.js`, `chunkStore.js`). `rows` is
`upload_sessions`, `disk` the chunk files, `slots` the server's goroutines,
`clients` the worker runs of the browser (`doUpload`, `doResume`), `staged` the
IndexedDB entry. The handlers' program points are `slots[h].pc`. `Crash` loses
every goroutine and removes expired sessions at the start; an expired session is
otherwise still served, as in the code. A statement may fail at any step (`MaxFaults`):
a handler answers with an error, but `SetStatus` and `RecordResult` log it and go on, so
the session keeps an earlier status, and the last of these writes lost leaves it claimed
for ever (`unwritten`, chunked_upload.go:558, 828). *Left out*: size limits, progress, the
queue that starts workers, the case of a worker without a file hash.

**NoteFiles** (`internal/media/service.go`, `internal/server/notes.go`, the end of
`finalizeChunkedUploadSession`). `row`, `pending`, `old` are columns of `files`,
`refs` is `files_refs` with its foreign keys (`Cascade`, `DeleteNoteRow`),
`body` the latest row of `updates`, as the set of what it links to: the model
tells apart which files and placeholders a text contains, not its words. Every
actor has one record `act[a]` with what it read and what it will do next. The
deletion of a note reads its files in four queries that share no transaction
(`ListRefs`, `ListPending`, `CountRefs`, `CheckOwner`, service.go:533-575), then deletes
the row, then the files. With `Faults` each statement may fail; the handler gives up,
goes on or does not notice, as the code does. `astray` remembers two ways in which an
attached file is lost: a deletion counted the one reference of another note after its
own was gone, and a failed upload whose reference could not be dropped.
*Left out*: crashes, titles, tags, plugins.

**MediaStore** (`internal/media/service.go`, `cache.go`). `replica` is
`file_s3.state`, `object` what the endpoint really holds, `attempt` the
goroutine of the upload per endpoint, `cache` the local ciphertexts, `queued` and
`work` the jobs. A store operation may fail after it took effect. In a scenario with
`faults` each statement whose error the code drops may change nothing: the outcome of an upload
(service.go:263, 282, 296; the request counts the replica as uploaded all the same), of
a deletion (822, 829), of a repair, the enqueueing of repairs. So a file may be
acknowledged while `file_s3` calls no copy of it uploaded, and a row that stays
`uploading` is never swept; what the properties say is that the object is there
(`ReadFile` asks every endpoint) and that what is called uploaded is.
`cleanupFailedUpload` leaves `file_s3` as it is and removes the cache entry under
the storage key, which is no cache key: the action does neither. *Left out*:
rows that vanish by cascade (the delete job then fails and the objects wait for
the purge), encryption.

**LLMCalls** (`gate.go`, `backend.go`). A process is a caller or a timer
goroutine that sends a stop request; `pc` is where it stands, `slots` the
semaphore, `gap` the time since the last finish, `counts` and `pending` the lease
registry. `ReadCooldown` reads the last finish without the lock and sleeps;
`Retry` keeps the slot. `Fire` and `Recheck` are the two critical sections of an
idle stop. *Left out*: what is asked and answered.

**NoteIndex** (`notes.go`, `searchindex.go`). `version` counts the saves of a
note, `index` is what its chunks were built from, `stray` the vectors without
chunks, `running` the job workers with what each has read. Handlers write
(`CreateNote`, `UpdateNote`, `DeleteNoteIndex`, `DeleteNote`) and then enqueue one
job per step (`EnqueueNext`); the jobs are `IndexStep`, `TitleStep`, `TagsStep` and
the two refreshes. `Restart` loses every goroutine and plans the running jobs
again. *Left out*: chunking, contents of vectors.

**Transcripts** (`ingest.go`, `files.go`, `stt.go`, `ocr.go`). One ingested note
and file. `ingest` is the handler's step, `result` the stored text or error,
`vector` what is embedded; `landed` and `heard` remember what ever reached the note
and was recognised. Statements fail like models (`StatementFails`, `MaxErrors`). Two of
these failures are only logged, and the job is done: the error of a recognition could
not be written (stt.go:247, ocr.go:149: neither text nor error), or the embedding could
not be enqueued (notes.go:1390, 1478: a text without a vector). `lost` remembers them; a
failing enqueue of the recognition itself (ingest.go:352) leaves a recording without a
job. What the job system writes about its own runs is taken to succeed; its failing
writes are in JobQueue. *Left out*: formats, the wording of the appended block.

**Backups** (`backup.go`, `bundle.go`, `retention.go`, `cmd/restore`). `live` is the
`files` table, `objects` what endpoints hold, `bundles` per endpoint and time with
their database and media, `worker` the jobs, `restore` the command. `Kept` is the
retention; the time of a bundle is its key, as the code parses it out of the name.
*Left out*: encryption, the archive format.

**Migrations** (`internal/db/db.go`). `Script` is the list of statements of a
start, `at` the next one; `schema` names the tables, columns, indices and triggers
that exist; `updates`, the history, is a table by id, of which the greatest
(`LastId`) is the latest. `Fail` goes on with the other driver, `Crash` starts again.
`SaveNote`, `SaveAutoTags`, `SaveTitle`, `DeleteNote` are the writes whose triggers
keep `fts`; `saved` remembers what the user saved. `IsWhole` says which databases a
start may find. *Left out*: tokenizing, columns
that nothing depends on.

**Sessions** (`auth.go`, `login_throttle.go`, `webauthn.go`, `db/auth.go`,
`db/webauthn.go`). `handler` holds each request's step and what it read; memory
(`ceremonies`, `throttle`) is lost by `Restart`. The library's verdict is the
environment's choice. *Left out*: hashes, cookies.

**TaskNotes** (`task.go`, `taskoverview/actions.go`, `subtasks.go`). `row` and `subs`
are a task and its subtasks with their ids, `tab` a browser's copy, `run` the
planning job with the labels it read. `toggled` remembers what a tick was meant
for and what it hit.

**DailyTasks** (`daily.go`, `scoring.go`, `tasks.go`, `plugin.go`). `daily` is the table
with its generations, `seq` the process's counter, `maker` a job, button or view,
`stores` what makers picked. An id holds the second and `seq`, which begins anew with a
process (daily.go:12, 158): `Restart` may end in the same second, or in an earlier one
when the clock was set back, and `recounted` remembers the seconds that two processes
saw. While a process runs its clock is taken not to go back. `Score` keeps the terms with dates and priority and
one number for the rest. `Sorted` is the sequence of a set in a total order: the code
sorts once and splits, `Selected` splits and sorts, which is the same. *Left out*: recurrence, texts.

**RecipeCategories** (`recipe.go`, `import.go`, `category.go`,
`recipe_categories.go`). `rows` are the ingredients, `run` the goroutines and jobs
that ask the model, `missed` the notes whose run failed or was lost.

**GroceryLists** (`recipeoverview/actions.go`). `Scaled`, `Merged`, `Canonical`, `Rounded`,
`Shown`, `Effective`, `Lines` are the arithmetic, on amounts that are sequences of a
number and a rest; `planner` reads recipe by recipe. Numbers count in steps of which
`Fine` make a hundredth of a base unit; `Rounded` brings each kitchen amount, and each
amount shown, to hundredths of its own unit (actions.go:569, 616-651: 1004 g becomes
1 kg, three times a third of a cup 0.99). `TotalsMatch` compares the list with a
definition of its own of what the recipes ask for, up to half a hundredth for each
rounding. *Left out*: binary fractions, ties that they round down.

**Services** composes Backups, Sessions, TaskNotes, RecipeCategories and NoteIndex: a
behaviour is one of one part, chosen by `part`; the variables of the others hold
`NotUsed`. They share a specification because they are asked the same question, and
its theorems are about all of them. **Tables** adds Migrations, DailyTasks and
GroceryLists in the same way, with variables of their own; a step of its `ServerSpec` is
one of `Services` or one of these three, so that a behaviour of it is one of `Services`
(lemma `ServerIsServices`). **MCServices** has the scenarios of all eight. The run
checks what the theorems state. `Parts` picks parts for a check by hand. The modules that
`Services` and `Tables` instantiate define the few helpers on sequences they need
themselves (`Without`, `Least`, `LastId`): with the large community modules behind eight
instances the prover would spend its time on names.

## 4. The runs

| Run | What it asks | Instance |
| --- | --- | --- |
| `jobqueue_core` | exclusive execution, once per life, unique active rows, settled is final, oldest first, implements JobLedger | 2 workers, 1 caller, 3 runs, 2 definitions (one the janitor with a schedule), 2 starts, rows expire at once, no failing write and no observer panic (those are in `jobqueue_live`, and in the theorems); 1.2 million states |
| `jobqueue_live` | every run settles | 2 runs, one failing write, panicking observer, a start may register fewer jobs, 2 starts |
| `livehub_core` | users are isolated, a route is that of the latest announcement, a closed connection is forgotten | 2 connections of 1 or 2 users, 1 device, 1 broadcaster, channels of 1, 3 events, panics and the end of the process; 0.3 million states |
| `upload_core` | one file per session, intact files, done has a file | 2 tabs, 2 requests at a time, 2 chunks, 1 session, 1 lost answer or closed tab, 1 crash, 1 failing statement, failing store, expiry; 2.4 million states |
| `upload_finalization` | a claimed session gets a final status, unless its final UPDATE was lost | the same with cancel and 1 failing statement instead of crash, loss and expiry; 0.7 million states |
| `notefiles_core` | attachments live but for `astray`, abandoned files are collected | 2 notes, 1 file, 1 inline upload, 2 handlers, 2 requests, every statement may fail; starts with any note live, the file attached to one or not there yet, linked in any; 0.4 million states |
| `media_core` | acknowledged live files have an object, what `file_s3` calls uploaded is there | 1 file, 2 endpoints, 2 workers; stores fail, aborts, crashes; three scenarios with two each of purges, removals and dropped statements (the theorems allow all at once); 2.2 million states |
| `llm_core` | slots bound the work, the cooldown is kept, an idle model is stopped | 2 callers, 2 timers, 1 model, 1 or 2 slots, 1 retry, delay 0 or 1 |
| `notes_core` | the index of a note whose job is queued is built in the end | 2 notes, 1 handler, 2 workers; three scenarios: 3 saves and a fault; titles; tags with 2 faults |
| `notes_stale` (violation) | the index is that of the note when all is done | 1 note, 2 saves |
| `transcripts` | a marked note was understood, what was understood is found, a recording lands, each but for an unrecorded failure (`lost`) | audio in windows or an image, 2 workers, 1 save, 2 failures of models or statements, 1 event (crash, deletion, reindex); 0.6 million states |
| `services` | `TablesTyped`; `BundleComplete`, `RetentionHolds`, `RestoredIsReadable`; `SignInHolds`; `PlanIsSound`; `PickStays`, `SettledIsCategorized`; `IndexIsOfLiveNotes`, `IndexMovesForward`; `DatabaseIsWhole`, `StartKeepsWork`; `DailyListIsSound`; `ListsMatch` | eight parts, the scenarios of `MCServices`; 1.2 million states |

*Why these bounds.* Every race in this code is between two actors over one row;
two of each actor and one more row than actors make them all happen. Three runs
are needed so that one is executed, an identical one is refused and a third is
older; a channel of capacity one is full after one message; two chunks suffice
for one to be assembled while the other is rewritten; the mutants confirm that
each bound lets its property fail. `Retention = 0` makes the janitor delete
running rows, its hardest case. A limit of one stands for the sweep's ten. In
Backups a day, a week and a month have two ticks, the windows end after two, four and
nine, so that nine ticks cross the boundaries of all three classes and the last
window is longer than the gap that `CoverageKept`, in `RetentionHolds`, allows. Migrations starts from
an empty database, one of the first release, and two in between with tag names
that are not normal, doubled jobs and an old vector table. DailyTasks runs every
choice of three tasks out of five kinds at three dates, GroceryLists every pair of
ingredients out of several kinds in one recipe beside another kind in a second, with
amounts that rounding changes (501 g doubled, thirds, hundredths of 600 portions). The bounds on events, requests, starts,
faults and losses only make the state space finite. Symmetry is used where no
liveness property is checked and identities are interchangeable. Deadlock is not
checked: an idle server whose bounded environment is used up has nothing to do.

*Fairness.* Goroutines run (weak fairness per goroutine), a stopped server is
started again, a closed socket fails its read, the hourly job is executed and
time passes. Nothing is assumed of users, browsers that may stop reading,
networks, stops or crashes; a step that is only reached through them is never
forced. That a model call ends is an assumption about the
environment; the clients in ollama.go set no timeout. The cleanup of pending files is
strongly fair in its `SoftDelete`: its UPDATE does not fail for ever. The job workers
of NoteIndex and Transcripts are fair because `JobQueue` settles every run
whose outcome can be written (`EveryRunSettles`). A timer fires because the runtime's clock does. `Services` and
`ServerSpec` state no fairness, their properties are safety properties.

*Assumptions of single properties.* `LabelsUnique` (in `PlanIsSound`) says nothing
unless one tab edits and the user does not type what the model suggests
(`OneEditor`, which every scenario satisfies): the code dedupes against what the job
read and leaves alone what users type or what an older copy brings back.
`HeardIsSearchable` asks for a job of the stored text, active or failed, not for one
that was enqueued after it: a run of the recogniser that is about to start again
embeds what it recognises then. `SettledIsCategorized` excludes notes whose run
failed. `EventuallyIndexed` excludes jobs that fail visibly and notes on a cycle of
parents. The database's own failures are excepted exactly where the code drops them:
`EveryRunSettles` (a lost outcome, until the next start), `FinalizationEnds`
(`unwritten`), `HeardIsSearchable` and `TranscriptLands` (`lost`), `AttachmentLives`
(`astray`), `UploadedIsStored` (uploads that failed: their objects are gone and `file_s3`
is not told). `GenerationIsWhole`, in `DailyListIsSound`, excepts the seconds that two
processes saw (`recounted`). `LiveIsReadable` excepts files inserted while a purge was
under way (`raced`). Where a module says nothing of them, statements of the database
do not fail: NoteIndex lets any job fail at any step, but Sessions, TaskNotes,
RecipeCategories, Backups, DailyTasks and GroceryLists have only the failures of
models, endpoints and rows that are gone.

### What the violation shows

* `IndexFresh`: a save whose index job is dropped as the duplicate of one that has
  already read the note leaves the index of the older body when all jobs are done,
  though the comment at notes.go:1181 says the job indexes the current state.

### Configurations and properties beside the listed runs

For these a module states a property and the configuration shows what becomes of
it; they are run by hand with `tlc -config X.cfg MCModule`.

| Configuration | Property | Result |
| --- | --- | --- |
| `JobQueueTwins.cfg` | `NoTwinExecution` | violated when the janitor deletes a running row, and only then (theorem `NoTwins`) |
| `JobQueueEnqueue.cfg` | `EnqueueNeverFails` | violated: the existing run settles between INSERT and lookup |
| `LiveHubPresence.cfg` | `PresenceConverges` | violated: presence messages are queued outside the lock |
| `LiveHubPanic.cfg` | `BroadcastReachesAll` | violated: a target that unregisters after the list was copied has a closed channel; the send panics and the remaining targets get nothing |
| `UploadLost.cfg` | `LandedIsFinalized` | violated: `addChunkDone` reads and writes `chunks_done` in two statements; concurrent requests lose one another's chunk |
| `UploadTwice.cfg` | `OneSessionPerToken` | violated: two lookups before the first insert |
| `UploadError.cfg` | `DoneIsNotAnError` | violated: the finish that loses against the automatic one reports an error |
| `UploadPoll.cfg` | `TerminalStopsPoll` | violated: the poll ends for `done` only |
| `UploadStuck.cfg` | `ResumeEnds` | violated: after a crash in the finalization nobody can finish |
| `MediaPurge.cfg` | `PurgeKeepsLive` | violated: the purge reads the known keys before it lists the objects |
| `MediaSweep.cfg` | `SweepReachesLive` | violated: replicas of deleted files fill the sweep's selection for ever |
| `NoteFilesResolved.cfg` | `ResolvedFileLives` | violated: a save reconciles a body whose placeholder was not resolved yet and takes the pending file for an orphan |
| `NoteFilesAttached.cfg` | `AttachmentStays` | violated: a save drops the note's own link between the list and the COUNT of the note's deletion, which then takes the other note's attachment for its own |
| `LLMCallsStop.cfg` | `NeverBetweenAttempts` | violated with more than one slot |

Properties the modules state and no configuration lists (put one in a copy of the
run's cfg; for those of `MCServices` with the one part):
`NoStrandedRun` (JobQueue), `UploadSucceeds` (ChunkedUpload, with a single tab), `RecordedIsStored`, `StatusMovesForward` (ChunkedUpload),
`LeasesCounted` (LLMCalls) and the other modules' `TypeOK` hold. What the code does
not keep: `UserTitleKept`, `NoCycle`, `NoStrayVectors` (NoteIndex); `AppendedOnce`,
`UserTagsKept`, `TypedKept`, `SuccessStays` (Transcripts); `BodyCopiedOnce`,
`ReindexFindsLost` (Migrations); `SignCountGrows` (Sessions, with `MaxTokens = 3` and
six requests); `TimeMeansDone`, `PlanSurvives` (TaskNotes); `HistoryIsPast`,
`NoDoneStored`, `NeverBack`, `NeverMixed` (DailyTasks: a restart within the second gives
the id of a list again, and both lists are shown as one); `RangeIsWhole`,
`NothingVanishes` (GroceryLists: 0.004 of a cup becomes none).

## 5. Proofs

Every theorem holds for all values of the constants that satisfy the module's
assumption; TLC checked every property on its instance before it was proved.

**JobQueueProofs** holds for every set of workers, callers, runs, definitions and
payloads, every retention and every bound; the only assumptions are
`ConstantsAssumption` (ids are not the null values, the janitor is always
registered, bounds are naturals) and those a theorem names.

* `TypeCorrect`: the type invariant, action by action.
* `ExecInvariant`, `Exclusive`, `AtMostOnce`: mutual exclusion is not inductive by
  itself. The invariant adds that a held run is `running` or was deleted
  (`HeldRow`), so the claim's guard `status = planned` cannot hand it out again;
  that a process that is down holds nothing (`DownIdle`, `CallsIdle`), so the
  recovery of a start never re-plans a run in somebody's hands; and that what ran
  in this life is not planned (`RanRow`).
* `UniqueActive`: inserts and recoveries respect the index.
* `NoTwins`: two workers hold runs of the same job and payload text only when the
  janitor deleted the row of one of them while it was at work (`TwinsOnlyByDeletion`,
  from `HeldRow` and `UniqueActive`); that this does happen is `JobQueueTwins.cfg`.
* `Finality`: settled runs change only by deletion, unless the observer panics
  after the outcome was recorded.
* `Fifo`: whenever a run is claimed, no older planned run exists that existed when
  it was selected.
* `ImplementsLedger`: every step is a ledger step or a stutter when writes succeed
  and the observer does not panic; a lost outcome is a running row without a
  worker, which the ledger does not know.

**LLMCallsProofs** (any callers, tiers, cooldown, retries; `LLMAssumption`).
`TypeCorrect`; `SlotsBoundWork`, by counting the holders; `CooldownHolds`: the
cooldown is read without the lock, so the invariant says of a sleeper, when there
is one slot, that the time since the last finish and what it still sleeps make up
the cooldown (`SleeperWaits`). That needs `SlotBound`: nobody else holds the slot and
can finish meanwhile.

**LiveHubProofs** (any connections, users, devices; the set of devices is finite).
`RegisteredIsOpen`, `LatestIsRouted`, `UsersAreIsolated`. The first two need
that a connection that has not registered yet is in no table and open (`TablesInv`,
`NewIsClean`). Isolation is about what is on its way: the target list of a frame is
chosen under the lock and used after it, so the invariant follows every frame on a
goroutine's stack and every message in a channel.

**ChunkedUploadProofs** (any sessions, tabs, requests, chunks, bounds).
`OneFile`, `Intact`, `DoneIsStored`. The claim of a finalization compares the status
in one UPDATE, so that one goroutine works on a session (`OneWorker`, `Claimed`);
that one has stored nothing before it records (`Claim`), an unclaimed session has no
file and a done one has one (`RowsAndFiles`), and identifiers are not given twice
(`NotGiven`), also when a cancel deletes the row under the worker or a status is not
written: a lost UPDATE leaves the row claimed, and so nobody else claims it. `Step` is one lemma about all handlers: what a step may
do to a row and a file, with `WorkerStep` for the goroutine that assembles.

**NoteFilesProofs** (any files, uploads, handlers, finitely many notes).
`AttachmentsLive`, but for files that went `astray`: a file gets its attachment when its
row is inserted and never again (`Effect`), so whoever decided to delete it when no attachment was left may act
late: the cleanup, a reconciliation (both take pending files, `PendingFree`) and a
failed upload whose references went. A deletion of a note decides before its row goes,
in four queries: a file that is attached elsewhere was in its list for a link of its
own, which counted as a second reference, unless that link went in between - then the
COUNT's step puts the file into `astray` (`OnlyOf`). What is left is attached to the
note or not at all, and free once the row is gone (`Decided`, `Doomed`).

**MediaStoreProofs** (any files, endpoints, workers; TLC checks one file).
`RecordsAreTrue`, `AckedIsReadable`. `file_s3` and the objects are written in
different steps, and any of the UPDATEs may be lost, so the invariant has a clause for
everyone in between: an attempt that put its object and counts it as uploaded, whatever
became of the row (the acceptance of the file rests on this, not on the row), a repair about to mark its copy (`AttemptSound`,
`WorkSound`), a delete job, whose file is deleted from the moment it is queued
(`JobsSound`), and the purge, which knows every live file but those inserted since it
began (`PurgeSound`; these, `raced`, are what the two properties except). Whoever
removes an object has decided on one of the latter two.

**TranscriptsProofs** (any texts, workers, windows and bounds; the markers `none`,
`error` and `typed` are no texts). `TagOnlyIfHeard`: the tag is decided long before it is
written, by a run or by an editor that copied the tags, so the invariant says of each
run and of the editor's copy what it stands for (`Run`, `Tagged`). `HeardStaysSearchable`:
whoever stores a text owes its vector; the debt passes from the recogniser to the job
it enqueues, survives a crash because what ran is planned again, and is settled by an
insert, or ends in a failure that is visible or, when the enqueue or the write of an
error fails, in the log (`lost`; `Owed`, `Settled`). That a duplicate is dropped is no
gap: the twin has not embedded yet, or a second run of it will.

**ServicesProofs** has one section per part. `PartStays` and one lemma `...Move` per part
say that a step of `Services`, or of the server, is a step of the part or a stutter; the
invariant of a part is kept in the part's own terms. The lemma `ServerIsServices` carries
the theorems of the five parts of `Services` over to `ServerSpec`; those of the three parts of
`Tables` are stated of it. Lemmas on sequences stand at the head (`Appended`,
`ButIs`, `ButLastIs`: what remains at which place when a row is added or removed).

* The index (any notes, tags, handlers, workers, bounds). `IndexStaysOfLiveNotes`,
  `IndexOnlyMovesForward`: `ReplaceNoteIndex` compares no versions, so what keeps an
  old text from overwriting a newer one is that an index job of a note is planned or
  runs once (`Single`, the duplicate check), and that what it has read is not older than
  the chunks it will replace (`Reads`). That a deleted note gets no chunks needs that
  ids of notes are not given again (`StrayOfGone`, `Ages`).
* Signing in (any users, addresses, handlers; `SessionTime` and `MaxDelay` naturals).
  `SignInIsSound`: what is in memory has no result, and a ceremony that was taken out is
  in one handler's hands (`Held`, `HeldOnce`), because lookup and removal are one critical
  section; stored is what was issued (`Issued`), and who is about to delete a session
  as expired saw an expiry that no clock undoes (`SeenExpired`); a failure sets the end
  of a delay from the present, so failures that passed the check together do not add
  up (`WaitInv`). The provers know nothing of `2 ^ n`; they need only that `Delay` is capped.
* Recipes (any notes, tabs, ingredients, batches, runs). `PickedStaysPicked`,
  `SettledRecipesAreCategorized`: `WriteCategories` looks at row ids alone. A save gives every
  row a new id and ids are given once (`Numbers`), so a run's row is gone or still has
  the name it had and is not picked (`Seeks`). A row that lacks its category is in the
  hands of a run (`Sought`), unless a run that should have seen it failed (`missed`).
* Task notes (any tasks, tabs, labels). `PlansAreSound`: an id was given to one label, in
  the table and in every copy (`IdsNameLabels`), so a tick by id hits the box the user saw
  or none; a save writes new ids. With one editor, the job has seen every label that
  may be suggested again, and the editor's copy holds no suggestion that is not in the
  table (`PlanGrows`): without the second part a save would bring back a label the job
  is about to add.
* Backups (any endpoints, files, workers that contain those of every configuration).
  `BundlesAreComplete`, `RestoresAreReadable`: a bundle is stored only from a worker that has
  everything (`Bundled`); what the restore counts as put is on every endpoint, and the
  object it is at is on those before the present one (`Putting`). Endpoints do not lose
  objects while the restore works, as the model says. It must be given endpoints
  (`RestoreAssumption`).
* The retention (any lengths of day, week and month, any windows that follow each other,
  at least one backup per day: `RetentionAssumption`). What a purge dooms is followed by
  something newer of the same day, week or month that it keeps (`DoomedIsFollowed`; that
  a period has a newest bundle rests on the well-founded order of the naturals).
  `RetentionIsSound`, its first half (`LatestKept`), for any purges at once: what a purge is about to delete is older than
  something the endpoint once stored (`LatestSafe`), however old its list is.
  Its second half (`CoverageKept`), for purges that do not overlap: a bundle stands for another if it is
  of its day, of the week of its day, or of the month of that week, and only what is
  older than the daily, or the weekly, window at the last purge may stand so far off
  (`Covers`, `PurgeTime`); a follower of what covers covers too (`CoversOn`), because time
  moves bundles from days to weeks to months and never back. A purge that works with a
  time of long ago does move back, hence the restriction to one worker, which is how the
  model says that purges do not overlap: the server has ten by default, and a purge
  that is asked for while the daily one still works is not dropped as its duplicate.
* The database (any notes, tags, jobs, databases that are whole, starts that are cut
  off, fail or run to the end, and writes between them: `DatabaseAssumption`).
  `DatabaseStaysWhole`: what a user saved is the latest of the history, or in the body
  column as long as that exists, and once the copy is through every body that is not
  empty is in the history, so that the column may go (`Texts`, by the place in the
  script: `AtCopy`, `AtDrop`). A row of the index is right whenever there is one
  (`Indexed`), but its triggers may be missing: then the names are normal already
  (`Tidy`), and no statement but the normalising one would touch them. A start that is
  ready has run the statement of every trigger (`TriggersAreLast`, `ReadyIs`), hence a
  server never writes without them. `StartsKeepWork`: a start that dedupes keeps one of
  each payload (`DedupeKeepsPending`), one that normalises keeps a note's tags up to
  their normal form (`NormalizeKeepsNames`), every other statement touches neither; no
  two pending jobs share a payload behind the statement that says so (`Deduped`). That
  new tags can be numbered (`CanBeNumbered`) is Cardinality's own definition; that rows
  have a greatest id (`LastIdIs`) the well-founded order of the naturals.
* Daily lists (any finite set of tasks with integer ids, makers, attributes, scores,
  counts of one or more, restarts and ticks: `DaysAssumption`). `DailyListsAreSound`,
  first half: an id of a generation is given once, because it holds the second and a
  counter, and the counter begins anew only with a restart - or it is of a second that two
  processes saw (`Stamped`, `GivenOnce`), which is excepted, because there the code does
  give it again; so the rows of a generation are those of one maker and go only with their
  tasks (`StoresInv`, `DailyInv`). Second half: the order of the code is a strict total
  order on scores (`PrecedesIsOrder`), a finite set can be sorted by one (`CanBeSorted`,
  the place of an element is the number of those before it), and the first `k` of what
  is sorted are the best `k` (`SelectedIsBest`, by counting). What a maker carries to
  its store is what it picked from the tasks it read (`MakersInv`).
* Grocery lists (any recipes, planners, tabs: `ShoppingAssumption`).
  `ListLinksAreWhole`: a list is stored when all its recipes exist, in one transaction,
  and a deleted recipe takes its links from every list (`Linked`); a planner that read a
  recipe before it was deleted stores nothing. That is the second half of `ListsMatch`.

Only model-checked: the `TypeOK` of NoteIndex and Transcripts and `TablesTyped`, which
the proofs do not need (what they need of it is in their invariants); `TotalsMatch`, the first half of
`ListsMatch`, which compares two sums over data of unbounded length and so needs
induction over them; and everything that needs fairness
(`EveryRunSettles`, `ClosedIsForgotten`, `FinalizationEnds`, `PendingEnds`,
`IdleIsStopped`, `EventuallyIndexed`, `TranscriptLands`), since the prover does not handle
ENABLED.

## 6. Not modelled

The components marked so in `PROJECT.json`, each with its reason. The printer, the
print layouts, the views, the parsing of model answers, encryption, configuration
and routing have no state whose interleavings matter; the ranking of search results
is floating point arithmetic over an index that NoteIndex and Migrations maintain.
The front end's audio queue and its merge of remote edits have such state and are
open (section 2). Cryptography, the S3 protocol, SQLite, ffmpeg and the models are
taken by their outcomes.

Comments that the models read differently: retention.go:45 says that all backups of
the daily window are kept, the code keeps `PerDay` of each day; `Kept` follows the code.
