------------------------------- MODULE NoteIndex -------------------------------
(* Notes, their tags and titles, and the search index kept behind them         *)
(* (internal/server/notes.go, internal/searchindex, tags).  Handlers change    *)
(* the notes and then enqueue jobs; the jobs read the notes again, ask a model *)
(* and write the index, the title or the automatic tags.  One action is one    *)
(* transaction or statement; the job table is reduced to the duplicate check   *)
(* of Enqueue and the restart of running jobs (see JobQueue).                  *)
EXTENDS Integers, Sequences, FiniteSets

CONSTANTS
    MaxNotes,     \* bound: note ids, given in order and never again
    Tags,
    Handlers,     \* HTTP handlers at work at the same time
    Workers,      \* job workers
    MaxSaves,     \* bound: saves of any configuration
    Configs       \* configurations: the clients there are, of "title" and
                  \* "tags"; what is typed: titles (named or not), tags; the
                  \* bounds on saves, and on deletions, crashes with restart,
                  \* backend errors and uses of the other endpoints together

ASSUME NoteIndexAssumption ==
    /\ MaxNotes \in Nat \ {0} /\ MaxSaves \in Nat \ {0}
    /\ Workers \in Nat \ {0}
    /\ Configs \subseteq [clients : SUBSET {"title", "tags"},
                           named : SUBSET BOOLEAN, tags : SUBSET SUBSET Tags,
                           saves : 0 .. MaxSaves, events : Nat]

VARIABLES
    life,     \* "new", "live" or "gone", per note id
    title, parent,
    version,  \* number of the latest row of updates
    manual, auto,  \* tags_refs, auto_tags_refs
    index,    \* the document the chunks of a note were built from
    stray,    \* notes whose vectors outlived their chunks
    planned, running, errored,  \* job_runs
    handler,  \* what each handler still has to do after its commit
    config,
    saves, events

notes == <<life, title, parent, version, manual, auto>>
chunks == <<index, stray>>
jobs == <<planned, running, errored>>
bounds == <<config, saves, events>>
vars == <<notes, chunks, jobs, handler, bounds>>

Notes == 1 .. MaxNotes
NoNote == 0
Titles == {"Untitled", "User", "Model"}
NoDoc == [title |-> "none", version |-> 0, path |-> <<>>, tags |-> {}]

Job(kind, n, body) == [kind |-> kind, note |-> n, body |-> body]
IndexJob(n) == Job("index", n, 0)
TitleJob(n, body) == Job("title", n, body)   \* its payload holds the body
TagsJob(n) == Job("tags", n, 0)
RefreshJob == Job("refresh", NoNote, 0)
TagsRequest(n) == Job("request", n, 0)       \* a handler, not a job run
JobRuns == {IndexJob(n) : n \in Notes} \cup {TagsJob(n) : n \in Notes} \cup {RefreshJob}
              \cup {TitleJob(n, b) : n \in Notes, b \in 1 .. MaxSaves}
Work == JobRuns \cup {TagsRequest(n) : n \in Notes}

(* saveTags, saveAutoTags: the references of a note are replaced.              *)
SaveTagRefs(refs, n, tags) == [refs EXCEPT ![n] = tags]

Idle == [at |-> "idle", note |-> NoNote, jobs |-> <<>>]
Live == {n \in Notes : life[n] = "live"}

Init ==
    /\ life = [n \in Notes |-> "new"]
    /\ title = [n \in Notes |-> "Untitled"]
    /\ parent = [n \in Notes |-> NoNote]
    /\ version = [n \in Notes |-> 0]
    /\ manual = [n \in Notes |-> {}] /\ auto = [n \in Notes |-> {}]
    /\ index = [n \in Notes |-> NoDoc] /\ stray = {}
    /\ planned = {} /\ running = {} /\ errored = {}
    /\ handler = [h \in Handlers |-> Idle]
    /\ config \in Configs
    /\ saves = 0 /\ events = 0

-------------------------------------------------------------------------------
(* Jobs                                                                        *)

\* Mutant: the unique index covers planned runs only.
Active_PlannedOnly == planned

Active == planned \cup {r.job : r \in running}

(* An identical planned or running job absorbs the new one.  A refresh has a   *)
(* NULL payload: never a duplicate, the model merges those that are planned.   *)
Enqueue(job) == planned' = planned \cup ({job} \ Active)

Fresh(job) == [job |-> job, at |-> "start", cur |-> NoNote, doc |-> NoDoc, todo |-> {}]
Step(r, s) == running' = (running \ {r}) \cup {s}
Goto(r, at) == Step(r, [r EXCEPT !.at = at])
Drop(r) == running' = running \ {r}

Start(job) ==
    /\ job \in planned /\ Cardinality(running) < Workers
    /\ planned' = planned \ {job}
    /\ errored' = errored \ {job}
    /\ running' = running \cup {Fresh(job)}
    /\ UNCHANGED <<notes, chunks, handler, bounds>>

(* Only now the run is done; until here it absorbed its duplicates.            *)
Report(r) ==
    /\ r.at = "report"
    /\ Drop(r)
    /\ UNCHANGED <<notes, chunks, planned, errored, handler, bounds>>

Event == events < config.events /\ events' = events + 1

(* The backend's error ends the task.                                          *)
Fail(r) ==
    /\ r.at \in {"embed", "ask", "suggest"}
    /\ Event
    /\ errored' = errored \cup ({r.job} \cap JobRuns)
    /\ Drop(r)
    /\ UNCHANGED <<notes, chunks, planned, handler, config, saves>>

-------------------------------------------------------------------------------
(* The index job: LoadDocument, then ReplaceNoteIndex                          *)

LoadBody(r) ==
    /\ r.job.kind = "index" /\ r.at = "start"
    /\ LET n == r.job.note IN
       IF n \in Live
         THEN Step(r, [r EXCEPT !.at = "path", !.cur = n,
                                !.doc = [NoDoc EXCEPT !.title = title[n], !.version = version[n]]])
         ELSE Goto(r, "report")
    /\ UNCHANGED <<notes, chunks, planned, errored, handler, bounds>>

(* LoadPathSegments: one query for each note up to the root.  A note that is   *)
(* gone ends the job as if the indexed note itself were.  The list of titles   *)
(* has no end in a cycle; the model keeps the first MaxNotes.                  *)
LoadPath(r) ==
    /\ r.at = "path"
    /\ IF r.cur \notin Live
         THEN Goto(r, "report")
         ELSE Step(r, [r EXCEPT
                  !.at = IF parent[r.cur] = NoNote THEN "tags" ELSE "path",
                  !.cur = parent[r.cur],
                  !.doc.path = IF Len(@) < MaxNotes THEN <<title[r.cur]>> \o @ ELSE @])
    /\ UNCHANGED <<notes, chunks, planned, errored, handler, bounds>>

LoadTags(r) ==
    /\ r.at = "tags"
    /\ Step(r, [r EXCEPT !.at = "embed", !.doc.tags = manual[r.job.note] \cup auto[r.job.note]])
    /\ UNCHANGED <<notes, chunks, planned, errored, handler, bounds>>

(* Every chunk is embedded, then chunks and vectors are replaced in one        *)
(* transaction; the foreign key rejects the chunks of a deleted note.          *)
ReplaceNoteIndex(r) ==
    /\ r.at = "embed"
    /\ IF r.job.note \in Live
         THEN /\ index' = [index EXCEPT ![r.job.note] = r.doc]
              /\ Goto(r, "report")
              /\ UNCHANGED errored
         ELSE /\ Drop(r)
              /\ errored' = errored \cup {r.job}
              /\ UNCHANGED index
    /\ UNCHANGED <<notes, stray, planned, handler, bounds>>

-------------------------------------------------------------------------------
(* The title job                                                               *)

AskTitle(r) ==
    /\ r.job.kind = "title" /\ r.at = "start"
    /\ Goto(r, "ask")
    /\ UNCHANGED <<notes, chunks, planned, errored, handler, bounds>>

(* The answer may be empty.  An UPDATE of a note that is gone changes nothing. *)
SetTitle(r) ==
    /\ r.at = "ask"
    /\ \/ Goto(r, "report") /\ UNCHANGED title
       \/ /\ Step(r, [r EXCEPT !.at = "reindex", !.cur = r.job.note])
          /\ title' = [n \in Notes |-> IF n = r.job.note /\ n \in Live THEN "Model" ELSE title[n]]
    /\ UNCHANGED <<life, parent, version, manual, auto, chunks, planned, errored, handler, bounds>>

Reindex(r) ==
    /\ r.at = "reindex"
    /\ Enqueue(IndexJob(r.cur))
    /\ Step(r, [r EXCEPT !.at = IF r.job = RefreshJob THEN "next" ELSE "report", !.cur = NoNote])
    /\ UNCHANGED <<notes, chunks, errored, handler, bounds>>

-------------------------------------------------------------------------------
(* Automatic tags: the job of a note, the refresh of all notes, the endpoint   *)

ListNotes(r) ==
    /\ r.job = RefreshJob /\ r.at = "start"
    /\ Step(r, [r EXCEPT !.at = "next", !.todo = Live])
    /\ UNCHANGED <<notes, chunks, planned, errored, handler, bounds>>

First(S) == CHOOSE n \in S : \A m \in S : n <= m

(* The manual tags are read before the model is asked; doc keeps them.         *)
ReadTags(r) ==
    /\ \/ r.job.kind \in {"tags", "request"} /\ r.at = "start"
       \/ r.at = "next" /\ r.todo # {}
    /\ LET n == IF r.at = "start" THEN r.job.note ELSE First(r.todo)
           rest == r.todo \ {n} IN
       IF n \in Live
         THEN Step(r, [r EXCEPT !.at = "suggest", !.cur = n, !.todo = rest,
                                !.doc = [NoDoc EXCEPT !.tags = manual[n]]])
         ELSE Step(r, [r EXCEPT !.at = IF r.at = "start" THEN "report" ELSE "next", !.todo = rest])
    /\ UNCHANGED <<notes, chunks, planned, errored, handler, bounds>>

(* The suggestion, without the manual tags read before, replaces auto_tags.    *)
(* References to a deleted note fail on the foreign key; none are no failure.  *)
(* The refresh skips the reindexing of a note whose tags have not changed.     *)
SaveAutoTags(r, suggested) ==
    /\ r.at = "suggest"
    /\ LET kept == suggested \ r.doc.tags
           n == r.cur IN
       IF n \in Live \/ kept = {}
         THEN /\ auto' = SaveTagRefs(auto, n, kept)
              /\ LET same == r.job = RefreshJob /\ auto[n] = kept IN
                 Step(r, [r EXCEPT !.at = IF same THEN "next" ELSE "reindex",
                                   !.cur = IF same THEN NoNote ELSE n, !.doc = NoDoc])
              /\ UNCHANGED errored
         ELSE /\ Drop(r)
              /\ errored' = errored \cup ({r.job} \cap JobRuns)
              /\ UNCHANGED auto
    /\ UNCHANGED <<life, title, parent, version, manual, chunks, planned, handler, bounds>>

RefreshDone(r) ==
    /\ r.at = "next" /\ r.todo = {}
    /\ Goto(r, "report")
    /\ UNCHANGED <<notes, chunks, planned, errored, handler, bounds>>

HandleAutoTags(n) ==
    /\ "tags" \in config.clients /\ Event
    /\ running' = running \cup {Fresh(TagsRequest(n))}
    /\ UNCHANGED <<notes, chunks, planned, errored, handler, config, saves>>

HandleRefreshAll ==
    /\ "tags" \in config.clients /\ Event
    /\ planned' = planned \cup {RefreshJob}
    /\ UNCHANGED <<notes, chunks, running, errored, handler, config, saves>>

-------------------------------------------------------------------------------
(* Handlers of notes.  An empty title is stored as Untitled.                   *)

Owes(h, todo) == handler' = [handler EXCEPT ![h] = [Idle EXCEPT !.at = "enqueue", !.jobs = todo]]

AfterSave(n, body, named) ==
    <<IndexJob(n)>>
       \o (IF named \/ "title" \notin config.clients THEN <<>> ELSE <<TitleJob(n, body)>>)
       \o (IF "tags" \notin config.clients THEN <<>> ELSE <<TagsJob(n)>>)

Saved == saves < config.saves /\ saves' = saves + 1
frame == <<auto, chunks, jobs, config, events>>

(* The row, its first body and its tags in one transaction.                    *)
CreateNote(h, p, named, tags) ==
    /\ handler[h] = Idle /\ Saved
    /\ \E n \in Notes :
          /\ life[n] = "new" /\ \A m \in Notes : m < n => life[m] # "new"
          /\ life' = [life EXCEPT ![n] = "live"]
          /\ title' = [title EXCEPT ![n] = IF named THEN "User" ELSE "Untitled"]
          /\ parent' = [parent EXCEPT ![n] = p]
          /\ version' = [version EXCEPT ![n] = 1]
          /\ manual' = SaveTagRefs(manual, n, tags)
          /\ Owes(h, AfterSave(n, 1, named))
    /\ UNCHANGED frame

(* Any parent that exists is accepted, the note's own descendants too.         *)
UpdateNote(h, n, p, named, tags) ==
    /\ handler[h] = Idle
    /\ n \in Live /\ Saved
    /\ title' = [title EXCEPT ![n] = IF named THEN "User" ELSE "Untitled"]
    /\ parent' = [parent EXCEPT ![n] = p]
    /\ version' = [version EXCEPT ![n] = @ + 1]
    /\ manual' = SaveTagRefs(manual, n, tags)
    /\ Owes(h, AfterSave(n, version[n] + 1, named))
    /\ UNCHANGED <<life, frame>>

(* After the commit the handler enqueues one job after the other.              *)
EnqueueNext(h) ==
    /\ handler[h].at = "enqueue"
    /\ IF handler[h].jobs = <<>>
         THEN handler' = [handler EXCEPT ![h] = Idle] /\ UNCHANGED planned
         ELSE /\ Enqueue(Head(handler[h].jobs))
              /\ handler' = [handler EXCEPT ![h].jobs = Tail(@)]
    /\ UNCHANGED <<notes, chunks, running, errored, bounds>>

(* deleteNote, first transaction: vectors and chunks.                          *)
DeleteNoteIndex(h, n) ==
    /\ handler[h] = Idle
    /\ n \in Live /\ Event
    /\ index' = [index EXCEPT ![n] = NoDoc]
    /\ handler' = [handler EXCEPT ![h] = [Idle EXCEPT !.at = "delete", !.note = n]]
    /\ UNCHANGED <<notes, stray, jobs, config, saves>>

\* Mutant: the chunks do not follow the row.
DeleteNote_KeepsChunks(h) ==
    /\ handler[h].at = "delete"
    /\ life' = [life EXCEPT ![handler[h].note] = "gone"]
    /\ handler' = [handler EXCEPT ![h] = Idle]
    /\ UNCHANGED <<title, parent, version, manual, auto, chunks, jobs, bounds>>

(* Then the row.  The foreign keys delete chunks and tags and clear the        *)
(* parent of the children; nothing deletes the vectors of chunks that an index *)
(* job wrote in between.                                                       *)
DeleteNote(h) ==
    /\ handler[h].at = "delete"
    /\ LET n == handler[h].note IN
       /\ life' = [life EXCEPT ![n] = "gone"]
       /\ parent' = [m \in Notes |-> IF parent[m] = n \/ m = n THEN NoNote ELSE parent[m]]
       /\ title' = [title EXCEPT ![n] = "Untitled"]
       /\ version' = [version EXCEPT ![n] = 0]
       /\ manual' = [manual EXCEPT ![n] = {}] /\ auto' = [auto EXCEPT ![n] = {}]
       /\ stray' = IF index[n] # NoDoc THEN stray \cup {n} ELSE stray
       /\ index' = [index EXCEPT ![n] = NoDoc]
    /\ handler' = [handler EXCEPT ![h] = Idle]
    /\ UNCHANGED <<jobs, bounds>>

HandleReindexNotes(h) ==
    /\ handler[h] = Idle /\ Event
    /\ Owes(h, LET missing == {n \in Live : index[n] = NoDoc} IN
               [i \in 1 .. Cardinality(missing) |->
                   IndexJob(CHOOSE n \in missing :
                               Cardinality({m \in missing : m <= n}) = i)])
    /\ UNCHANGED <<notes, chunks, jobs, config, saves>>

(* Vectors without a chunk; chunks without a note do not occur.                *)
DeleteSearchLeftovers ==
    /\ Event
    /\ stray' = {}
    /\ UNCHANGED <<notes, index, jobs, handler, config, saves>>

\* Mutant: what ran is forgotten.
Restart_Forgets ==
    /\ Event
    /\ running' = {}
    /\ handler' = [h \in Handlers |-> Idle]
    /\ UNCHANGED <<notes, chunks, planned, errored, config, saves>>

(* Jobs that ran are planned again; handlers and requests are gone.            *)
Restart ==
    /\ Event
    /\ planned' = planned \cup ({r.job : r \in running} \cap JobRuns)
    /\ running' = {}
    /\ handler' = [h \in Handlers |-> Idle]
    /\ UNCHANGED <<notes, chunks, errored, config, saves>>

-------------------------------------------------------------------------------
IndexStep(r) == LoadBody(r) \/ LoadPath(r) \/ LoadTags(r) \/ ReplaceNoteIndex(r)
TitleStep(r) == AskTitle(r) \/ SetTitle(r)
TagsStep(r) ==
    \/ ListNotes(r) \/ ReadTags(r) \/ RefreshDone(r)
    \/ \E tags \in SUBSET Tags : SaveAutoTags(r, tags)
JobStep(r) == IndexStep(r) \/ TitleStep(r) \/ TagsStep(r) \/ Reindex(r) \/ Report(r)

Save(h) ==
    \E p \in Live \cup {NoNote}, named \in config.named, tags \in config.tags :
       \/ CreateNote(h, p, named, tags)
       \/ \E n \in Notes : UpdateNote(h, n, p, named, tags)

HandlerStep(h) == EnqueueNext(h) \/ DeleteNote(h)

Next ==
    \/ \E j \in JobRuns : Start(j)
    \/ \E r \in running : JobStep(r) \/ Fail(r)
    \/ \E h \in Handlers :
          \/ Save(h) \/ HandlerStep(h)
          \/ \E n \in Notes : DeleteNoteIndex(h, n)
          \/ HandleReindexNotes(h)
    \/ \E n \in Notes : HandleAutoTags(n)
    \/ HandleRefreshAll
    \/ DeleteSearchLeftovers
    \/ Restart

(* Workers and handlers run; a planned index job is the oldest in the end (the *)
(* other jobs are needed only to end once started).  Nobody has to save, to    *)
(* delete, to crash or to get an error.                                        *)
Fairness ==
    /\ \A n \in Notes :
          /\ SF_vars(Start(IndexJob(n)))
          /\ WF_vars(\E r \in running : r.job = IndexJob(n) /\ JobStep(r))
    /\ WF_vars(\E r \in running : r.job.kind # "index" /\ JobStep(r))
    /\ \A h \in Handlers : WF_vars(HandlerStep(h))

Spec == Init /\ [][Next]_vars /\ Fairness
-------------------------------------------------------------------------------
Docs == [title : Titles \cup {"none"}, version : 0 .. MaxSaves,
         path : UNION {[1 .. k -> Titles] : k \in 0 .. MaxNotes}, tags : SUBSET Tags]

TypeOK ==
    /\ life \in [Notes -> {"new", "live", "gone"}]
    /\ title \in [Notes -> Titles]
    /\ parent \in [Notes -> Notes \cup {NoNote}]
    /\ version \in [Notes -> 0 .. MaxSaves]
    /\ manual \in [Notes -> SUBSET Tags] /\ auto \in [Notes -> SUBSET Tags]
    /\ index \in [Notes -> Docs] /\ stray \in SUBSET Notes
    /\ planned \in SUBSET JobRuns /\ errored \in SUBSET JobRuns
    /\ \A r \in running : r.job \in Work /\ r.doc \in Docs /\ r.todo \in SUBSET Notes
    /\ config \in Configs
    /\ \A h \in Handlers : handler[h].note \in Notes \cup {NoNote}

(* What the index of a note is built from.                                     *)
PathTo[n \in 0 .. MaxNotes, steps \in 0 .. MaxNotes + 1] ==
    IF n = NoNote \/ steps = 0 THEN <<>> ELSE PathTo[parent[n], steps - 1] \o <<title[n]>>
OnCycle(n) == Len(PathTo[n, MaxNotes + 1]) > MaxNotes
Current(n) == [title |-> title[n], version |-> version[n], path |-> PathTo[n, MaxNotes],
               tags |-> manual[n] \cup auto[n]]

(* The chunks of a note never go back to an older body, whatever jobs, crashes *)
(* and restarts do: two index jobs of a note never overlap, thanks to the      *)
(* duplicate check alone (notes.go:1203 replaces without comparing).           *)
MovesForward ==
    \A n \in Notes :
       index[n] # NoDoc /\ index'[n] # NoDoc => index'[n].version >= index[n].version
IndexMovesForward == [][MovesForward]_vars

(* Only live notes have chunks, and every chunk has its vectors: a search hit  *)
(* always leads to a note.  Vectors without chunks come from deleted notes.    *)
IndexIsOfLiveNotes ==
    /\ \A n \in Notes : index[n] # NoDoc => n \in Live
    /\ stray \cap Live = {}

(* A note whose index job is queued gets an index, unless it is deleted, the   *)
(* job fails, an ancestor is deleted while the path is read, or somewhere two  *)
(* notes are each other's ancestors, which keeps a worker for good.            *)
EventuallyIndexed ==
    \A n \in Notes :
       IndexJob(n) \in planned ~>
          \/ index[n] # NoDoc \/ n \notin Live
          \/ IndexJob(n) \in errored
          \/ \E m \in Notes : life[m] = "gone" \/ OnCycle(m)

(* When all jobs and handlers are done, the index of a note is built from what *)
(* the note is now ("It re-reads the current note state so title/path/tag      *)
(* changes are indexed too", notes.go:1181).                                   *)
IndexFresh ==
    planned = {} /\ running = {} /\ events = 0
       /\ (\A h \in Handlers : handler[h] = Idle) =>
          \A n \in Live : ~OnCycle(n) => index[n] = Current(n)

(* A title the user has typed stays until the user changes it ("only if the    *)
(* user didn't provide one", notes.go:674).                                    *)
UserTitleKept ==
    [][\A n \in Live : title[n] = "User" => title'[n] # "Model"]_vars

(* Deleting a note leaves no vectors of it behind.                             *)
NoStrayVectors == stray = {}

(* No note is its own ancestor: the walks to the root end.                     *)
NoCycle == \A n \in Live : ~OnCycle(n)
===============================================================================
