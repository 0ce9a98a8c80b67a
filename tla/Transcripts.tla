------------------------------ MODULE Transcripts ------------------------------
(* The recognised text of ingested audio and images: the ingest handlers       *)
(* (internal/server/ingest.go), the recognition of a file (internal/media:     *)
(* stt.go, ocr.go), the jobs that append the text to the note and embed it,    *)
(* and the reindex endpoints - beside a user who edits the same note.  One     *)
(* ingested note and its file.  One action is one statement, one transaction   *)
(* or one request to a model; each may fail, except what the job system writes *)
(* about its own runs (JobQueue).                                              *)
EXTENDS Integers, Sequences, FiniteSets

CONSTANTS
    Kinds,       \* what may be ingested: "audio" (STT), "image" (OCR)
    Texts,       \* answers of the models
    Empty,       \* the answer that is an empty text
    Chunks,      \* windows an audio file is cut into; 0 without ffmpeg
    Workers,     \* job workers
    MaxSaves,    \* bound: saves of the user
    MaxErrors,   \* bound: failures of models, replicas and statements
    MaxEvents    \* bound: crashes, deletion and reindex requests together

ASSUME TranscriptsAssumption ==
    /\ Kinds \subseteq {"audio", "image"} /\ Empty \in Texts
    /\ Texts \cap {"none", "error", "typed"} = {}
    /\ Chunks \in Nat /\ Workers \in Nat \ {0}
    /\ {MaxSaves, MaxErrors, MaxEvents} \subseteq Nat

VARIABLES
    kind,
    ingest,    \* the handler: "idle", "note", "webm", "enqueue", "done"
    note,      \* "none", "live", "gone"
    file,      \* "none", "webm" (its type still reads video/webm), "stored"
    body,      \* the latest body: "typed" and recognised texts, in order
    landed,    \* texts in any row of updates
    tags,      \* of {"user", "forced"}
    result,    \* row of files_stt or files_ocr: "none", "error" or a text
    heard,     \* every text ever stored in result
    lost,      \* history: texts whose embedding could not be queued since they were
               \* stored, and "error" if a failure could not be recorded since then
    vector,    \* text of the row in vss_files_stt or vss_files_ocr, or "none"
    planned, running, errored,   \* job_runs
    view,      \* what the user's editor was loaded with
    saves, errors, events

noteVars == <<note, body, landed, tags>>
fileVars == <<kind, file, result, heard, lost, vector>>
jobs == <<planned, running, errored>>
bounds == <<saves, errors, events>>
vars == <<noteVars, fileVars, jobs, ingest, view, bounds>>

NoView == [body |-> <<>>, tags |-> {"unloaded"}]

(* The jobs of this note and file; an embedding job carries the text.          *)
ToNote == [name |-> "to_note", text |-> "none"]     \* stt_to_note, ocr_to_note
OfFile == [name |-> "file", text |-> "none"]        \* stt_file, ocr_file
Embedding(t) == [name |-> "embedding", text |-> t]  \* sync_*_embedding
JobRuns == {ToNote, OfFile} \cup {Embedding(t) : t \in Texts}

Init ==
    /\ kind \in Kinds
    /\ ingest = "idle" /\ note = "none" /\ file = "none"
    /\ body = <<>> /\ landed = {} /\ tags = {}
    /\ result = "none" /\ heard = {} /\ lost = {} /\ vector = "none"
    /\ planned = {} /\ running = {} /\ errored = {}
    /\ view = NoView
    /\ saves = 0 /\ errors = 0 /\ events = 0

Event == events < MaxEvents /\ events' = events + 1
Error == errors < MaxErrors /\ errors' = errors + 1

-------------------------------------------------------------------------------
(* The ingest handlers                                                         *)

(* The note with an empty body is committed before the file is stored.         *)
InsertIngestNote ==
    /\ ingest = "idle"
    /\ note' = "live"
    /\ ingest' = "note"
    /\ UNCHANGED <<body, landed, tags, fileVars, jobs, view, bounds>>

(* Mutant of CreateAttachment: the type of a recording stays as detected.      *)
CreateAttachment_KeepsType ==
    /\ ingest = "note" /\ note = "live"
    /\ file' \in {"stored"} \cup (IF kind = "audio" THEN {"webm"} ELSE {})
    /\ ingest' = "enqueue"
    /\ UNCHANGED <<noteVars, kind, result, heard, lost, vector, jobs, view, bounds>>

(* CreateAttachment detects the type again: audio of a browser's recorder      *)
(* reads video/webm.  An error leaves the note without its file.               *)
CreateAttachment ==
    /\ ingest = "note"
    /\ \/ /\ note = "live"
          /\ \/ file' = "stored" /\ ingest' = "enqueue"
             \/ file' = "webm" /\ kind = "audio" /\ ingest' = "webm"
          /\ UNCHANGED errors
       \/ ingest' = "done" /\ UNCHANGED file /\ (Error \/ (note = "gone" /\ UNCHANGED errors))
    /\ UNCHANGED <<noteVars, kind, result, heard, lost, vector, jobs, view, saves, events>>

UpdateFileMIMEType ==
    /\ ingest = "webm"
    /\ \/ file' = "stored" /\ ingest' = "enqueue" /\ UNCHANGED errors
       \/ ingest' = "done" /\ Error /\ UNCHANGED file
    /\ UNCHANGED <<noteVars, kind, result, heard, lost, vector, jobs, view, saves, events>>

(* An identical planned or running run absorbs the new one; who enqueues only  *)
(* logs an error.                                                              *)
Active == planned \cup {r.job : r \in running}
Enqueue(job) == planned' = planned \cup ({job} \ Active)

EnqueueToNote ==
    /\ ingest = "enqueue"
    /\ \/ Enqueue(ToNote) /\ UNCHANGED errors
       \/ Error /\ UNCHANGED planned
    /\ ingest' = "done"
    /\ UNCHANGED <<noteVars, fileVars, running, errored, view, saves, events>>

-------------------------------------------------------------------------------
(* Jobs                                                                        *)

Fresh(job) ==
    [job |-> job, at |-> "start", part |-> 0, text |-> job.text, body |-> <<>>, tags |-> {}]
Recognising == {r \in running : r.at \in {"chunk", "whole", "save"}}
Step(r, s) == running' = (running \ {r}) \cup {s}
Goto(r, at) == Step(r, [r EXCEPT !.at = at])
Drop(r) == running' = running \ {r}

Start(job) ==
    /\ job \in planned /\ Cardinality(running) < Workers
    /\ planned' = planned \ {job} /\ errored' = errored \ {job}
    /\ running' = running \cup {Fresh(job)}
    /\ UNCHANGED <<noteVars, fileVars, ingest, view, bounds>>

Report(r) ==
    /\ r.at = "report"
    /\ Drop(r)
    /\ UNCHANGED <<noteVars, fileVars, planned, errored, ingest, view, bounds>>

Fails(r) == Drop(r) /\ errored' = errored \cup {r.job}

(* Most statements end the job when they fail: the one that loads the file (STT   *)
(* has its lock by then), stores a result, reads or appends to the body, reads or *)
(* writes the tags or inserts a vector.                                           *)
StatementFails(r) ==
    /\ \/ r.job \in {ToNote, OfFile} /\ r.at = "start" /\ (kind = "audio" => Recognising = {})
       \/ r.at = "save" /\ r.text \in Texts
       \/ r.at \in {"append", "insert", "tags", "force", "vector"}
    /\ Error /\ Fails(r)
    /\ UNCHANGED <<noteVars, fileVars, planned, ingest, view, saves, events>>

-------------------------------------------------------------------------------
(* RunSTTForFile, RunOCRForFile                                                *)

Recognises(r) == r.job \in {ToNote, OfFile} /\ r.at = "start"

(* The lock of the file; it is held until the result is stored.  A file of     *)
(* another type has no transcript, and nothing is stored.                      *)
LockSTT(r) ==
    /\ Recognises(r) /\ kind = "audio"
    /\ Recognising = {}
    /\ Goto(r, IF file # "stored" THEN "report"
               ELSE IF Chunks > 0 THEN "chunk" ELSE "whole")
    /\ UNCHANGED <<noteVars, fileVars, planned, errored, ingest, view, bounds>>

(* Nothing keeps two jobs from working on the same image.                      *)
BeginOCR(r) ==
    /\ Recognises(r) /\ kind = "image"
    /\ Goto(r, "whole")
    /\ UNCHANGED <<noteVars, fileVars, planned, errored, ingest, view, bounds>>

(* One window after the other; whatever fails, the whole file is sent instead. *)
Transcribe(r) ==
    /\ r.at = "chunk"
    /\ \/ /\ r.part < Chunks
          /\ \/ Step(r, [r EXCEPT !.part = @ + 1]) /\ UNCHANGED errors
             \/ Step(r, [r EXCEPT !.at = "whole", !.part = 0]) /\ Error
       \/ /\ r.part = Chunks /\ UNCHANGED errors
          /\ \E t \in Texts : Step(r, [r EXCEPT !.at = "save", !.text = t, !.part = 0])
    /\ UNCHANGED <<noteVars, fileVars, planned, errored, ingest, view, saves, events>>

Whole(r) ==
    /\ r.at = "whole"
    /\ \/ /\ \E t \in Texts : Step(r, [r EXCEPT !.at = "save", !.text = t])
          /\ UNCHANGED errors
       \/ Step(r, [r EXCEPT !.at = "save", !.text = "error"]) /\ Error
    /\ UNCHANGED <<noteVars, fileVars, planned, errored, ingest, view, saves, events>>

(* saveSTTResult, saveOCRResult: one row per file, the last result stays.      *)
SaveResult(r) ==
    /\ r.at = "save" /\ r.text \in Texts
    /\ result' = r.text
    /\ heard' = heard \cup {r.text}
    /\ lost' = lost \ {"error", r.text}
    /\ Goto(r, IF r.job = OfFile THEN "embed" ELSE "append")
    /\ UNCHANGED <<noteVars, kind, file, vector, planned, errored, ingest, view, bounds>>

(* Mutant of SaveError: the job goes on with the note.                         *)
SaveError_GoesOn(r) ==
    /\ r.at = "save" /\ r.text = "error"
    /\ result' = "error"
    /\ Goto(r, IF r.job = ToNote THEN "tags" ELSE "report")
    /\ UNCHANGED <<noteVars, kind, file, heard, lost, vector, planned, errored, ingest, view, bounds>>

(* saveSTTError, saveOCRError: the text of an earlier success is dropped, and  *)
(* the job is done, also when the row could not be written.                    *)
SaveError(r) ==
    /\ r.at = "save" /\ r.text = "error"
    /\ \/ result' = "error" /\ UNCHANGED <<lost, errors>>
       \/ Error /\ UNCHANGED result /\ lost' = lost \cup {"error"}
    /\ Goto(r, "report")
    /\ UNCHANGED <<noteVars, kind, file, heard, vector, planned, errored, ingest, view, saves, events>>

-------------------------------------------------------------------------------
(* The text in the note: appendNoteText, finalizeIngestNote                    *)

(* An empty text is nothing to append; a note without rows has no body.        *)
ReadBody(r) ==
    /\ r.at = "append"
    /\ Step(r, IF r.text = Empty THEN [r EXCEPT !.at = "embed"]
               ELSE [r EXCEPT !.at = "insert", !.body = body])
    /\ UNCHANGED <<noteVars, fileVars, planned, errored, ingest, view, bounds>>

(* A new row of updates; the foreign key rejects it when the note is gone.     *)
AppendText(r) ==
    /\ r.at = "insert"
    /\ IF note = "live"
         THEN /\ body' = Append(r.body, r.text)
              /\ landed' = landed \cup {r.text}
              /\ Step(r, [r EXCEPT !.at = "embed", !.body = <<>>])
              /\ UNCHANGED errored
         ELSE Fails(r) /\ UNCHANGED <<body, landed>>
    /\ UNCHANGED <<note, tags, fileVars, planned, ingest, view, bounds>>

EnqueueEmbedding(r) ==
    /\ r.at = "embed"
    /\ \/ Enqueue(Embedding(r.text)) /\ UNCHANGED <<lost, errors>>
       \/ Error /\ UNCHANGED planned /\ lost' = lost \cup {r.text}
    /\ Goto(r, IF r.job = OfFile THEN "report" ELSE "tags")
    /\ UNCHANGED <<noteVars, kind, file, result, heard, vector, errored, ingest, view, saves, events>>

(* Title and automatic tags (NoteIndex) come first; when the note is gone they *)
(* end the job, unless no tagger is configured.  Then the manual tags are read *)
ReadTags(r) ==
    /\ r.at = "tags"
    /\ \/ note = "live" /\ Step(r, [r EXCEPT !.at = "force", !.tags = tags])
       \/ note # "live" /\ Goto(r, "report")
       \/ note # "live" /\ Step(r, [r EXCEPT !.at = "force"])
    /\ UNCHANGED <<noteVars, fileVars, planned, errored, ingest, view, bounds>>

(* ... and written back with the tag of the source.                            *)
ForceTag(r) ==
    /\ r.at = "force"
    /\ IF note = "live"
         THEN /\ tags' = r.tags \cup {"forced"}
              /\ Step(r, [r EXCEPT !.at = "report", !.tags = {}])
              /\ UNCHANGED errored
         ELSE Fails(r) /\ UNCHANGED tags
    /\ UNCHANGED <<note, body, landed, fileVars, planned, ingest, view, bounds>>

-------------------------------------------------------------------------------
(* The vector of the text: the old row is deleted, then the new one inserted.  *)

DeleteVector(r) ==
    /\ r.job \notin {ToNote, OfFile} /\ r.at = "start"
    /\ \/ r.text = Empty /\ Goto(r, "report") /\ UNCHANGED <<vector, errors, errored>>
       \/ r.text # Empty /\ Goto(r, "vector") /\ vector' = "none" /\ UNCHANGED <<errors, errored>>
       \/ r.text # Empty /\ Error /\ Fails(r) /\ UNCHANGED vector
    /\ UNCHANGED <<noteVars, kind, file, result, heard, lost, planned, ingest, view, saves, events>>

(* Another job's row with the same id is in the way.                           *)
InsertVector(r) ==
    /\ r.at = "vector"
    /\ IF vector = "none"
         THEN vector' = r.text /\ Goto(r, "report") /\ UNCHANGED errored
         ELSE Fails(r) /\ UNCHANGED vector
    /\ UNCHANGED <<noteVars, kind, file, result, heard, lost, planned, ingest, view, bounds>>

-------------------------------------------------------------------------------
(* The endpoints, the user, the end of the process                             *)

(* handleReindexSTT, handleReindexOCR: what has a text only lacks its vector.  *)
Reindex ==
    /\ file = "stored" /\ Event
    /\ \/ result \in {"none", "error"} /\ Enqueue(OfFile)
       \/ result \in Texts \ {Empty} /\ vector = "none" /\ Enqueue(Embedding(result))
    /\ UNCHANGED <<noteVars, fileVars, running, errored, ingest, view, saves, errors>>

ReindexAll ==
    /\ file = "stored" /\ Event
    /\ Enqueue(OfFile)
    /\ UNCHANGED <<noteVars, fileVars, running, errored, ingest, view, saves, errors>>

DeleteNote ==
    /\ note = "live" /\ Event
    /\ note' = "gone" /\ body' = <<>> /\ landed' = {} /\ tags' = {}
    /\ UNCHANGED <<fileVars, jobs, ingest, view, saves, errors>>

LoadNote ==
    /\ note = "live" /\ view = NoView
    /\ view' = [body |-> body, tags |-> tags]
    /\ UNCHANGED <<noteVars, fileVars, jobs, ingest, bounds>>

(* updateNote writes the body and the tags the editor holds.                   *)
SaveNote ==
    /\ note = "live" /\ view # NoView /\ saves < MaxSaves
    /\ body' = Append(view.body, "typed")
    /\ landed' = landed \cup {view.body[i] : i \in DOMAIN view.body}
    /\ tags' = view.tags \cup {"user"}
    /\ view' = NoView
    /\ saves' = saves + 1
    /\ UNCHANGED <<note, fileVars, jobs, ingest, errors, events>>

(* Mutant of Restart: what ran is not planned again.                           *)
Restart_Forgets ==
    /\ Event
    /\ running' = {}
    /\ ingest' = IF ingest = "idle" THEN "idle" ELSE "done"
    /\ UNCHANGED <<noteVars, fileVars, planned, errored, view, saves, errors>>

(* The handler is gone, what ran is planned again, the locks are free.         *)
Restart ==
    /\ Event
    /\ planned' = Active
    /\ running' = {}
    /\ ingest' = IF ingest = "idle" THEN "idle" ELSE "done"
    /\ UNCHANGED <<noteVars, fileVars, errored, view, saves, errors>>

-------------------------------------------------------------------------------
IngestStep == CreateAttachment \/ UpdateFileMIMEType \/ EnqueueToNote

Recognise(r) == LockSTT(r) \/ BeginOCR(r) \/ Transcribe(r) \/ Whole(r) \/ SaveResult(r) \/ SaveError(r)
Enter(r) == ReadBody(r) \/ AppendText(r) \/ EnqueueEmbedding(r) \/ ReadTags(r) \/ ForceTag(r)
Embed(r) == DeleteVector(r) \/ InsertVector(r)
JobStep(r) == Recognise(r) \/ Enter(r) \/ Embed(r) \/ StatementFails(r) \/ Report(r)

Next ==
    \/ InsertIngestNote \/ IngestStep
    \/ \E j \in JobRuns : Start(j)
    \/ \E r \in running : JobStep(r)
    \/ Reindex \/ ReindexAll
    \/ DeleteNote \/ LoadNote \/ SaveNote
    \/ Restart

(* The workers take what is planned and go on with what they run; what they do *)
(* is finite, so none is left out for ever.                                    *)
Fairness ==
    /\ WF_vars(\E j \in JobRuns : Start(j))
    /\ WF_vars(\E r \in running : JobStep(r))

Spec == Init /\ [][Next]_vars /\ Fairness
-------------------------------------------------------------------------------
Outcomes == Texts \cup {"none", "error"}

TypeOK ==
    /\ kind \in Kinds
    /\ ingest \in {"idle", "note", "webm", "enqueue", "done"}
    /\ note \in {"none", "live", "gone"} /\ file \in {"none", "webm", "stored"}
    /\ \A i \in DOMAIN body : body[i] \in Texts \cup {"typed"}
    /\ landed \in SUBSET (Texts \cup {"typed"}) /\ tags \in SUBSET {"user", "forced"}
    /\ result \in Outcomes /\ heard \in SUBSET Texts /\ lost \in SUBSET (Texts \cup {"error"})
    /\ vector \in Texts \cup {"none"}
    /\ planned \in SUBSET JobRuns /\ errored \in SUBSET JobRuns
    /\ \A r \in running : r.job \in JobRuns /\ r.text \in Outcomes /\ r.part \in 0 .. Chunks

(* The tag of the source marks a note whose recording was understood ("after a *)
(* successful STT transcription", ingest.go:294): a text of it is in the       *)
(* history of the note, or it was recognised as empty.                         *)
TaggedIsHeard ==
    "forced" \in tags => (heard \cap landed) # {} \/ Empty \in heard

(* A stored text that search by meaning does not find is about to be embedded, *)
(* or a job that failed visibly tells why, whatever crashed in between.  Only  *)
(* what the server log alone tells can leave it behind: this text's embedding  *)
(* could not be queued, or a later recognition failed and that could not be    *)
(* recorded either.                                                            *)
Retold == {ToNote, OfFile} \cup {Embedding(t) : t \in Texts \ {Empty}}
HeardIsSearchable ==
    result \in Texts \ {Empty} /\ vector = "none" =>
       (Active \cup errored) \cap Retold # {} \/ lost \cap {result, "error"} # {}

(* A queued recording reaches its note, whatever crashes or edits happen,      *)
(* unless it fails visibly, its failure could not be recorded or the note is   *)
(* deleted.                                                                    *)
TranscriptLands ==
    ToNote \in planned ~>
       \/ heard \cap landed # {} \/ Empty \in heard
       \/ result = "error" \/ ToNote \in errored \/ "error" \in lost \/ note = "gone"

(* Not properties of the code.  A transcript is in the body once.              *)
AppendedOnce ==
    \A i, j \in DOMAIN body : body[i] = body[j] /\ body[i] \in Texts => i = j \/ saves > 0

(* A tag of the user stays ("merge so any user-added manual tags are kept",    *)
(* ingest.go:442).                                                             *)
UserTagsKept == [][note' = "live" /\ "user" \in tags => "user" \in tags']_vars

(* What the user typed is in the latest body until the user changes it.        *)
TypedKept ==
    [][note' = "live" /\ saves' = saves /\ (\E i \in DOMAIN body : body[i] = "typed") =>
          \E i \in DOMAIN body' : body'[i] = "typed"]_vars

(* A success is not replaced by a later failure.                               *)
SuccessStays == [][(result \in Texts) => (result' \in Texts)]_vars
===============================================================================
