------------------------------ MODULE NoteFiles ------------------------------
(***************************************************************************)
(* The life of a file row and of the references to it: internal/media      *)
(* (attachments, pending inline files, reconciliation, soft deletion), the *)
(* note handlers of internal/server/notes.go and the last steps of an      *)
(* inline upload in internal/server/chunked_upload.go.                     *)
(*                                                                         *)
(* Actors are HTTP handlers, the finalizer of each inline upload and the   *)
(* hourly cleanup job.  A step is one SQL statement or one transaction.  A *)
(* body is the set of what it links to; the empty set is the empty string. *)
(* With Faults a statement may fail: its handler gives up, goes on without *)
(* its result or does not notice, as the code has it.                      *)
(***************************************************************************)
EXTENDS Integers, FiniteSets, FiniteSetsExt

CONSTANTS
  Notes, Files,
  Uploads,      \* inline uploads, identified by their placeholder token
  Handlers,     \* HTTP handler goroutines
  Cleaner,      \* the cleanup_pending_inline job
  Prose,        \* body text that links to nothing
  None,
  TimePasses,   \* may an hour pass?
  Faults,       \* may statements fail?
  MaxOps        \* bound on the requests the handlers serve

ASSUME ConstantsAssumption ==
  /\ MaxOps \in Nat /\ {TimePasses, Faults} \subseteq BOOLEAN /\ IsFiniteSet(Notes)
  /\ None \notin Notes \cup Files
  /\ Handlers \cap Uploads = {} /\ Cleaner \notin Handlers \cup Uploads

VARIABLES
  note,     \* note -> "none", "live" or "gone" (ids are never reused)
  body,     \* note -> its latest updates.body
  row,      \* file -> "none", "live", "deleted" (deleted_at), "gone" (row removed)
  pending,  \* files.pending_inline_note_id
  old,      \* files whose pending_inline_at is more than an hour ago
  refs,     \* files_refs
  result,   \* upload -> the file of its finish_result, once its session is done
  known,    \* files whose URL a browser has seen
  act,      \* actor -> what it is doing
  astray,   \* history: files a deletion counted one reference of when its own note's
            \* was gone already, or whose failed upload could not drop its references
  ops

vars == <<note, body, row, pending, old, refs, result, known, act, astray, ops>>

Actors == Handlers \cup Uploads \cup {Cleaner}
Kinds  == {"attachment", "inline"}
Bodies == SUBSET (Files \cup Uploads \cup {Prose})
Idle   == [at |-> "idle", note |-> None, kind |-> "inline", file |-> None, body |-> {},
           list |-> {}, todo |-> {}]
Steps  == {"idle", "resolve", "commit", "reconcile", "refs", "owned", "count", "owner", "delete",
           "soft", "insert", "put", "pend", "abandon", "record", "load", "persist", "ended"}

notes         == {n \in Notes : note[n] = "live"}
RefsOf(f)     == {r \in refs : r[2] = f}
Exists(f)     == row[f] \in {"live", "deleted"}
PendingOf(n)  == {f \in Files : row[f] = "live" /\ pending[f] = n}
Cascade(n)    == {f \in Files : Exists(f) /\ pending[f] = n}

\* What may come of statements, one for each member of S, whose errors are dropped.
Partly(S) == {S} \cup (IF Faults THEN SUBSET S ELSE {})

\* One type invariant, with the foreign keys of files_refs and files.
TypeOK ==
  /\ note \in [Notes -> {"none", "live", "gone"}]
  /\ body \in [Notes -> Bodies]
  /\ row \in [Files -> {"none", "live", "deleted", "gone"}]
  /\ pending \in [Files -> Notes \cup {None}]
  /\ old \subseteq Files /\ known \subseteq Files /\ astray \subseteq Files
  /\ refs \subseteq notes \X {f \in Files : Exists(f)} \X Kinds
  /\ \A f \in Files : pending[f] \in notes \cup {None}
  /\ result \in [Uploads -> Files \cup {None}]
  /\ act \in [Actors -> [at : Steps, note : Notes \cup {None}, kind : Kinds,
                         file : Files \cup {None}, body : Bodies, list : SUBSET Files,
                         todo : SUBSET Files]]
  /\ ops \in 0 .. MaxOps

\* A file may be there already: attached to its home, and linked by any note.
Init ==
  /\ note \in [Notes -> {"none", "live"}]
  /\ \E home \in [Files -> notes \cup {None}] :
       /\ row = [f \in Files |-> IF home[f] = None THEN "none" ELSE "live"]
       /\ known = {f \in Files : home[f] # None}
       /\ body \in [Notes -> SUBSET known]
       /\ \A n \in Notes \ notes : body[n] = {}
       /\ refs = {<<home[f], f, "attachment">> : f \in known}
                  \cup UNION {{n} \X body[n] \X {"inline"} : n \in Notes}
  /\ pending = [f \in Files |-> None]
  /\ old = {} /\ astray = {}
  /\ result = [u \in Uploads |-> None]
  /\ act = [a \in Actors |-> Idle]
  /\ ops = 0

Goto(a, step)   == act' = [act EXCEPT ![a].at = step]
Finished(a)     == IF a \in Uploads THEN Goto(a, "ended") ELSE act' = [act EXCEPT ![a] = Idle]
Request(h, new) == /\ act[h].at = "idle" /\ ops < MaxOps
                   /\ ops' = ops + 1
                   /\ act' = [act EXCEPT ![h] = new]

-----------------------------------------------------------------------------
(* Saving a note. *)

\* What a user can write: links seen somewhere, placeholders of this note's uploads.
Writable(n) ==
  SUBSET (known \cup {u \in Uploads : act[u].note = n}) \cup {{Prose}}

\* resolveUploadPlaceholders: the placeholders of finished uploads become links, if
\* the session can be read.
Resolved(n, b) ==
  {(b \ found) \cup {result[u] : u \in found} :
     found \in Partly({u \in b \cap Uploads : act[u].note = n /\ result[u] # None})}

\* createNote: one transaction, without looking at placeholders.
CreateNote(h, n, b) ==
  /\ note[n] = "none" /\ b \in Writable(n)
  /\ Request(h, [Idle EXCEPT !.at = IF b = {} THEN "idle" ELSE "reconcile", !.note = n, !.body = b])
  /\ note' = [note EXCEPT ![n] = "live"]
  /\ body' = [body EXCEPT ![n] = b]
  /\ UNCHANGED <<row, pending, old, refs, result, known, astray>>

UpdateNote(h, n, b) ==
  /\ n \in notes /\ b \in Writable(n)
  /\ Request(h, [Idle EXCEPT !.at = "resolve", !.note = n, !.body = b])
  /\ UNCHANGED <<note, body, row, pending, old, refs, result, known, astray>>

ResolveBody(h) ==
  /\ act[h].at = "resolve"
  /\ \E b \in Resolved(act[h].note, act[h].body) :
       act' = [act EXCEPT ![h].at = "commit", ![h].body = b]
  /\ UNCHANGED <<note, body, row, pending, old, refs, result, known, astray, ops>>

CommitUpdate(h) ==
  /\ act[h].at = "commit"
  /\ LET n == act[h].note  b == act[h].body
     IN IF n \in notes
        THEN /\ body' = [body EXCEPT ![n] = b]
             /\ IF b = {} THEN Finished(h) ELSE Goto(h, "reconcile")
        ELSE Finished(h) /\ UNCHANGED body
  /\ UNCHANGED <<note, row, pending, old, refs, result, known, astray, ops>>

\* ReconcileInlineRefs: one transaction, rolled back when a linked row or the
\* note is missing; that a linked file is pending no more may not get written.
Reconcile(a) ==
  /\ act[a].at = "reconcile"
  /\ LET n == act[a].note
         links == act[a].body \cap Files
         orphans == PendingOf(n) \ links
     IN IF n \in notes /\ \A f \in links : Exists(f)
        THEN /\ refs' = {r \in refs : r[1] # n \/ r[3] # "inline"}
                        \cup {<<n, f, "inline">> : f \in links}
             /\ \E cleared \in Partly({f \in links : pending[f] = n}) :
                  pending' = [f \in Files |-> IF f \in cleared THEN None ELSE pending[f]]
             /\ row' = [f \in Files |-> IF f \in orphans THEN "deleted" ELSE row[f]]
        ELSE UNCHANGED <<refs, pending, row>>
  /\ Finished(a)
  /\ UNCHANGED <<note, body, old, result, known, astray, ops>>

-----------------------------------------------------------------------------
(* Deleting a note or an attachment. *)

DeleteNote(h, n) ==
  /\ n \in notes
  /\ Request(h, [Idle EXCEPT !.at = "refs", !.note = n])
  /\ UNCHANGED <<note, body, row, pending, old, refs, result, known, astray>>

\* CollectDeletableFilesAfterNoteDelete, outside of any transaction: the files the
\* note refers to, then its pending ones (an error ends that list early), ...
ListRefs(h) ==
  /\ act[h].at = "refs"
  /\ act' = [act EXCEPT ![h].at = "owned",
                        ![h].list = {f \in Files : \E k \in Kinds : <<act[h].note, f, k>> \in refs}]
  /\ UNCHANGED <<note, body, row, pending, old, refs, result, known, astray, ops>>

ListPending(h) ==
  /\ act[h].at = "owned"
  /\ \E owned \in Partly(PendingOf(act[h].note)) :
       act' = [act EXCEPT ![h].at = "count", ![h].list = @ \cup owned]
  /\ UNCHANGED <<note, body, row, pending, old, refs, result, known, astray, ops>>

\* Mutant: a second reference does not keep the file.
Few_Two(f) == Cardinality(RefsOf(f)) <= 2

Few(f) == Cardinality(RefsOf(f)) <= 1

\* ... then file by file the number of references, whosever they are by now ...
CountRefs(h) ==
  /\ act[h].at = "count"
  /\ IF act[h].list = {}
     THEN Goto(h, "delete") /\ UNCHANGED astray
     ELSE \E f \in act[h].list :
            /\ act' = [act EXCEPT ![h].at = IF Few(f) THEN "owner" ELSE "count",
                                  ![h].file = f, ![h].list = @ \ {f}]
            /\ astray' = IF Few(f) /\ RefsOf(f) # {} /\ \A r \in RefsOf(f) : r[1] # act[h].note
                         THEN astray \cup {f} ELSE astray
  /\ UNCHANGED <<note, body, row, pending, old, refs, result, known, ops>>

\* ... and the note it is pending for; a failing query counts as none.
CheckOwner(h) ==
  /\ act[h].at = "owner"
  /\ LET f == act[h].file
     IN \E owner \in {pending[f]} \cup (IF Faults THEN {None} ELSE {}) :
          act' = [act EXCEPT ![h].at = "count", ![h].file = None,
                             ![h].todo = IF owner \in {None, act[h].note} THEN @ \cup {f} ELSE @]
  /\ UNCHANGED <<note, body, row, pending, old, refs, result, known, astray, ops>>

\* A failing query: the note is deleted all the same, without its files.
CollectFails(h) ==
  /\ Faults /\ act[h].at \in {"refs", "owned", "count"}
  /\ act' = [act EXCEPT ![h].at = "delete", ![h].list = {}, ![h].todo = {}]
  /\ UNCHANGED <<note, body, row, pending, old, refs, result, known, astray, ops>>

\* DELETE FROM notes, which cascades to its references and to the rows of its
\* pending files; a note that is already gone ends the handler.
DeleteNoteRow(h) ==
  /\ act[h].at = "delete"
  /\ LET n == act[h].note
     IN IF n \in notes
        THEN /\ note' = [note EXCEPT ![n] = "gone"]
             /\ refs' = {r \in refs : r[1] # n /\ r[2] \notin Cascade(n)}
             /\ row' = [f \in Files |-> IF f \in Cascade(n) THEN "gone" ELSE row[f]]
             /\ pending' = [f \in Files |-> IF pending[f] = n THEN None ELSE pending[f]]
             /\ Goto(h, "soft")
        ELSE Finished(h) /\ UNCHANGED <<note, refs, row, pending>>
  /\ UNCHANGED <<body, old, result, known, astray, ops>>

\* SoftDeleteFiles: one unconditional UPDATE per file.
SoftDelete(a) ==
  /\ act[a].at = "soft"
  /\ IF act[a].todo = {}
     THEN Finished(a) /\ UNCHANGED row
     ELSE \E f \in act[a].todo :
            /\ row' = [row EXCEPT ![f] = IF Exists(f) THEN "deleted" ELSE @]
            /\ act' = [act EXCEPT ![a].todo = @ \ {f}]
  /\ UNCHANGED <<note, body, pending, old, refs, result, known, astray, ops>>

\* RemoveAttachment: one transaction.
RemoveAttachment(h, n, f) ==
  /\ f \in known   \* the browser lists it
  /\ Request(h, Idle)
  /\ refs' = {r \in refs : r[1] # n \/ r[2] # f}
  /\ row' = [row EXCEPT ![f] = IF Exists(f) /\ RefsOf(f) \subseteq ({n} \X {f} \X Kinds)
                               THEN "deleted" ELSE @]
  /\ UNCHANGED <<note, body, pending, old, result, known, astray>>

-----------------------------------------------------------------------------
(* Creating a file: createFile, CreateAttachment, CreatePendingInline. *)

Upload(h, n, k) ==
  /\ Request(h, [Idle EXCEPT !.at = "insert", !.note = n, !.kind = k])
  /\ UNCHANGED <<note, body, row, pending, old, refs, result, known, astray>>

\* The last chunk of an inline upload: its finalization starts.
FinalizeUpload(u, n) ==
  /\ act[u].at = "idle" /\ n \in notes
  /\ act' = [act EXCEPT ![u].at = "insert", ![u].note = n]
  /\ UNCHANGED <<note, body, row, pending, old, refs, result, known, astray, ops>>

\* The transaction of createFile; the note lists an attachment from now on.
InsertFile(a) ==
  /\ act[a].at = "insert"
  /\ LET n == act[a].note  attached == act[a].kind = "attachment"
     IN IF n \in notes
        THEN \E f \in Files :
               /\ row[f] = "none"
               /\ row' = [row EXCEPT ![f] = "live"]
               /\ refs' = IF attached THEN refs \cup {<<n, f, "attachment">>} ELSE refs
               /\ known' = IF attached THEN known \cup {f} ELSE known
               /\ act' = [act EXCEPT ![a].at = "put", ![a].file = f]
        ELSE Finished(a) /\ UNCHANGED <<row, refs, known>>
  /\ UNCHANGED <<note, body, pending, old, result, astray, ops>>

\* At least one replica was stored.
Stored(a) ==
  /\ act[a].at = "put"
  /\ IF act[a].kind = "attachment" THEN Finished(a) ELSE Goto(a, "pend")
  /\ UNCHANGED <<note, body, row, pending, old, refs, result, known, astray, ops>>

\* The request was aborted or no replica was stored: cleanupFailedUpload first
\* deletes the references ...
StoreFailed(a) ==
  /\ act[a].at = "put"
  /\ \/ refs' = refs \ RefsOf(act[a].file) /\ UNCHANGED astray
     \/ Faults /\ UNCHANGED refs /\ astray' = astray \cup {act[a].file}
  /\ Goto(a, "abandon")
  /\ UNCHANGED <<note, body, row, pending, old, result, known, ops>>

\* ... and then the file; neither looks at errors.
Abandon(a) ==
  /\ act[a].at = "abandon"
  /\ \/ row' = [row EXCEPT ![act[a].file] = IF @ = "gone" THEN @ ELSE "deleted"]
     \/ Faults /\ UNCHANGED row
  /\ Finished(a)
  /\ UNCHANGED <<note, body, pending, old, refs, result, known, astray, ops>>

\* CreatePendingInline's UPDATE; it fails when the note is gone.
SetPending(a) ==
  /\ act[a].at = "pend"
  /\ LET n == act[a].note  f == act[a].file
     IN IF n \in notes
        THEN /\ pending' = [pending EXCEPT ![f] = n]
             /\ known' = IF a \in Handlers THEN known \cup {f} ELSE known
             /\ IF a \in Uploads THEN Goto(a, "record") ELSE Finished(a)
        ELSE Finished(a) /\ UNCHANGED <<pending, known>>
  /\ UNCHANGED <<note, body, row, old, refs, result, astray, ops>>

\* The session becomes done and carries the file; a failure is logged.
RecordResult(u) ==
  /\ act[u].at = "record"
  /\ \/ result' = [result EXCEPT ![u] = act[u].file]
     \/ Faults /\ UNCHANGED result
  /\ known' = known \cup {act[u].file}
  /\ Goto(u, "load")
  /\ UNCHANGED <<note, body, row, pending, old, refs, astray, ops>>

\* persistResolvedUploadPlaceholders: read the latest body and resolve it,
\* insert the result as a new body, reconcile.
LoadBody(u) ==
  /\ act[u].at = "load"
  /\ LET n == act[u].note
     IN \E b \in Resolved(n, body[n]) :
          IF n \in notes /\ b # body[n]
          THEN act' = [act EXCEPT ![u].at = "persist", ![u].body = b]
          ELSE Finished(u)
  /\ UNCHANGED <<note, body, row, pending, old, refs, result, known, astray, ops>>

PersistBody(u) ==
  /\ act[u].at = "persist"
  /\ IF act[u].note \in notes
     THEN Goto(u, "reconcile") /\ body' = [body EXCEPT ![act[u].note] = act[u].body]
     ELSE Finished(u) /\ UNCHANGED body
  /\ UNCHANGED <<note, row, pending, old, refs, result, known, astray, ops>>

\* Any other statement or transaction that fails ends its handler, finalization or job.
StatementFails(a) ==
  /\ Faults
  /\ act[a].at \in {"commit", "reconcile", "delete", "soft", "insert", "pend", "load", "persist"}
  /\ Finished(a)
  /\ UNCHANGED <<note, body, row, pending, old, refs, result, known, astray, ops>>

-----------------------------------------------------------------------------
(* The hourly cleanup. *)

\* Mutant: the comparison with the cutoff is turned round.
Abandoned_Young(f) == row[f] = "live" /\ pending[f] # None /\ f \notin old /\ RefsOf(f) = {}

Abandoned(f) == row[f] = "live" /\ pending[f] # None /\ f \in old /\ RefsOf(f) = {}

CleanupSelect ==
  /\ act[Cleaner].at = "idle"
  /\ \E f \in Files : Abandoned(f)
  /\ act' = [act EXCEPT ![Cleaner].at = "soft", ![Cleaner].todo = {f \in Files : Abandoned(f)}]
  /\ UNCHANGED <<note, body, row, pending, old, refs, result, known, astray, ops>>

\* An hour passes for a pending file.
HourPasses(f) ==
  /\ TimePasses /\ pending[f] # None /\ f \notin old
  /\ old' = old \cup {f}
  /\ UNCHANGED <<note, body, row, pending, refs, result, known, act, astray, ops>>

-----------------------------------------------------------------------------
ActorStep(a) ==
  \/ Reconcile(a) \/ SoftDelete(a) \/ InsertFile(a) \/ Stored(a) \/ StoreFailed(a)
  \/ Abandon(a) \/ SetPending(a) \/ StatementFails(a)

HandlerStep(h) ==
  \/ ResolveBody(h) \/ CommitUpdate(h) \/ DeleteNoteRow(h)
  \/ ListRefs(h) \/ ListPending(h) \/ CountRefs(h) \/ CheckOwner(h) \/ CollectFails(h)
UploadStep(u)  == RecordResult(u) \/ LoadBody(u) \/ PersistBody(u)

Next ==
  \/ \E h \in Handlers, n \in Notes :
       \/ \E b \in Bodies : CreateNote(h, n, b) \/ UpdateNote(h, n, b)
       \/ DeleteNote(h, n)
       \/ \E k \in Kinds : Upload(h, n, k)
       \/ \E f \in Files : RemoveAttachment(h, n, f)
  \/ \E u \in Uploads, n \in Notes : FinalizeUpload(u, n)
  \/ \E a \in Actors : ActorStep(a)
  \/ \E h \in Handlers : HandlerStep(h)
  \/ \E u \in Uploads : UploadStep(u)
  \/ CleanupSelect
  \/ \E f \in Files : HourPasses(f)

Spec == Init /\ [][Next]_vars

\* The cleanup is a cron job of the job system, which executes every run; its UPDATE
\* does not fail for ever; time passes.  Users owe nothing.
Fairness == /\ WF_vars(CleanupSelect) /\ SF_vars(SoftDelete(Cleaner))
            /\ \A f \in Files : WF_vars(HourPasses(f))

FairSpec == Spec /\ Fairness

-----------------------------------------------------------------------------
(* Properties. *)

\* A file attached to a note is not soft-deleted, whatever happens to other notes
\* that link to it and whichever statements fail, but for two cases: a deletion of
\* another note took the one reference it counted for its own, which was gone by
\* then, or a failed upload could not drop the reference it came with.
AttachmentLives ==
  \A r \in refs : r[3] = "attachment" => row[r[2]] = "live" \/ r[2] \in astray

\* CollectDeletableFilesAfterNoteDelete's comment: it returns files that "have no
\* remaining refs after the note is deleted".  Without the two cases.
AttachmentStays ==
  \A r \in refs : r[3] = "attachment" => row[r[2]] = "live"

\* A pending file nobody refers to is collected in the end.
PendingEnds ==
  \A f \in Files : (row[f] = "live" /\ pending[f] # None /\ RefsOf(f) = {})
                     ~> (row[f] # "live" \/ pending[f] = None \/ RefsOf(f) # {})

\* resolveUploadPlaceholders' comment: "This ensures inline uploads resolve
\* correctly even if the user saved and reloaded before upload completion": the
\* file that took the place of a placeholder in a note is not deleted.
ResolvedFileLives ==
  \A u \in Uploads : LET n == act[u].note  f == result[u] IN
    f # None /\ n \in notes /\ f \in body[n] => row[f] = "live"
=============================================================================
