------------------------------ MODULE MediaStore ------------------------------
(***************************************************************************)
(* The encrypted objects of a file and the rows of file_s3 that describe   *)
(* them: internal/media/service.go and cache.go.                           *)
(*                                                                         *)
(* Actors are the uploading request of each file (with one goroutine per   *)
(* endpoint), the workers of the job system that run repair, sweep and     *)
(* delete jobs, and the purge of unknown objects.  An operation of the     *)
(* object store, of the cache or of the database is one step.  Which notes *)
(* refer to a file is the subject of NoteFiles; here a file is soft-       *)
(* deleted at some point, also while it is being uploaded.  An operation   *)
(* of a store may fail after it took effect.  Many statements of this code *)
(* drop their error; with "faults" each of them may have changed nothing.  *)
(* All upload_failed replicas are taken to be due; rows of files are never *)
(* removed.                                                                *)
(***************************************************************************)
EXTENDS Integers, FiniteSets

CONSTANTS
  Files, Endpoints, Workers,
  Limit,       \* rows a sweep takes (10 in the code)
  Scenarios,   \* what may happen, in each scenario, of Events
  None

Events == {"purges",    \* DeleteUnknownS3Files is called
           "aborts",    \* a client aborts its upload
           "removals",  \* a user removes a file
           "crashes",   \* the process is killed
           "faults"}    \* statements fail whose error is dropped

ASSUME ConstantsAssumption ==
  /\ Limit \in Nat \ {0}
  /\ Scenarios \subseteq SUBSET Events
  /\ None \notin Files \cup Endpoints

VARIABLES
  row,      \* file -> "none", "live" or "deleted"
  up,       \* file -> what its uploading request does
  attempt,  \* file, endpoint -> what the goroutine of the request does (results)
  removal,  \* file -> how far a user's removal of it is
  replica,  \* file, endpoint -> file_s3.state
  retryAt,  \* file, endpoint -> file_s3.next_retry_at, as a position in time
  object,   \* file, endpoint -> is the object there?
  cache,    \* files in the local cache
  queued,   \* planned jobs
  work,     \* worker -> what it executes
  purge,    \* the purge under way
  raced,    \* history: files inserted while a purge was under way
  allowed   \* the scenario

vars == <<row, up, attempt, removal, replica, retryAt, object, cache, queued, work, purge, raced,
          allowed>>

Repair(f, e) == [op |-> "repair", file |-> f, ep |-> e]
Delete(f)    == [op |-> "delete", file |-> f, ep |-> None]
Sweep        == [op |-> "sweep", file |-> None, ep |-> None]
Jobs == {Repair(f, e) : f \in Files, e \in Endpoints} \cup {Delete(f) : f \in Files} \cup {Sweep}
Pairs == Files \X Endpoints

NoWork  == [at |-> "idle", job |-> Sweep, file |-> None, ep |-> None, todo |-> {}]
NoPurge == [at |-> "idle", known |-> {}, eps |-> {}, todo |-> {}]

TypeOK ==
  /\ row \in [Files -> {"none", "live", "deleted"}]
  /\ up \in [Files -> {"new", "store", "abandon", "clean", "cache", "acked", "failed", "killed"}]
  /\ attempt \in [Pairs -> {"put", "record", "uploaded", "upload_failed"}]
  /\ removal \in [Files -> {"no", "enqueue", "done"}]
  /\ replica \in [Pairs -> {"none", "uploading", "uploaded", "upload_failed", "deleted", "delete_failed"}]
  /\ retryAt \in [Pairs -> 0 .. Cardinality(Pairs)]
  /\ object \in [Pairs -> BOOLEAN]
  /\ cache \subseteq Files /\ raced \subseteq Files
  /\ queued \subseteq Jobs
  /\ allowed \in Scenarios
  /\ work \in [Workers -> [at : {"idle", "next", "load", "source", "put", "mark", "remove", "gone"},
                           job : Jobs, file : Files \cup {None}, ep : Endpoints \cup {None},
                           todo : SUBSET Pairs]]
  /\ purge \in [at : {"idle", "busy"}, known : SUBSET Files,
                eps : SUBSET Endpoints, todo : SUBSET Pairs]
  /\ \A f \in Files : \A e \in Endpoints : (replica[<<f, e>>] = "none") <=> (row[f] = "none")

Init ==
  /\ row = [f \in Files |-> "none"]
  /\ up = [f \in Files |-> "new"]
  /\ attempt = [p \in Pairs |-> "put"]
  /\ removal = [f \in Files |-> "no"]
  /\ replica = [p \in Pairs |-> "none"]
  /\ retryAt = [p \in Pairs |-> 0]
  /\ object = [p \in Pairs |-> FALSE]
  /\ cache = {} /\ raced = {} /\ queued = {}
  /\ work = [w \in Workers |-> NoWork]
  /\ purge = NoPurge
  /\ allowed \in Scenarios

\* An UPDATE of file_s3 whose error is dropped.
Written(f, e, state) ==
  \/ replica' = [replica EXCEPT ![<<f, e>>] = state]
  \/ "faults" \in allowed /\ UNCHANGED replica

Running == {work[w].job : w \in {v \in Workers : work[v].at # "idle"}}

-----------------------------------------------------------------------------
(* The uploading request: createFile. *)

\* One transaction: the file and a replica row per endpoint.
InsertFile(f) ==
  /\ up[f] = "new"
  /\ up' = [up EXCEPT ![f] = "store"]
  /\ row' = [row EXCEPT ![f] = "live"]
  /\ replica' = [p \in Pairs |-> IF p[1] = f THEN "uploading" ELSE replica[p]]
  /\ raced' = IF purge.at = "idle" THEN raced ELSE raced \cup {f}
  /\ UNCHANGED <<attempt, removal, retryAt, object, cache, queued, work, purge, allowed>>

\* A goroutine stores its object and then records the outcome, whatever has
\* become of the file meanwhile; for the request the replica is uploaded also
\* when the row could not be written and stays "uploading".
PutReplica(f, e) ==
  /\ up[f] = "store" /\ attempt[<<f, e>>] = "put"
  /\ attempt' = [attempt EXCEPT ![<<f, e>>] = "record"]
  /\ object' = [object EXCEPT ![<<f, e>>] = TRUE]
  /\ UNCHANGED <<row, up, removal, replica, retryAt, cache, queued, work, purge, raced, allowed>>

RecordReplica(f, e) ==
  /\ up[f] = "store" /\ attempt[<<f, e>>] = "record"
  /\ attempt' = [attempt EXCEPT ![<<f, e>>] = "uploaded"]
  /\ Written(f, e, "uploaded")
  /\ UNCHANGED <<row, up, removal, retryAt, object, cache, queued, work, purge, raced, allowed>>

\* Put fails: the next retry is a minute away, if that can be written.
PutFails(f, e) ==
  /\ up[f] = "store" /\ attempt[<<f, e>>] = "put"
  /\ attempt' = [attempt EXCEPT ![<<f, e>>] = "upload_failed"]
  /\ \/ /\ replica' = [replica EXCEPT ![<<f, e>>] = "upload_failed"]
        /\ retryAt' = [retryAt EXCEPT ![<<f, e>>] = Cardinality({p \in Pairs : retryAt[p] > 0}) + 1]
     \/ "faults" \in allowed /\ UNCHANGED <<replica, retryAt>>
  /\ \E there \in {object[<<f, e>>], TRUE} : object' = [object EXCEPT ![<<f, e>>] = there]
  /\ UNCHANGED <<row, up, removal, cache, queued, work, purge, raced, allowed>>

\* wg.Wait is over.
Answered(f) == up[f] = "store" /\ \A e \in Endpoints : attempt[<<f, e>>] \in {"uploaded", "upload_failed"}
Stored(f)   == {e \in Endpoints : attempt[<<f, e>>] = "uploaded"}

\* EnqueueFunc, whose error is dropped as well.
EnqueueAll(jobs) ==
  \E inserted \in {jobs} \cup (IF "faults" \in allowed THEN SUBSET jobs ELSE {}) :
    queued' = queued \cup (inserted \ Running)

\* Mutant: an upload without a single replica is accepted.
Accept_None(f) ==
  /\ Answered(f)
  /\ up' = [up EXCEPT ![f] = "cache"]
  /\ EnqueueAll({Repair(f, e) : e \in Endpoints \ Stored(f)})
  /\ UNCHANGED <<row, attempt, removal, replica, retryAt, object, cache, work, purge, raced, allowed>>

\* At least one replica is stored: repairs for the others.
Accept(f) ==
  /\ Answered(f) /\ Stored(f) # {}
  /\ up' = [up EXCEPT ![f] = "cache"]
  /\ EnqueueAll({Repair(f, e) : e \in Endpoints \ Stored(f)})
  /\ UNCHANGED <<row, attempt, removal, replica, retryAt, object, cache, work, purge, raced, allowed>>

\* The client went away, or nothing is stored.
Reject(f) ==
  /\ Answered(f) /\ ("aborts" \in allowed \/ Stored(f) = {})
  /\ up' = [up EXCEPT ![f] = "abandon"]
  /\ UNCHANGED <<row, attempt, removal, replica, retryAt, object, cache, queued, work, purge, raced, allowed>>

CachePut(f) ==
  /\ up[f] = "cache"
  /\ up' = [up EXCEPT ![f] = "acked"]
  /\ \/ cache' = cache \cup {f}
     \/ UNCHANGED cache
  /\ UNCHANGED <<row, attempt, removal, replica, retryAt, object, queued, work, purge, raced, allowed>>

\* cleanupFailedUpload: the row, if it can be written, then the objects; file_s3
\* keeps its states and no delete job is queued.
CleanupFailedUpload(f) ==
  /\ up[f] = "abandon"
  /\ \/ row' = [row EXCEPT ![f] = "deleted"]
     \/ "faults" \in allowed /\ UNCHANGED row
  /\ up' = [up EXCEPT ![f] = "clean"]
  /\ UNCHANGED <<attempt, removal, replica, retryAt, object, cache, queued, work, purge, raced, allowed>>

CleanupObjects(f) ==
  /\ up[f] = "clean"
  /\ \E kept \in SUBSET {e \in Endpoints : object[<<f, e>>]} :
       object' = [p \in Pairs |-> IF p[1] = f THEN p[2] \in kept ELSE object[p]]
  /\ up' = [up EXCEPT ![f] = "failed"]
  /\ UNCHANGED <<row, attempt, removal, replica, retryAt, cache, queued, work, purge, raced, allowed>>

\* A soft deletion (RemoveAttachment, ReconcileInlineRefs, SoftDeleteFiles),
\* then enqueueDelete.
SoftDelete(f) ==
  /\ "removals" \in allowed /\ row[f] # "none" /\ removal[f] = "no"
  /\ row' = [row EXCEPT ![f] = "deleted"]
  /\ removal' = [removal EXCEPT ![f] = "enqueue"]
  /\ UNCHANGED <<up, attempt, replica, retryAt, object, cache, queued, work, purge, raced, allowed>>

EnqueueDelete(f) ==
  /\ removal[f] = "enqueue"
  /\ EnqueueAll({Delete(f)})
  /\ removal' = [removal EXCEPT ![f] = "done"]
  /\ UNCHANGED <<row, up, attempt, replica, retryAt, object, cache, work, purge, raced, allowed>>

\* ReadFile fetches an object and fills the cache.
ReadFile(f) ==
  /\ row[f] # "none" /\ f \notin cache /\ \E e \in Endpoints : object[<<f, e>>]
  /\ cache' = cache \cup {f}
  /\ UNCHANGED <<row, up, attempt, removal, replica, retryAt, object, queued, work, purge, raced, allowed>>

-----------------------------------------------------------------------------
(* The jobs.  The job system never runs two identical jobs at once, drops   *)
(* a job that is planned or running already, and returns an interrupted one *)
(* to the queue (JobQueue).                                                 *)

\* The repair_replicas cron tick.
SweepTick ==
  /\ Sweep \notin queued \cup Running
  /\ queued' = queued \cup {Sweep}
  /\ UNCHANGED <<row, up, attempt, removal, replica, retryAt, object, cache, work, purge, raced, allowed>>

Failed == {p \in Pairs : replica[p] = "upload_failed"}

\* ORDER BY next_retry_at ASC LIMIT 10.
SweepSelection ==
  {p \in Failed : Cardinality({q \in Failed : retryAt[q] < retryAt[p]}) < Limit}

StartJob(w, j) ==
  /\ work[w].at = "idle" /\ j \in queued /\ j \notin Running
  /\ queued' = queued \ {j}
  /\ work' = [work EXCEPT ![w] =
       CASE j.op = "repair" -> [NoWork EXCEPT !.at = "load", !.job = j, !.file = j.file, !.ep = j.ep]
         [] j.op = "delete" -> [NoWork EXCEPT !.at = "remove", !.job = j, !.file = j.file,
                                              !.todo = {j.file} \X Endpoints]
         [] j.op = "sweep"  -> [NoWork EXCEPT !.at = "next", !.job = j, !.todo = SweepSelection]]
  /\ cache' = IF j.op = "delete" THEN cache \ {j.file} ELSE cache
  /\ UNCHANGED <<row, up, attempt, removal, replica, retryAt, object, purge, raced, allowed>>

\* A delete job cannot load its file, or a sweep its selection.
LoadFails(w, j) ==
  /\ work[w].at = "idle" /\ j \in queued /\ j \notin Running /\ j.op # "repair"
  /\ queued' = queued \ {j}
  /\ UNCHANGED <<row, up, attempt, removal, replica, retryAt, object, cache, work, purge, raced, allowed>>

\* A repair ends: the sweep goes on with its next row.
EndRepair(w) ==
  work' = [work EXCEPT ![w] = IF @.job = Sweep THEN [@ EXCEPT !.at = "next"] ELSE NoWork]

SweepNext(w) ==
  /\ work[w].at = "next"
  /\ IF work[w].todo = {}
     THEN work' = [work EXCEPT ![w] = NoWork]
     ELSE \E p \in work[w].todo :
            /\ \A q \in work[w].todo : retryAt[p] <= retryAt[q]
            /\ work' = [work EXCEPT ![w].at = "load", ![w].file = p[1], ![w].ep = p[2],
                                    ![w].todo = @ \ {p}]
  /\ UNCHANGED <<row, up, attempt, removal, replica, retryAt, object, cache, queued, purge, raced, allowed>>

\* repairReplica: a deleted file is skipped, without touching its row.
RepairLoad(w) ==
  /\ work[w].at = "load"
  /\ IF row[work[w].file] = "deleted"
     THEN EndRepair(w)
     ELSE work' = [work EXCEPT ![w].at = "source"]
  /\ UNCHANGED <<row, up, attempt, removal, replica, retryAt, object, cache, queued, purge, raced, allowed>>

\* The ciphertext comes from the cache or from another endpoint.
RepairSource(w) ==
  /\ work[w].at = "source"
  /\ LET f == work[w].file
     IN IF f \in cache \/ \E e \in Endpoints \ {work[w].ep} : object[<<f, e>>]
        THEN work' = [work EXCEPT ![w].at = "put"]
        ELSE EndRepair(w)
  /\ UNCHANGED <<row, up, attempt, removal, replica, retryAt, object, cache, queued, purge, raced, allowed>>

RepairPut(w) ==
  /\ work[w].at = "put"
  /\ object' = [object EXCEPT ![<<work[w].file, work[w].ep>>] = TRUE]
  /\ work' = [work EXCEPT ![w].at = "mark"]
  /\ UNCHANGED <<row, up, attempt, removal, replica, retryAt, cache, queued, purge, raced, allowed>>

\* A statement, a download or Put fails; the row keeps its state and its
\* next_retry_at, also when the object has been stored.
RepairFails(w) ==
  /\ work[w].at \in {"load", "source", "put", "mark"}
  /\ EndRepair(w)
  /\ \/ UNCHANGED object
     \/ /\ work[w].at = "put"
        /\ object' = [object EXCEPT ![<<work[w].file, work[w].ep>>] = TRUE]
  /\ UNCHANGED <<row, up, attempt, removal, replica, retryAt, cache, queued, purge, raced, allowed>>

RepairMark(w) ==
  /\ work[w].at = "mark"
  /\ replica' = [replica EXCEPT ![<<work[w].file, work[w].ep>>] = "uploaded"]
  /\ EndRepair(w)
  /\ UNCHANGED <<row, up, attempt, removal, retryAt, object, cache, queued, purge, raced, allowed>>

\* deleteReplicas: endpoint after endpoint, the object and then the row.
DeleteObject(w) ==
  /\ work[w].at = "remove"
  /\ IF work[w].todo = {}
     THEN work' = [work EXCEPT ![w] = NoWork] /\ UNCHANGED <<object, replica>>
     ELSE \E p \in work[w].todo :
            \/ /\ object' = [object EXCEPT ![p] = FALSE]
               /\ work' = [work EXCEPT ![w].at = "gone", ![w].ep = p[2], ![w].todo = @ \ {p}]
               /\ UNCHANGED replica
            \/ /\ Written(p[1], p[2], "delete_failed")
               /\ work' = [work EXCEPT ![w].todo = @ \ {p}]
               /\ \E there \in {object[p], FALSE} : object' = [object EXCEPT ![p] = there]
  /\ UNCHANGED <<row, up, attempt, removal, retryAt, cache, queued, purge, raced, allowed>>

DeleteMark(w) ==
  /\ work[w].at = "gone"
  /\ Written(work[w].file, work[w].ep, "deleted")
  /\ work' = [work EXCEPT ![w].at = "remove", ![w].ep = None]
  /\ UNCHANGED <<row, up, attempt, removal, retryAt, object, cache, queued, purge, raced, allowed>>

-----------------------------------------------------------------------------
(* DeleteUnknownS3Files. *)

\* Mutant: a file whose replication is incomplete is not known.
KnownFiles_Replicated ==
  {f \in Files : row[f] = "live" /\ \A e \in Endpoints : replica[<<f, e>>] = "uploaded"}

KnownFiles == {f \in Files : row[f] = "live"}

PurgeStart ==
  /\ "purges" \in allowed /\ purge.at = "idle"
  /\ purge' = [at |-> "busy", known |-> KnownFiles, eps |-> Endpoints, todo |-> {}]
  /\ UNCHANGED <<row, up, attempt, removal, replica, retryAt, object, cache, queued, work, raced, allowed>>

\* The listing of one endpoint (it may fail): what is there and not known.
PurgeList(e) ==
  /\ purge.at = "busy" /\ purge.todo = {} /\ e \in purge.eps
  /\ \E seen \in {{}, {f \in Files : object[<<f, e>>]}} :
       purge' = [purge EXCEPT !.eps = @ \ {e}, !.todo = (seen \ purge.known) \X {e}]
  /\ UNCHANGED <<row, up, attempt, removal, replica, retryAt, object, cache, queued, work, raced, allowed>>

\* One object of the listing; the deletion may fail.
PurgeObject(p) ==
  /\ p \in purge.todo
  /\ purge' = [purge EXCEPT !.todo = @ \ {p}]
  /\ \/ object' = [object EXCEPT ![p] = FALSE]
     \/ UNCHANGED object
  /\ UNCHANGED <<row, up, attempt, removal, replica, retryAt, cache, queued, work, raced, allowed>>

PurgeEnd ==
  /\ purge.at = "busy" /\ purge.eps = {} /\ purge.todo = {}
  /\ purge' = NoPurge
  /\ UNCHANGED <<row, up, attempt, removal, replica, retryAt, object, cache, queued, work, raced, allowed>>

\* The process is killed: requests and the purge are over (an upload that has
\* failed, or whose browser knows of its success, stays what it is), interrupted
\* jobs go back to the queue.
Crash ==
  /\ "crashes" \in allowed
  /\ up' = [f \in Files |-> IF up[f] \in {"new", "acked", "failed"} THEN up[f] ELSE "killed"]
  /\ removal' = [f \in Files |-> IF removal[f] = "no" THEN "no" ELSE "done"]
  /\ queued' = queued \cup Running
  /\ work' = [w \in Workers |-> NoWork]
  /\ purge' = NoPurge
  /\ UNCHANGED <<row, attempt, replica, retryAt, object, cache, raced, allowed>>

-----------------------------------------------------------------------------
UploadStep(f) ==
  \/ \E e \in Endpoints : PutReplica(f, e) \/ RecordReplica(f, e) \/ PutFails(f, e)
  \/ Accept(f) \/ Reject(f) \/ CachePut(f) \/ CleanupFailedUpload(f) \/ CleanupObjects(f)

JobStep(w) ==
  \/ \E j \in Jobs : StartJob(w, j) \/ LoadFails(w, j)
  \/ SweepNext(w) \/ RepairLoad(w) \/ RepairSource(w) \/ RepairPut(w) \/ RepairFails(w)
  \/ RepairMark(w) \/ DeleteObject(w) \/ DeleteMark(w)

Next ==
  \/ \E f \in Files : InsertFile(f) \/ UploadStep(f) \/ SoftDelete(f) \/ EnqueueDelete(f) \/ ReadFile(f)
  \/ SweepTick
  \/ \E w \in Workers : JobStep(w)
  \/ PurgeStart \/ (\E e \in Endpoints : PurgeList(e)) \/ (\E p \in Pairs : PurgeObject(p)) \/ PurgeEnd
  \/ Crash

Spec == Init /\ [][Next]_vars

-----------------------------------------------------------------------------
(* Properties. *)

\* A file a browser was told about can be read as long as it is not deleted: some
\* endpoint has its object (ReadFile asks them all, whatever file_s3 says of them).
\* A purge that was under way when the file was inserted may take it away.
LiveIsReadable ==
  \A f \in Files : up[f] = "acked" /\ row[f] = "live" /\ f \notin raced =>
    \E e \in Endpoints : object[<<f, e>>]

\* What file_s3 says of a live file is true, whatever repairs, deletions and
\* crashes happen around it and whichever of its UPDATEs are lost.  Left out are
\* uploads that failed: their objects are gone, and file_s3 is not told.
UploadedIsStored ==
  \A p \in Pairs :
    row[p[1]] = "live" /\ up[p[1]] # "failed" /\ replica[p] = "uploaded" /\ p[1] \notin raced =>
      object[p]

\* README: the sweep "heals any replicas that failed during upload".  A repair
\* never changes the row of a deleted file, so a selection of such rows only is
\* made again by every sweep to come; a replica whose own repair is over then
\* waits for ever.
SweepReachesLive ==
  \A p \in Failed :
    /\ up[p[1]] = "acked" /\ row[p[1]] = "live"
    /\ Repair(p[1], p[2]) \notin queued \cup Running
    =>
    \E q \in SweepSelection : row[q[1]] = "live"

\* DeleteUnknownS3Files' comment: it "permanently deletes objects no longer
\* referenced": a file a browser was told about stays on some endpoint until it
\* is deleted.
PurgeKeepsLive ==
  \A f \in Files : up[f] = "acked" /\ row[f] = "live" => \E e \in Endpoints : object[<<f, e>>]
=============================================================================
