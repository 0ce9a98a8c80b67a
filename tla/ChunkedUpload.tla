---------------------------- MODULE ChunkedUpload ----------------------------
(***************************************************************************)
(* Chunked uploads of one file to one note: the handlers of                *)
(* internal/server/chunked_upload.go with their upload_sessions rows and   *)
(* chunk files, and the browser side, frontend/src/workers/uploadWorker.js *)
(* with the chunk store of IndexedDB.                                      *)
(*                                                                         *)
(* A client is one run of doUpload or doResume.  A slot is a goroutine of  *)
(* the server: a request handler or a finalization in the background.      *)
(* Between two database statements or file operations of a goroutine every *)
(* other one may step.                                                     *)
(***************************************************************************)
EXTENDS Integers, FiniteSets, FiniteSetsExt

CONSTANTS
  Clients, Slots,  \* worker runs of the browser; goroutines of the server
  N,               \* chunks of the file
  None,
  MaxSessions,     \* bound on the sessions
  MaxLost,         \* bound on answers lost and tabs closed, together
  MaxCrashes,      \* bound on the server's crashes
  MaxFaults,       \* bound on the failing statements of the database
  StorageFails,    \* may the media service and the files of the chunks fail?
  CancelAllowed,   \* does the user cancel?
  Expiry           \* may a session grow older than 12 hours?

ASSUME ConstantsAssumption ==
  /\ N \in Nat \ {0} /\ MaxSessions \in Nat
  /\ MaxLost \in Nat /\ MaxCrashes \in Nat /\ MaxFaults \in Nat
  /\ StorageFails \in BOOLEAN /\ CancelAllowed \in BOOLEAN /\ Expiry \in BOOLEAN
  /\ None \notin Clients \cup Slots

VARIABLES
  rows,     \* upload_sessions; the ids count up, newest last
  used,     \* sessions inserted so far
  expired,  \* sessions past expires_at
  disk,     \* chunk files: "none", "torn" (truncated, being written), "whole"
  files,    \* history: how many intact and broken files each session has produced
  unwritten,\* history: sessions whose final status could not be written
  slots,
  clients,
  staged,   \* placeholder token of the IndexedDB entry of the file, or None
  acked,    \* history: chunks a client was told the server has received
  budget    \* what is left of the bounds on losses

server == <<rows, used, expired, disk, files, unwritten>>
vars   == <<rows, used, expired, disk, files, unwritten, slots, clients, staged, acked, budget>>

Chunks   == 1 .. N
Sids     == 1 .. MaxSessions
Finalizing == {"assembling", "verifying", "processing"}
Terminal   == {"done", "failed"}

NoRow   == [status |-> "absent", done |-> {}, token |-> None]
Idle    == [op |-> "none", pc |-> "idle", client |-> None, token |-> None, sid |-> 0,
            chunk |-> 0, seen |-> {}, whole |-> TRUE]
NewClient == [pc |-> "new", at |-> None, token |-> None, sid |-> 0, have |-> {}, tries |-> 0]

TypeOK ==
  /\ rows \in [Sids -> [status : {"absent", "uploading"} \cup Finalizing \cup Terminal,
                        done : SUBSET Chunks, token : Clients \cup {None}]]
  /\ used \in 0 .. MaxSessions
  /\ expired \in SUBSET Sids
  /\ disk \in [Sids -> [Chunks -> {"none", "torn", "whole"}]]
  /\ files \in [Sids -> [BOOLEAN -> 0 .. Cardinality(Slots)]]
  /\ unwritten \in SUBSET Sids
  /\ slots \in [Slots -> [op : {"none", "start", "chunk", "finish", "cancel"},
       pc : {"idle", "load", "insert", "truncate", "write", "read", "update", "claim",
             "check", "assemble", "verify", "store", "record", "delete"},
       client : Clients \cup {None}, token : Clients \cup {None}, sid : 0 .. MaxSessions,
       chunk : 0 .. N, seen : SUBSET Chunks, whole : BOOLEAN]]
  /\ clients \in [Clients -> [pc : {"new", "start", "send", "finish", "cancel", "poll",
                                    "clean", "complete", "error", "closed"},
       at : Slots \cup {None}, token : Clients \cup {None}, sid : 0 .. MaxSessions,
       have : SUBSET Chunks, tries : 0 .. 2]]
  /\ staged \in Clients \cup {None}
  /\ acked \in [Sids -> SUBSET Chunks]
  /\ budget \in [lost : 0 .. MaxLost, crashes : 0 .. MaxCrashes, faults : 0 .. MaxFaults]

Init ==
  /\ rows = [s \in Sids |-> NoRow]
  /\ used = 0
  /\ expired = {}
  /\ disk = [s \in Sids |-> [i \in Chunks |-> "none"]]
  /\ files = [s \in Sids |-> [intact \in BOOLEAN |-> 0]]
  /\ unwritten = {}
  /\ slots = [h \in Slots |-> Idle]
  /\ clients = [c \in Clients |-> NewClient]
  /\ staged = None
  /\ acked = [s \in Sids |-> {}]
  /\ budget = [lost |-> MaxLost, crashes |-> MaxCrashes, faults |-> MaxFaults]

-----------------------------------------------------------------------------
(* The browser. *)

\* What a worker run does with an answer: doUpload and doResume from phase 3 on.
\* uploadChunkWithRetry gives up at the third failure.
React(cl, r) ==
  LET now == [cl EXCEPT !.at = None]
      done == [now EXCEPT !.pc = "clean"]
      failed == [now EXCEPT !.pc = "error"]
  IN CASE cl.pc = "start" /\ r.kind = "session" ->
            [now EXCEPT !.sid = r.sid, !.have = r.have,
                        !.pc = IF r.have = Chunks THEN "poll" ELSE "send"]
       [] cl.pc = "send" /\ r.kind = "received" ->
            [now EXCEPT !.have = @ \cup {r.chunk}, !.tries = 0]
       [] cl.pc = "send" /\ r.kind # "received" /\ cl.tries < 2 -> [now EXCEPT !.tries = @ + 1]
       [] cl.pc = "finish" /\ r.kind = "created" -> done
       [] cl.pc = "finish" /\ r.kind = "already being finalized" -> [now EXCEPT !.pc = "poll"]
       [] OTHER -> failed

Reply(kind) == [kind |-> kind, sid |-> 0, have |-> {}, chunk |-> 0]

\* Client c sends a request; the handler runs in a free slot.
Request(c, h, op, cl) ==
  /\ slots[h] = Idle
  /\ clients' = [clients EXCEPT ![c] = [cl EXCEPT !.at = h]]
  /\ slots' = [slots EXCEPT ![h] =
       [Idle EXCEPT !.op = op, !.pc = "load", !.client = c, !.token = cl.token, !.sid = cl.sid,
                    !.chunk = IF op = "chunk" THEN Min(Chunks \ cl.have) ELSE 0]]

\* doUpload: every chunk is put into IndexedDB, whose entry keeps the
\* placeholder token of the run that made it; then /start.
Upload(c, h) ==
  /\ clients[c].pc = "new"
  /\ Request(c, h, "start", [NewClient EXCEPT !.pc = "start", !.token = c])
  /\ staged' = IF staged = None THEN c ELSE staged
  /\ UNCHANGED <<server, acked, budget>>

\* doResume: a page finds the entry in IndexedDB when it is opened.
Resume(c, h) ==
  /\ clients[c].pc = "new" /\ staged # None
  /\ Request(c, h, "start", [NewClient EXCEPT !.pc = "start", !.token = staged])
  /\ UNCHANGED <<server, staged, acked, budget>>

SendChunk(c, h) ==
  /\ clients[c].pc = "send" /\ clients[c].at = None /\ clients[c].have # Chunks
  /\ staged # None
  /\ Request(c, h, "chunk", clients[c])
  /\ UNCHANGED <<server, staged, acked, budget>>

\* Another run of the same file has completed and deleted its chunks.
ChunkMissing(c) ==
  /\ clients[c].pc = "send" /\ clients[c].at = None /\ clients[c].have # Chunks
  /\ staged = None
  /\ clients' = [clients EXCEPT ![c].pc = "error"]
  /\ UNCHANGED <<server, slots, staged, acked, budget>>

Finish(c, h) ==
  /\ clients[c].pc = "send" /\ clients[c].at = None /\ clients[c].have = Chunks
  /\ Request(c, h, "finish", [clients[c] EXCEPT !.pc = "finish"])
  /\ UNCHANGED <<server, staged, acked, budget>>

\* The abort flag is looked at between two chunks.
Cancel(c, h) ==
  /\ CancelAllowed
  /\ clients[c].pc = "send" /\ clients[c].at = None /\ clients[c].have # Chunks
  /\ Request(c, h, "cancel", [clients[c] EXCEPT !.pc = "cancel"])
  /\ UNCHANGED <<server, staged, acked, budget>>

\* pollFinishStatus returns for "done" only.
Poll(c) ==
  /\ clients[c].pc = "poll"
  /\ rows[clients[c].sid].status = "done"
  /\ clients' = [clients EXCEPT ![c].pc = "clean"]
  /\ UNCHANGED <<server, slots, staged, acked, budget>>

\* deleteChunkEntry, then "complete" is posted.
CleanUp(c) ==
  /\ clients[c].pc = "clean"
  /\ clients' = [clients EXCEPT ![c].pc = "complete"]
  /\ staged' = None
  /\ UNCHANGED <<server, slots, acked, budget>>

\* The connection breaks, the handler goes on.
LoseAnswer(c) ==
  /\ clients[c].at # None /\ budget.lost > 0
  /\ clients' = [clients EXCEPT ![c] = React(@, Reply("lost"))]
  /\ budget' = [budget EXCEPT !.lost = @ - 1]
  /\ UNCHANGED <<server, slots, staged, acked>>

CloseTab(c) ==
  /\ clients[c].pc \notin {"new", "complete", "error", "closed"} /\ budget.lost > 0
  /\ clients' = [clients EXCEPT ![c].pc = "closed", ![c].at = None]
  /\ budget' = [budget EXCEPT !.lost = @ - 1]
  /\ UNCHANGED <<server, slots, staged, acked>>

-----------------------------------------------------------------------------
(* The server. *)

At(h, op, pc) == slots[h].op = op /\ slots[h].pc = pc

Found(s) == s \in Sids /\ rows[s].status # "absent"

\* A statement fails while faults are left.
Faulty == budget.faults > 0 /\ budget' = [budget EXCEPT !.faults = @ - 1]

\* updateUploadStatus: a failing UPDATE is logged, and the finalization goes on
\* as if it had written; an UPDATE of a deleted row changes nothing.
SetStatus(s, status) ==
  \/ /\ rows' = [rows EXCEPT ![s].status = IF @ = "absent" THEN "absent" ELSE status]
     /\ UNCHANGED <<unwritten, budget>>
  \/ /\ Faulty
     /\ unwritten' = IF status \in Terminal THEN unwritten \cup {s} ELSE unwritten
     /\ UNCHANGED rows

\* The slot goes to pc; the answer r, if it is one, reaches a waiting client.
Goto(h, slot) == slots' = [slots EXCEPT ![h] = slot]
Answer(h, r) ==
  clients' = [c \in Clients |-> IF clients[c].at = h THEN React(clients[c], r) ELSE clients[c]]
End(h, r) == Goto(h, Idle) /\ Answer(h, r)

\* handleChunkedStart: a live or completed session of the placeholder token,
\* else an unfinished one of the file hash; the newest of several.  A failing
\* lookup is taken for one that finds nothing.
ExistingSession(token, failing) ==
  LET live == {s \in Sids \ expired : Found(s) /\ rows[s].status # "failed"}
      byToken == {s \in live : rows[s].token = token}
      byHash == {s \in live : rows[s].status # "done"}
  IN IF byToken # {} /\ "token" \notin failing THEN Max(byToken)
     ELSE IF byHash # {} /\ "hash" \notin failing THEN Max(byHash) ELSE 0

StartLookup(h) ==
  /\ At(h, "start", "load")
  /\ \E failing \in SUBSET {"token", "hash"} :
       LET s == ExistingSession(slots[h].token, failing) IN
       /\ Cardinality(failing) <= budget.faults
       /\ budget' = [budget EXCEPT !.faults = @ - Cardinality(failing)]
       /\ IF s # 0
          THEN End(h, [Reply("session") EXCEPT !.sid = s, !.have = rows[s].done])
          ELSE Goto(h, [slots[h] EXCEPT !.pc = "insert"]) /\ UNCHANGED clients
  /\ UNCHANGED <<server, staged, acked>>

StartInsert(h) ==
  /\ At(h, "start", "insert") /\ used < MaxSessions
  /\ used' = used + 1
  /\ rows' = [rows EXCEPT ![used'] = [status |-> "uploading", done |-> {}, token |-> slots[h].token]]
  /\ End(h, [Reply("session") EXCEPT !.sid = used'])
  /\ UNCHANGED <<expired, disk, files, unwritten, staged, acked, budget>>

\* What an acknowledged chunk means for the client.
Received(h) == [Reply("received") EXCEPT !.chunk = slots[h].chunk]
Acknowledge(h) == acked' = [acked EXCEPT ![slots[h].sid] = @ \cup {slots[h].chunk}]

\* handleChunkedChunk: the row is loaded once; a recorded chunk is not written again.
ChunkLoad(h) ==
  LET s == slots[h].sid IN
  /\ At(h, "chunk", "load")
  /\ CASE ~Found(s) \/ s \in expired -> End(h, Reply("no session")) /\ UNCHANGED acked
       [] Found(s) /\ s \notin expired /\ slots[h].chunk \in rows[s].done ->
            End(h, Received(h)) /\ Acknowledge(h)
       [] OTHER -> Goto(h, [slots[h] EXCEPT !.pc = "truncate"]) /\ UNCHANGED <<clients, acked>>
  /\ UNCHANGED <<server, staged, budget>>

\* os.WriteFile truncates the file and then writes it.
ChunkTruncate(h) ==
  /\ At(h, "chunk", "truncate")
  /\ disk' = [disk EXCEPT ![slots[h].sid][slots[h].chunk] = "torn"]
  /\ Goto(h, [slots[h] EXCEPT !.pc = "write"])
  /\ UNCHANGED <<rows, used, expired, files, unwritten, clients, staged, acked, budget>>

ChunkWrite(h) ==
  /\ At(h, "chunk", "write")
  /\ disk' = [disk EXCEPT ![slots[h].sid][slots[h].chunk] = IF @ = "none" THEN @ ELSE "whole"]
  /\ Goto(h, [slots[h] EXCEPT !.pc = "read"])
  /\ UNCHANGED <<rows, used, expired, files, unwritten, clients, staged, acked, budget>>

\* addChunkDone: a SELECT and an UPDATE.
ReadDone(h) ==
  LET s == slots[h].sid IN
  /\ At(h, "chunk", "read")
  /\ IF Found(s)
     THEN Goto(h, [slots[h] EXCEPT !.pc = "update", !.seen = rows[s].done]) /\ UNCHANGED clients
     ELSE End(h, Reply("no session"))
  /\ UNCHANGED <<server, staged, acked, budget>>

\* The last chunk starts a finalization in the background.
UpdateDone(h) ==
  LET s == slots[h].sid
      done == slots[h].seen \cup {slots[h].chunk}
  IN
  /\ At(h, "chunk", "update")
  /\ rows' = [rows EXCEPT ![s].done = IF Found(s) THEN done ELSE @]
  /\ Answer(h, Received(h)) /\ Acknowledge(h)
  /\ Goto(h, IF done = Chunks THEN [Idle EXCEPT !.op = "finish", !.pc = "load", !.sid = s] ELSE Idle)
  /\ UNCHANGED <<used, expired, disk, files, unwritten, staged, budget>>

\* finalizeChunkedUploadSession: the row it works with is loaded before the claim.
Refusal(s) ==
  CASE ~Found(s)                         -> "no session"
    [] rows[s].status \in Finalizing     -> "already being finalized"
    [] rows[s].status = "done"           -> "already completed"
    [] OTHER                             -> "terminal state"

FinishLoad(h) ==
  LET s == slots[h].sid IN
  /\ At(h, "finish", "load")
  /\ IF Found(s) /\ s \notin expired /\ rows[s].status = "uploading"
     THEN Goto(h, [slots[h] EXCEPT !.pc = "claim", !.seen = rows[s].done]) /\ UNCHANGED clients
     ELSE End(h, Reply(IF s \in expired THEN "expired" ELSE Refusal(s)))
  /\ UNCHANGED <<server, staged, acked, budget>>

\* Mutant: the UPDATE does not compare the status.
ClaimFinalization_Always(h) ==
  /\ At(h, "finish", "claim")
  /\ SetStatus(slots[h].sid, "assembling")
  /\ Goto(h, [slots[h] EXCEPT !.pc = "check", !.chunk = 1])
  /\ UNCHANGED <<used, expired, disk, files, clients, staged, acked>>

ClaimFinalization(h) ==
  LET s == slots[h].sid IN
  /\ At(h, "finish", "claim")
  /\ IF Found(s) /\ rows[s].status = "uploading"
     THEN /\ rows' = [rows EXCEPT ![s].status = "assembling"]
          /\ Goto(h, [slots[h] EXCEPT !.pc = "check", !.chunk = 1])
          /\ UNCHANGED clients
     ELSE End(h, Reply(Refusal(s))) /\ UNCHANGED rows
  /\ UNCHANGED <<used, expired, disk, files, unwritten, staged, acked, budget>>

\* Mutant: an error path forgets updateUploadStatus.
Fail_KeepsStatus(h, reason) ==
  /\ UNCHANGED <<rows, unwritten, budget>>
  /\ End(h, Reply(reason))

Fail(h, reason) ==
  /\ SetStatus(slots[h].sid, "failed")
  /\ End(h, Reply(reason))

\* The worker goes to the given state; the status is not written.
GoOn(h, slot) == Goto(h, slot) /\ UNCHANGED <<rows, unwritten, budget, clients>>

CheckComplete(h) ==
  /\ At(h, "finish", "check")
  /\ IF slots[h].seen = Chunks
     THEN GoOn(h, [slots[h] EXCEPT !.pc = "assemble"])
     ELSE Fail(h, "not all chunks received")
  /\ UNCHANGED <<used, expired, disk, files, staged, acked>>

\* One chunk file after the other; the assembled file is created with the first
\* and closed with the last.
AssembleChunk(h) ==
  LET s == slots[h].sid
      i == slots[h].chunk
      read == [slots[h] EXCEPT !.whole = @ /\ disk[s][i] = "whole"]
  IN
  /\ At(h, "finish", "assemble")
  /\ \/ disk[s][i] # "none" /\ i < N /\ GoOn(h, [read EXCEPT !.chunk = i + 1])
     \/ /\ disk[s][i] # "none" /\ i = N
        /\ SetStatus(s, "verifying")
        /\ Goto(h, [read EXCEPT !.chunk = 0, !.pc = "verify"])
        /\ UNCHANGED clients
     \/ (disk[s][i] = "none" \/ StorageFails) /\ Fail(h, "missing chunk")
  /\ UNCHANGED <<used, expired, disk, files, staged, acked>>

\* The worker always sends file_sha256.
\* Mutant: the hash of the assembled file is not compared.
Verify_Skipped(h) ==
  /\ At(h, "finish", "verify")
  /\ SetStatus(slots[h].sid, "processing")
  /\ Goto(h, [slots[h] EXCEPT !.pc = "store"])
  /\ UNCHANGED <<used, expired, disk, files, clients, staged, acked>>

Verify(h) ==
  /\ At(h, "finish", "verify")
  /\ IF slots[h].whole
     THEN /\ SetStatus(slots[h].sid, "processing")
          /\ Goto(h, [slots[h] EXCEPT !.pc = "store"])
          /\ UNCHANGED clients
     ELSE Fail(h, "sha256 mismatch")
  /\ UNCHANGED <<used, expired, disk, files, staged, acked>>

\* The assembled file is opened; CreatePendingInline or CreateAttachment.
\* Mutant: an error of the media service is not looked at.
StoreFile_IgnoresError(h) ==
  /\ At(h, "finish", "store")
  /\ \/ files' = [files EXCEPT ![slots[h].sid][slots[h].whole] = @ + 1]
     \/ StorageFails /\ UNCHANGED files
  /\ GoOn(h, [slots[h] EXCEPT !.pc = "record"])
  /\ UNCHANGED <<used, expired, disk, staged, acked>>

StoreFile(h) ==
  /\ At(h, "finish", "store")
  /\ \/ /\ files' = [files EXCEPT ![slots[h].sid][slots[h].whole] = @ + 1]
        /\ GoOn(h, [slots[h] EXCEPT !.pc = "record"])
     \/ /\ StorageFails
        /\ Fail(h, "store failed")
        /\ UNCHANGED files
  /\ UNCHANGED <<used, expired, disk, staged, acked>>

\* The directory is removed and "created" answered also when the UPDATE fails.
RecordResult(h) ==
  /\ At(h, "finish", "record")
  /\ SetStatus(slots[h].sid, "done")
  /\ disk' = [disk EXCEPT ![slots[h].sid] = [i \in Chunks |-> "none"]]
  /\ End(h, Reply("created"))
  /\ UNCHANGED <<used, expired, files, staged, acked>>

\* handleChunkedCancel: the directory goes before the row.
CancelFiles(h) ==
  LET s == slots[h].sid IN
  /\ At(h, "cancel", "load")
  /\ IF Found(s)
     THEN /\ disk' = [disk EXCEPT ![s] = [i \in Chunks |-> "none"]]
          /\ Goto(h, [slots[h] EXCEPT !.pc = "delete"])
          /\ UNCHANGED clients
     ELSE End(h, Reply("no session")) /\ UNCHANGED disk
  /\ UNCHANGED <<rows, used, expired, files, unwritten, staged, acked, budget>>

CancelRow(h) ==
  /\ At(h, "cancel", "delete")
  /\ rows' = [rows EXCEPT ![slots[h].sid] = NoRow]
  /\ End(h, Reply("cancelled"))
  /\ UNCHANGED <<used, expired, disk, files, unwritten, staged, acked, budget>>

\* Where a failing statement, or writing a chunk file, ends the request: with an
\* error or "not found"; a cancel does not look at the error of its DELETE.
Fallible == {<<"start", "insert">>, <<"chunk", "load">>, <<"chunk", "read">>, <<"chunk", "update">>,
             <<"finish", "load">>, <<"finish", "claim">>, <<"cancel", "load">>, <<"cancel", "delete">>}
Writing  == {<<"chunk", "truncate">>, <<"chunk", "write">>}

StepFails(h) ==
  /\ \/ <<slots[h].op, slots[h].pc>> \in Fallible /\ Faulty
     \/ <<slots[h].op, slots[h].pc>> \in Writing /\ StorageFails /\ UNCHANGED budget
  /\ End(h, Reply("error"))
  /\ UNCHANGED <<server, staged, acked>>

\* Twelve hours pass while nobody works on the session.
Expire(s) ==
  /\ Expiry /\ Found(s) /\ s \notin expired
  /\ \A h \in Slots : slots[h].sid # s
  /\ expired' = expired \cup {s}
  /\ UNCHANGED <<rows, used, disk, files, unwritten, slots, clients, staged, acked, budget>>

\* The process dies and is started again: CleanupExpiredUploadSessions.
Crash ==
  /\ budget.crashes > 0
  /\ budget' = [budget EXCEPT !.crashes = @ - 1]
  /\ slots' = [h \in Slots |-> Idle]
  /\ clients' = [c \in Clients |-> IF clients[c].at # None THEN React(clients[c], Reply("lost"))
                                                            ELSE clients[c]]
  /\ rows' = [s \in Sids |-> IF s \in expired THEN NoRow ELSE rows[s]]
  /\ disk' = [s \in Sids |-> IF s \in expired /\ Found(s) THEN [i \in Chunks |-> "none"] ELSE disk[s]]
  /\ UNCHANGED <<used, expired, files, unwritten, staged, acked>>

-----------------------------------------------------------------------------
SlotStep(h) ==
  \/ StartLookup(h) \/ StartInsert(h)
  \/ ChunkLoad(h) \/ ChunkTruncate(h) \/ ChunkWrite(h) \/ ReadDone(h) \/ UpdateDone(h)
  \/ FinishLoad(h) \/ ClaimFinalization(h) \/ CheckComplete(h) \/ AssembleChunk(h)
  \/ Verify(h) \/ StoreFile(h) \/ RecordResult(h)
  \/ CancelFiles(h) \/ CancelRow(h) \/ StepFails(h)

ClientStep(c) ==
  \/ \E h \in Slots : SendChunk(c, h) \/ Finish(c, h)
  \/ ChunkMissing(c) \/ Poll(c) \/ CleanUp(c)

Next ==
  \/ \E h \in Slots : SlotStep(h)
  \/ \E c \in Clients : \/ ClientStep(c) \/ LoseAnswer(c) \/ CloseTab(c)
                        \/ \E h \in Slots : Upload(c, h) \/ Resume(c, h) \/ Cancel(c, h)
  \/ \E s \in Sids : Expire(s)
  \/ Crash

Spec == Init /\ [][Next]_vars

\* Goroutines run; an open worker goes on as soon as the server accepts requests.
Fairness == /\ \A h \in Slots : WF_vars(SlotStep(h))
            /\ \A c \in Clients : WF_vars(ClientStep(c))
FairSpec == Spec /\ Fairness

-----------------------------------------------------------------------------
(* Properties. *)

\* The claim admits one finalization per session, however many requests, tabs,
\* background finalizations and restarts there are.
OneFilePerSession == \A s \in Sids : files[s][TRUE] + files[s][FALSE] <= 1

\* A chunk rewritten by a late duplicate while it is assembled never becomes
\* part of a stored file.
IntactFiles == \A s \in Sids : files[s][FALSE] = 0

\* A session is done only after its file has been stored.
DoneHasFile == \A s \in Sids : rows[s].status = "done" => files[s][TRUE] = 1

\* A recorded chunk has a file on disk as long as chunks are accepted.
RecordedIsStored ==
  \A s \in Sids :
    rows[s].status = "uploading" /\ (\A h \in Slots : At(h, "cancel", "delete") => slots[h].sid # s)
      => \A i \in rows[s].done : disk[s][i] # "none"

\* The status of a session only moves forward; done and failed are final.
Stage == [absent |-> 6, uploading |-> 1, assembling |-> 2, verifying |-> 3, processing |-> 4,
          failed |-> 5, done |-> 5]
StatusMovesForward ==
  [][\A s \in Sids : rows[s].status \notin {"absent", rows'[s].status} =>
       Stage[rows[s].status] < Stage[rows'[s].status]]_vars

\* Without a crash every claimed session reaches a final status (or is cancelled),
\* also when the write of an earlier status was lost; only one whose final UPDATE
\* itself failed, which is logged and not tried again, stays claimed.
FinalizationEnds ==
  \A s \in Sids : rows[s].status \in Finalizing ~>
    rows[s].status \in Terminal \cup {"absent"} \/ s \in unwritten

\* One tab on a reliable network gets its file stored.
UploadSucceeds == \A s \in Sids : Found(s) ~> rows[s].status = "done"

\* "Once the final chunk lands, the server can finalize the upload on its own":
\* a session all of whose chunks were acknowledged is completed.
LandedIsFinalized == \A s \in Sids : acked[s] = Chunks ~> rows[s].status = "done"

\* "If this exact placeholder token already has a live or completed upload
\* session, return it": a token has one such session.
OneSessionPerToken ==
  \A s, t \in Sids : s # t /\ Found(s) /\ Found(t) /\ rows[s].token = rows[t].token =>
    "failed" \in {rows[s].status, rows[t].status}

\* The worker "can get the file record even if finish returned 409": a run that
\* heard every answer does not report an error for an upload that is done.
DoneIsNotAnError ==
  \A c \in Clients : clients[c].pc = "error" /\ clients[c].sid # 0 =>
    rows[clients[c].sid].status # "done"

\* "A terminal status so the frontend poller" stops: the poll of a session that
\* has failed or is gone comes to an end.
TerminalStopsPoll ==
  \A c \in Clients :
    clients[c].pc = "poll" /\ rows[clients[c].sid].status \in {"failed", "absent"}
      ~> clients[c].pc # "poll"

\* A session the server offers as pending can be brought to an end after a
\* restart: a run that joins it does not poll forever.
ResumeEnds == \A c \in Clients : clients[c].pc = "poll" ~> clients[c].pc # "poll"
=============================================================================
