------------------------- MODULE ChunkedUploadProofs -------------------------
(***************************************************************************)
(* What holds of ChunkedUpload for every number of clients, goroutines,    *)
(* chunks and sessions, every loss of answers, tabs, processes and         *)
(* statements of the database.                                             *)
(*                                                                         *)
(* A goroutine works on a session from its claim to its end.  The argument *)
(* is about these: the claim compares the status, so a session has one     *)
(* worker at most; a worker has stored no file until it records one; and   *)
(* a session is never unclaimed again, also when a cancel deletes its row  *)
(* under the worker, because ids are not used twice.  A status that could   *)
(* not be written leaves the session claimed, which agrees with everything. *)
(***************************************************************************)
EXTENDS ChunkedUpload, TLAPS

Statuses == {"absent", "uploading"} \cup Finalizing \cup Terminal
Works(x) == x.op = "finish" /\ x.pc \in {"check", "assemble", "verify", "store", "record"}

\* Records and tables have their fields; what is in most of them does not matter.
SlotShape(x) == DOMAIN x = DOMAIN Idle /\ x.whole \in BOOLEAN
RowShape(r) == DOMAIN r = DOMAIN NoRow /\ r.status \in Statuses

Shapes ==
  /\ used \in 0 .. MaxSessions
  /\ DOMAIN rows = Sids /\ \A s \in Sids : RowShape(rows[s])
  /\ files \in [Sids -> [BOOLEAN -> Nat]]
  /\ DOMAIN slots = Slots /\ \A h \in Slots : SlotShape(slots[h])

\* Row r and stored files f of a session: an unclaimed one has no file yet.
Agree(r, f) ==
  /\ f[FALSE] = 0 /\ f[TRUE] \in 0 .. 1
  /\ r.status = "uploading" => f[TRUE] = 0
  /\ r.status = "done" => f[TRUE] = 1
RowsAndFiles == \A s \in Sids : Agree(rows[s], files[s])

\* Ids that were not given yet have neither row nor file.
NotGiven ==
  \A s \in Sids : s > used => rows[s].status = "absent" /\ files[s][TRUE] = 0

\* The session of worker x is claimed, or deleted by a cancel.
Claim(x, r, f) ==
  /\ r.status \in Finalizing \cup {"absent"}
  /\ f[TRUE] = IF x.pc = "record" THEN 1 ELSE 0
  /\ x.pc = "store" => x.whole
Claimed ==
  \A h \in Slots : Works(slots[h]) =>
    /\ slots[h].sid \in Sids /\ slots[h].sid <= used
    /\ Claim(slots[h], rows[slots[h].sid], files[slots[h].sid])
OneWorker ==
  \A g, h \in Slots : Works(slots[g]) /\ Works(slots[h]) /\ slots[g].sid = slots[h].sid => g = h

Inv == Shapes /\ RowsAndFiles /\ NotGiven /\ Claimed /\ OneWorker

LEMMA IdleShape == SlotShape(Idle) /\ ~Works(Idle)
  BY DEF SlotShape, Idle, Works

LEMMA InitInv == Init => Inv
<1> SUFFICES ASSUME Init PROVE Inv
  OBVIOUS
<1>1. \A h \in Slots : slots[h] = Idle
  BY DEF Init
<1>2. \A s \in Sids : rows[s] = NoRow /\ RowShape(NoRow) /\ NoRow.status = "absent"
  BY DEF Init, NoRow, RowShape, Statuses
<1>3. \A s \in Sids : files[s][TRUE] = 0 /\ files[s][FALSE] = 0
  BY DEF Init
<1>4. Shapes
  BY <1>1, <1>2, IdleShape, ConstantsAssumption DEF Init, Shapes
<1>5. \A s \in Sids : Agree(rows[s], files[s])
  <2> TAKE s \in Sids
  <2>1. rows[s].status = "absent" /\ files[s][TRUE] = 0 /\ files[s][FALSE] = 0
    BY <1>2, <1>3
  <2>2. QED
    BY <2>1 DEF Agree
<1>6. Claimed /\ OneWorker
  BY <1>1, IdleShape DEF Claimed, OneWorker
<1>7. NotGiven
  BY <1>2, <1>3 DEF NotGiven
<1>8. QED
  BY <1>4, <1>5, <1>6, <1>7 DEF Inv, RowsAndFiles

\* Slot h goes to x, and row and files of session s become r and f.
Effect(h, x, s, r, f) ==
  /\ DOMAIN slots' = Slots /\ \A g \in Slots : slots'[g] = IF g = h THEN x ELSE slots[g]
  /\ DOMAIN rows' = Sids   /\ \A t \in Sids : rows'[t] = IF t = s THEN r ELSE rows[t]
  /\ files' \in [Sids -> [BOOLEAN -> Nat]]
  /\ \A t \in Sids : files'[t] = IF t = s THEN f ELSE files[t]
  /\ used' \in 0 .. MaxSessions /\ used <= used'

\* What the goroutine may do to itself and its session.  When another one works
\* on s, x does not, and nothing its claim says changes.
Allowed(h, x, s, r, f) ==
  /\ SlotShape(x)
  /\ s \in Sids => RowShape(r) /\ Agree(r, f)
  /\ s \in Sids /\ s > used' => r.status = "absent" /\ f[TRUE] = 0
  /\ Works(x) => s \in Sids /\ s <= used' /\ x.sid = s /\ Claim(x, r, f)
  /\ \A g \in Slots \ {h} : Works(slots[g]) /\ slots[g].sid = s =>
       ~Works(x) /\ f = files[s] /\ r.status \in Finalizing \cup {"absent"}

LEMMA Step ==
  ASSUME Inv, NEW h \in Slots, NEW x, NEW s, NEW r, NEW f,
         Effect(h, x, s, r, f), Allowed(h, x, s, r, f)
  PROVE  Inv'
<1> USE DEF Effect, Allowed
<1>1. Shapes'
  BY DEF Inv, Shapes
<1>2. RowsAndFiles'
  <2> SUFFICES ASSUME NEW t \in Sids PROVE Agree(rows'[t], files'[t])
    BY DEF RowsAndFiles
  <2>1. CASE t = s
    <3>1. rows'[t] = r /\ files'[t] = f /\ Agree(r, f)
      BY <2>1
    <3>2. QED
      BY <3>1
  <2>2. CASE t # s
    <3>1. rows'[t] = rows[t] /\ files'[t] = files[t] /\ Agree(rows[t], files[t])
      BY <2>2 DEF Inv, RowsAndFiles
    <3>2. QED
      BY <3>1
  <2>3. QED
    BY <2>1, <2>2
<1>3. NotGiven'
  <2> SUFFICES ASSUME NEW t \in Sids, t > used'
               PROVE  rows'[t].status = "absent" /\ files'[t][TRUE] = 0
    BY DEF NotGiven
  <2>1. CASE t = s
    <3>1. rows'[t] = r /\ files'[t] = f
      BY <2>1
    <3>2. QED
      BY <2>1, <3>1
  <2>2. CASE t # s
    <3>1. rows'[t] = rows[t] /\ files'[t] = files[t]
      BY <2>2
    <3>2. t > used
      BY DEF Inv, Shapes, Sids
    <3>3. QED
      BY <3>1, <3>2 DEF Inv, NotGiven
  <2>3. QED
    BY <2>1, <2>2
<1>4. Claimed'
  <2> SUFFICES ASSUME NEW g \in Slots, Works(slots'[g])
               PROVE  /\ slots'[g].sid \in Sids /\ slots'[g].sid <= used'
                      /\ Claim(slots'[g], rows'[slots'[g].sid], files'[slots'[g].sid])
    BY DEF Claimed
  <2>1. CASE g = h
    BY <2>1
  <2>2. CASE g # h
    <3>1. /\ slots'[g] = slots[g] /\ slots[g].sid \in Sids /\ slots[g].sid <= used
          /\ Claim(slots[g], rows[slots[g].sid], files[slots[g].sid])
      BY <2>2 DEF Inv, Claimed
    <3>2. slots[g].sid <= used'
      BY <3>1 DEF Inv, Shapes, Sids
    <3>3. CASE slots[g].sid # s
      BY <3>1, <3>2, <3>3
    <3>4. CASE slots[g].sid = s
      <4>1. f = files[s] /\ r.status \in Finalizing \cup {"absent"}
        BY <2>2, <3>1, <3>4
      <4>2. rows'[s] = r /\ files'[s] = f
        BY <3>1, <3>4
      <4>3. Claim(slots[g], r, f)
        BY <3>1, <3>4, <4>1 DEF Claim
      <4>4. QED
        BY <3>1, <3>2, <3>4, <4>2, <4>3
    <3>5. QED
      BY <3>3, <3>4
  <2>3. QED
    BY <2>1, <2>2
<1>5. OneWorker'
  <2> SUFFICES ASSUME NEW g1 \in Slots, NEW g2 \in Slots, Works(slots'[g1]), Works(slots'[g2]),
                      slots'[g1].sid = slots'[g2].sid, g1 # g2
               PROVE  FALSE
    BY DEF OneWorker
  <2>1. g1 # h /\ g2 # h
    OBVIOUS
  <2>2. QED
    BY <2>1 DEF Inv, OneWorker
<1>6. QED
  BY <1>1, <1>2, <1>3, <1>4, <1>5 DEF Inv

\* A goroutine that changes nothing of the tables and works on no session
\* afterwards disturbs nobody.
LEMMA Elsewhere ==
  ASSUME Inv, rows' = rows, used' = used, files' = files,
         NEW h \in Slots, NEW x, SlotShape(x), ~Works(x), slots' = [slots EXCEPT ![h] = x]
  PROVE  Inv'
<1>1. 0 \notin Sids
  BY DEF Sids
<1>2. Effect(h, x, 0, NoRow, None)
  BY <1>1 DEF Inv, Shapes, Effect
<1>3. \A g \in Slots : Works(slots[g]) => slots[g].sid # 0
  BY <1>1 DEF Inv, Claimed
<1>4. Allowed(h, x, 0, NoRow, None)
  BY <1>1, <1>3 DEF Allowed
<1>5. QED
  BY <1>2, <1>4, Step

\* Requests of the browser start in a slot that was free.
LEMMA RequestInv ==
  ASSUME Inv, NEW c \in Clients, NEW h \in Slots, NEW cl,
         NEW op \in {"start", "chunk", "finish", "cancel"}, Request(c, h, op, cl),
         rows' = rows, used' = used, files' = files
  PROVE  Inv'
<1> DEFINE x == [Idle EXCEPT !.op = op, !.pc = "load", !.client = c, !.token = cl.token,
                             !.sid = cl.sid,
                             !.chunk = IF op = "chunk" THEN Min(Chunks \ cl.have) ELSE 0]
<1>1. SlotShape(x) /\ ~Works(x)
  BY DEF SlotShape, Works, Idle
<1>2. slots' = [slots EXCEPT ![h] = x]
  BY DEF Request
<1> HIDE DEF x
<1>3. QED
  BY <1>1, <1>2, Elsewhere

\* What of the handlers changes neither rows nor stored files.
Quiet(h) ==
  \/ StartLookup(h) \/ ChunkLoad(h) \/ ChunkTruncate(h) \/ ChunkWrite(h) \/ ReadDone(h)
  \/ FinishLoad(h) \/ CancelFiles(h) \/ StepFails(h)

LEMMA QuietInv ==
  ASSUME Inv, NEW h \in Slots, Quiet(h)
  PROVE  Inv'
<1> DEFINE At1(pc) == [slots[h] EXCEPT !.pc = pc]
           At2(pc, seen) == [slots[h] EXCEPT !.pc = pc, !.seen = seen]
<1>1. SlotShape(slots[h])
  BY DEF Inv, Shapes
<1>2. \A pc : /\ SlotShape(At1(pc)) /\ At1(pc).op = slots[h].op /\ At1(pc).pc = pc
  BY <1>1 DEF SlotShape, Idle
<1>3. \A pc, seen : /\ SlotShape(At2(pc, seen)) /\ At2(pc, seen).op = slots[h].op
                    /\ At2(pc, seen).pc = pc
  BY <1>1 DEF SlotShape, Idle
<1>4. SUFFICES /\ rows' = rows /\ used' = used /\ files' = files
               /\ \/ slots' = [slots EXCEPT ![h] = Idle]
                  \/ \E pc \in {"insert", "truncate", "write", "read", "claim", "delete"} :
                       slots' = [slots EXCEPT ![h] = At1(pc)]
                  \/ \E seen : \E pc \in {"update", "claim"} :
                       slots' = [slots EXCEPT ![h] = At2(pc, seen)]
  <2>1. CASE slots' = [slots EXCEPT ![h] = Idle]
    BY <1>4, <2>1, IdleShape, Elsewhere
  <2>2. ASSUME NEW pc \in {"insert", "truncate", "write", "read", "claim", "delete"},
               slots' = [slots EXCEPT ![h] = At1(pc)]
        PROVE  Inv'
    <3>1. SlotShape(At1(pc)) /\ ~Works(At1(pc))
      BY <1>2 DEF Works
    <3> HIDE DEF At1
    <3>2. QED
      BY <1>4, <2>2, <3>1, Elsewhere
  <2>3. ASSUME NEW pc \in {"update", "claim"}, NEW seen,
               slots' = [slots EXCEPT ![h] = At2(pc, seen)]
        PROVE  Inv'
    <3>1. SlotShape(At2(pc, seen)) /\ ~Works(At2(pc, seen))
      BY <1>3 DEF Works
    <3> HIDE DEF At2
    <3>2. QED
      BY <1>4, <2>3, <3>1, Elsewhere
  <2>4. QED
    BY <1>4, <2>1, <2>2, <2>3
<1> USE DEF Goto, End, server
<1>5. CASE StartLookup(h)
  BY <1>5 DEF StartLookup
<1>6. CASE ChunkLoad(h)
  BY <1>6 DEF ChunkLoad
<1>7. CASE ChunkTruncate(h)
  BY <1>7 DEF ChunkTruncate
<1>8. CASE ChunkWrite(h)
  BY <1>8 DEF ChunkWrite
<1>9. CASE ReadDone(h)
  BY <1>9 DEF ReadDone
<1>10. CASE FinishLoad(h)
  BY <1>10 DEF FinishLoad
<1>11. CASE CancelFiles(h)
  BY <1>11 DEF CancelFiles
<1>12. CASE StepFails(h)
  BY <1>12 DEF StepFails
<1>13. QED
  BY <1>5, <1>6, <1>7, <1>8, <1>9, <1>10, <1>11, <1>12 DEF Quiet

\* What SetStatus makes of a row when it is written.
Put(r, status) == [r EXCEPT !.status = IF @ = "absent" THEN "absent" ELSE status]

LEMMA PutRow ==
  ASSUME NEW r, RowShape(r), NEW status \in Statuses
  PROVE  /\ RowShape(Put(r, status))
         /\ Put(r, status).status = IF r.status = "absent" THEN "absent" ELSE status
<1>1. DOMAIN r = {"status", "done", "token"} /\ DOMAIN NoRow = {"status", "done", "token"}
  BY DEF RowShape, NoRow
<1>2. /\ DOMAIN Put(r, status) = DOMAIN r
      /\ Put(r, status).status = IF r.status = "absent" THEN "absent" ELSE status
  BY <1>1 DEF Put
<1>3. QED
  BY <1>2 DEF RowShape, Statuses

\* The tables after an assignment to one slot, row or file.
LEMMA SlotEffect ==
  ASSUME Inv, NEW h \in Slots, NEW x, slots' = [slots EXCEPT ![h] = x]
  PROVE  DOMAIN slots' = Slots /\ \A g \in Slots : slots'[g] = IF g = h THEN x ELSE slots[g]
BY DEF Inv, Shapes

LEMMA RowEffect ==
  ASSUME Inv, NEW s, NEW r, rows' = [rows EXCEPT ![s] = r]
  PROVE  DOMAIN rows' = Sids /\ \A t \in Sids : rows'[t] = IF t = s THEN r ELSE rows[t]
BY DEF Inv, Shapes

LEMMA StatusEffect ==
  ASSUME Inv, NEW s, NEW status, SetStatus(s, status)
  PROVE  \E r \in {rows[s], Put(rows[s], status)} :
           /\ DOMAIN rows' = Sids
           /\ \A t \in Sids : rows'[t] = IF t = s THEN r ELSE rows[t]
<1>1. CASE rows' = rows
  BY <1>1 DEF Inv, Shapes
<1>2. CASE rows' # rows
  <2>1. rows' = [rows EXCEPT ![s].status = IF @ = "absent" THEN "absent" ELSE status]
    BY <1>2 DEF SetStatus
  <2>2. rows' = [rows EXCEPT ![s] = Put(rows[s], status)]
    BY <2>1 DEF Put
  <2>3. QED
    BY <2>2 DEF Inv, Shapes
<1>3. QED
  BY <1>1, <1>2

LEMMA SameTables ==
  ASSUME Inv
  PROVE  /\ used' = used => used' \in 0 .. MaxSessions /\ used <= used'
         /\ rows' = rows => /\ DOMAIN rows' = Sids
                            /\ \A s, t \in Sids : rows'[t] = IF t = s THEN rows[s] ELSE rows[t]
         /\ files' = files =>
              /\ files' \in [Sids -> [BOOLEAN -> Nat]]
              /\ \A s : \A t \in Sids : files'[t] = IF t = s THEN files[s] ELSE files[t]
BY DEF Inv, Shapes

\* A worker is the only one on its session, so what it does to the session and to
\* itself need agree with nothing but its own claim.
LEMMA WorkerStep ==
  ASSUME Inv, NEW h \in Slots, Works(slots[h]), NEW x, NEW r, NEW f, used' = used,
         Effect(h, x, slots[h].sid, r, f), SlotShape(x), RowShape(r), Agree(r, f),
         Works(x) => x.sid = slots[h].sid /\ Claim(x, r, f)
  PROVE  Inv'
<1>1. slots[h].sid \in Sids /\ slots[h].sid <= used
  BY DEF Inv, Claimed
<1>2. ~(slots[h].sid > used')
  BY <1>1 DEF Inv, Shapes, Sids
<1>3. \A g \in Slots \ {h} : ~(Works(slots[g]) /\ slots[g].sid = slots[h].sid)
  BY DEF Inv, OneWorker
<1>4. Allowed(h, x, slots[h].sid, r, f)
  BY <1>1, <1>2, <1>3 DEF Allowed
<1>5. QED
  BY <1>4, Step

\* A worker that gives up, or whose store fails, leaves a failed session, or a
\* claimed one when that could not be written.
LEMMA FailInv ==
  ASSUME Inv, NEW h \in Slots, Works(slots[h]), slots[h].pc # "record", NEW reason,
         Fail(h, reason), used' = used, files' = files
  PROVE  Inv'
<1> DEFINE s == slots[h].sid
<1>1. /\ s \in Sids /\ Claim(slots[h], rows[s], files[s]) /\ RowShape(rows[s])
      /\ Agree(rows[s], files[s])
  BY DEF Inv, Claimed, Shapes, RowsAndFiles
<1>2. PICK r \in {rows[s], Put(rows[s], "failed")} :
        DOMAIN rows' = Sids /\ \A t \in Sids : rows'[t] = IF t = s THEN r ELSE rows[t]
  BY StatusEffect DEF Fail
<1>3. RowShape(r) /\ r.status \in Finalizing \cup {"absent", "failed"}
  BY <1>1, PutRow DEF Statuses, Terminal, Claim
<1>4. Agree(r, files[s])
  BY <1>1, <1>3 DEF Agree, Finalizing, Claim
<1>5. slots' = [slots EXCEPT ![h] = Idle]
  BY DEF Fail, End, Goto
<1>6. Effect(h, Idle, s, r, files[s])
  BY <1>2, <1>5, SlotEffect, SameTables DEF Effect
<1>7. QED
  BY <1>3, <1>4, <1>6, IdleShape, WorkerStep

\* A worker that goes on: it keeps its session, whose status is one of a
\* finalization, and nothing is stored.
LEMMA GoesOn ==
  ASSUME Inv, NEW h \in Slots, Works(slots[h]), slots[h].pc # "record",
         NEW x, SlotShape(x), x.sid = slots[h].sid,
         x.pc \in {"check", "assemble", "verify", "store"}, x.pc = "store" => x.whole,
         slots' = [slots EXCEPT ![h] = x], used' = used, files' = files,
         \/ rows' = rows
         \/ \E status \in Finalizing : SetStatus(slots[h].sid, status)
  PROVE  Inv'
<1> DEFINE s == slots[h].sid
<1>1. /\ s \in Sids /\ Claim(slots[h], rows[s], files[s]) /\ RowShape(rows[s])
      /\ Agree(rows[s], files[s])
  BY DEF Inv, Claimed, Shapes, RowsAndFiles
<1>2. \E r : /\ RowShape(r) /\ r.status \in Finalizing \cup {"absent"}
             /\ DOMAIN rows' = Sids /\ \A t \in Sids : rows'[t] = IF t = s THEN r ELSE rows[t]
  <2>1. CASE rows' = rows
    BY <1>1, <2>1, SameTables DEF Claim
  <2>2. ASSUME NEW status \in Finalizing, SetStatus(s, status)
        PROVE  <1>2
    <3>1. status \in Statuses
      BY DEF Statuses
    <3>2. /\ RowShape(Put(rows[s], status))
          /\ Put(rows[s], status).status \in Finalizing \cup {"absent"}
          /\ rows[s].status \in Finalizing \cup {"absent"}
      BY <1>1, <3>1, PutRow DEF Claim
    <3>3. QED
      BY <1>1, <2>2, <3>2, StatusEffect
  <2>3. QED
    BY <2>1, <2>2
<1>3. PICK r : /\ RowShape(r) /\ r.status \in Finalizing \cup {"absent"}
               /\ DOMAIN rows' = Sids /\ \A t \in Sids : rows'[t] = IF t = s THEN r ELSE rows[t]
  BY <1>2
<1>4. Effect(h, x, s, r, files[s])
  BY <1>3, SlotEffect, SameTables DEF Effect
<1>5. files[s][TRUE] = 0 /\ files[s][FALSE] = 0
  BY <1>1 DEF Claim, Agree
<1>6. Agree(r, files[s])
  BY <1>3, <1>5 DEF Agree, Finalizing
<1>7. Claim(x, r, files[s])
  BY <1>3, <1>5 DEF Claim
<1>8. QED
  BY <1>3, <1>4, <1>6, <1>7, WorkerStep

LEMMA CheckCompleteInv ==
  ASSUME Inv, NEW h \in Slots, CheckComplete(h)
  PROVE  Inv'
<1>1. SlotShape(slots[h]) /\ Works(slots[h]) /\ slots[h].pc # "record"
  BY DEF Inv, Shapes, CheckComplete, At, Works
<1>2. CASE slots[h].seen = Chunks
  <2> DEFINE x == [slots[h] EXCEPT !.pc = "assemble"]
  <2>1. SlotShape(x) /\ x.sid = slots[h].sid /\ x.pc = "assemble"
    BY <1>1 DEF SlotShape, Idle
  <2>2. slots' = [slots EXCEPT ![h] = x] /\ rows' = rows /\ used' = used /\ files' = files
    BY <1>2 DEF CheckComplete, GoOn, Goto
  <2> HIDE DEF x
  <2>3. QED
    BY <1>1, <2>1, <2>2, GoesOn
<1>3. CASE slots[h].seen # Chunks
  BY <1>1, <1>3, FailInv DEF CheckComplete
<1>4. QED
  BY <1>2, <1>3

LEMMA AssembleChunkInv ==
  ASSUME Inv, NEW h \in Slots, AssembleChunk(h)
  PROVE  Inv'
<1> DEFINE s == slots[h].sid
           i == slots[h].chunk
           read == [slots[h] EXCEPT !.whole = @ /\ disk[s][i] = "whole"]
           next == [read EXCEPT !.chunk = i + 1]
           last == [read EXCEPT !.chunk = 0, !.pc = "verify"]
<1>1. SlotShape(slots[h]) /\ Works(slots[h]) /\ slots[h].pc = "assemble"
  BY DEF Inv, Shapes, AssembleChunk, At, Works
<1>2. used' = used /\ files' = files
  BY DEF AssembleChunk
<1>3. /\ SlotShape(next) /\ next.sid = slots[h].sid /\ next.pc = "assemble"
      /\ SlotShape(last) /\ last.sid = slots[h].sid /\ last.pc = "verify"
  BY <1>1 DEF SlotShape, Idle
<1>4. \/ slots' = [slots EXCEPT ![h] = next] /\ rows' = rows
      \/ slots' = [slots EXCEPT ![h] = last] /\ SetStatus(s, "verifying")
      \/ Fail(h, "missing chunk")
  BY DEF AssembleChunk, GoOn, Goto
<1> HIDE DEF next, last
<1>5. CASE slots' = [slots EXCEPT ![h] = next] /\ rows' = rows
  BY <1>1, <1>2, <1>3, <1>5, GoesOn
<1>6. CASE slots' = [slots EXCEPT ![h] = last] /\ SetStatus(s, "verifying")
  BY <1>1, <1>2, <1>3, <1>6, GoesOn DEF Finalizing
<1>7. CASE Fail(h, "missing chunk")
  BY <1>1, <1>2, <1>7, FailInv
<1>8. QED
  BY <1>4, <1>5, <1>6, <1>7

LEMMA VerifyInv ==
  ASSUME Inv, NEW h \in Slots, Verify(h)
  PROVE  Inv'
<1>1. SlotShape(slots[h]) /\ Works(slots[h]) /\ slots[h].pc # "record"
  BY DEF Inv, Shapes, Verify, At, Works
<1>2. CASE slots[h].whole
  <2> DEFINE x == [slots[h] EXCEPT !.pc = "store"]
  <2>1. SlotShape(x) /\ x.sid = slots[h].sid /\ x.pc = "store" /\ x.whole
    BY <1>1, <1>2 DEF SlotShape, Idle
  <2>2. slots' = [slots EXCEPT ![h] = x] /\ used' = used /\ files' = files
    BY <1>2 DEF Verify, Goto
  <2>3. \E status \in Finalizing : SetStatus(slots[h].sid, status)
    BY <1>2 DEF Verify, Finalizing
  <2> HIDE DEF x
  <2>4. QED
    BY <1>1, <2>1, <2>2, <2>3, GoesOn
<1>3. CASE ~slots[h].whole
  BY <1>1, <1>3, FailInv DEF Verify
<1>4. QED
  BY <1>2, <1>3

\* An intact file joins a session without one.
LEMMA StoreFileInv ==
  ASSUME Inv, NEW h \in Slots, StoreFile(h)
  PROVE  Inv'
<1> DEFINE s == slots[h].sid
           x == [slots[h] EXCEPT !.pc = "record"]
           f == [files[s] EXCEPT ![TRUE] = @ + 1]
<1>1. SlotShape(slots[h]) /\ Works(slots[h]) /\ slots[h].pc = "store" /\ slots[h].op = "finish"
  BY DEF Inv, Shapes, StoreFile, At, Works
<1>2. /\ s \in Sids /\ Claim(slots[h], rows[s], files[s]) /\ RowShape(rows[s])
      /\ Agree(rows[s], files[s]) /\ files \in [Sids -> [BOOLEAN -> Nat]]
  BY <1>1 DEF Inv, Claimed, Shapes, RowsAndFiles
<1>3. CASE Fail(h, "store failed") /\ UNCHANGED files
  BY <1>1, <1>3, FailInv DEF StoreFile
<1>4. CASE ~(Fail(h, "store failed") /\ UNCHANGED files)
  <2>1. slots[h].whole = TRUE
    BY <1>1, <1>2 DEF Claim, SlotShape
  <2>2. /\ files' = [files EXCEPT ![s][TRUE] = @ + 1]
        /\ slots' = [slots EXCEPT ![h] = x] /\ rows' = rows /\ used' = used
    BY <1>4, <2>1 DEF StoreFile, GoOn, Goto
  <2>3. files[s][TRUE] = 0 /\ files[s][FALSE] = 0
    BY <1>1, <1>2 DEF Claim, Agree
  <2>4. f \in [BOOLEAN -> Nat] /\ f[TRUE] = 1 /\ f[FALSE] = 0
    <3>1. files[s] \in [BOOLEAN -> Nat] /\ TRUE \in BOOLEAN /\ FALSE \in BOOLEAN
      BY <1>2
    <3>2. f[TRUE] = files[s][TRUE] + 1 /\ f[FALSE] = files[s][FALSE]
      BY <3>1, Zenon
    <3>3. f \in [BOOLEAN -> Nat]
      <4>1. files[s][TRUE] + 1 \in Nat
        BY <2>3
      <4>2. QED
        BY <3>1, <4>1, Zenon
    <3> HIDE DEF f
    <3>4. QED
      BY <2>3, <3>2, <3>3
  <2>5. files' = [files EXCEPT ![s] = f]
    BY <1>2, <2>2
  <2>6. SlotShape(x) /\ x.sid = s /\ x.pc = "record"
    BY <1>1 DEF SlotShape, Idle
  <2>7. rows[s].status \in Finalizing \cup {"absent"}
    BY <1>2 DEF Claim
  <2> HIDE DEF x, f
  <2>8. /\ files' \in [Sids -> [BOOLEAN -> Nat]]
        /\ \A t \in Sids : files'[t] = IF t = s THEN f ELSE files[t]
    BY <1>2, <2>4, <2>5
  <2>9. Effect(h, x, s, rows[s], f)
    BY <1>2, <2>2, <2>8, SlotEffect, SameTables DEF Effect
  <2>10. Agree(rows[s], f) /\ Claim(x, rows[s], f)
    BY <2>4, <2>6, <2>7 DEF Agree, Claim, Finalizing
  <2>11. QED
    BY <1>1, <1>2, <2>2, <2>6, <2>9, <2>10, WorkerStep
<1>5. QED
  BY <1>3, <1>4

LEMMA RecordResultInv ==
  ASSUME Inv, NEW h \in Slots, RecordResult(h)
  PROVE  Inv'
<1> DEFINE s == slots[h].sid
<1>1. Works(slots[h]) /\ slots[h].pc = "record"
  BY DEF RecordResult, At, Works
<1>2. /\ s \in Sids /\ Claim(slots[h], rows[s], files[s]) /\ RowShape(rows[s])
      /\ Agree(rows[s], files[s])
  BY <1>1 DEF Inv, Claimed, Shapes, RowsAndFiles
<1>3. PICK r \in {rows[s], Put(rows[s], "done")} :
        DOMAIN rows' = Sids /\ \A t \in Sids : rows'[t] = IF t = s THEN r ELSE rows[t]
  BY StatusEffect DEF RecordResult
<1>4. RowShape(r) /\ r.status \in Finalizing \cup {"absent", "done"}
  BY <1>2, PutRow DEF Statuses, Terminal, Claim
<1>5. Agree(r, files[s])
  BY <1>1, <1>2, <1>4 DEF Agree, Claim, Finalizing
<1>6. slots' = [slots EXCEPT ![h] = Idle] /\ used' = used /\ files' = files
  BY DEF RecordResult, End, Goto
<1>7. Effect(h, Idle, s, r, files[s])
  BY <1>3, <1>6, SlotEffect, SameTables DEF Effect
<1>8. QED
  BY <1>1, <1>4, <1>5, <1>6, <1>7, IdleShape, WorkerStep

\* The claim finds an unclaimed session, on which nobody works.
LEMMA ClaimFinalizationInv ==
  ASSUME Inv, NEW h \in Slots, ClaimFinalization(h)
  PROVE  Inv'
<1> DEFINE s == slots[h].sid
           r == Put(rows[s], "assembling")
           x == [slots[h] EXCEPT !.pc = "check", !.chunk = 1]
<1>1. SlotShape(slots[h]) /\ used' = used /\ files' = files
  BY DEF Inv, Shapes, ClaimFinalization
<1>2. CASE Found(s) /\ rows[s].status = "uploading"
  <2>1. /\ s \in Sids /\ RowShape(rows[s]) /\ Agree(rows[s], files[s])
        /\ files[s][TRUE] = 0 /\ files[s][FALSE] = 0 /\ ~(s > used)
    BY <1>2 DEF Found, Inv, Shapes, RowsAndFiles, Agree, NotGiven
  <2>2. RowShape(r) /\ r.status = "assembling"
    BY <1>2, <2>1, PutRow DEF Statuses, Finalizing
  <2>3. SlotShape(x) /\ x.sid = s /\ x.pc = "check"
    BY <1>1 DEF SlotShape, Idle
  <2>4. slots' = [slots EXCEPT ![h] = x] /\ rows' = [rows EXCEPT ![s].status = "assembling"]
    BY <1>2 DEF ClaimFinalization, Goto
  <2>5. DOMAIN rows' = Sids /\ \A t \in Sids : rows'[t] = IF t = s THEN r ELSE rows[t]
    <3>1. r = [rows[s] EXCEPT !.status = "assembling"]
      BY <1>2 DEF Put
    <3>2. rows' = [rows EXCEPT ![s] = r]
      BY <2>4, <3>1
    <3> HIDE DEF r
    <3>3. QED
      BY <3>2, RowEffect
  <2>6. \A g \in Slots : Works(slots[g]) => slots[g].sid # s
    BY <1>2 DEF Inv, Claimed, Claim, Finalizing
  <2>7. s <= used'
    BY <1>1, <2>1 DEF Inv, Shapes, Sids
  <2> HIDE DEF r, x
  <2>8. Effect(h, x, s, r, files[s])
    BY <1>1, <2>4, <2>5, SlotEffect, SameTables DEF Effect
  <2>9. Agree(r, files[s]) /\ Claim(x, r, files[s])
    BY <2>1, <2>2, <2>3 DEF Agree, Claim, Finalizing
  <2>10. Allowed(h, x, s, r, files[s])
    BY <1>1, <2>1, <2>2, <2>3, <2>6, <2>7, <2>9 DEF Allowed
  <2>11. QED
    BY <2>8, <2>10, Step
<1>3. CASE ~(Found(s) /\ rows[s].status = "uploading")
  <2>1. slots' = [slots EXCEPT ![h] = Idle] /\ rows' = rows
    BY <1>3 DEF ClaimFinalization, End, Goto
  <2>2. QED
    BY <1>1, <2>1, IdleShape, Elsewhere
<1>4. QED
  BY <1>2, <1>3

\* A new id has neither row nor file, and nobody works on it.
LEMMA StartInsertInv ==
  ASSUME Inv, NEW h \in Slots, StartInsert(h)
  PROVE  Inv'
<1> DEFINE s == used + 1
           r == [status |-> "uploading", done |-> {}, token |-> slots[h].token]
<1>1. /\ used \in Nat /\ used < MaxSessions /\ MaxSessions \in Nat /\ used' = s
      /\ s \in Sids /\ s > used
  BY ConstantsAssumption DEF StartInsert, Inv, Shapes, Sids
<1>2. RowShape(r) /\ r.status = "uploading"
  BY DEF RowShape, NoRow, Statuses
<1>3. /\ rows' = [rows EXCEPT ![s] = r] /\ slots' = [slots EXCEPT ![h] = Idle]
      /\ files' = files
  BY <1>1 DEF StartInsert, End, Goto
<1> HIDE DEF r
<1>4. used' \in 0 .. MaxSessions /\ used <= used' /\ ~(s > used')
  BY <1>1
<1>5. Effect(h, Idle, s, r, files[s])
  BY <1>3, <1>4, SlotEffect, RowEffect, SameTables DEF Effect
<1>6. files[s][TRUE] = 0 /\ files[s][FALSE] = 0
  BY <1>1 DEF Inv, NotGiven, RowsAndFiles, Agree
<1>7. Agree(r, files[s])
  BY <1>2, <1>6 DEF Agree
<1>8. \A g \in Slots : Works(slots[g]) => slots[g].sid # s
  BY <1>1 DEF Inv, Claimed, Sids
<1>9. Allowed(h, Idle, s, r, files[s])
  BY <1>2, <1>4, <1>7, <1>8, IdleShape DEF Allowed
<1>10. QED
  BY <1>5, <1>9, Step

\* The chunks of a row change, its status does not.
LEMMA UpdateDoneInv ==
  ASSUME Inv, NEW h \in Slots, UpdateDone(h)
  PROVE  Inv'
<1> DEFINE s == slots[h].sid
           done == slots[h].seen \cup {slots[h].chunk}
           r == [rows[s] EXCEPT !.done = IF Found(s) THEN done ELSE @]
           x == IF done = Chunks THEN [Idle EXCEPT !.op = "finish", !.pc = "load", !.sid = s]
                                 ELSE Idle
<1>1. SlotShape(x) /\ ~Works(x)
  BY DEF SlotShape, Idle, Works
<1>2. slots' = [slots EXCEPT ![h] = x] /\ used' = used /\ files' = files
  BY DEF UpdateDone, Goto
<1>3. rows' = [rows EXCEPT ![s].done = IF Found(s) THEN done ELSE @]
  BY DEF UpdateDone
<1>4. DOMAIN rows' = Sids /\ \A t \in Sids : rows'[t] = IF t = s THEN r ELSE rows[t]
  BY <1>3 DEF Inv, Shapes
<1>5. s \in Sids => RowShape(r) /\ r.status = rows[s].status
  BY DEF Inv, Shapes, RowShape, NoRow
<1> HIDE DEF r, x
<1>6. Effect(h, x, s, r, files[s])
  BY <1>2, <1>4, SlotEffect, SameTables DEF Effect
<1>7. s \in Sids => Agree(r, files[s])
  BY <1>5 DEF Inv, RowsAndFiles, Agree
<1>8. s \in Sids /\ s > used' => r.status = "absent" /\ files[s][TRUE] = 0
  BY <1>2, <1>5 DEF Inv, NotGiven
<1>9. \A g \in Slots : Works(slots[g]) /\ slots[g].sid = s =>
        r.status \in Finalizing \cup {"absent"}
  BY <1>5 DEF Inv, Claimed, Claim
<1>10. Allowed(h, x, s, r, files[s])
  BY <1>1, <1>5, <1>7, <1>8, <1>9 DEF Allowed
<1>11. QED
  BY <1>6, <1>10, Step

\* A cancel deletes the row of whatever state, also under a worker.
LEMMA CancelRowInv ==
  ASSUME Inv, NEW h \in Slots, CancelRow(h)
  PROVE  Inv'
<1> DEFINE s == slots[h].sid
<1>1. /\ rows' = [rows EXCEPT ![s] = NoRow] /\ slots' = [slots EXCEPT ![h] = Idle]
      /\ used' = used /\ files' = files
  BY DEF CancelRow, End, Goto
<1>2. RowShape(NoRow) /\ NoRow.status = "absent"
  BY DEF RowShape, NoRow, Statuses
<1>3. Effect(h, Idle, s, NoRow, files[s])
  BY <1>1, SlotEffect, RowEffect, SameTables DEF Effect
<1>4. s \in Sids => Agree(NoRow, files[s])
  BY <1>2 DEF Inv, RowsAndFiles, Agree
<1>5. s \in Sids /\ s > used' => files[s][TRUE] = 0
  BY <1>1 DEF Inv, NotGiven
<1>6. Allowed(h, Idle, s, NoRow, files[s])
  BY <1>2, <1>4, <1>5, IdleShape DEF Allowed
<1>7. QED
  BY <1>3, <1>6, Step

\* A crash ends every goroutine and deletes the rows of expired sessions.
LEMMA CrashInv == Inv /\ Crash => Inv'
<1> SUFFICES ASSUME Inv, Crash PROVE Inv'
  OBVIOUS
<1>1. \A h \in Slots : slots'[h] = Idle
  BY DEF Crash
<1>2. /\ used' = used /\ files' = files /\ DOMAIN slots' = Slots /\ DOMAIN rows' = Sids
      /\ \A s \in Sids : rows'[s] \in {NoRow, rows[s]}
  BY DEF Crash
<1>3. RowShape(NoRow) /\ NoRow.status = "absent"
  BY DEF RowShape, NoRow, Statuses
<1>4. Shapes'
  BY <1>1, <1>2, <1>3, IdleShape DEF Inv, Shapes
<1>5. RowsAndFiles'
  <2> SUFFICES ASSUME NEW s \in Sids PROVE Agree(rows'[s], files[s])
    BY <1>2 DEF RowsAndFiles
  <2>1. Agree(rows[s], files[s])
    BY DEF Inv, RowsAndFiles
  <2>2. CASE rows'[s] = rows[s]
    BY <2>1, <2>2
  <2>3. CASE rows'[s] = NoRow
    BY <1>3, <2>1, <2>3 DEF Agree
  <2>4. QED
    BY <1>2, <2>2, <2>3
<1>6. NotGiven'
  <2> SUFFICES ASSUME NEW s \in Sids, s > used
               PROVE  rows'[s].status = "absent" /\ files[s][TRUE] = 0
    BY <1>2 DEF NotGiven
  <2>1. rows[s].status = "absent" /\ files[s][TRUE] = 0
    BY DEF Inv, NotGiven
  <2>2. QED
    BY <1>2, <1>3, <2>1
<1>7. Claimed' /\ OneWorker'
  BY <1>1, IdleShape DEF Claimed, OneWorker
<1>8. QED
  BY <1>4, <1>5, <1>6, <1>7 DEF Inv

LEMMA SameInv ==
  Inv /\ rows' = rows /\ used' = used /\ files' = files /\ slots' = slots => Inv'
BY DEF Inv, Shapes, RowsAndFiles, NotGiven, Claimed, OneWorker

LEMMA NextInv == Inv /\ [Next]_vars => Inv'
<1> SUFFICES ASSUME Inv, [Next]_vars PROVE Inv'
  OBVIOUS
<1>1. ASSUME NEW h \in Slots, SlotStep(h)
      PROVE  Inv'
  <2>1. CASE Quiet(h)
    BY <2>1, QuietInv
  <2>2. CASE StartInsert(h) \/ UpdateDone(h) \/ CancelRow(h)
    BY <2>2, StartInsertInv, UpdateDoneInv, CancelRowInv
  <2>3. CASE ClaimFinalization(h) \/ CheckComplete(h) \/ AssembleChunk(h)
    BY <2>3, ClaimFinalizationInv, CheckCompleteInv, AssembleChunkInv
  <2>4. CASE Verify(h) \/ StoreFile(h) \/ RecordResult(h)
    BY <2>4, VerifyInv, StoreFileInv, RecordResultInv
  <2>5. QED
    BY <1>1, <2>1, <2>2, <2>3, <2>4 DEF SlotStep, Quiet
<1>2. ASSUME NEW c \in Clients, NEW h \in Slots,
             Upload(c, h) \/ Resume(c, h) \/ SendChunk(c, h) \/ Finish(c, h) \/ Cancel(c, h)
      PROVE  Inv'
  <2>1. rows' = rows /\ used' = used /\ files' = files
    BY <1>2 DEF Upload, Resume, SendChunk, Finish, Cancel, server
  <2>2. \E cl : \E op \in {"start", "chunk", "finish", "cancel"} : Request(c, h, op, cl)
    BY <1>2 DEF Upload, Resume, SendChunk, Finish, Cancel
  <2>3. QED
    BY <2>1, <2>2, RequestInv
<1>3. ASSUME NEW c \in Clients,
             ChunkMissing(c) \/ Poll(c) \/ CleanUp(c) \/ LoseAnswer(c) \/ CloseTab(c)
      PROVE  Inv'
  BY <1>3, SameInv DEF ChunkMissing, Poll, CleanUp, LoseAnswer, CloseTab, server
<1>4. ASSUME NEW s \in Sids, Expire(s)
      PROVE  Inv'
  BY <1>4, SameInv DEF Expire
<1>5. CASE Crash
  BY <1>5, CrashInv
<1>6. CASE UNCHANGED vars
  BY <1>6, SameInv DEF vars
<1>7. QED
  BY <1>1, <1>2, <1>3, <1>4, <1>5, <1>6 DEF Next, ClientStep

LEMMA Always == Spec => []Inv
  BY InitInv, NextInv, PTL DEF Spec

\* However many tabs, requests, background finalizations, lost answers and
\* restarts: a session produces one file (the claim of ClaimUploadFinalization).
THEOREM OneFile == Spec => []OneFilePerSession
<1>1. Inv => OneFilePerSession
  <2> SUFFICES ASSUME Inv, NEW s \in Sids PROVE files[s][TRUE] + files[s][FALSE] <= 1
    BY DEF OneFilePerSession
  <2> DEFINE intact == files[s][TRUE]
             broken == files[s][FALSE]
  <2>1. intact \in 0 .. 1 /\ broken = 0
    BY DEF Inv, RowsAndFiles, Agree
  <2> HIDE DEF intact, broken
  <2>2. intact + broken <= 1
    BY <2>1
  <2>3. QED
    BY <2>2 DEF intact, broken
<1>2. QED
  BY <1>1, Always, PTL

\* A file is stored only when the hash of what was assembled is the file's, so a
\* chunk that is rewritten meanwhile never becomes part of one.
THEOREM Intact == Spec => []IntactFiles
<1>1. Inv => IntactFiles
  BY DEF Inv, RowsAndFiles, Agree, IntactFiles
<1>2. QED
  BY <1>1, Always, PTL

\* A session that reports done has its file: the status is written after the store.
THEOREM DoneIsStored == Spec => []DoneHasFile
<1>1. Inv => DoneHasFile
  BY DEF Inv, RowsAndFiles, Agree, DoneHasFile
<1>2. QED
  BY <1>1, Always, PTL
==============================================================================
