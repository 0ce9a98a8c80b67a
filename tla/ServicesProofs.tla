----------------------------- MODULE ServicesProofs -----------------------------
(***************************************************************************)
(* The parts of the server, one after the other, each for every value of   *)
(* its constants.                                                          *)
(*                                                                         *)
(* A behaviour stays in its part (PartStays) and a step of it is a step of *)
(* the module of that part or a stutter (the lemma ...Move of each); the   *)
(* inductive invariant of a part is stated and kept in its own terms and   *)
(* then lifted to Services by the theorems at the end of its section. The  *)
(* parts of Tables come last, under the specification of the server, which *)
(* is one of Services, too (ServerIsServices).                             *)
(***************************************************************************)
EXTENDS Tables, SequenceTheorems, FiniteSetTheorems, WellFoundedInduction, TLAPS

LEMMA PartStays == [Next]_vars => part' = part
BY DEF Next, vars, BackupsStep, SessionsStep, TasksStep, RecipesStep, IndexStep

--------------------------------------------------------------------------------
(* Sequences: an element more, the last one less, any one less.                *)

LEMMA Appended ==
  ASSUME NEW S, NEW s \in Seq(S), NEW x \in S, NEW e, e = Append(s, x)
  PROVE  /\ e \in Seq(S) /\ DOMAIN e = 1 .. Len(s) + 1
         /\ \A j \in 1 .. Len(s) : e[j] = s[j]
         /\ e[Len(s) + 1] = x
<1>1. e \in Seq(S) /\ Len(e) = Len(s) + 1
  BY AppendProperties
<1>2. \A j \in 1 .. Len(s) : e[j] = s[j]
  BY AppendProperties
<1>3. e[Len(s) + 1] = x
  BY AppendProperties
<1>4. QED
  BY <1>1, <1>2, <1>3

But(s, i) == SubSeq(s, 1, i - 1) \o SubSeq(s, i + 1, Len(s))
ButLast(s) == SubSeq(s, 1, Len(s) - 1)

LEMMA ButLastIs ==
  ASSUME NEW S, NEW s \in Seq(S), s # <<>>
  PROVE  /\ ButLast(s) \in Seq(S) /\ Len(ButLast(s)) = Len(s) - 1 /\ DOMAIN ButLast(s) = 1 .. Len(s) - 1
         /\ \A j \in 1 .. Len(s) - 1 : ButLast(s)[j] = s[j]
<1>1. PICK n : n = Len(s)
  OBVIOUS
<1>2. n \in Nat /\ n # 0 /\ \A j \in 1 .. n : s[j] \in S
  BY <1>1, EmptySeq
<1>3. n - 1 \in Int /\ 1 \in Int /\ \A j \in 1 .. n - 1 : s[j] \in S
  BY <1>2
<1>4. PICK e : e = SubSeq(s, 1, n - 1)
  OBVIOUS
<1>5. /\ e \in Seq(S) /\ Len(e) = IF 1 <= n - 1 THEN n - 1 - 1 + 1 ELSE 0
      /\ \A j \in 1 .. n - 1 - 1 + 1 : e[j] = s[1 + j - 1]
  BY <1>3, <1>4, SubSeqProperties
<1>6. Len(e) = n - 1
  BY <1>2, <1>5
<1>7. ASSUME NEW j \in 1 .. n - 1 PROVE e[j] = s[j]
  <2>1. j \in 1 .. n - 1 - 1 + 1 /\ 1 + j - 1 = j
    BY <1>2
  <2>2. QED
    BY <1>5, <2>1
<1>8. DOMAIN e = 1 .. n - 1
  BY <1>5, <1>6
<1>9. ButLast(s) = e
  BY <1>1, <1>4 DEF ButLast
<1>10. QED
  BY <1>1, <1>5, <1>6, <1>7, <1>8, <1>9

LEMMA ButIs ==
  ASSUME NEW S, NEW s \in Seq(S), NEW i \in DOMAIN s
  PROVE  /\ But(s, i) \in Seq(S) /\ Len(But(s, i)) = Len(s) - 1 /\ DOMAIN But(s, i) = 1 .. Len(s) - 1
         /\ \A j \in 1 .. Len(s) - 1 : But(s, i)[j] = IF j < i THEN s[j] ELSE s[j + 1]
<1>1. PICK n : n = Len(s)
  OBVIOUS
<1>2. /\ n \in Nat /\ i \in 1 .. n /\ i - 1 \in Nat /\ i + 1 \in Nat
      /\ \A j \in 1 .. n : s[j] \in S
  BY <1>1
<1>3. PICK f, g : f = SubSeq(s, 1, i - 1) /\ g = SubSeq(s, i + 1, n)
  OBVIOUS
<1>4. f \in Seq(S) /\ Len(f) = i - 1 /\ \A j \in 1 .. i - 1 : f[j] = s[j]
  BY <1>2, <1>3, SubSeqProperties
<1>5. /\ g \in Seq(S)
      /\ Len(g) = IF i + 1 <= n THEN n - (i + 1) + 1 ELSE 0
      /\ \A j \in 1 .. n - (i + 1) + 1 : g[j] = s[i + 1 + j - 1]
  <2>1. \A j \in i + 1 .. n : s[j] \in S
    BY <1>2
  <2>2. PICK m \in Int : m = i + 1
    BY <1>2
  <2>3. /\ SubSeq(s, m, n) \in Seq(S)
        /\ Len(SubSeq(s, m, n)) = IF m <= n THEN n - m + 1 ELSE 0
        /\ \A j \in 1 .. n - m + 1 : SubSeq(s, m, n)[j] = s[m + j - 1]
    <3>1. n \in Int /\ \A j \in m .. n : s[j] \in S
      BY <1>2, <2>1, <2>2
    <3>2. QED
      BY <3>1, SubSeqProperties
  <2>4. g = SubSeq(s, m, n)
    BY <1>3, <2>2
  <2>5. QED
    BY <2>2, <2>3, <2>4
<1>6. Len(g) = n - i /\ n - (i + 1) + 1 = n - i
  BY <1>2, <1>5
<1>7. PICK e : e = f \o g
  OBVIOUS
<1>8. e \in Seq(S) /\ Len(e) = Len(f) + Len(g)
  BY <1>4, <1>5, <1>7, ConcatProperties
<1>9. \A j \in 1 .. Len(f) + Len(g) : e[j] = IF j <= Len(f) THEN f[j] ELSE g[j - Len(f)]
  BY <1>4, <1>5, <1>7, ConcatProperties
<1>10. Len(f) + Len(g) = n - 1
  BY <1>2, <1>4, <1>6
<1>11. ASSUME NEW j \in 1 .. n - 1 PROVE e[j] = IF j < i THEN s[j] ELSE s[j + 1]
  <2>1. e[j] = IF j <= i - 1 THEN f[j] ELSE g[j - (i - 1)]
    BY <1>4, <1>9, <1>10
  <2>2. CASE j < i
    <3>1. j \in 1 .. i - 1 /\ j <= i - 1
      BY <1>2, <2>2
    <3>2. QED
      BY <1>4, <2>1, <2>2, <3>1
  <2>3. CASE ~(j < i)
    <3>1. /\ ~(j <= i - 1)
          /\ j - (i - 1) \in 1 .. n - (i + 1) + 1
          /\ i + 1 + (j - (i - 1)) - 1 = j + 1
      BY <1>2, <2>3
    <3>2. g[j - (i - 1)] = s[j + 1]
      BY <1>5, <3>1
    <3>3. QED
      BY <2>1, <2>3, <3>1, <3>2
  <2>4. QED
    BY <2>2, <2>3
<1>12. But(s, i) = e
  BY <1>1, <1>3, <1>7 DEF But
<1>13. DOMAIN e = 1 .. n - 1
  BY <1>8, <1>10
<1>14. QED
  BY <1>1, <1>8, <1>10, <1>11, <1>12, <1>13

-----------------------------------------------------------------------------
(* The index.                                                                  *)

WorkerFields == {"job", "at", "cur", "doc", "todo"}
DocFields == {"title", "version", "path", "tags"}
HandlerFields == {"at", "note", "jobs"}

IndexShapes ==
  /\ life \in [IDX!Notes -> {"new", "live", "gone"}]
  /\ version \in [IDX!Notes -> Nat]
  /\ DOMAIN index = IDX!Notes
  /\ DOMAIN handler = NoteHandlers
  /\ \A h \in NoteHandlers : /\ DOMAIN handler[h] = HandlerFields
                             /\ handler[h].at = "delete" => handler[h].note \in IDX!Notes

\* Vectors without chunks are those of deleted notes.
StrayOfGone == \A n \in stray : n \in IDX!Notes /\ life[n] = "gone"

\* The chunks of a note are those of a live note, from its body of now or before.
Built == \A n \in IDX!Notes : index[n] # IDX!NoDoc =>
           life[n] = "live" /\ index[n].version \in Nat /\ index[n].version <= version[n]

\* An index job is planned or runs, and then once only.
Single ==
  /\ \A r \in workers : r.job.kind = "index" => r.job \notin queue
  /\ \A r, s \in workers : r.job.kind = "index" /\ r.job = s.job => r = s

\* What an index job has read is not older than the chunks it will replace.
Reads(r) == r.at \in {"path", "tags", "embed"} =>
  LET n == r.job.note IN
  /\ r.job = IDX!IndexJob(n) /\ n \in IDX!Notes
  /\ life[n] # "new" /\ r.doc.version \in Nat
  /\ life[n] = "live" => r.doc.version <= version[n]
  /\ index[n] # IDX!NoDoc => index[n].version <= r.doc.version
Shaped(r) ==
  /\ DOMAIN r = WorkerFields /\ DOMAIN r.doc = DocFields
  /\ r.job.kind = "index" => r.job = IDX!IndexJob(r.job.note)
AllRead == \A r \in workers : Shaped(r) /\ Reads(r)

IndexInv == IndexShapes /\ StrayOfGone /\ Built /\ Single /\ AllRead
-----------------------------------------------------------------------------
LEMMA DocFacts == DOMAIN IDX!NoDoc = DocFields
BY DEF IDX!NoDoc, DocFields

LEMMA IdleFacts == DOMAIN IDX!Idle = HandlerFields /\ IDX!Idle.at = "idle"
BY DEF IDX!Idle, HandlerFields

LEMMA JobFacts ==
  /\ \A n : IDX!IndexJob(n).kind = "index" /\ IDX!IndexJob(n).note = n
  /\ \A n : IDX!TagsRequest(n).kind = "request"
  /\ IDX!RefreshJob.kind = "refresh"
BY DEF IDX!IndexJob, IDX!TagsRequest, IDX!RefreshJob, IDX!Job

LEMMA IndexInit == IDX!Init => IndexInv
<1> SUFFICES ASSUME IDX!Init PROVE IndexInv
  OBVIOUS
<1>1. IndexShapes
  BY IdleFacts DEF IDX!Init, IndexShapes
<1>2. StrayOfGone /\ Built /\ Single /\ AllRead
  BY DEF IDX!Init, StrayOfGone, Built, Single, AllRead
<1>3. QED
  BY <1>1, <1>2 DEF IndexInv

\* What every step but the replacement of an index does to the notes: no
\* number is used twice, versions grow, chunks only go away.
Ages ==
  /\ IndexShapes' /\ StrayOfGone' /\ Built'
  /\ \A n \in IDX!Notes :
       /\ life[n] # "new" => life'[n] # "new" /\ (life'[n] = "live" => life[n] = "live" /\ version[n] <= version'[n])
       /\ index'[n] # IDX!NoDoc => index'[n] = index[n]

LEMMA StillReads ==
  ASSUME IndexInv, Ages, NEW r, Reads(r), Shaped(r)
  PROVE  Reads(r)' /\ Shaped(r)'
<1>1. Shaped(r)'
  BY DEF Shaped
<1>2. Reads(r)'
  <2> SUFFICES ASSUME r.at \in {"path", "tags", "embed"} PROVE Reads(r)'
    BY DEF Reads
  <2>1. PICK n : n = r.job.note
    OBVIOUS
  <2>2. /\ r.job = IDX!IndexJob(n) /\ n \in IDX!Notes /\ life[n] # "new" /\ r.doc.version \in Nat
        /\ life[n] = "live" => r.doc.version <= version[n]
        /\ index[n] # IDX!NoDoc => index[n].version <= r.doc.version
    BY <2>1 DEF Reads
  <2>3. /\ life'[n] # "new"
        /\ life'[n] = "live" => r.doc.version <= version'[n]
    BY <2>2 DEF Ages, IndexInv, IndexShapes
  <2>4. index'[n] # IDX!NoDoc => index'[n].version <= r.doc.version
    BY <2>2 DEF Ages
  <2>5. QED
    BY <2>1, <2>2, <2>3, <2>4 DEF Reads
<1>3. QED
  BY <1>1, <1>2

LEMMA IndexQuiet ==
  ASSUME IndexInv, UNCHANGED <<life, version, IDX!chunks, handler>>
  PROVE  Ages
BY DEF IndexInv, IndexShapes, StrayOfGone, Built, Ages, IDX!chunks

\* Nothing runs that did not run before.
LEMMA NoneStarts ==
  ASSUME IndexInv, Ages, workers' \subseteq workers,
         \A r \in workers' : r.job.kind = "index" /\ r.job \in queue' => r.job \in queue
  PROVE  IndexInv'
<1>1. Single'
  BY DEF IndexInv, Single
<1>2. AllRead'
  <2> SUFFICES ASSUME NEW r \in workers' PROVE Shaped(r)' /\ Reads(r)'
    BY DEF AllRead
  <2>1. PICK q \in workers : q = r
    OBVIOUS
  <2>2. Shaped(q)' /\ Reads(q)'
    BY StillReads DEF IndexInv, AllRead
  <2>3. QED
    BY <2>1, <2>2
<1>3. QED
  BY <1>1, <1>2 DEF IndexInv, Ages

\* A run goes on, as another record of the same job.
LEMMA OneGoesOn ==
  ASSUME IndexInv, Ages, NEW r \in workers, NEW s, IDX!Step(r, s), s.job = r.job, Shaped(s), Reads(s)',
         \A q \in workers : q.job.kind = "index" /\ q.job \in queue' => q.job \in queue
  PROVE  IndexInv'
<1>1. workers' = (workers \ {r}) \cup {s}
  BY DEF IDX!Step
<1>2. Single'
  BY <1>1 DEF IndexInv, Single
<1>3. AllRead'
  <2> SUFFICES ASSUME NEW q \in workers' PROVE Shaped(q)' /\ Reads(q)'
    BY DEF AllRead
  <2>1. PICK p : p = q
    OBVIOUS
  <2>2. CASE p = s
    BY <2>1, <2>2 DEF Shaped, Reads
  <2>3. CASE p # s
    <3>1. Shaped(p)' /\ Reads(p)'
      BY <1>1, <2>1, <2>3, StillReads DEF IndexInv, AllRead
    <3>2. QED
      BY <2>1, <3>1 DEF Shaped, Reads
  <2>4. QED
    BY <2>2, <2>3
<1>4. QED
  BY <1>2, <1>3 DEF IndexInv, Ages
-----------------------------------------------------------------------------
(* Jobs.                                                                       *)

LEMMA StartKeepsIndex ==
  ASSUME IndexInv, NEW j \in IDX!JobRuns, IDX!Start(j)
  PROVE  IndexInv'
<1>1. Ages
  BY IndexQuiet DEF IDX!Start, IDX!notes
<1>2. PICK f : f = IDX!Fresh(j)
  OBVIOUS
<1>3. f.job = j /\ f.at = "start" /\ Shaped(f)
  <2>1. j.kind = "index" => j = IDX!IndexJob(j.note)
    BY DEF IDX!JobRuns, IDX!IndexJob, IDX!TagsJob, IDX!RefreshJob, IDX!TitleJob, IDX!Job
  <2>2. f.job = j /\ f.at = "start" /\ DOMAIN f = WorkerFields /\ f.doc = IDX!NoDoc
    BY <1>2 DEF IDX!Fresh, WorkerFields
  <2>3. QED
    BY <2>1, <2>2, DocFacts DEF Shaped
<1>4. workers' = workers \cup {f} /\ queue' = queue \ {j} /\ j \in queue
  BY <1>2 DEF IDX!Start
<1>5. Single'
  BY <1>3, <1>4 DEF IndexInv, Single
<1>6. AllRead'
  <2> SUFFICES ASSUME NEW q \in workers' PROVE Shaped(q)' /\ Reads(q)'
    BY DEF AllRead
  <2>1. PICK p : p = q
    OBVIOUS
  <2>2. CASE p = f
    BY <1>3, <2>1, <2>2 DEF Shaped, Reads
  <2>3. CASE p \in workers
    <3>1. Shaped(p)' /\ Reads(p)'
      BY <1>1, <2>3, StillReads DEF IndexInv, AllRead
    <3>2. QED
      BY <2>1, <3>1 DEF Shaped, Reads
  <2>4. QED
    BY <1>4, <2>1, <2>2, <2>3
<1>7. QED
  BY <1>1, <1>5, <1>6 DEF IndexInv, Ages

LEMMA DropKeepsIndex ==
  ASSUME IndexInv, NEW r \in workers, IDX!Drop(r), UNCHANGED <<life, version, IDX!chunks, handler, queue>>
  PROVE  IndexInv'
<1>1. Ages
  BY IndexQuiet
<1>2. workers' \subseteq workers
  BY DEF IDX!Drop
<1>3. QED
  BY <1>1, <1>2, NoneStarts

\* A step to a point where nothing is read that an index will be built from.
LEMMA PlainKeepsIndex ==
  ASSUME IndexInv, Ages, NEW r \in workers, NEW s, IDX!Step(r, s), s.job = r.job, Shaped(s),
         s.at \notin {"path", "tags", "embed"},
         \A q \in workers : q.job.kind = "index" /\ q.job \in queue' => q.job \in queue
  PROVE  IndexInv'
<1>1. Reads(s)'
  BY DEF Reads
<1>2. QED
  BY <1>1, OneGoesOn

\* A step that keeps what is not named in it.
LEMMA GotoKeepsIndex ==
  ASSUME IndexInv, Ages, NEW r \in workers, NEW stage, IDX!Goto(r, stage), stage \notin {"path", "tags", "embed"},
         queue' = queue
  PROVE  IndexInv'
<1>1. PICK s : s = [r EXCEPT !.at = stage]
  OBVIOUS
<1>2. DOMAIN r = {"job", "at", "cur", "doc", "todo"} /\ DOMAIN r.doc = DocFields
  BY DEF IndexInv, AllRead, Shaped, WorkerFields
<1>3. DOMAIN s = WorkerFields /\ s.job = r.job /\ s.at = stage /\ s.doc = r.doc
  BY <1>1, <1>2 DEF WorkerFields
<1>4. IDX!Step(r, s)
  BY <1>1 DEF IDX!Goto
<1>5. Shaped(s)
  BY <1>2, <1>3 DEF Shaped, IndexInv, AllRead
<1>6. QED
  BY <1>3, <1>4, <1>5, PlainKeepsIndex

LEMMA ShapeOf ==
  ASSUME IndexInv, NEW r \in workers
  PROVE  /\ DOMAIN r = {"job", "at", "cur", "doc", "todo"}
         /\ DOMAIN r.doc = {"title", "version", "path", "tags"}
         /\ Shaped(r) /\ Reads(r)
BY DEF IndexInv, AllRead, Shaped, WorkerFields, DocFields

LEMMA LoadBodyKeepsIndex ==
  ASSUME IndexInv, NEW r \in workers, IDX!LoadBody(r)
  PROVE  IndexInv'
<1>1. Ages /\ queue' = queue
  BY IndexQuiet DEF IDX!LoadBody, IDX!notes
<1>2. PICK n : n = r.job.note
  OBVIOUS
<1>3. CASE n \notin IDX!Live
  BY <1>1, <1>2, <1>3, GotoKeepsIndex DEF IDX!LoadBody
<1>4. CASE n \in IDX!Live
  <2>1. PICK d : d = [IDX!NoDoc EXCEPT !.title = title[n], !.version = version[n]]
    OBVIOUS
  <2>2. DOMAIN d = DocFields /\ d.version = version[n]
    BY <2>1, DocFacts DEF DocFields
  <2>3. PICK s : s = [r EXCEPT !.at = "path", !.cur = n, !.doc = d]
    OBVIOUS
  <2>4. IDX!Step(r, s)
    BY <1>2, <1>4, <2>1, <2>3 DEF IDX!LoadBody
  <2>5. DOMAIN s = WorkerFields /\ s.job = r.job /\ s.doc = d /\ s.at = "path"
    BY <2>3, ShapeOf DEF WorkerFields
  <2>6. n \in IDX!Notes /\ life[n] = "live" /\ version[n] \in Nat
    BY <1>4 DEF IDX!Live, IndexInv, IndexShapes
  <2>7. r.job = IDX!IndexJob(n)
    BY <1>2, ShapeOf DEF IDX!LoadBody, Shaped
  <2>8. Reads(s)'
    <3>1. life' = life /\ version' = version /\ index' = index
      BY DEF IDX!LoadBody, IDX!notes, IDX!chunks
    <3>2. index[n] # IDX!NoDoc => index[n].version <= version[n]
      BY <2>6 DEF IndexInv, Built
    <3>3. QED
      BY <1>2, <2>2, <2>5, <2>6, <2>7, <3>1, <3>2 DEF Reads
  <2>9. QED
    BY <1>1, <2>2, <2>4, <2>5, <2>8, OneGoesOn, ShapeOf DEF Shaped
<1>5. QED
  BY <1>3, <1>4

LEMMA LoadPathKeepsIndex ==
  ASSUME IndexInv, NEW r \in workers, IDX!LoadPath(r)
  PROVE  IndexInv'
<1>1. Ages /\ queue' = queue
  BY IndexQuiet DEF IDX!LoadPath, IDX!notes
<1>2. CASE r.cur \notin IDX!Live
  BY <1>1, <1>2, GotoKeepsIndex DEF IDX!LoadPath
<1>3. CASE r.cur \in IDX!Live
  <2>1. PICK s :
           /\ IDX!Step(r, s)
           /\ \E stage \in {"path", "tags"} : \E cur, path :
                s = [r EXCEPT !.at = stage, !.cur = cur, !.doc.path = path]
    BY <1>3, Zenon DEF IDX!LoadPath
  <2>2. DOMAIN s = WorkerFields /\ s.job = r.job /\ s.at \in {"path", "tags"}
    BY <2>1, ShapeOf DEF WorkerFields
  <2>3. DOMAIN s.doc = DocFields /\ s.doc.version = r.doc.version
    BY <2>1, ShapeOf DEF DocFields
  <2>4. Shaped(s) /\ Reads(s)
    BY <1>1, <2>2, <2>3, ShapeOf DEF Shaped, Reads, IDX!LoadPath
  <2>5. QED
    BY <1>1, <2>1, <2>2, <2>4, OneGoesOn, StillReads
<1>4. QED
  BY <1>2, <1>3

LEMMA LoadTagsKeepsIndex ==
  ASSUME IndexInv, NEW r \in workers, IDX!LoadTags(r)
  PROVE  IndexInv'
<1>1. Ages /\ queue' = queue
  BY IndexQuiet DEF IDX!LoadTags, IDX!notes
<1>2. PICK s, given : IDX!Step(r, s) /\ s = [r EXCEPT !.at = "embed", !.doc.tags = given]
  BY DEF IDX!LoadTags
<1>3. DOMAIN s = WorkerFields /\ s.job = r.job /\ s.at = "embed"
  BY <1>2, ShapeOf DEF WorkerFields
<1>4. DOMAIN s.doc = DocFields /\ s.doc.version = r.doc.version
  BY <1>2, ShapeOf DEF DocFields
<1>5. Shaped(s) /\ Reads(s)
  BY <1>3, <1>4, ShapeOf DEF Shaped, Reads, IDX!LoadTags
<1>6. QED
  BY <1>1, <1>2, <1>3, <1>5, OneGoesOn, StillReads

\* The new chunks are not older than those they replace, and no other run
\* holds a body of the note.
LEMMA ReplaceForward ==
  ASSUME IndexInv, NEW r \in workers, IDX!ReplaceNoteIndex(r)
  PROVE  /\ IndexInv'
         /\ \A n \in IDX!Notes : index[n] # IDX!NoDoc /\ index'[n] # IDX!NoDoc =>
               index[n].version <= index'[n].version
<1>1. PICK n : n = r.job.note
  OBVIOUS
<1>2. /\ r.job = IDX!IndexJob(n) /\ n \in IDX!Notes /\ r.doc.version \in Nat
      /\ life[n] = "live" => r.doc.version <= version[n]
      /\ index[n] # IDX!NoDoc => index[n].version <= r.doc.version
  BY <1>1, ShapeOf DEF IDX!ReplaceNoteIndex, Reads
<1>3. CASE n \notin IDX!Live
  <2>1. IDX!Drop(r) /\ UNCHANGED <<life, version, IDX!chunks, handler, queue>>
    BY <1>1, <1>3 DEF IDX!ReplaceNoteIndex, IDX!notes, IDX!chunks
  <2>2. index' = index
    BY <2>1 DEF IDX!chunks
  <2>3. \A m \in IDX!Notes : index[m] # IDX!NoDoc => index[m].version \in Nat
    BY DEF IndexInv, Built
  <2>4. QED
    BY <2>1, <2>2, <2>3, DropKeepsIndex
<1>4. CASE n \in IDX!Live
  <2>1. /\ index' = [index EXCEPT ![n] = r.doc] /\ IDX!Goto(r, "report")
        /\ UNCHANGED <<life, version, stray, queue, handler>>
    BY <1>1, <1>4 DEF IDX!ReplaceNoteIndex, IDX!notes
  <2>2. /\ DOMAIN index' = IDX!Notes /\ index'[n] = r.doc
        /\ \A m \in IDX!Notes \ {n} : index'[m] = index[m]
    BY <1>2, <2>1 DEF IndexInv, IndexShapes
  <2>3. life[n] = "live"
    BY <1>4 DEF IDX!Live
  <2>4. IndexShapes' /\ StrayOfGone'
    BY <2>1, <2>2 DEF IndexInv, IndexShapes, StrayOfGone
  <2>5. Built'
    BY <1>2, <2>1, <2>2, <2>3 DEF IndexInv, Built
  <2>6. PICK s : s = [r EXCEPT !.at = "report"]
    OBVIOUS
  <2>7. workers' = (workers \ {r}) \cup {s}
    BY <2>1, <2>6 DEF IDX!Goto, IDX!Step
  <2>8. DOMAIN s = WorkerFields /\ s.job = r.job /\ s.at = "report" /\ s.doc = r.doc
    BY <2>6, ShapeOf DEF WorkerFields
  <2>9. Single'
    BY <2>1, <2>7, <2>8 DEF IndexInv, Single
  <2>10. ASSUME NEW q \in workers' PROVE Shaped(q)' /\ Reads(q)'
    <3>1. PICK p : p = q
      OBVIOUS
    <3>2. CASE p = s
      BY <2>8, <3>1, <3>2, ShapeOf DEF Shaped, Reads
    <3>3. CASE p \in workers \ {r}
      <4>1. Shaped(p) /\ Reads(p)
        BY <3>3 DEF IndexInv, AllRead
      <4>2. p.job # IDX!IndexJob(n)
        BY <1>2, <3>3, JobFacts DEF IndexInv, Single
      <4>3. ASSUME p.at \in {"path", "tags", "embed"} PROVE p.job.note \in IDX!Notes \ {n}
        BY <4>1, <4>2, <4>3 DEF Reads
      <4>4. Reads(p)'
        BY <2>1, <2>2, <4>1, <4>3 DEF Reads
      <4>5. QED
        BY <3>1, <4>1, <4>4 DEF Shaped, Reads
    <3>4. QED
      BY <2>7, <3>1, <3>2, <3>3
  <2>11. \A m \in IDX!Notes : index[m] # IDX!NoDoc /\ index'[m] # IDX!NoDoc => index[m].version <= index'[m].version
    BY <1>2, <2>2 DEF IndexInv, Built
  <2>12. QED
    BY <2>4, <2>5, <2>9, <2>10, <2>11 DEF IndexInv, AllRead
<1>5. QED
  BY <1>3, <1>4

LEMMA TitleKeepsIndex ==
  ASSUME IndexInv, NEW r \in workers, IDX!TitleStep(r)
  PROVE  IndexInv'
<1>1. Ages /\ queue' = queue
  BY IndexQuiet DEF IDX!TitleStep, IDX!AskTitle, IDX!SetTitle, IDX!notes
<1>2. CASE IDX!Goto(r, "ask")
  BY <1>1, <1>2, GotoKeepsIndex
<1>3. CASE IDX!Goto(r, "report")
  BY <1>1, <1>3, GotoKeepsIndex
<1>4. CASE ~IDX!Goto(r, "ask") /\ ~IDX!Goto(r, "report")
  <2>1. PICK s : IDX!Step(r, s) /\ s = [r EXCEPT !.at = "reindex", !.cur = r.job.note]
    BY <1>4 DEF IDX!TitleStep, IDX!AskTitle, IDX!SetTitle
  <2>2. DOMAIN s = WorkerFields /\ s.job = r.job /\ s.at = "reindex" /\ s.doc = r.doc
    BY <2>1, ShapeOf DEF WorkerFields
  <2>3. Shaped(s)
    BY <2>2, ShapeOf DEF Shaped
  <2>4. QED
    BY <1>1, <2>1, <2>2, <2>3, PlainKeepsIndex
<1>5. QED
  BY <1>2, <1>3, <1>4

\* What is enqueued does not run.
LEMMA Enqueued ==
  ASSUME NEW job, IDX!Enqueue(job)
  PROVE  \A q \in workers : q.job \in queue' => q.job \in queue
BY DEF IDX!Enqueue, IDX!Active

LEMMA ReindexKeepsIndex ==
  ASSUME IndexInv, NEW r \in workers, IDX!Reindex(r)
  PROVE  IndexInv'
<1>1. Ages
  BY IndexQuiet DEF IDX!Reindex, IDX!notes
<1>2. PICK s : /\ IDX!Step(r, s)
               /\ \E stage \in {"next", "report"} : s = [r EXCEPT !.at = stage, !.cur = IDX!NoNote]
  BY DEF IDX!Reindex
<1>3. DOMAIN s = WorkerFields /\ s.job = r.job /\ s.at \in {"next", "report"} /\ s.doc = r.doc
  BY <1>2, ShapeOf DEF WorkerFields
<1>4. Shaped(s)
  BY <1>3, ShapeOf DEF Shaped
<1>5. \A q \in workers : q.job \in queue' => q.job \in queue
  BY Enqueued DEF IDX!Reindex
<1>6. QED
  BY <1>1, <1>2, <1>3, <1>4, <1>5, PlainKeepsIndex

LEMMA TagsKeepsIndex ==
  ASSUME IndexInv, NEW r \in workers, IDX!ListNotes(r) \/ IDX!ReadTags(r) \/ IDX!RefreshDone(r)
  PROVE  IndexInv'
<1>1. Ages /\ queue' = queue
  BY IndexQuiet DEF IDX!ListNotes, IDX!ReadTags, IDX!RefreshDone, IDX!notes
<1>2. CASE IDX!RefreshDone(r)
  BY <1>1, <1>2, GotoKeepsIndex DEF IDX!RefreshDone
<1>3. CASE IDX!ListNotes(r)
  <2>1. PICK s : IDX!Step(r, s) /\ s = [r EXCEPT !.at = "next", !.todo = IDX!Live]
    BY <1>3 DEF IDX!ListNotes
  <2>2. DOMAIN s = WorkerFields /\ s.job = r.job /\ s.at = "next" /\ s.doc = r.doc
    BY <2>1, ShapeOf DEF WorkerFields
  <2>3. Shaped(s)
    BY <2>2, ShapeOf DEF Shaped
  <2>4. QED
    BY <1>1, <2>1, <2>2, <2>3, PlainKeepsIndex
<1>4. CASE IDX!ReadTags(r)
  <2>1. PICK n, rest, read, stage : /\ n = (IF r.at = "start" THEN r.job.note ELSE IDX!First(r.todo))
                                 /\ rest = r.todo \ {n} /\ read = [IDX!NoDoc EXCEPT !.tags = manual[n]]
                                 /\ stage = (IF r.at = "start" THEN "report" ELSE "next")
    OBVIOUS
  <2>2. CASE n \in IDX!Live
    <3>1. PICK s : s = [r EXCEPT !.at = "suggest", !.cur = n, !.todo = rest, !.doc = read]
      OBVIOUS
    <3>2. IDX!Step(r, s)
      BY <1>4, <2>1, <2>2, <3>1 DEF IDX!ReadTags
    <3>3. DOMAIN s = WorkerFields /\ s.job = r.job /\ s.at = "suggest" /\ s.doc = read
      BY <3>1, ShapeOf DEF WorkerFields
    <3>4. Shaped(s)
      BY <2>1, <3>3, ShapeOf, DocFacts DEF Shaped
    <3>5. QED
      BY <1>1, <3>2, <3>3, <3>4, PlainKeepsIndex
  <2>3. CASE n \notin IDX!Live
    <3>1. PICK s : s = [r EXCEPT !.at = stage, !.todo = rest]
      OBVIOUS
    <3>2. IDX!Step(r, s)
      BY <1>4, <2>1, <2>3, <3>1 DEF IDX!ReadTags
    <3>3. DOMAIN s = WorkerFields /\ s.job = r.job /\ s.at \in {"report", "next"} /\ s.doc = r.doc
      BY <2>1, <3>1, ShapeOf DEF WorkerFields
    <3>4. Shaped(s)
      BY <3>3, ShapeOf DEF Shaped
    <3>5. QED
      BY <1>1, <3>2, <3>3, <3>4, PlainKeepsIndex
  <2>4. QED
    BY <2>2, <2>3
<1>5. QED
  BY <1>2, <1>3, <1>4

LEMMA SaveAutoTagsKeepsIndex ==
  ASSUME IndexInv, NEW r \in workers, NEW suggested, IDX!SaveAutoTags(r, suggested)
  PROVE  IndexInv'
<1>1. UNCHANGED <<life, version, IDX!chunks, handler, queue>>
  BY DEF IDX!SaveAutoTags
<1>2. CASE IDX!Drop(r)
  BY <1>1, <1>2, DropKeepsIndex
<1>3. CASE ~IDX!Drop(r)
  <2>1. PICK s : /\ IDX!Step(r, s)
                 /\ \E stage \in {"next", "reindex"} : \E cur :
                       s = [r EXCEPT !.at = stage, !.cur = cur, !.doc = IDX!NoDoc]
    BY <1>3, Zenon DEF IDX!SaveAutoTags
  <2>2. DOMAIN s = WorkerFields /\ s.job = r.job /\ s.at \in {"next", "reindex"} /\ s.doc = IDX!NoDoc
    BY <2>1, ShapeOf DEF WorkerFields
  <2>3. Shaped(s)
    BY <2>2, ShapeOf, DocFacts DEF Shaped
  <2>4. QED
    BY <1>1, <2>1, <2>2, <2>3, PlainKeepsIndex, IndexQuiet
<1>4. QED
  BY <1>2, <1>3

LEMMA JobStepKeepsIndex ==
  ASSUME IndexInv, NEW r \in workers, IDX!JobStep(r) \/ IDX!Fail(r)
  PROVE  IndexInv'
<1>1. CASE IDX!IndexStep(r)
  BY <1>1, LoadBodyKeepsIndex, LoadPathKeepsIndex, LoadTagsKeepsIndex, ReplaceForward DEF IDX!IndexStep
<1>2. CASE IDX!TagsStep(r)
  BY <1>2, TagsKeepsIndex, SaveAutoTagsKeepsIndex DEF IDX!TagsStep
<1>3. CASE IDX!Report(r)
  BY <1>3, DropKeepsIndex DEF IDX!Report, IDX!notes
<1>4. CASE IDX!Fail(r)
  BY <1>4, DropKeepsIndex DEF IDX!Fail, IDX!notes
<1>5. QED
  BY <1>1, <1>2, <1>3, <1>4, TitleKeepsIndex, ReindexKeepsIndex DEF IDX!JobStep
-----------------------------------------------------------------------------
(* Requests, handlers, repairs.                                                *)

LEMMA RequestKeepsIndex ==
  ASSUME IndexInv, NEW n \in IDX!Notes, IDX!HandleAutoTags(n)
  PROVE  IndexInv'
<1>1. Ages
  BY IndexQuiet DEF IDX!HandleAutoTags, IDX!notes
<1>2. PICK f : f = IDX!Fresh(IDX!TagsRequest(n))
  OBVIOUS
<1>3. f.job.kind = "request" /\ f.at = "start" /\ DOMAIN f = WorkerFields /\ f.doc = IDX!NoDoc
  BY <1>2, JobFacts DEF IDX!Fresh, WorkerFields
<1>4. Shaped(f) /\ Reads(f)
  BY <1>3, DocFacts DEF Shaped, Reads
<1>5. workers' = workers \cup {f} /\ queue' = queue
  BY <1>2 DEF IDX!HandleAutoTags
<1>6. Single'
  BY <1>3, <1>5 DEF IndexInv, Single
<1>7. AllRead'
  <2> SUFFICES ASSUME NEW q \in workers' PROVE Shaped(q)' /\ Reads(q)'
    BY DEF AllRead
  <2>1. PICK p : p = q
    OBVIOUS
  <2>2. Shaped(p) /\ Reads(p)
    BY <1>4, <1>5, <2>1 DEF IndexInv, AllRead
  <2>3. Shaped(p)' /\ Reads(p)'
    BY <1>1, <2>2, StillReads
  <2>4. QED
    BY <2>1, <2>3 DEF Shaped, Reads
<1>8. QED
  BY <1>1, <1>6, <1>7 DEF IndexInv, Ages

\* A handler that goes on and is not about to delete.
LEMMA HandlerShapes ==
  ASSUME IndexInv, NEW h \in NoteHandlers, NEW x, handler' = [handler EXCEPT ![h] = x],
         DOMAIN x = HandlerFields, x.at = "delete" => x.note \in IDX!Notes
  PROVE  /\ DOMAIN handler' = NoteHandlers
         /\ \A g \in NoteHandlers : /\ DOMAIN handler'[g] = HandlerFields
                                    /\ handler'[g].at = "delete" => handler'[g].note \in IDX!Notes
<1>1. DOMAIN handler = NoteHandlers
  BY DEF IndexInv, IndexShapes
<1>2. DOMAIN handler' = NoteHandlers /\ handler'[h] = x /\ \A g \in NoteHandlers \ {h} : handler'[g] = handler[g]
  BY <1>1
<1>3. QED
  BY <1>2 DEF IndexInv, IndexShapes

LEMMA OwesShapes ==
  ASSUME IndexInv, NEW h \in NoteHandlers, NEW todo, IDX!Owes(h, todo)
  PROVE  /\ DOMAIN handler' = NoteHandlers
         /\ \A g \in NoteHandlers : /\ DOMAIN handler'[g] = HandlerFields
                                    /\ handler'[g].at = "delete" => handler'[g].note \in IDX!Notes
<1>1. PICK x : handler' = [handler EXCEPT ![h] = x] /\ x = [IDX!Idle EXCEPT !.at = "enqueue", !.jobs = todo]
  BY DEF IDX!Owes
<1>2. DOMAIN x = HandlerFields /\ x.at = "enqueue"
  BY <1>1, IdleFacts DEF HandlerFields
<1>3. QED
  BY <1>1, <1>2, HandlerShapes

LEMMA IdleShapes ==
  ASSUME IndexInv, NEW h \in NoteHandlers, handler' = [handler EXCEPT ![h] = IDX!Idle]
  PROVE  /\ DOMAIN handler' = NoteHandlers
         /\ \A g \in NoteHandlers : /\ DOMAIN handler'[g] = HandlerFields
                                    /\ handler'[g].at = "delete" => handler'[g].note \in IDX!Notes
BY IdleFacts, HandlerShapes

LEMMA JobsKept ==
  ASSUME IndexInv, Ages, UNCHANGED <<queue, workers>>
  PROVE  IndexInv'
BY NoneStarts

LEMMA CreateNoteKeepsIndex ==
  ASSUME IndexInv, NEW h \in NoteHandlers, NEW p, NEW named, NEW given, IDX!CreateNote(h, p, named, given)
  PROVE  IndexInv'
<1>1. PICK n \in IDX!Notes :
         /\ life[n] = "new" /\ life' = [life EXCEPT ![n] = "live"]
         /\ version' = [version EXCEPT ![n] = 1] /\ IDX!Owes(h, IDX!AfterSave(n, 1, named))
  BY DEF IDX!CreateNote
<1>2. UNCHANGED <<IDX!chunks, queue, workers>>
  BY DEF IDX!CreateNote, IDX!frame, IDX!jobs
<1>3. IndexShapes'
  BY <1>1, <1>2, OwesShapes DEF IndexInv, IndexShapes, IDX!chunks
<1>4. StrayOfGone' /\ Built'
  BY <1>1, <1>2 DEF IndexInv, IndexShapes, StrayOfGone, Built, IDX!chunks
<1>5. Ages
  BY <1>1, <1>2, <1>3, <1>4 DEF IndexInv, IndexShapes, Ages, IDX!chunks
<1>6. QED
  BY <1>2, <1>5, JobsKept

LEMMA UpdateNoteKeepsIndex ==
  ASSUME IndexInv, NEW h \in NoteHandlers, NEW n \in IDX!Notes, NEW p, NEW named, NEW given,
         IDX!UpdateNote(h, n, p, named, given)
  PROVE  IndexInv'
<1>1. /\ version' = [version EXCEPT ![n] = @ + 1] /\ life' = life
      /\ \E todo : IDX!Owes(h, todo)
  BY DEF IDX!UpdateNote
<1>2. UNCHANGED <<IDX!chunks, queue, workers>>
  BY DEF IDX!UpdateNote, IDX!frame, IDX!jobs
<1>3. IndexShapes'
  BY <1>1, <1>2, OwesShapes DEF IndexInv, IndexShapes, IDX!chunks
<1>4. StrayOfGone' /\ Built'
  BY <1>1, <1>2 DEF IndexInv, IndexShapes, StrayOfGone, Built, IDX!chunks
<1>5. Ages
  BY <1>1, <1>2, <1>3, <1>4 DEF IndexInv, IndexShapes, Ages, IDX!chunks
<1>6. QED
  BY <1>2, <1>5, JobsKept

LEMMA EnqueueNextKeepsIndex ==
  ASSUME IndexInv, NEW h \in NoteHandlers, IDX!EnqueueNext(h)
  PROVE  IndexInv'
<1>1. UNCHANGED <<life, version, IDX!chunks, workers>>
  BY DEF IDX!EnqueueNext, IDX!notes
<1>2. \A q \in workers : q.job \in queue' => q.job \in queue
  BY Enqueued DEF IDX!EnqueueNext
<1>3. IndexShapes'
  <2>1. CASE handler' = [handler EXCEPT ![h] = IDX!Idle]
    BY <1>1, <2>1, IdleShapes DEF IndexInv, IndexShapes, IDX!chunks
  <2>2. CASE handler' # [handler EXCEPT ![h] = IDX!Idle]
    <3>1. PICK x : handler' = [handler EXCEPT ![h] = x] /\ x = [handler[h] EXCEPT !.jobs = Tail(@)]
      BY <2>2 DEF IDX!EnqueueNext
    <3>2. DOMAIN handler[h] = {"at", "note", "jobs"}
      BY DEF IndexInv, IndexShapes, HandlerFields
    <3>3. DOMAIN x = HandlerFields /\ x.at = "enqueue"
      BY <3>1, <3>2 DEF HandlerFields, IDX!EnqueueNext
    <3>4. QED
      BY <1>1, <3>1, <3>3, HandlerShapes DEF IndexInv, IndexShapes, IDX!chunks
  <2>3. QED
    BY <2>1, <2>2
<1>4. Ages
  BY <1>1, <1>3 DEF IndexInv, IndexShapes, StrayOfGone, Built, Ages, IDX!chunks
<1>5. QED
  BY <1>1, <1>2, <1>4, NoneStarts

LEMMA DeleteNoteIndexKeepsIndex ==
  ASSUME IndexInv, NEW h \in NoteHandlers, NEW n \in IDX!Notes, IDX!DeleteNoteIndex(h, n)
  PROVE  IndexInv'
<1>1. /\ index' = [index EXCEPT ![n] = IDX!NoDoc]
      /\ UNCHANGED <<life, version, stray, queue, workers>>
  BY DEF IDX!DeleteNoteIndex, IDX!notes, IDX!jobs
<1>2. PICK x : handler' = [handler EXCEPT ![h] = x] /\ x = [IDX!Idle EXCEPT !.at = "delete", !.note = n]
  BY DEF IDX!DeleteNoteIndex
<1>3. DOMAIN x = HandlerFields /\ x.note = n
  BY <1>2, IdleFacts DEF HandlerFields
<1>4. IndexShapes'
  BY <1>1, <1>2, <1>3, HandlerShapes DEF IndexInv, IndexShapes
<1>5. Ages
  BY <1>1, <1>4 DEF IndexInv, IndexShapes, StrayOfGone, Built, Ages
<1>6. QED
  BY <1>1, <1>5, JobsKept

LEMMA DeleteNoteKeepsIndex ==
  ASSUME IndexInv, NEW h \in NoteHandlers, IDX!DeleteNote(h)
  PROVE  IndexInv'
<1>1. PICK n \in IDX!Notes : n = handler[h].note
  BY DEF IDX!DeleteNote, IndexInv, IndexShapes
<1>2. /\ life' = [life EXCEPT ![n] = "gone"] /\ version' = [version EXCEPT ![n] = 0]
      /\ stray' = IF index[n] # IDX!NoDoc THEN stray \cup {n} ELSE stray
      /\ index' = [index EXCEPT ![n] = IDX!NoDoc] /\ handler' = [handler EXCEPT ![h] = IDX!Idle]
      /\ UNCHANGED <<queue, workers>>
  BY <1>1 DEF IDX!DeleteNote, IDX!jobs
<1>3. IndexShapes'
  BY <1>2, IdleShapes DEF IndexInv, IndexShapes
<1>4. Ages
  BY <1>2, <1>3 DEF IndexInv, IndexShapes, StrayOfGone, Built, Ages
<1>5. QED
  BY <1>2, <1>4, JobsKept

LEMMA RepairKeepsIndex ==
  ASSUME IndexInv, \/ \E h \in NoteHandlers : IDX!HandleReindexNotes(h)
                   \/ IDX!HandleRefreshAll \/ IDX!DeleteSearchLeftovers \/ IDX!Restart
  PROVE  IndexInv'
<1>1. CASE \E h \in NoteHandlers : IDX!HandleReindexNotes(h)
  <2>1. PICK h \in NoteHandlers : \E todo : IDX!Owes(h, todo)
    BY <1>1 DEF IDX!HandleReindexNotes
  <2>2. UNCHANGED <<life, version, IDX!chunks, queue, workers>>
    BY <1>1 DEF IDX!HandleReindexNotes, IDX!notes, IDX!jobs
  <2>3. IndexShapes'
    BY <2>1, <2>2, OwesShapes DEF IndexInv, IndexShapes, IDX!chunks
  <2>4. Ages
    BY <2>2, <2>3 DEF IndexInv, IndexShapes, StrayOfGone, Built, Ages, IDX!chunks
  <2>5. QED
    BY <2>2, <2>4, JobsKept
<1>2. CASE IDX!HandleRefreshAll
  <2>1. UNCHANGED <<life, version, IDX!chunks, handler, workers>> /\ queue' = queue \cup {IDX!RefreshJob}
    BY <1>2 DEF IDX!HandleRefreshAll, IDX!notes
  <2>2. QED
    BY <2>1, JobFacts, IndexQuiet, NoneStarts
<1>3. CASE IDX!DeleteSearchLeftovers
  <2>1. UNCHANGED <<life, version, index, handler, workers, queue>> /\ stray' = {}
    BY <1>3 DEF IDX!DeleteSearchLeftovers, IDX!notes, IDX!jobs
  <2>2. Ages
    BY <2>1 DEF IndexInv, IndexShapes, StrayOfGone, Built, Ages
  <2>3. QED
    BY <2>1, <2>2, JobsKept
<1>4. CASE IDX!Restart
  <2>1. UNCHANGED <<life, version, IDX!chunks>> /\ workers' = {} /\ handler' = [h \in NoteHandlers |-> IDX!Idle]
    BY <1>4 DEF IDX!Restart, IDX!notes
  <2>2. Ages
    BY <2>1, IdleFacts DEF IndexInv, IndexShapes, StrayOfGone, Built, Ages, IDX!chunks
  <2>3. QED
    BY <2>1, <2>2, NoneStarts
<1>5. QED
  BY <1>1, <1>2, <1>3, <1>4

LEMMA StutterKeepsIndex == IndexInv /\ UNCHANGED IDX!vars => IndexInv'
<1> SUFFICES ASSUME IndexInv, UNCHANGED IDX!vars PROVE IndexInv'
  OBVIOUS
<1>1. UNCHANGED <<life, version, IDX!chunks, handler, queue, workers>>
  BY DEF IDX!vars, IDX!notes, IDX!jobs
<1>2. QED
  BY <1>1, IndexQuiet, JobsKept

LEMMA IndexNext == IndexInv /\ [IDX!Next]_(IDX!vars) => IndexInv'
<1> SUFFICES ASSUME IndexInv, [IDX!Next]_(IDX!vars) PROVE IndexInv'
  OBVIOUS
<1>1. CASE IDX!Next
  BY <1>1, StartKeepsIndex, JobStepKeepsIndex, RequestKeepsIndex, CreateNoteKeepsIndex, UpdateNoteKeepsIndex, EnqueueNextKeepsIndex,
     DeleteNoteKeepsIndex, DeleteNoteIndexKeepsIndex, RepairKeepsIndex DEF IDX!Next, IDX!Save, IDX!HandlerStep
<1>2. QED
  BY <1>1, StutterKeepsIndex

\* Only an index job writes chunks.
LEMMA ChunksChange ==
  ASSUME [IDX!Next]_(IDX!vars), ~\E r \in workers : IDX!ReplaceNoteIndex(r), IndexInv
  PROVE  \A n \in IDX!Notes : index'[n] = index[n] \/ index'[n] = IDX!NoDoc
<1> SUFFICES ASSUME index' # index PROVE \A n \in IDX!Notes : index'[n] = index[n] \/ index'[n] = IDX!NoDoc
  OBVIOUS
<1>1. CASE \E h \in NoteHandlers, n \in IDX!Notes : IDX!DeleteNoteIndex(h, n)
  BY <1>1 DEF IDX!DeleteNoteIndex, IndexInv, IndexShapes
<1>2. CASE \E h \in NoteHandlers : IDX!DeleteNote(h)
  BY <1>2 DEF IDX!DeleteNote, IndexInv, IndexShapes
<1>3. ASSUME NEW r \in workers PROVE ~(IDX!JobStep(r) \/ IDX!Fail(r))
  <2>1. ~IDX!IndexStep(r)
    BY DEF IDX!IndexStep, IDX!LoadBody, IDX!LoadPath, IDX!LoadTags, IDX!chunks
  <2>2. ~IDX!TitleStep(r) /\ ~IDX!Reindex(r) /\ ~IDX!Report(r) /\ ~IDX!Fail(r)
    BY DEF IDX!TitleStep, IDX!AskTitle, IDX!SetTitle, IDX!Reindex, IDX!Report, IDX!Fail, IDX!chunks
  <2>3. ~IDX!TagsStep(r)
    BY Zenon DEF IDX!TagsStep, IDX!ListNotes, IDX!ReadTags, IDX!RefreshDone, IDX!SaveAutoTags, IDX!chunks
  <2>4. QED
    BY <2>1, <2>2, <2>3 DEF IDX!JobStep
<1>4. ASSUME NEW h \in NoteHandlers PROVE ~IDX!Save(h) /\ ~IDX!EnqueueNext(h) /\ ~IDX!HandleReindexNotes(h)
  BY DEF IDX!Save, IDX!CreateNote, IDX!UpdateNote, IDX!EnqueueNext, IDX!HandleReindexNotes, IDX!frame, IDX!chunks
<1>5. /\ \A j \in IDX!JobRuns : ~IDX!Start(j)
      /\ \A n \in IDX!Notes : ~IDX!HandleAutoTags(n)
      /\ ~IDX!HandleRefreshAll /\ ~IDX!DeleteSearchLeftovers /\ ~IDX!Restart
  BY DEF IDX!Start, IDX!HandleAutoTags, IDX!HandleRefreshAll, IDX!DeleteSearchLeftovers, IDX!Restart, IDX!chunks
<1>6. IDX!Next
  BY DEF IDX!vars, IDX!chunks
<1>7. QED
  BY <1>1, <1>2, <1>3, <1>4, <1>5, <1>6 DEF IDX!Next, IDX!HandlerStep

LEMMA Forward == IndexInv /\ [IDX!Next]_(IDX!vars) => IDX!MovesForward
<1> SUFFICES ASSUME IndexInv, [IDX!Next]_(IDX!vars) PROVE IDX!MovesForward
  OBVIOUS
<1>1. \A n \in IDX!Notes : index[n] # IDX!NoDoc => index[n].version \in Nat
  BY DEF IndexInv, Built
<1>2. \A n \in IDX!Notes : index'[n] # IDX!NoDoc => index'[n].version \in Nat
  BY IndexNext DEF IndexInv, Built
<1>3. CASE \E r \in workers : IDX!ReplaceNoteIndex(r)
  BY <1>1, <1>2, <1>3, ReplaceForward DEF IDX!MovesForward
<1>4. CASE ~\E r \in workers : IDX!ReplaceNoteIndex(r)
  BY <1>1, <1>4, ChunksChange DEF IDX!MovesForward
<1>5. QED
  BY <1>3, <1>4

LEMMA IndexMove ==
  ASSUME [Next]_vars, part = "index"
  PROVE  [IDX!Next]_(IDX!vars)
<1>1. CASE UNCHANGED vars
  BY <1>1 DEF vars, shared, indexVars, IDX!vars, IDX!notes, IDX!chunks, IDX!jobs, IDX!bounds
<1>2. CASE Next
  BY <1>2 DEF Next, BackupsStep, SessionsStep, TasksStep, RecipesStep, IndexStep
<1>3. QED
  BY <1>1, <1>2

LEMMA IndexStands == Spec => [](part = "index" => IndexInv)
<1>1. Init => (part = "index" => IndexInv)
  BY IndexInit DEF Init
<1>2. (part = "index" => IndexInv) /\ [Next]_vars => (part = "index" => IndexInv)'
  BY PartStays, IndexMove, IndexNext
<1>3. QED
  BY <1>1, <1>2, PTL DEF Spec

(* Whatever handlers, jobs, crashes and repairs do, only live notes have       *)
(* chunks, and what vectors are left over belong to deleted notes.             *)
THEOREM IndexStaysOfLiveNotes == Spec => []IndexIsOfLiveNotes
<1>1. (part = "index" => IndexInv) => IndexIsOfLiveNotes
  BY DEF IndexInv, IndexIsOfLiveNotes, IDX!IndexIsOfLiveNotes, StrayOfGone, Built, IDX!Live
<1>2. QED
  BY <1>1, IndexStands, PTL

(* The chunks of a note never go back to an older body: an index job that has  *)
(* read a body is the only one of its note until it has written.               *)
THEOREM IndexOnlyMovesForward == Spec => IndexMovesForward
<1>1. (part = "index" => IndexInv) /\ [Next]_vars => [part = "index" => IDX!MovesForward]_vars
  BY IndexMove, Forward
<1>2. QED
  BY <1>1, IndexStands, PTL DEF Spec, IndexMovesForward
-----------------------------------------------------------------------------
(* Signing in.                                                                 *)

SignInFields == {"at", "user", "address", "token", "ceremony", "passkey", "count", "next"}

SignInShapes ==
    /\ now \in Nat
    /\ DOMAIN handler = Handlers
    /\ \A h \in Handlers :
          /\ DOMAIN handler[h] = SignInFields
          /\ handler[h].next \in {"idle", "register", "assert"}
          /\ handler[h].at \in {"check", "rehash", "failure", "success"} =>
                handler[h].ceremony = 0

(* The handler took the ceremony out of memory and works on its answer.        *)
Holds(h) ==
    handler[h].at \in {"register", "assert", "count", "create"} /\ handler[h].ceremony # 0

(* What is in memory has no result yet.  A ceremony in a handler's hands has    *)
(* none either, is no longer in memory and in no other handler's hands.        *)
Ceremonies ==
    /\ DOMAIN finished \subseteq SES!Tokens
    /\ DOMAIN ceremonies \subseteq DOMAIN finished
    /\ finished \in [DOMAIN finished -> {0, 1}]
    /\ \A c \in DOMAIN ceremonies : finished[c] = 0

Held ==
    \A h \in Handlers : Holds(h) =>
       /\ handler[h].ceremony \in DOMAIN finished \ DOMAIN ceremonies
       /\ finished[handler[h].ceremony] = 0

HeldOnce ==
    \A g, h \in Handlers :
       Holds(g) /\ Holds(h) /\ handler[g].ceremony = handler[h].ceremony => g = h

(* What is stored is what was issued.  Whoever is about to delete a session as *)
(* expired has seen that it is.                                                *)
Issued ==
    /\ DOMAIN issued \subseteq SES!Tokens /\ closed \subseteq DOMAIN issued
    /\ \A t \in DOMAIN issued : issued[t].expires \in Nat
    /\ DOMAIN sessions \subseteq DOMAIN issued
    /\ \A t \in DOMAIN sessions : sessions[t] = issued[t]

SeenExpired ==
    \A h \in Handlers : SES!At(h, "expired") =>
       handler[h].token \in DOMAIN issued /\ now > issued[handler[h].token].expires

CeremonyInv == Ceremonies /\ Held /\ HeldOnce
SessionInv == Issued /\ SeenExpired /\ SES!SessionsAreIndependent
--------------------------------------------------------------------------------
(* A new token is new as long as there is one.                                 *)
LEMMA FreshTokenIsNew ==
  ASSUME NEW given \in SUBSET SES!Tokens, given # SES!Tokens
  PROVE  SES!Fresh(given) \in SES!Tokens /\ SES!Fresh(given) \notin given
<1>1. \E t \in SES!Tokens : t \notin given
  OBVIOUS
<1>2. QED
  BY <1>1 DEF SES!Fresh

LEMMA IdleRequest ==
  /\ DOMAIN SES!Idle = SignInFields /\ SES!Idle.next = "idle" /\ SES!Idle.at = "idle" /\ SES!Idle.ceremony = 0
BY DEF SES!Idle, SignInFields

(* One handler changes its record.                                             *)
LEMMA RequestWent ==
  ASSUME SignInShapes, NEW h \in Handlers, NEW r, SES!Go(h, r)
  PROVE  /\ DOMAIN handler' = Handlers
         /\ handler'[h] = r
         /\ \A g \in Handlers \ {h} : handler'[g] = handler[g]
BY DEF SignInShapes, SES!Go

LEMMA SignInInit == SES!Init => SignInShapes /\ CeremonyInv /\ SessionInv
<1> SUFFICES ASSUME SES!Init PROVE SignInShapes /\ CeremonyInv /\ SessionInv
  OBVIOUS
<1>1. \A h \in Handlers : handler[h] = SES!Idle
  BY DEF SES!Init
<1>2. SignInShapes
  BY <1>1, IdleRequest DEF SES!Init, SignInShapes
<1>3. \A h \in Handlers : ~Holds(h) /\ ~SES!At(h, "expired")
  BY <1>1, IdleRequest DEF Holds, SES!At
<1>4. DOMAIN SES!Map({}) = {} /\ SES!Map({}) \in [DOMAIN SES!Map({}) -> {0, 1}]
  BY DEF SES!Map
<1>5. CeremonyInv
  BY <1>3, <1>4 DEF SES!Init, CeremonyInv, Ceremonies, Held, HeldOnce
<1>6. SessionInv
  BY <1>3, <1>4 DEF SES!Init, SessionInv, Issued, SeenExpired, SES!SessionsAreIndependent
<1>7. QED
  BY <1>2, <1>5, <1>6

LEMMA SignInNextShapes ==
  SignInShapes /\ [SES!Next]_(SES!vars) => SignInShapes'
<1> SUFFICES ASSUME SignInShapes, [SES!Next]_(SES!vars) PROVE SignInShapes'
  OBVIOUS
<1> USE DEF SignInShapes
<1>1. CASE SES!Tick
  BY <1>1 DEF SES!Tick
<1>2. CASE SES!Restart
  BY <1>2, IdleRequest DEF SES!Restart, SES!store
<1>3. CASE SES!LoginBegin
  BY <1>3 DEF SES!LoginBegin
<1>4. ASSUME NEW h \in Handlers, SES!PasswordStep(h) PROVE SignInShapes'
  <2>1. ASSUME NEW u \in Users, NEW a \in Addresses, SES!Login(h, u, a) PROVE SignInShapes'
    <3>1. PICK r : r = [SES!Idle EXCEPT !.at = "check", !.user = u, !.address = a]
      OBVIOUS
    <3>2. DOMAIN r = SignInFields /\ r.next = "idle" /\ r.ceremony = 0
      BY <3>1, IdleRequest DEF SignInFields
    <3>3. handler' = handler \/ SES!Go(h, r)
      BY <2>1, <3>1 DEF SES!Login
    <3>4. QED
      BY <2>1, <3>2, <3>3 DEF SES!Login, SES!Go
  <2>2. CASE SES!CheckPassword(h)
    BY <2>2, IdleRequest DEF SES!CheckPassword, SES!At, SES!Go, SignInFields
  <2>3. CASE SES!Rehash(h) \/ SES!RecordFailure(h) \/ SES!RecordSuccess(h)
    BY <2>3, IdleRequest DEF SES!Rehash, SES!RecordFailure, SES!RecordSuccess, SES!At, SES!Go, SignInFields
  <2>4. QED
    BY <1>4, <2>1, <2>2, <2>3 DEF SES!PasswordStep
<1>5. ASSUME NEW h \in Handlers, SES!PasskeyStep(h) PROVE SignInShapes'
  <2>1. ASSUME NEW t \in DOMAIN sessions, NEW next \in {"begin", "get"}, NEW c,
               SES!ValidateSession(h, t, next, c)
        PROVE  SignInShapes'
    <3>1. PICK r : /\ SES!Go(h, r)
                   /\ \/ r = [SES!Idle EXCEPT !.at = "expired", !.token = t]
                      \/ r = [SES!Idle EXCEPT !.at = next, !.user = sessions[t].user,
                                          !.ceremony = c, !.next = "register"]
      BY <2>1 DEF SES!ValidateSession
    <3>2. /\ DOMAIN r = SignInFields /\ r.next \in {"idle", "register"}
          /\ r.at \in {"expired", "begin", "get"}
      BY <3>1, IdleRequest DEF SignInFields
    <3>3. QED
      BY <2>1, <3>1, <3>2, Zenon DEF SES!ValidateSession, SES!Go
  <2>2. ASSUME NEW c, SES!LoginFinish(h, c) PROVE SignInShapes'
    BY <2>2, IdleRequest DEF SES!LoginFinish, SES!Go, SignInFields
  <2>3. CASE SES!RegisterBegin(h) \/ SES!RegisterFinish(h)
    BY <2>3, IdleRequest DEF SES!RegisterBegin, SES!RegisterFinish, SES!Go
  <2>4. CASE SES!GetCeremony(h)
    BY <2>4, IdleRequest DEF SES!GetCeremony, SES!At, SES!Go, SignInFields
  <2>5. CASE SES!Assert(h)
    <3>1. PICK r : /\ SES!Go(h, r)
                   /\ r = SES!Idle \/ (\E k \in DOMAIN passkeys :
                         r = [handler[h] EXCEPT !.at = "count", !.user = passkeys[k].user,
                                                !.passkey = k, !.count = passkeys[k].count + 1])
      BY <2>5, Zenon DEF SES!Assert
    <3>2. DOMAIN r = SignInFields /\ r.next \in {"idle", "register", "assert"} /\ r.at \in {"idle", "count"}
      BY <3>1, IdleRequest, Zenon DEF SignInFields
    <3>3. QED
      BY <2>5, <3>1, <3>2 DEF SES!Assert, SES!Go
  <2>6. CASE SES!UpdateSignCount(h)
    BY <2>6 DEF SES!UpdateSignCount, SES!Go, SignInFields
  <2>7. QED
    BY <1>5, <2>1, <2>2, <2>3, <2>4, <2>5, <2>6 DEF SES!PasskeyStep
<1>6. ASSUME NEW h \in Handlers, SES!CreateSession(h) \/ SES!DeleteExpired(h) PROVE SignInShapes'
  BY <1>6, IdleRequest DEF SES!CreateSession, SES!DeleteExpired, SES!Go
<1>7. ASSUME NEW t \in SES!Tokens, SES!Logout(t) PROVE SignInShapes'
  BY <1>7 DEF SES!Logout
<1>8. CASE UNCHANGED SES!vars
  BY <1>8 DEF SES!vars
<1>9. QED
  BY <1>1, <1>2, <1>3, <1>4, <1>5, <1>6, <1>7, <1>8 DEF SES!Next
--------------------------------------------------------------------------------
(* Ceremonies                                                                  *)

(* A handler moves on, or drops its ceremony, and no ceremony changes.         *)
LEMMA CeremonyKept ==
  ASSUME SignInShapes, CeremonyInv, UNCHANGED <<finished, ceremonies>>,
         NEW h \in Handlers, NEW r, SES!Go(h, r),
         r.at \in {"register", "assert", "count", "create"} /\ r.ceremony # 0 =>
            Holds(h) /\ r.ceremony = handler[h].ceremony
  PROVE  CeremonyInv'
<1>1. Ceremonies'
  BY DEF CeremonyInv, Ceremonies
<1>2. \A g \in Handlers : Holds(g)' => Holds(g) /\ handler'[g].ceremony = handler[g].ceremony
  BY RequestWent DEF Holds
<1>3. Held' /\ HeldOnce'
  BY <1>2 DEF CeremonyInv, Held, HeldOnce
<1>4. QED
  BY <1>1, <1>3 DEF CeremonyInv

(* A new ceremony is in nobody's hands.                                        *)
LEMMA CeremonyMade ==
  ASSUME CeremonyInv, NEW u, SES!SetCeremony(u),
         \A h \in Handlers : Holds(h)' => Holds(h) /\ handler'[h].ceremony = handler[h].ceremony
  PROVE  CeremonyInv'
<1> DEFINE c == SES!Fresh(DOMAIN finished)
<1>1. c \in SES!Tokens /\ c \notin DOMAIN finished
  BY FreshTokenIsNew DEF SES!SetCeremony, CeremonyInv, Ceremonies
<1>2. /\ DOMAIN finished' = DOMAIN finished \cup {c} /\ finished'[c] = 0
      /\ \A d \in DOMAIN finished : finished'[d] = finished[d]
      /\ DOMAIN ceremonies' = DOMAIN ceremonies \cup {c}
  BY <1>1 DEF SES!SetCeremony, SES!With
<1>3. finished' \in [DOMAIN finished' -> {0, 1}]
  BY <1>1 DEF SES!SetCeremony, SES!With, CeremonyInv, Ceremonies
<1> HIDE DEF c
<1>4. Ceremonies'
  BY <1>1, <1>2, <1>3 DEF CeremonyInv, Ceremonies
<1>5. Held' /\ HeldOnce'
  BY <1>1, <1>2 DEF CeremonyInv, Held, HeldOnce
<1>6. QED
  BY <1>4, <1>5 DEF CeremonyInv

(* A handler that holds a ceremony gives it its result and lets it go.         *)
LEMMA CeremonyEnded ==
  ASSUME SignInShapes, CeremonyInv, NEW h \in Handlers, Holds(h), SES!Go(h, SES!Idle), UNCHANGED ceremonies,
         finished' = [finished EXCEPT ![handler[h].ceremony] = @ + 1]
  PROVE  CeremonyInv'
<1>1. /\ DOMAIN finished' = DOMAIN finished
      /\ finished'[handler[h].ceremony] = 1
      /\ \A d \in DOMAIN finished \ {handler[h].ceremony} : finished'[d] = finished[d]
  BY DEF CeremonyInv, Held
<1>2. handler[h].ceremony \in DOMAIN finished \ DOMAIN ceremonies
  BY DEF CeremonyInv, Held
<1>3. Ceremonies'
  BY <1>1, <1>2 DEF CeremonyInv, Ceremonies
<1>4. \A g \in Handlers : Holds(g)' =>
         Holds(g) /\ g # h /\ handler'[g].ceremony = handler[g].ceremony
  BY RequestWent, IdleRequest DEF Holds
<1>5. Held' /\ HeldOnce'
  BY <1>1, <1>4 DEF CeremonyInv, Held, HeldOnce
<1>6. QED
  BY <1>3, <1>5 DEF CeremonyInv

(* The map hands a ceremony to one handler only: who finds it removes it.      *)
LEMMA CeremonyTaken ==
  ASSUME SignInShapes, CeremonyInv, NEW h \in Handlers, SES!GetCeremony(h)
  PROVE  CeremonyInv'
<1> DEFINE c == handler[h].ceremony
           found == c \in DOMAIN ceremonies /\ now <= ceremonies[c].expires
<1>1. /\ DOMAIN ceremonies' = DOMAIN ceremonies \ {c} /\ finished' = finished
      /\ ~Holds(h)
  BY DEF SES!GetCeremony, SES!Without, SES!store, SES!At, Holds
<1>2. Ceremonies'
  BY <1>1 DEF CeremonyInv, Ceremonies
<1>3. CASE found
  <2>1. PICK r : r = [handler[h] EXCEPT !.at = handler[h].next, !.token = ceremonies[c].user]
    OBVIOUS
  <2>2. SES!Go(h, r) /\ r.ceremony = c
    BY <1>3, <2>1 DEF SES!GetCeremony, SignInShapes, SignInFields
  <2>3. /\ handler'[h].ceremony = c
        /\ \A g \in Handlers \ {h} : handler'[g] = handler[g]
    BY <2>2, RequestWent
  <2>4. \A g \in Handlers : Holds(g) => handler[g].ceremony \notin DOMAIN ceremonies
    BY DEF CeremonyInv, Held
  <2>5. c \in DOMAIN finished /\ finished[c] = 0
    BY <1>3 DEF CeremonyInv, Ceremonies
  <2>6. Held'
    BY <1>1, <2>3, <2>5 DEF CeremonyInv, Held, Holds
  <2>7. HeldOnce'
    BY <1>3, <2>3, <2>4 DEF CeremonyInv, HeldOnce, Holds
  <2>8. QED
    BY <1>2, <2>6, <2>7 DEF CeremonyInv
<1>4. CASE ~found
  <2>1. SES!Go(h, SES!Idle)
    BY <1>4 DEF SES!GetCeremony
  <2>2. \A g \in Handlers : Holds(g)' => Holds(g) /\ handler'[g].ceremony = handler[g].ceremony
    BY <2>1, RequestWent, IdleRequest DEF Holds
  <2>3. Held' /\ HeldOnce'
    BY <1>1, <2>2 DEF CeremonyInv, Held, HeldOnce
  <2>4. QED
    BY <1>2, <2>3 DEF CeremonyInv
<1>5. QED
  BY <1>3, <1>4

LEMMA NextCeremonies ==
  ASSUME SignInShapes, CeremonyInv, [SES!Next]_(SES!vars)
  PROVE  CeremonyInv'
<1>1. UNCHANGED <<finished, ceremonies, handler>> => CeremonyInv'
  BY DEF CeremonyInv, Ceremonies, Held, HeldOnce, Holds
<1>2. CASE SES!Tick \/ UNCHANGED SES!vars \/ \E t \in SES!Tokens : SES!Logout(t)
  BY <1>1, <1>2 DEF SES!Tick, SES!Logout, SES!vars, SES!store, SES!memory
<1>3. CASE SES!Restart
  <2>1. \A h \in Handlers : ~Holds(h)'
    BY <1>3, IdleRequest DEF SES!Restart, Holds
  <2>2. DOMAIN ceremonies' = {} /\ finished' = finished
    BY <1>3 DEF SES!Restart, SES!Map, SES!store
  <2>3. QED
    BY <2>1, <2>2 DEF CeremonyInv, Ceremonies, Held, HeldOnce
<1>4. CASE SES!LoginBegin
  BY <1>4, CeremonyMade DEF SES!LoginBegin, Holds
<1>5. ASSUME NEW h \in Handlers, SES!PasswordStep(h) PROVE CeremonyInv'
  <2>1. PICK r : /\ handler' = handler \/ SES!Go(h, r)
                 /\ r.at = "create" => SES!At(h, "success")
                 /\ r.at \in {"idle", "check", "rehash", "failure", "success", "create"}
                 /\ r.ceremony \in {0, handler[h].ceremony}
    <3>1. ASSUME NEW u \in Users, NEW a \in Addresses, SES!Login(h, u, a)
          PROVE  \/ handler' = handler
                 \/ SES!Go(h, [SES!Idle EXCEPT !.at = "check", !.user = u, !.address = a])
      BY <3>1 DEF SES!Login
    <3>2. ASSUME NEW u, NEW a, NEW r, r = [SES!Idle EXCEPT !.at = "check", !.user = u, !.address = a]
          PROVE  r.at = "check" /\ r.ceremony = 0
      BY <3>2, IdleRequest DEF SignInFields
    <3>3. ASSUME NEW place, NEW r, r = [handler[h] EXCEPT !.at = place]
          PROVE  r.at = place /\ r.ceremony = handler[h].ceremony
      BY <3>3 DEF SignInShapes, SignInFields
    <3>4. ASSUME NEW u \in Users, NEW a \in Addresses, SES!Login(h, u, a)
          PROVE  \/ handler' = handler
                 \/ \E r : SES!Go(h, r) /\ r.at = "check" /\ r.ceremony = 0
      <4>1. CASE handler' = handler
        BY <4>1
      <4>2. CASE SES!Go(h, [SES!Idle EXCEPT !.at = "check", !.user = u, !.address = a])
        <5>1. PICK r : r = [SES!Idle EXCEPT !.at = "check", !.user = u, !.address = a]
          OBVIOUS
        <5>2. SES!Go(h, r) /\ r.at = "check" /\ r.ceremony = 0
          BY <3>2, <4>2, <5>1, Zenon
        <5>3. QED
          BY <5>2
      <4>3. QED
        BY <3>1, <3>4, <4>1, <4>2
    <3>5. CASE SES!CheckPassword(h)
      BY <3>3, <3>5, IdleRequest DEF SES!CheckPassword
    <3>6. CASE SES!Rehash(h)
      BY <3>3, <3>6 DEF SES!Rehash
    <3>7. CASE SES!RecordFailure(h)
      BY <3>7, IdleRequest DEF SES!RecordFailure
    <3>8. CASE SES!RecordSuccess(h)
      BY <3>3, <3>8 DEF SES!RecordSuccess
    <3>9. QED
      BY <1>5, <3>4, <3>5, <3>6, <3>7, <3>8, IdleRequest DEF SES!PasswordStep
  <2>2. UNCHANGED <<finished, ceremonies>>
    BY <1>5, Zenon DEF SES!PasswordStep, SES!Login, SES!CheckPassword, SES!Rehash, SES!RecordFailure, SES!RecordSuccess,
                SES!store, SES!memory
  <2>3. r.at = "create" => r.ceremony = 0
    BY <2>1 DEF SignInShapes, SES!At
  <2>4. CASE handler' = handler
    BY <1>1, <2>2, <2>4
  <2>5. CASE SES!Go(h, r)
    BY <2>1, <2>2, <2>3, <2>5, CeremonyKept
  <2>6. QED
    BY <2>1, <2>4, <2>5
<1>6. ASSUME NEW h \in Handlers, SES!PasskeyStep(h) PROVE CeremonyInv'
  <2>1. ASSUME NEW t \in DOMAIN sessions, NEW next \in {"begin", "get"}, NEW c,
               SES!ValidateSession(h, t, next, c)
        PROVE  CeremonyInv'
    <3>1. PICK r : /\ SES!Go(h, r)
                   /\ \/ r = [SES!Idle EXCEPT !.at = "expired", !.token = t]
                      \/ r = [SES!Idle EXCEPT !.at = next, !.user = sessions[t].user,
                                          !.ceremony = c, !.next = "register"]
      BY <2>1 DEF SES!ValidateSession
    <3>2. r.at \in {"expired", "begin", "get"}
      BY <3>1, IdleRequest DEF SignInFields
    <3>3. QED
      BY <2>1, <3>1, <3>2, CeremonyKept DEF SES!ValidateSession, SES!store, SES!memory
  <2>2. ASSUME NEW c, SES!LoginFinish(h, c) PROVE CeremonyInv'
    <3>1. PICK r : r = [SES!Idle EXCEPT !.at = "get", !.ceremony = c, !.next = "assert"]
      OBVIOUS
    <3>2. SES!Go(h, r) /\ r.at = "get"
      BY <2>2, <3>1, IdleRequest DEF SES!LoginFinish, SignInFields
    <3>3. QED
      BY <2>2, <3>2, CeremonyKept DEF SES!LoginFinish, SES!store, SES!memory
  <2>3. CASE SES!RegisterBegin(h)
    <3>1. \A g \in Handlers : Holds(g)' => Holds(g) /\ handler'[g].ceremony = handler[g].ceremony
      BY <2>3, RequestWent, IdleRequest DEF SES!RegisterBegin, Holds
    <3>2. QED
      BY <2>3, <3>1, CeremonyMade DEF SES!RegisterBegin
  <2>4. CASE SES!GetCeremony(h)
    BY <2>4, CeremonyTaken
  <2>5. CASE SES!RegisterFinish(h)
    <3>1. SES!Go(h, SES!Idle) /\ ceremonies' = ceremonies
      BY <2>5 DEF SES!RegisterFinish, SES!memory
    <3>2. CASE finished' = finished
      BY <3>1, <3>2, CeremonyKept, IdleRequest
    <3>3. CASE finished' = [finished EXCEPT ![handler[h].ceremony] = @ + 1]
      <4>1. CASE handler[h].ceremony = 0
        BY <3>1, <3>2, <3>3, <4>1, CeremonyKept, IdleRequest DEF CeremonyInv, Ceremonies, SES!Tokens
      <4>2. CASE handler[h].ceremony # 0
        BY <2>5, <3>1, <3>3, <4>2, CeremonyEnded DEF SES!RegisterFinish, SES!At, Holds
      <4>3. QED
        BY <4>1, <4>2
    <3>4. QED
      BY <2>5, <3>2, <3>3 DEF SES!RegisterFinish
  <2>6. CASE SES!Assert(h)
    <3>1. PICK r : /\ SES!Go(h, r)
                   /\ r = SES!Idle \/ (\E k \in DOMAIN passkeys :
                         r = [handler[h] EXCEPT !.at = "count", !.user = passkeys[k].user,
                                                !.passkey = k, !.count = passkeys[k].count + 1])
      BY <2>6, Zenon DEF SES!Assert
    <3>2. r = SES!Idle \/ r.ceremony = handler[h].ceremony
      BY <3>1, Zenon DEF SignInShapes, SignInFields
    <3>3. QED
      BY <2>6, <3>1, <3>2, CeremonyKept, IdleRequest, Zenon DEF SES!Assert, SES!At, Holds, SES!store, SES!memory
  <2>7. CASE SES!UpdateSignCount(h)
    <3>1. PICK r : r = [handler[h] EXCEPT !.at = "create"]
      OBVIOUS
    <3>2. SES!Go(h, r) /\ r.ceremony = handler[h].ceremony
      BY <2>7, <3>1 DEF SES!UpdateSignCount, SignInShapes, SignInFields
    <3>3. QED
      BY <2>7, <3>2, CeremonyKept DEF SES!UpdateSignCount, SES!At, Holds, SES!memory
  <2>8. QED
    BY <1>6, <2>1, <2>2, <2>3, <2>4, <2>5, <2>6, <2>7 DEF SES!PasskeyStep
<1>7. ASSUME NEW h \in Handlers, SES!CreateSession(h) PROVE CeremonyInv'
  <2>1. SES!Go(h, SES!Idle) /\ ceremonies' = ceremonies
    BY <1>7 DEF SES!CreateSession, SES!memory
  <2>2. CASE handler[h].ceremony = 0
    BY <1>7, <2>1, <2>2, CeremonyKept, IdleRequest DEF SES!CreateSession
  <2>3. CASE handler[h].ceremony # 0
    BY <1>7, <2>1, <2>3, CeremonyEnded DEF SES!CreateSession, SES!At, Holds
  <2>4. QED
    BY <2>2, <2>3
<1>8. ASSUME NEW h \in Handlers, SES!DeleteExpired(h) PROVE CeremonyInv'
  BY <1>8, CeremonyKept, IdleRequest DEF SES!DeleteExpired, SES!memory
<1>9. QED
  BY <1>2, <1>3, <1>4, <1>5, <1>6, <1>7, <1>8 DEF SES!Next
--------------------------------------------------------------------------------
(* Sessions                                                                    *)

(* A handler that is not about to delete an expired session moves, and no      *)
(* session changes.                                                            *)
LEMMA SessionsKept ==
  ASSUME SignInShapes, SessionInv, UNCHANGED <<now, sessions, issued, closed>>,
         NEW h \in Handlers, NEW r, SES!Go(h, r), r.at # "expired"
  PROVE  SessionInv'
<1>1. Issued' /\ SES!SessionsAreIndependent'
  BY DEF SessionInv, Issued, SES!SessionsAreIndependent
<1>2. SeenExpired'
  BY RequestWent DEF SessionInv, SeenExpired, SES!At
<1>3. QED
  BY <1>1, <1>2 DEF SessionInv

(* The handler's record after EXCEPT.                                          *)
LEMMA RequestMoved ==
  ASSUME SignInShapes, NEW h \in Handlers, NEW place
  PROVE  [handler[h] EXCEPT !.at = place].at = place
BY DEF SignInShapes, SignInFields

LEMMA SessionCreated ==
  ASSUME SessionTime \in Nat, SignInShapes, SessionInv,
         NEW h \in Handlers, SES!CreateSession(h)
  PROVE  SessionInv'
<1>1. PICK t, s : /\ t = SES!Fresh(DOMAIN issued)
                  /\ s = [user |-> handler[h].user, expires |-> now + SessionTime]
                  /\ DOMAIN issued # SES!Tokens
                  /\ sessions' = SES!With(sessions, t, s) /\ issued' = SES!With(issued, t, s)
                  /\ UNCHANGED <<now, closed>> /\ SES!Go(h, SES!Idle)
  BY DEF SES!CreateSession
<1>2. t \in SES!Tokens /\ t \notin DOMAIN issued
  BY <1>1, FreshTokenIsNew DEF SessionInv, Issued
<1>3. s.expires \in Nat
  BY <1>1 DEF SignInShapes
<1>4. /\ DOMAIN sessions' = DOMAIN sessions \cup {t} /\ sessions'[t] = s
      /\ \A u \in DOMAIN sessions \ {t} : sessions'[u] = sessions[u]
      /\ DOMAIN issued' = DOMAIN issued \cup {t} /\ issued'[t] = s
      /\ \A u \in DOMAIN issued : issued'[u] = issued[u]
  BY <1>1, <1>2 DEF SES!With
<1>5. Issued'
  BY <1>1, <1>2, <1>3, <1>4 DEF SessionInv, Issued
<1>6. SES!SessionsAreIndependent'
  BY <1>1, <1>2, <1>4 DEF SessionInv, Issued, SES!SessionsAreIndependent
<1>7. SeenExpired'
  BY <1>1, <1>4, RequestWent, IdleRequest DEF SessionInv, SeenExpired, SES!At
<1>8. QED
  BY <1>5, <1>6, <1>7 DEF SessionInv

LEMMA SessionDeleted ==
  ASSUME SignInShapes, SessionInv, NEW t, SES!DeleteSession(t), UNCHANGED <<now, issued>>,
         \/ closed' = closed \cup {t} /\ t \in DOMAIN issued
         \/ closed' = closed /\ now > issued[t].expires /\ t \in DOMAIN issued
  PROVE  Issued' /\ SES!SessionsAreIndependent'
<1>1. /\ DOMAIN sessions' = DOMAIN sessions \ {t}
      /\ \A u \in DOMAIN sessions' : sessions'[u] = sessions[u]
  BY DEF SES!DeleteSession, SES!Without
<1>2. Issued'
  BY <1>1 DEF SessionInv, Issued
<1>3. SES!SessionsAreIndependent'
  BY <1>1 DEF SignInShapes, SessionInv, Issued, SES!SessionsAreIndependent
<1>4. QED
  BY <1>2, <1>3

LEMMA NextSessions ==
  ASSUME SessionTime \in Nat, SignInShapes, SessionInv, [SES!Next]_(SES!vars)
  PROVE  SessionInv'
<1>1. CASE SES!Tick
  <2>1. now' = now + 1 /\ UNCHANGED <<sessions, issued, closed, handler>>
    BY <1>1 DEF SES!Tick, SES!store
  <2>2. QED
    BY <2>1 DEF SessionInv, Issued, SeenExpired, SES!SessionsAreIndependent, SignInShapes, SES!At
<1>2. CASE UNCHANGED <<now, sessions, issued, closed, handler>>
  BY <1>2 DEF SessionInv, Issued, SeenExpired, SES!SessionsAreIndependent, SES!At
<1>3. CASE SES!Restart
  <2>1. UNCHANGED <<now, sessions, issued, closed>> /\ \A h \in Handlers : ~SES!At(h, "expired")'
    BY <1>3, IdleRequest DEF SES!Restart, SES!store, SES!At
  <2>2. QED
    BY <2>1 DEF SessionInv, Issued, SeenExpired, SES!SessionsAreIndependent
<1>4. ASSUME NEW h \in Handlers, SES!PasswordStep(h) PROVE SessionInv'
  <2>1. UNCHANGED <<now, sessions, issued, closed>>
    BY <1>4, Zenon DEF SES!PasswordStep, SES!Login, SES!CheckPassword, SES!Rehash, SES!RecordFailure, SES!RecordSuccess, SES!store
  <2>2. ASSUME NEW u \in Users, NEW a \in Addresses, SES!Login(h, u, a) PROVE SessionInv'
    <3>1. PICK r : r = [SES!Idle EXCEPT !.at = "check", !.user = u, !.address = a]
      OBVIOUS
    <3>2. r.at = "check" /\ (handler' = handler \/ SES!Go(h, r))
      BY <2>2, <3>1, IdleRequest DEF SES!Login, SignInFields
    <3>3. QED
      BY <1>2, <2>1, <3>2, SessionsKept
  <2>3. CASE SES!CheckPassword(h)
    <3>1. PICK r : SES!Go(h, r) /\ r.at # "expired"
      BY <2>3, RequestMoved, IdleRequest DEF SES!CheckPassword
    <3>2. QED
      BY <2>1, <3>1, SessionsKept
  <2>4. CASE SES!Rehash(h) \/ SES!RecordFailure(h) \/ SES!RecordSuccess(h)
    <3>1. PICK r : SES!Go(h, r) /\ r.at # "expired"
      BY <2>4, RequestMoved, IdleRequest DEF SES!Rehash, SES!RecordFailure, SES!RecordSuccess
    <3>2. QED
      BY <2>1, <3>1, SessionsKept
  <2>5. QED
    BY <1>4, <2>2, <2>3, <2>4 DEF SES!PasswordStep
<1>5. ASSUME NEW h \in Handlers, SES!PasskeyStep(h) PROVE SessionInv'
  <2>1. UNCHANGED <<now, sessions, issued, closed>>
    BY <1>5, Zenon DEF SES!PasskeyStep, SES!ValidateSession, SES!LoginFinish, SES!RegisterBegin, SES!GetCeremony,
                SES!RegisterFinish, SES!Assert, SES!UpdateSignCount, SES!store
  <2>2. ASSUME NEW t \in DOMAIN sessions, NEW next \in {"begin", "get"}, NEW c,
               SES!ValidateSession(h, t, next, c)
        PROVE  SessionInv'
    <3>1. CASE now > sessions[t].expires
      <4>1. PICK r : r = [SES!Idle EXCEPT !.at = "expired", !.token = t]
        OBVIOUS
      <4>2. SES!Go(h, r) /\ r.token = t
        BY <2>2, <3>1, <4>1, IdleRequest DEF SES!ValidateSession, SignInFields
      <4>3. t \in DOMAIN issued /\ now > issued[t].expires
        BY <3>1 DEF SessionInv, Issued
      <4>4. SeenExpired'
        BY <2>1, <4>2, <4>3, RequestWent DEF SessionInv, SeenExpired, SES!At
      <4>5. Issued' /\ SES!SessionsAreIndependent'
        BY <2>1 DEF SessionInv, Issued, SES!SessionsAreIndependent
      <4>6. QED
        BY <4>4, <4>5 DEF SessionInv
    <3>2. CASE ~(now > sessions[t].expires)
      <4>1. PICK r : r = [SES!Idle EXCEPT !.at = next, !.user = sessions[t].user,
                                      !.ceremony = c, !.next = "register"]
        OBVIOUS
      <4>2. SES!Go(h, r) /\ r.at # "expired"
        BY <2>2, <3>2, <4>1, IdleRequest DEF SES!ValidateSession, SignInFields
      <4>3. QED
        BY <2>1, <4>2, SessionsKept
    <3>3. QED
      BY <3>1, <3>2
  <2>3. ASSUME NEW c, SES!LoginFinish(h, c) PROVE SessionInv'
    <3>1. PICK r : r = [SES!Idle EXCEPT !.at = "get", !.ceremony = c, !.next = "assert"]
      OBVIOUS
    <3>2. SES!Go(h, r) /\ r.at = "get"
      BY <2>3, <3>1, IdleRequest DEF SES!LoginFinish, SignInFields
    <3>3. QED
      BY <2>1, <3>2, SessionsKept
  <2>4. CASE SES!RegisterBegin(h) \/ SES!RegisterFinish(h)
    BY <2>1, <2>4, SessionsKept, IdleRequest DEF SES!RegisterBegin, SES!RegisterFinish
  <2>5. CASE SES!GetCeremony(h)
    <3>1. ASSUME NEW r, NEW u, r = [handler[h] EXCEPT !.at = handler[h].next, !.token = u]
          PROVE  r.at # "expired"
      BY <3>1 DEF SignInShapes, SignInFields
    <3>2. PICK r : SES!Go(h, r) /\ r.at # "expired"
      BY <2>5, <3>1, IdleRequest, Zenon DEF SES!GetCeremony
    <3>3. QED
      BY <2>1, <3>2, SessionsKept
  <2>6. CASE SES!Assert(h)
    <3>1. PICK r : /\ SES!Go(h, r)
                   /\ r = SES!Idle \/ (\E k \in DOMAIN passkeys :
                         r = [handler[h] EXCEPT !.at = "count", !.user = passkeys[k].user,
                                                !.passkey = k, !.count = passkeys[k].count + 1])
      BY <2>6, Zenon DEF SES!Assert
    <3>2. r.at # "expired"
      BY <3>1, IdleRequest, Zenon DEF SignInShapes, SignInFields
    <3>3. QED
      BY <2>1, <3>1, <3>2, SessionsKept, Zenon
  <2>7. CASE SES!UpdateSignCount(h)
    BY <2>1, <2>7, RequestMoved, SessionsKept DEF SES!UpdateSignCount
  <2>8. QED
    BY <1>5, <2>2, <2>3, <2>4, <2>5, <2>6, <2>7 DEF SES!PasskeyStep
<1>6. ASSUME NEW h \in Handlers, SES!CreateSession(h) PROVE SessionInv'
  BY <1>6, SessionCreated
<1>7. ASSUME NEW h \in Handlers, SES!DeleteExpired(h) PROVE SessionInv'
  <2>1. /\ SES!DeleteSession(handler[h].token) /\ UNCHANGED <<now, issued, closed>> /\ SES!Go(h, SES!Idle)
        /\ handler[h].token \in DOMAIN issued /\ now > issued[handler[h].token].expires
    BY <1>7 DEF SES!DeleteExpired, SessionInv, SeenExpired
  <2>2. Issued' /\ SES!SessionsAreIndependent'
    BY <2>1, SessionDeleted
  <2>3. SeenExpired'
    BY <2>1, RequestWent, IdleRequest DEF SessionInv, SeenExpired, SES!At
  <2>4. QED
    BY <2>2, <2>3 DEF SessionInv
<1>8. ASSUME NEW t \in SES!Tokens, SES!Logout(t) PROVE SessionInv'
  <2>1. Issued' /\ SES!SessionsAreIndependent'
    BY <1>8, SessionDeleted DEF SES!Logout
  <2>2. SeenExpired'
    BY <1>8 DEF SES!Logout, SessionInv, SeenExpired, SES!At
  <2>3. QED
    BY <2>1, <2>2 DEF SessionInv
<1>9. QED
  BY <1>1, <1>2, <1>3, <1>4, <1>5, <1>6, <1>7, <1>8 DEF SES!Next, SES!LoginBegin, SES!vars, SES!store
--------------------------------------------------------------------------------
(* The throttle                                                                *)

\* A time until which somebody waits is set from now, and now only grows.
WaitInv ==
    \A k \in DOMAIN throttle : throttle[k].until \in Nat /\ throttle[k].until <= now + MaxDelay

LEMMA DelayIsShort == ASSUME NEW n PROVE SES!Delay(n) \in 0 .. MaxDelay
BY SignInAssumption DEF SES!Delay

\* What the throttle answers for a key, whether it knows it or not.
LEMMA StateIsShort ==
  ASSUME SignInShapes, WaitInv, NEW k
  PROVE  LET s == SES!StateOf(SES!Pruned, k) IN s.until \in Nat /\ s.until <= now + MaxDelay
BY SignInAssumption DEF SES!StateOf, SES!Pruned, SES!Without, SignInShapes, WaitInv

LEMMA FailureIsShort ==
  ASSUME SignInShapes, NEW s, s.until \in Nat, s.until <= now + MaxDelay
  PROVE  /\ SES!NextThrottle(s).until \in Nat
         /\ SES!NextThrottle(s).until <= now + MaxDelay
<1>1. PICK d : d = SES!Delay(s.failures + 1) /\ d \in 0 .. MaxDelay
  BY DelayIsShort
<1>2. SES!NextThrottle(s).until \in {now + d, s.until}
  BY <1>1 DEF SES!NextThrottle
<1>3. QED
  BY <1>1, <1>2, SignInAssumption DEF SignInShapes

LEMMA NextWaits ==
  ASSUME SignInShapes, WaitInv, [SES!Next]_(SES!vars)
  PROVE  WaitInv'
<1>1. CASE UNCHANGED throttle /\ now' \in {now, now + 1}
  BY <1>1, SignInAssumption DEF WaitInv, SignInShapes
<1>2. CASE now' = now /\ \E S : throttle' = SES!Without(throttle, S)
  BY <1>2 DEF WaitInv, SES!Without
<1>3. ASSUME NEW h \in Handlers, SES!RecordFailure(h) PROVE WaitInv'
  <2>1. PICK keys, old :
          /\ old = SES!Pruned
          /\ throttle' = [k \in DOMAIN old \cup keys |->
                             IF k \in keys THEN SES!NextThrottle(SES!StateOf(old, k)) ELSE old[k]]
    BY <1>3 DEF SES!RecordFailure
  <2>2. \A k \in DOMAIN old : old[k].until \in Nat /\ old[k].until <= now + MaxDelay
    BY <2>1 DEF SES!Pruned, SES!Without, WaitInv
  <2>3. ASSUME NEW k PROVE LET s == SES!NextThrottle(SES!StateOf(old, k)) IN
                             s.until \in Nat /\ s.until <= now + MaxDelay
    BY <2>1, StateIsShort, FailureIsShort
  <2>4. now' = now
    BY <1>3 DEF SES!RecordFailure
  <2>5. QED
    BY <2>1, <2>2, <2>3, <2>4 DEF WaitInv
<1>4. CASE SES!Restart
  BY <1>4 DEF SES!Restart, SES!Map, WaitInv
<1>5. ASSUME NEW h \in Handlers, SES!PasswordStep(h), ~SES!RecordFailure(h)
      PROVE  \/ UNCHANGED <<throttle, now>>
             \/ now' = now /\ \E S : throttle' = SES!Without(throttle, S)
  BY <1>5, Zenon DEF SES!PasswordStep, SES!Login, SES!CheckPassword, SES!Rehash, SES!RecordSuccess,
     SES!Pruned, SES!memory
<1>6. ASSUME NEW h \in Handlers, SES!PasskeyStep(h) PROVE UNCHANGED <<throttle, now>>
  BY <1>6, Zenon DEF SES!PasskeyStep, SES!ValidateSession, SES!LoginFinish, SES!RegisterBegin,
     SES!GetCeremony, SES!RegisterFinish, SES!Assert, SES!UpdateSignCount, SES!memory
<1>7. QED
  BY <1>1, <1>2, <1>3, <1>4, <1>5, <1>6 DEF SES!Next, SES!vars, SES!memory, SES!Tick,
     SES!LoginBegin, SES!CreateSession, SES!DeleteExpired, SES!Logout

LEMMA SessionsMove ==
  ASSUME [Next]_vars, part = "sessions"
  PROVE  [SES!Next]_(SES!vars)
<1>1. CASE UNCHANGED vars
  BY <1>1 DEF vars, shared, sessionsVars, SES!vars, SES!store, SES!memory
<1>2. CASE Next
  BY <1>2 DEF Next, BackupsStep, SessionsStep, TasksStep, RecipesStep, IndexStep
<1>3. QED
  BY <1>1, <1>2

SignInInv == SignInShapes /\ CeremonyInv /\ SessionInv /\ WaitInv

(* A ceremony makes one session or passkey at most, however often and          *)
(* simultaneously its answer arrives; each session is stored until it is       *)
(* logged out or expires and none comes back; nobody waits longer than the     *)
(* longest delay (webauthn.go:82, db/auth.go:70, login_throttle.go:12).        *)
THEOREM SignInIsSound == Spec => []SignInHolds
<1>1. Init => (part = "sessions" => SignInInv)
  BY SignInInit DEF Init, SignInInv, SES!Init, SES!Map, WaitInv
<1>2. (part = "sessions" => SignInInv) /\ [Next]_vars => (part = "sessions" => SignInInv)'
  BY PartStays, SessionsMove, SignInNextShapes, NextCeremonies, NextSessions, NextWaits,
     SignInAssumption DEF SignInInv
<1>3. (part = "sessions" => SignInInv) => SignInHolds
  BY DEF SignInInv, CeremonyInv, Ceremonies, SessionInv, WaitInv, SignInHolds,
     SES!CeremonyOnce, SES!WaitIsBounded
<1>4. QED
  BY <1>1, <1>2, <1>3, PTL DEF Spec
--------------------------------------------------------------------------------
(* Recipes.                                                                    *)

Labels == Ingredients \cup (UNION {c.names : c \in Kitchens}) \cup {0, REC!Least(Ingredients)}
Sections == {Other} \cup (UNION {c.picks : c \in Kitchens}) \cup {Guess[x] : x \in Labels}
Item == [id : Nat, name : Labels, category : Sections, manual : BOOLEAN, pick : Sections]
Stages == {"none", "batch", "load", "categories", "names"}
Work == [at : Stages, notes : SUBSET RecipeNotes, left : SUBSET RecipeNotes,
         todo : SUBSET [id : Nat, name : Labels], asked : SUBSET Labels, found : SUBSET Labels]

RecipeShapes ==
    /\ config \in Kitchens /\ lastId \in Nat
    /\ rows \in [RecipeNotes -> Seq(Item)] /\ run \in [REC!Runs -> Work]
    /\ DOMAIN tab = Tabs
    /\ \A b \in Tabs :
          /\ tab[b].rows \in Seq(Item)
          /\ tab[b] # REC!Closed => tab[b].note \in RecipeNotes

\* The category of a row somebody picked is the picked one.
Honest(s) == \A i \in DOMAIN s : s[i].manual => s[i].category = s[i].pick
AllHonest ==
    /\ \A n \in RecipeNotes : REC!Exists(n) => Honest(rows[n])
    /\ \A b \in Tabs : Honest(tab[b].rows)

\* Ids are given once.
Numbers ==
    \A n \in RecipeNotes : REC!Exists(n) => \A i \in DOMAIN rows[n] :
       /\ rows[n][i].id <= lastId
       /\ \A m \in RecipeNotes : REC!Exists(m) => \A j \in DOMAIN rows[m] :
             rows[m][j].id = rows[n][i].id => rows[m][j] = rows[n][i]

\* What a run looks for is gone, or has the name it had and is still not picked.
Seeks(t) ==
    /\ t.id <= lastId
    /\ \A n \in RecipeNotes : REC!Exists(n) => \A i \in DOMAIN rows[n] :
          rows[n][i].id = t.id => ~rows[n][i].manual /\ rows[n][i].name = t.name
AllSeek == \A r \in REC!Runs : \A t \in run[r].todo : Seeks(t)

\* A row without its category is in the hands of a run, unless one failed.
Sought(v, n, x) ==
    /\ n \in v.notes
    /\ \/ v.at = "load"
       \/ v.at = "categories" /\ \E t \in v.todo : t.id = x.id
       \/ v.at = "names" /\ \E t \in v.todo : t.id = x.id /\ t.name \in v.asked \cup v.found
Wanting(x) == ~x.manual /\ x.category # Guess[x.name]
AllSought ==
    \A n \in RecipeNotes \ missed : REC!Exists(n) =>
       \A i \in DOMAIN rows[n] : Wanting(rows[n][i]) => \E r \in REC!Runs : Sought(run[r], n, rows[n][i])

RecipeInv == RecipeShapes /\ AllHonest /\ Numbers /\ AllSeek /\ AllSought

--------------------------------------------------------------------------------
LEMMA RowIsItem ==
  ASSUME NEW id \in Nat, NEW name \in Labels, NEW c \in Sections, NEW byHand \in BOOLEAN
  PROVE  /\ REC!Row(id, name, c, byHand) \in Item
         /\ REC!Row(id, name, c, byHand).id = id
         /\ REC!Row(id, name, c, byHand).name = name
         /\ REC!Row(id, name, c, byHand).manual = byHand
         /\ REC!Row(id, name, c, byHand).category = REC!Row(id, name, c, byHand).pick
BY DEF REC!Row, Item

LEMMA NoRunIsWork == REC!NoRun \in Work /\ REC!NoRun.todo = {} /\ REC!NoRun.at = "none"
BY DEF REC!NoRun, Work, Stages

\* A list of one row.
LEMMA OneRow ==
  ASSUME NEW x \in Item, x.category = x.pick
  PROVE  /\ <<x>> \in Seq(Item) /\ DOMAIN <<x>> = {1} /\ <<x>>[1] = x
         /\ Honest(<<x>>)
<1>1. <<x>> \in Seq(Item) /\ Len(<<x>>) = 1 /\ <<x>>[1] = x
  OBVIOUS
<1>2. DOMAIN <<x>> = {1}
  BY <1>1
<1>3. QED
  BY <1>1, <1>2 DEF Honest

LEMMA AbsentIsItems == REC!Absent \in Seq(Item)
<1>1. PICK x : x = REC!Row(0, 0, Other, FALSE)
  OBVIOUS
<1>2. x \in Item
  BY <1>1, RowIsItem DEF Labels, Sections
<1>3. <<x>> \in Seq(Item)
  BY <1>2, OneRow DEF Item
<1>4. QED
  BY <1>1, <1>3 DEF REC!Absent

LEMMA RecipeInit == REC!Init => RecipeInv
<1> SUFFICES ASSUME REC!Init PROVE RecipeInv
  OBVIOUS
<1>1. /\ config \in Kitchens /\ lastId = 1 /\ missed = RecipeNotes
      /\ tab = [b \in Tabs |-> REC!Closed] /\ run = [r \in REC!Runs |-> REC!NoRun]
  BY DEF REC!Init
<1>2. PICK m, x : m = REC!Least(Ingredients) /\ x = REC!Row(1, m, Other, FALSE)
  OBVIOUS
<1>3. x \in Item /\ x.id = 1 /\ x.category = x.pick
  <2>1. m \in Labels /\ Other \in Sections
    BY <1>2 DEF Labels, Sections
  <2>2. QED
    BY <1>2, <2>1 DEF REC!Row, Item
<1>4. PICK first, one, s : /\ one = <<x>> /\ (s = <<>> \/ s = one)
                           /\ rows = [n \in RecipeNotes |-> IF n = first THEN s ELSE REC!Absent]
  BY <1>2, Zenon DEF REC!Init
<1>5. s \in Seq(Item) /\ Honest(s) /\ \A i \in DOMAIN s : s[i] = x
  <2>1. CASE s = <<>>
    BY <2>1 DEF Honest
  <2>2. CASE s = one
    BY <1>3, <1>4, <2>2, OneRow
  <2>3. QED
    BY <1>4, <2>1, <2>2
<1>6. \A n \in RecipeNotes : REC!Exists(n) => rows[n] = s
  BY <1>4 DEF REC!Exists
<1>7. RecipeShapes
  <2>1. rows \in [RecipeNotes -> Seq(Item)]
    BY <1>4, <1>5, AbsentIsItems
  <2>2. run \in [REC!Runs -> Work]
    BY <1>1, NoRunIsWork
  <2>3. REC!Closed.rows \in Seq(Item)
    <3>1. <<>> \in Seq(Item)
      BY EmptySeq
    <3>2. REC!Closed.rows = <<>>
      BY DEF REC!Closed
    <3>3. QED
      BY <3>1, <3>2
  <2>4. \A b \in Tabs : tab[b] = REC!Closed /\ tab[b].rows \in Seq(Item)
    BY <1>1, <2>3
  <2>5. QED
    BY <1>1, <2>1, <2>2, <2>4 DEF RecipeShapes
<1>8. AllHonest
  BY <1>1, <1>5, <1>6 DEF REC!Closed, AllHonest, Honest
<1>9. Numbers
  BY <1>1, <1>3, <1>5, <1>6 DEF Numbers
<1>10. AllSeek /\ AllSought
  BY <1>1, NoRunIsWork DEF AllSeek, AllSought
<1>11. QED
  BY <1>7, <1>8, <1>9, <1>10 DEF RecipeInv

--------------------------------------------------------------------------------
(* What an edit makes of a list of rows is a list of rows, and the categories  *)
(* it sets are picked ones.                                                    *)
LEMMA EditedStaysHonest ==
  ASSUME config \in Kitchens, NEW s \in Seq(Item), Honest(s), NEW e \in REC!Edited(s)
  PROVE  e \in Seq(Item) /\ Honest(e)
<1>1. \/ e = s
      \/ \E name \in config.names : e = Append(s, REC!Row(0, name, Other, FALSE))
      \/ \E i \in DOMAIN s : e = REC!Without(s, i)
      \/ \E i \in DOMAIN s, name \in config.names : e = [s EXCEPT ![i].name = name]
      \/ \E i \in DOMAIN s, c \in config.picks : e = [s EXCEPT ![i] = REC!Row(0, s[i].name, c, TRUE)]
      \/ \E i \in DOMAIN s : e = [s EXCEPT ![i].manual = FALSE]
  <2>1. CASE \E i \in DOMAIN s : e \in {[s EXCEPT ![i].name = name] : name \in config.names}
    <3>1. PICK i \in DOMAIN s, name \in config.names : e = [s EXCEPT ![i].name = name]
      BY <2>1
    <3>2. QED
      BY <3>1
  <2>2. CASE \E i \in DOMAIN s : e \in {[s EXCEPT ![i] = REC!Row(0, s[i].name, c, TRUE)] : c \in config.picks}
    <3>1. PICK i \in DOMAIN s, c \in config.picks : e = [s EXCEPT ![i] = REC!Row(0, s[i].name, c, TRUE)]
      BY <2>2
    <3>2. QED
      BY <3>1
  <2>3. CASE e \in {[s EXCEPT ![i].manual = FALSE] : i \in DOMAIN s}
    BY <2>3
  <2>4. CASE e \in {Append(s, REC!Row(0, name, Other, FALSE)) : name \in config.names}
    BY <2>4
  <2>5. CASE e \in {REC!Without(s, i) : i \in DOMAIN s}
    BY <2>5
  <2>6. CASE e \in {s}
    BY <2>6
  <2>7. QED
    BY <2>1, <2>2, <2>3, <2>4, <2>5, <2>6, Zenon DEF REC!Edited
<1>2. DOMAIN s = 1 .. Len(s) /\ Len(s) \in Nat /\ \A i \in DOMAIN s : s[i] \in Item
  OBVIOUS
<1>3. config.names \subseteq Labels /\ config.picks \subseteq Sections /\ 0 \in Labels /\ Other \in Sections
  BY DEF Labels, Sections
<1>4. CASE e = s
  BY <1>4
<1>5. ASSUME NEW name \in config.names, e = Append(s, REC!Row(0, name, Other, FALSE))
      PROVE  e \in Seq(Item) /\ Honest(e)
  <2>1. PICK x : x = REC!Row(0, name, Other, FALSE)
    OBVIOUS
  <2>2. x \in Item /\ x.manual = FALSE
    BY <1>3, <2>1 DEF REC!Row, Item
  <2>3. e \in Seq(Item) /\ \A i \in DOMAIN e : (i \in DOMAIN s /\ e[i] = s[i]) \/ e[i] = x
    <3>1. e = Append(s, x)
      BY <1>5, <2>1
    <3>2. QED
      BY <1>2, <2>2, <3>1, Appended
  <2>4. QED
    BY <2>2, <2>3 DEF Honest
<1>6. ASSUME NEW i \in DOMAIN s, e = REC!Without(s, i)
      PROVE  e \in Seq(Item) /\ Honest(e)
  <2>1. e = But(s, i)
    BY <1>6 DEF REC!Without, But
  <2>2. e \in Seq(Item)
    BY <2>1, ButIs
  <2>3. \A j \in DOMAIN e : \E k \in DOMAIN s : e[j] = s[k]
    <3>1. /\ DOMAIN e = 1 .. Len(s) - 1
          /\ \A j \in 1 .. Len(s) - 1 : e[j] = IF j < i THEN s[j] ELSE s[j + 1]
      BY <2>1, ButIs
    <3>2. QED
      BY <1>2, <3>1
  <2>4. QED
    BY <2>2, <2>3 DEF Honest
<1>7. ASSUME NEW i \in DOMAIN s, NEW name \in config.names, e = [s EXCEPT ![i].name = name]
      PROVE  e \in Seq(Item) /\ Honest(e)
  BY <1>2, <1>3, <1>7, ExceptSeq DEF Honest, Item
<1>8. ASSUME NEW i \in DOMAIN s, NEW c \in config.picks, e = [s EXCEPT ![i] = REC!Row(0, s[i].name, c, TRUE)]
      PROVE  e \in Seq(Item) /\ Honest(e)
  <2>1. PICK x : x = REC!Row(0, s[i].name, c, TRUE)
    OBVIOUS
  <2>2. x \in Item /\ x.category = x.pick
    BY <1>2, <1>3, <2>1 DEF REC!Row, Item
  <2>3. QED
    BY <1>2, <1>8, <2>1, <2>2, ExceptSeq, Zenon DEF Honest
<1>9. ASSUME NEW i \in DOMAIN s, e = [s EXCEPT ![i].manual = FALSE]
      PROVE  e \in Seq(Item) /\ Honest(e)
  <2>1. PICK x : x = [s[i] EXCEPT !.manual = FALSE]
    OBVIOUS
  <2>2. x \in Item /\ x.manual = FALSE
    BY <1>2, <2>1 DEF Item
  <2>3. e = [s EXCEPT ![i] = x]
    BY <1>9, <2>1
  <2>4. QED
    BY <1>2, <2>2, <2>3, ExceptSeq DEF Honest
<1>10. QED
  BY <1>1, <1>4, <1>5, <1>6, <1>7, <1>8, <1>9

LEMMA NewRowsAreNumbered ==
  ASSUME lastId \in Nat, NEW n, NEW s \in Seq(Item), Honest(s), NEW q, q = REC!NewRows(n, s)
  PROVE  /\ q \in Seq(Item) /\ Honest(q) /\ Len(q) = Len(s)
         /\ \A i \in DOMAIN q : q[i].id = lastId + i
<1>1. DOMAIN s = 1 .. Len(s) /\ Len(s) \in Nat /\ \A i \in DOMAIN s : s[i] \in Item
  OBVIOUS
<1>2. q = [i \in DOMAIN s |-> [s[i] EXCEPT !.id = lastId + i]]
  BY DEF REC!NewRows, REC!Numbered
<1>3. \A i \in DOMAIN s : q[i] \in Item /\ q[i].id = lastId + i /\ q[i].manual = s[i].manual
                          /\ q[i].category = s[i].category /\ q[i].pick = s[i].pick
  BY <1>1, <1>2 DEF Item
<1>4. q \in [1 .. Len(s) -> Item]
  BY <1>1, <1>2, <1>3
<1>5. QED
  BY <1>1, <1>2, <1>3, <1>4, SeqDef DEF Honest

--------------------------------------------------------------------------------
(* Rows are written anew: every list stays, goes or has new ids, and of the    *)
(* new lists a run has just begun.                                             *)
LEMMA ItemsHaveIds ==
  ASSUME NEW s \in Seq(Item), NEW i \in DOMAIN s
  PROVE  s[i] \in Item /\ s[i].id \in Nat /\ s[i].name \in Labels
<1>1. s[i] \in Item
  OBVIOUS
<1>2. QED
  BY <1>1 DEF Item

Stays(n) == rows'[n] = rows[n] \/ rows'[n] = REC!Absent

LEMMA RewrittenKeeps ==
  ASSUME RecipeInv, RecipeShapes', AllHonest', lastId <= lastId',
         \A n \in RecipeNotes : ~Stays(n) =>
            \A i \in DOMAIN rows'[n] : rows'[n][i].id > lastId /\ rows'[n][i].id <= lastId',
         \A n, m \in RecipeNotes : ~Stays(n) /\ ~Stays(m) =>
            \A i \in DOMAIN rows'[n], j \in DOMAIN rows'[m] :
               rows'[n][i].id = rows'[m][j].id => rows'[n][i] = rows'[m][j],
         \A n \in RecipeNotes \ missed' :
            \/ n \notin missed /\ Stays(n)
            \/ \E r \in REC!Runs : run'[r].at = "load" /\ n \in run'[r].notes,
         \A r \in REC!Runs : run'[r] = run[r] \/ (run[r].at = "none" /\ run'[r].todo = {})
  PROVE  RecipeInv'
<1>1. \A n \in RecipeNotes : REC!Exists(n)' /\ Stays(n) => REC!Exists(n) /\ rows'[n] = rows[n]
  BY DEF Stays, REC!Exists
<1>2. \A n \in RecipeNotes : \A i \in DOMAIN rows[n] : rows[n][i].id \in Nat
  BY ItemsHaveIds DEF RecipeInv, RecipeShapes
<1>3. \A n \in RecipeNotes : \A i \in DOMAIN rows'[n] : rows'[n][i].id \in Nat
  BY ItemsHaveIds DEF RecipeShapes
<1>4. lastId \in Nat /\ lastId' \in Nat
  BY DEF RecipeInv, RecipeShapes
<1>5. Numbers'
  <2> SUFFICES ASSUME NEW n \in RecipeNotes, REC!Exists(n)', NEW i \in DOMAIN rows'[n]
               PROVE  /\ rows'[n][i].id <= lastId'
                      /\ \A m \in RecipeNotes : REC!Exists(m)' => \A j \in DOMAIN rows'[m] :
                            rows'[m][j].id = rows'[n][i].id => rows'[m][j] = rows'[n][i]
    BY DEF Numbers
  <2>1. Stays(n) => rows'[n] = rows[n] /\ rows[n][i].id <= lastId
    BY <1>1 DEF RecipeInv, Numbers
  <2>2. rows'[n][i].id <= lastId'
    BY <1>2, <1>4, <2>1
  <2>3. ASSUME NEW m \in RecipeNotes, REC!Exists(m)', NEW j \in DOMAIN rows'[m], rows'[m][j].id = rows'[n][i].id
        PROVE  rows'[m][j] = rows'[n][i]
    <3>1. Stays(m) => rows'[m] = rows[m] /\ rows[m][j].id <= lastId
      BY <1>1, <2>3 DEF RecipeInv, Numbers
    <3>2. CASE Stays(n) /\ Stays(m)
      BY <1>1, <2>1, <2>3, <3>1, <3>2 DEF RecipeInv, Numbers
    <3>3. CASE ~Stays(n) /\ ~Stays(m)
      BY <2>3, <3>3
    <3>4. Stays(n) <=> Stays(m)
      BY <1>3, <1>4, <2>1, <2>3, <3>1
    <3>5. QED
      BY <3>2, <3>3, <3>4
  <2>4. QED
    BY <2>2, <2>3
<1>6. AllSeek'
  <2> SUFFICES ASSUME NEW r \in REC!Runs, NEW t \in run'[r].todo PROVE Seeks(t)'
    BY DEF AllSeek
  <2>1. t \in run[r].todo /\ Seeks(t)
    BY DEF RecipeInv, AllSeek
  <2>2. PICK u : u = t
    OBVIOUS
  <2>3. u.id \in Nat
    BY <2>1, <2>2 DEF RecipeInv, RecipeShapes, Work
  <2>4. u.id <= lastId'
    BY <1>4, <2>1, <2>2, <2>3 DEF Seeks
  <2>5. ASSUME NEW n \in RecipeNotes, REC!Exists(n)', NEW i \in DOMAIN rows'[n], rows'[n][i].id = u.id
        PROVE  ~rows'[n][i].manual /\ rows'[n][i].name = u.name
    <3>1. Stays(n)
      BY <1>3, <1>4, <2>1, <2>2, <2>3, <2>5 DEF Seeks
    <3>2. QED
      BY <1>1, <2>1, <2>2, <2>5, <3>1 DEF Seeks
  <2>6. Seeks(u)'
    BY <2>4, <2>5 DEF Seeks
  <2>7. QED
    BY <2>2, <2>6
<1>7. AllSought'
  <2> SUFFICES ASSUME NEW n \in RecipeNotes, n \notin missed', REC!Exists(n)', NEW i \in DOMAIN rows'[n], Wanting(rows'[n][i])
               PROVE  \E r \in REC!Runs : Sought(run'[r], n, rows'[n][i])
    BY DEF AllSought, Sought, Wanting
  <2>1. CASE \E r \in REC!Runs : run'[r].at = "load" /\ n \in run'[r].notes
    BY <2>1 DEF Sought
  <2>2. CASE n \notin missed /\ Stays(n)
    <3>1. REC!Exists(n) /\ rows'[n] = rows[n]
      BY <1>1, <2>2
    <3>2. PICK r \in REC!Runs : Sought(run[r], n, rows[n][i])
      BY <2>2, <3>1 DEF RecipeInv, AllSought
    <3>3. run'[r] = run[r]
      BY <3>2 DEF Sought
    <3>4. QED
      BY <3>1, <3>2, <3>3
  <2>3. QED
    BY <2>1, <2>2
<1>8. QED
  BY <1>5, <1>6, <1>7 DEF RecipeInv

(* The runs of a save or an import: one starts.                                *)
LEMMA ClassifyStarts ==
  ASSUME RecipeShapes, NEW ns \in SUBSET RecipeNotes, REC!Classify(ns)
  PROVE  /\ run' \in [REC!Runs -> Work]
         /\ \A r \in REC!Runs : run'[r] = run[r] \/ (run[r].at = "none" /\ run'[r].todo = {})
         /\ \E r \in REC!Runs : run'[r].at = "load" /\ run'[r].notes = ns
<1>1. PICK f : f = REC!Free
  OBVIOUS
<1>2. f \in REC!Runs /\ run[f].at = "none"
  BY <1>1 DEF REC!Classify, REC!Free
<1>3. PICK v : v = [REC!NoRun EXCEPT !.at = "load", !.notes = ns]
  OBVIOUS
<1>4. v \in Work /\ v.at = "load" /\ v.notes = ns /\ v.todo = {}
  BY <1>3 DEF REC!NoRun, Work, Stages
<1>5. run' = [run EXCEPT ![f] = v]
  BY <1>1, <1>3 DEF REC!Classify, REC!Go
<1>6. QED
  BY <1>2, <1>4, <1>5 DEF RecipeShapes

LEMMA SaveKeepsRecipes ==
  ASSUME RecipeInv, NEW b \in Tabs, REC!Save(b)
  PROVE  RecipeInv'
<1>1. PICK n : n = tab[b].note
  OBVIOUS
<1>2. n \in RecipeNotes /\ config' = config
  BY <1>1 DEF REC!Save, RecipeInv, RecipeShapes
<1>3. tab' = [tab EXCEPT ![b] = REC!Closed]
  BY DEF REC!Save
<1>4. \A c \in Tabs : /\ tab'[c].rows \in Seq(Item) /\ Honest(tab'[c].rows)
                      /\ tab'[c] # REC!Closed => tab'[c].note \in RecipeNotes
  <2>1. REC!Closed.rows = <<>> /\ <<>> \in Seq(Item) /\ Honest(<<>>)
    BY EmptySeq DEF REC!Closed, Honest
  <2>2. QED
    BY <1>3, <2>1 DEF RecipeInv, RecipeShapes, AllHonest
<1>5. CASE ~REC!Exists(n)
  <2>1. UNCHANGED <<rows, lastId, run, missed>>
    BY <1>1, <1>5 DEF REC!Save
  <2>2. RecipeShapes' /\ AllHonest'
    BY <1>2, <1>3, <1>4, <2>1 DEF RecipeInv, RecipeShapes, AllHonest, REC!Exists
  <2>3. QED
    BY <2>1, <2>2 DEF RecipeInv, Numbers, AllSeek, Seeks, AllSought, REC!Exists
<1>6. CASE REC!Exists(n)
  <2>1. PICK s \in REC!Edited(tab[b].rows) :
           /\ rows' = [rows EXCEPT ![n] = REC!NewRows(n, s)]
           /\ lastId' = lastId + Len(s) /\ missed' = missed \ {n} /\ REC!Classify({n})
    BY <1>1, <1>6 DEF REC!Save
  <2>2. s \in Seq(Item) /\ Honest(s)
    BY EditedStaysHonest DEF RecipeInv, RecipeShapes, AllHonest
  <2>3. PICK q : q = REC!NewRows(n, s)
    OBVIOUS
  <2>4. /\ q \in Seq(Item) /\ Honest(q) /\ Len(q) = Len(s)
        /\ \A i \in DOMAIN q : q[i].id = lastId + i
    BY <2>2, <2>3, NewRowsAreNumbered DEF RecipeInv, RecipeShapes
  <2>5. lastId \in Nat /\ Len(s) \in Nat /\ DOMAIN q = 1 .. Len(s) /\ DOMAIN rows = RecipeNotes
    BY <2>2, <2>4 DEF RecipeInv, RecipeShapes
  <2>6. rows'[n] = q /\ \A m \in RecipeNotes \ {n} : rows'[m] = rows[m]
    BY <1>2, <2>1, <2>3, <2>5
  <2>7. \A i \in DOMAIN q : q[i].id > lastId /\ q[i].id <= lastId'
    BY <2>1, <2>4, <2>5
  <2>8. \A i, j \in DOMAIN q : q[i].id = q[j].id => q[i] = q[j]
    BY <2>4, <2>5
  <2>9. RecipeShapes'
    <3>1. run' \in [REC!Runs -> Work]
      BY <1>2, <2>1, ClassifyStarts DEF RecipeInv
    <3>2. rows' \in [RecipeNotes -> Seq(Item)]
      BY <2>1, <2>3, <2>4 DEF RecipeInv, RecipeShapes
    <3>3. QED
      BY <1>2, <1>3, <1>4, <2>1, <2>5, <3>1, <3>2 DEF RecipeInv, RecipeShapes
  <2>10. AllHonest'
    BY <1>4, <2>4, <2>6 DEF RecipeInv, AllHonest, REC!Exists
  <2>11. \A m \in RecipeNotes \ missed' :
            \/ m \notin missed /\ Stays(m)
            \/ \E r \in REC!Runs : run'[r].at = "load" /\ m \in run'[r].notes
    <3>1. \E r \in REC!Runs : run'[r].at = "load" /\ n \in run'[r].notes
      BY <1>2, <2>1, ClassifyStarts DEF RecipeInv
    <3>2. QED
      BY <2>1, <2>6, <3>1 DEF Stays
  <2>12. \A r \in REC!Runs : run'[r] = run[r] \/ (run[r].at = "none" /\ run'[r].todo = {})
    BY <1>2, <2>1, ClassifyStarts DEF RecipeInv
  <2>13. \A m \in RecipeNotes : ~Stays(m) => m = n
    BY <2>6 DEF Stays
  <2>14. lastId <= lastId'
    BY <2>1, <2>5
  <2>15. QED
    BY <2>6, <2>7, <2>8, <2>9, <2>10, <2>11, <2>12, <2>13, <2>14, RewrittenKeeps
<1>7. QED
  BY <1>5, <1>6

LEMMA ImportKeepsRecipes ==
  ASSUME RecipeInv, NEW n \in RecipeNotes, REC!Import(n)
  PROVE  RecipeInv'
<1>1. PICK name, m, last :
        /\ name \in config.names
        /\ m = n \/ (m \in RecipeNotes /\ ~REC!Exists(m))
        /\ last = IF m = n THEN lastId + 1 ELSE lastId + 2
        /\ rows' = [rows EXCEPT ![n] = <<REC!Row(lastId + 1, name, Other, FALSE)>>,
                                ![m] = <<REC!Row(last, name, Other, FALSE)>>]
        /\ lastId' = last /\ missed' = missed \ {n, m} /\ REC!Classify({n, m})
  BY DEF REC!Import
<1>2. m \in RecipeNotes /\ lastId \in Nat /\ last \in Nat /\ tab' = tab /\ config' = config
  BY <1>1 DEF REC!Import, RecipeInv, RecipeShapes
<1>3. PICK x, y, p, q : /\ x = REC!Row(lastId + 1, name, Other, FALSE) /\ y = REC!Row(last, name, Other, FALSE)
                        /\ p = <<x>> /\ q = <<y>>
  OBVIOUS
<1>4. /\ x \in Item /\ x.id = lastId + 1 /\ x.category = x.pick
      /\ y \in Item /\ y.id = last /\ y.category = y.pick
  <2>1. name \in Labels /\ Other \in Sections /\ lastId + 1 \in Nat
    BY <1>1, <1>2 DEF RecipeInv, RecipeShapes, Labels, Sections
  <2>2. QED
    BY <1>2, <1>3, <2>1 DEF REC!Row, Item
<1>5. /\ p \in Seq(Item) /\ DOMAIN p = {1} /\ p[1] = x /\ Honest(p)
      /\ q \in Seq(Item) /\ DOMAIN q = {1} /\ q[1] = y /\ Honest(q)
  BY <1>3, <1>4, OneRow
<1>6. rows' = [rows EXCEPT ![n] = p, ![m] = q] /\ DOMAIN rows = RecipeNotes
  BY <1>1, <1>3 DEF RecipeInv, RecipeShapes
<1>7. /\ rows'[m] = q /\ (m # n => rows'[n] = p)
      /\ \A k \in RecipeNotes \ {n, m} : rows'[k] = rows[k]
  BY <1>2, <1>6
<1>8. /\ run' \in [REC!Runs -> Work]
      /\ \A r \in REC!Runs : run'[r] = run[r] \/ (run[r].at = "none" /\ run'[r].todo = {})
      /\ \E r \in REC!Runs : run'[r].at = "load" /\ run'[r].notes = {n, m}
  BY <1>1, <1>2, ClassifyStarts DEF RecipeInv
<1>9. RecipeShapes'
  <2>1. rows' \in [RecipeNotes -> Seq(Item)]
    BY <1>2, <1>5, <1>6 DEF RecipeInv, RecipeShapes
  <2>2. QED
    BY <1>1, <1>2, <1>8, <2>1 DEF RecipeInv, RecipeShapes
<1>10. AllHonest'
  BY <1>2, <1>5, <1>7 DEF RecipeInv, AllHonest, REC!Exists
<1>11. \A k \in RecipeNotes : ~Stays(k) => k \in {n, m}
  BY <1>7 DEF Stays
<1>12. lastId <= lastId' /\ last > lastId /\ (m # n => last = lastId + 2)
  BY <1>1, <1>2
<1>13. \A k \in RecipeNotes : ~Stays(k) =>
          \A i \in DOMAIN rows'[k] : rows'[k][i].id > lastId /\ rows'[k][i].id <= lastId'
  <2>1. x.id > lastId /\ x.id <= lastId' /\ y.id > lastId /\ y.id <= lastId'
    BY <1>1, <1>2, <1>4, <1>12
  <2>2. QED
    BY <1>5, <1>7, <1>11, <2>1
<1>14. \A k, l \in RecipeNotes : ~Stays(k) /\ ~Stays(l) =>
          \A i \in DOMAIN rows'[k], j \in DOMAIN rows'[l] :
             rows'[k][i].id = rows'[l][j].id => rows'[k][i] = rows'[l][j]
  <2>1. m # n => lastId + 1 # last
    BY <1>2, <1>12
  <2>2. QED
    BY <1>4, <1>5, <1>7, <1>11, <2>1
<1>15. \A k \in RecipeNotes \ missed' :
          \/ k \notin missed /\ Stays(k)
          \/ \E r \in REC!Runs : run'[r].at = "load" /\ k \in run'[r].notes
  BY <1>1, <1>7, <1>8 DEF Stays
<1>16. QED
  BY <1>8, <1>9, <1>10, <1>12, <1>13, <1>14, <1>15, RewrittenKeeps

LEMMA DeleteKeepsRecipes ==
  ASSUME RecipeInv, NEW n \in RecipeNotes, REC!Delete(n)
  PROVE  RecipeInv'
<1>1. rows' = [rows EXCEPT ![n] = REC!Absent] /\ UNCHANGED <<lastId, tab, run, missed, config>>
  BY DEF REC!Delete
<1>2. DOMAIN rows = RecipeNotes /\ lastId \in Nat
  BY DEF RecipeInv, RecipeShapes
<1>3. \A m \in RecipeNotes : Stays(m)
  BY <1>1, <1>2 DEF Stays
<1>4. rows' \in [RecipeNotes -> Seq(Item)]
  BY <1>1, AbsentIsItems DEF RecipeInv, RecipeShapes
<1>5. RecipeShapes'
  BY <1>1, <1>4 DEF RecipeInv, RecipeShapes
<1>6. AllHonest'
  BY <1>1, <1>2 DEF RecipeInv, AllHonest, REC!Exists
<1>7. lastId <= lastId'
  BY <1>1, <1>2
<1>8. QED
  BY <1>1, <1>3, <1>5, <1>6, <1>7, RewrittenKeeps

LEMMA OpenKeepsRecipes ==
  ASSUME RecipeInv, NEW b \in Tabs, NEW n \in RecipeNotes, REC!Open(b, n)
  PROVE  RecipeInv'
<1>1. PICK t : t = [note |-> n, rows |-> rows[n]]
  OBVIOUS
<1>2. tab' = [tab EXCEPT ![b] = t] /\ UNCHANGED <<rows, lastId, run, missed, config>> /\ REC!Exists(n)
  BY <1>1 DEF REC!Open
<1>3. t.note \in RecipeNotes /\ t.rows \in Seq(Item) /\ Honest(t.rows)
  BY <1>1, <1>2 DEF RecipeInv, RecipeShapes, AllHonest
<1>4. RecipeShapes' /\ AllHonest'
  BY <1>2, <1>3 DEF RecipeInv, RecipeShapes, AllHonest, REC!Exists
<1>5. QED
  BY <1>2, <1>4 DEF RecipeInv, Numbers, AllSeek, Seeks, AllSought, REC!Exists

--------------------------------------------------------------------------------
(* A run goes on: it looks for nothing it should not, and a row in its hands   *)
(* stays there or its note counts as missed.                                   *)
LEMMA RunGoesOn ==
  ASSUME RecipeInv, NEW r \in REC!Runs, NEW v \in Work, REC!Go(r, v),
         UNCHANGED <<rows, lastId, tab, config>>, missed \subseteq missed',
         \A t \in v.todo : Seeks(t),
         \A n \in RecipeNotes \ missed' : REC!Exists(n) =>
            \A i \in DOMAIN rows[n] :
               Wanting(rows[n][i]) /\ Sought(run[r], n, rows[n][i]) => Sought(v, n, rows[n][i])
  PROVE  RecipeInv'
<1>1. run' \in [REC!Runs -> Work] /\ run'[r] = v /\ \A q \in REC!Runs \ {r} : run'[q] = run[q]
  BY DEF REC!Go, RecipeInv, RecipeShapes
<1>2. RecipeShapes' /\ AllHonest' /\ Numbers'
  BY <1>1 DEF RecipeInv, RecipeShapes, AllHonest, Numbers, REC!Exists
<1>3. AllSeek'
  BY <1>1 DEF RecipeInv, AllSeek, Seeks, REC!Exists
<1>4. AllSought'
  BY <1>1 DEF RecipeInv, AllSought, REC!Exists
<1>5. QED
  BY <1>2, <1>3, <1>4 DEF RecipeInv

LEMMA AfterBatchIsWork ==
  ASSUME NEW v \in Work
  PROVE  REC!AfterBatch(v) \in Work /\ REC!AfterBatch(v).todo = {}
<1>1. [REC!NoRun EXCEPT !.at = "batch", !.left = v.left] \in Work
      /\ [REC!NoRun EXCEPT !.at = "batch", !.left = v.left].todo = {}
  BY DEF REC!NoRun, Work, Stages
<1>2. QED
  BY <1>1, NoRunIsWork DEF REC!AfterBatch

LEMMA RecalculateKeepsRecipes == ASSUME RecipeInv, REC!Recalculate PROVE RecipeInv'
<1>1. PICK f, ns, v : /\ f = REC!Free /\ ns = {n \in RecipeNotes : REC!Exists(n)}
                      /\ v = [REC!NoRun EXCEPT !.at = "batch", !.left = ns]
  BY Zenon
<1>2. f \in REC!Runs /\ run[f].at = "none"
  BY <1>1 DEF REC!Recalculate, REC!Free
<1>3. v \in Work /\ v.todo = {}
  BY <1>1, Zenon DEF REC!NoRun, Work, Stages
<1>4. REC!Go(f, v) /\ UNCHANGED <<rows, lastId, tab, missed, config>>
  BY <1>1 DEF REC!Recalculate
<1>5. QED
  BY <1>2, <1>3, <1>4, RunGoesOn DEF Sought

LEMMA NextBatchKeepsRecipes ==
  ASSUME RecipeInv, NEW r \in REC!Runs, REC!NextBatch(r)
  PROVE  RecipeInv'
<1>1. PICK ns : /\ ns \subseteq run[r].left
                /\ REC!Go(r, IF ns = {} THEN REC!NoRun
                             ELSE [run[r] EXCEPT !.at = "load", !.notes = ns, !.left = @ \ ns])
  BY Zenon DEF REC!NextBatch
<1>2. PICK v : v = IF ns = {} THEN REC!NoRun ELSE [run[r] EXCEPT !.at = "load", !.notes = ns, !.left = @ \ ns]
  OBVIOUS
<1>3. run[r] \in Work /\ run[r].at = "batch" /\ UNCHANGED <<rows, lastId, tab, missed, config>>
  BY DEF REC!NextBatch, RecipeInv, RecipeShapes
<1>4. v \in Work /\ v.todo \subseteq run[r].todo
  BY <1>1, <1>2, <1>3, NoRunIsWork DEF Work, Stages
<1>5. \A t \in v.todo : Seeks(t)
  BY <1>4 DEF RecipeInv, AllSeek
<1>6. REC!Go(r, v)
  BY <1>1, <1>2
<1>7. QED
  BY <1>3, <1>4, <1>5, <1>6, RunGoesOn DEF Sought

LEMMA LoadKeepsRecipes ==
  ASSUME RecipeInv, NEW r \in REC!Runs, REC!LoadIngredients(r)
  PROVE  RecipeInv'
<1>1. run[r] \in Work /\ run[r].at = "load" /\ UNCHANGED <<rows, lastId, tab, missed, config>>
  BY DEF REC!LoadIngredients, RecipeInv, RecipeShapes
<1>2. PICK todo : todo = REC!ToCategorize(run[r].notes)
  OBVIOUS
<1>3. \A t \in todo : \E n \in run[r].notes : REC!Exists(n) /\ \E i \in DOMAIN rows[n] :
         t = [id |-> rows[n][i].id, name |-> rows[n][i].name] /\ ~rows[n][i].manual
  BY <1>2 DEF REC!ToCategorize, REC!AllRows
<1>4. ASSUME NEW n \in run[r].notes, REC!Exists(n), NEW i \in DOMAIN rows[n], ~rows[n][i].manual
      PROVE  \E t \in todo : t.id = rows[n][i].id
  <2>1. rows[n][i] \in REC!AllRows(run[r].notes)
    BY <1>4 DEF REC!AllRows
  <2>2. [id |-> rows[n][i].id, name |-> rows[n][i].name] \in todo
    BY <1>2, <1>4, <2>1 DEF REC!ToCategorize
  <2>3. QED
    BY <2>2
<1>5. run[r].notes \subseteq RecipeNotes
  BY <1>1 DEF Work
<1>6. ASSUME NEW t \in todo PROVE t \in [id : Nat, name : Labels] /\ Seeks(t)
  <2>1. PICK n \in RecipeNotes : REC!Exists(n) /\ \E i \in DOMAIN rows[n] :
               t = [id |-> rows[n][i].id, name |-> rows[n][i].name] /\ ~rows[n][i].manual
    BY <1>3, <1>5
  <2>2. PICK i \in DOMAIN rows[n] : t = [id |-> rows[n][i].id, name |-> rows[n][i].name] /\ ~rows[n][i].manual
    BY <2>1
  <2>3. rows[n][i].id \in Nat /\ rows[n][i].name \in Labels
    BY ItemsHaveIds DEF RecipeInv, RecipeShapes
  <2>4. t.id <= lastId
    BY <2>1, <2>2 DEF RecipeInv, Numbers
  <2>5. \A m \in RecipeNotes : REC!Exists(m) => \A j \in DOMAIN rows[m] : rows[m][j].id = t.id => rows[m][j] = rows[n][i]
    BY <2>1, <2>2 DEF RecipeInv, Numbers
  <2>6. QED
    BY <2>2, <2>3, <2>4, <2>5 DEF Seeks
<1>7. CASE todo = {}
  <2>1. PICK v : v = REC!AfterBatch(run[r])
    OBVIOUS
  <2>2. v \in Work /\ v.todo = {} /\ REC!Go(r, v)
    BY <1>1, <1>2, <1>7, <2>1, AfterBatchIsWork DEF REC!LoadIngredients
  <2>3. \A n \in RecipeNotes : REC!Exists(n) => \A i \in DOMAIN rows[n] :
           Wanting(rows[n][i]) => ~Sought(run[r], n, rows[n][i])
    BY <1>4, <1>7 DEF Sought, Wanting
  <2>4. QED
    BY <1>1, <2>2, <2>3, RunGoesOn
<1>8. CASE todo # {}
  <2>1. PICK v : v = [run[r] EXCEPT !.at = "categories", !.todo = todo]
    OBVIOUS
  <2>2. REC!Go(r, v)
    BY <1>2, <1>8, <2>1 DEF REC!LoadIngredients
  <2>3. v \in Work /\ v.todo = todo /\ v.at = "categories" /\ v.notes = run[r].notes
    BY <1>1, <1>6, <2>1 DEF Work, Stages
  <2>4. \A n \in RecipeNotes : REC!Exists(n) => \A i \in DOMAIN rows[n] :
           Wanting(rows[n][i]) /\ Sought(run[r], n, rows[n][i]) => Sought(v, n, rows[n][i])
    BY <1>4, <2>3 DEF Sought, Wanting
  <2>5. QED
    BY <1>1, <1>6, <2>2, <2>3, <2>4, RunGoesOn
<1>9. QED
  BY <1>7, <1>8

LEMMA EmbedCategoriesKeepsRecipes ==
  ASSUME RecipeInv, NEW r \in REC!Runs, REC!EmbedCategories(r)
  PROVE  RecipeInv'
<1>1. /\ run[r] \in Work /\ run[r].at = "categories" /\ UNCHANGED <<rows, lastId, tab, config>>
      /\ \A t \in run[r].todo : Seeks(t)
  BY DEF REC!EmbedCategories, RecipeInv, RecipeShapes, AllSeek
<1>2. PICK names : names = {x.name : x \in run[r].todo}
  OBVIOUS
<1>3. PICK v : v = [run[r] EXCEPT !.at = "names", !.asked = names]
  OBVIOUS
<1>4. CASE REC!Go(r, v) /\ missed' = missed
  <2>1. /\ v \in Work /\ v.todo = run[r].todo /\ v.notes = run[r].notes /\ v.at = "names"
        /\ \A t \in v.todo : t.name \in v.asked
    <3>1. names \subseteq Labels /\ \A t \in run[r].todo : t.name \in names
      BY <1>1, <1>2 DEF Work
    <3>2. QED
      BY <1>1, <1>3, <3>1 DEF Work, Stages
  <2>2. \A n \in RecipeNotes : REC!Exists(n) => \A i \in DOMAIN rows[n] :
           Sought(run[r], n, rows[n][i]) => Sought(v, n, rows[n][i])
    BY <1>1, <2>1 DEF Sought
  <2>3. QED
    BY <1>1, <1>4, <2>1, <2>2, RunGoesOn
<1>5. CASE missed' = missed \cup run[r].notes \cup run[r].left /\ REC!Go(r, REC!NoRun)
  <2>1. PICK none : none = REC!NoRun
    OBVIOUS
  <2>2. REC!Go(r, none) /\ none \in Work /\ none.todo = {}
    BY <1>5, <2>1, NoRunIsWork
  <2>3. \A n \in RecipeNotes \ missed' : n \notin run[r].notes
    BY <1>5
  <2>4. QED
    BY <1>1, <1>5, <2>2, <2>3, RunGoesOn DEF Sought
<1>6. QED
  BY <1>2, <1>3, <1>4, <1>5 DEF REC!EmbedCategories

LEMMA EmbedNameKeepsRecipes ==
  ASSUME RecipeInv, NEW r \in REC!Runs, REC!EmbedName(r)
  PROVE  RecipeInv'
<1>1. /\ run[r] \in Work /\ run[r].at = "names" /\ UNCHANGED <<rows, lastId, tab, config>>
      /\ \A t \in run[r].todo : Seeks(t)
  BY DEF REC!EmbedName, RecipeInv, RecipeShapes, AllSeek
<1>2. PICK name \in run[r].asked :
        LET v == [run[r] EXCEPT !.asked = @ \ {name}] IN
        \/ REC!Go(r, [v EXCEPT !.found = @ \cup {name}]) /\ missed' = missed
        \/ REC!Go(r, v) /\ missed' = missed \cup run[r].notes
  BY Zenon DEF REC!EmbedName
<1>3. PICK v, w : v = [run[r] EXCEPT !.asked = @ \ {name}] /\ w = [v EXCEPT !.found = @ \cup {name}]
  OBVIOUS
<1>4. /\ v \in Work /\ v.todo = run[r].todo
      /\ w \in Work /\ w.todo = run[r].todo /\ w.notes = run[r].notes /\ w.at = "names"
      /\ w.asked \cup w.found = run[r].asked \cup run[r].found
  BY <1>1, <1>3 DEF Work
<1>5. CASE REC!Go(r, w) /\ missed' = missed
  <2>1. \A n \in RecipeNotes : REC!Exists(n) => \A i \in DOMAIN rows[n] :
           Sought(run[r], n, rows[n][i]) => Sought(w, n, rows[n][i])
    BY <1>1, <1>4 DEF Sought
  <2>2. QED
    BY <1>1, <1>4, <1>5, <2>1, RunGoesOn
<1>6. CASE REC!Go(r, v) /\ missed' = missed \cup run[r].notes
  <2>1. \A n \in RecipeNotes \ missed' : n \notin run[r].notes
    BY <1>6
  <2>2. QED
    BY <1>1, <1>4, <1>6, <2>1, RunGoesOn DEF Sought
<1>7. QED
  BY <1>2, <1>3, <1>5, <1>6

(* What a run writes: every row it still finds by its id has the name it was   *)
(* asked for and is not picked, so it gets the model's category.               *)
LEMMA WriteKeepsRecipes ==
  ASSUME RecipeInv, NEW r \in REC!Runs, REC!WriteCategories(r)
  PROVE  RecipeInv'
<1> DEFINE Mine(x) == {t \in run[r].todo : t.id = x.id /\ t.name \in run[r].found}
           Write(x) == IF Mine(x) = {} THEN x ELSE [x EXCEPT !.category = Guess[(CHOOSE t \in Mine(x) : TRUE).name]]
<1>1. /\ run[r] \in Work /\ run[r].at = "names" /\ run[r].asked = {}
      /\ UNCHANGED <<lastId, tab, missed, config>>
      /\ \A t \in run[r].todo : Seeks(t)
  BY DEF REC!WriteCategories, RecipeInv, RecipeShapes, AllSeek
<1>2. rows' = [n \in RecipeNotes |-> IF ~REC!Exists(n) THEN REC!Absent ELSE [i \in DOMAIN rows[n] |-> Write(rows[n][i])]]
  BY DEF REC!WriteCategories
<1>3. PICK v : v = REC!AfterBatch(run[r])
  OBVIOUS
<1>4. v \in Work /\ v.todo = {} /\ run' = [run EXCEPT ![r] = v]
  BY <1>1, <1>3, AfterBatchIsWork DEF REC!WriteCategories, REC!Go
<1>5. ASSUME NEW n \in RecipeNotes, REC!Exists(n), NEW i \in DOMAIN rows[n]
      PROVE  /\ Write(rows[n][i]) \in Item /\ Write(rows[n][i]).id = rows[n][i].id
             /\ Write(rows[n][i]).name = rows[n][i].name /\ Write(rows[n][i]).manual = rows[n][i].manual
             /\ rows[n][i].manual => Write(rows[n][i]) = rows[n][i]
             /\ Wanting(Write(rows[n][i])) => Mine(rows[n][i]) = {} /\ Write(rows[n][i]) = rows[n][i]
  <2>1. PICK x : x = rows[n][i]
    OBVIOUS
  <2>2. x \in Item
    BY <2>1, ItemsHaveIds DEF RecipeInv, RecipeShapes
  <2>3. CASE Mine(x) = {}
    BY <2>1, <2>2, <2>3
  <2>4. CASE Mine(x) # {}
    <3>1. PICK t : t = CHOOSE u \in Mine(x) : TRUE
      OBVIOUS
    <3>2. t \in run[r].todo /\ t.id = x.id
      BY <2>4, <3>1
    <3>3. x.manual = FALSE /\ x.name = t.name
      BY <1>1, <1>5, <2>1, <2>2, <3>2 DEF Seeks, Item
    <3>4. Guess[x.name] \in Sections
      BY <2>2 DEF Sections, Item
    <3>5. Write(x) = [x EXCEPT !.category = Guess[x.name]]
      BY <2>4, <3>1, <3>3
    <3>6. PICK w : w = [x EXCEPT !.category = Guess[x.name]]
      OBVIOUS
    <3>7. w \in Item /\ w.id = x.id /\ w.name = x.name /\ w.manual = x.manual /\ w.category = Guess[w.name]
      BY <2>2, <3>4, <3>6 DEF Item
    <3>8. Write(x) = w
      BY <3>5, <3>6
    <3>9. ~Wanting(w)
      BY <3>7, <3>4 DEF Wanting, Sections
    <3> HIDE DEF Write
    <3>10. /\ Write(x) \in Item /\ Write(x).id = x.id /\ Write(x).name = x.name /\ Write(x).manual = x.manual
           /\ ~Wanting(Write(x)) /\ ~x.manual
      BY <3>3, <3>7, <3>8, <3>9
    <3>11. QED
      BY <2>1, <3>10
  <2>5. QED
    BY <2>3, <2>4
<1> HIDE DEF Write
<1>6. ASSUME NEW n \in RecipeNotes, REC!Exists(n)
      PROVE  /\ rows'[n] \in Seq(Item) /\ DOMAIN rows'[n] = DOMAIN rows[n]
             /\ \A i \in DOMAIN rows[n] : rows'[n][i] = Write(rows[n][i])
  <2>1. rows[n] \in Seq(Item) /\ DOMAIN rows[n] = 1 .. Len(rows[n]) /\ Len(rows[n]) \in Nat
    BY DEF RecipeInv, RecipeShapes
  <2>2. rows'[n] = [i \in DOMAIN rows[n] |-> Write(rows[n][i])]
    BY <1>2, <1>6
  <2>3. rows'[n] \in [1 .. Len(rows[n]) -> Item]
    BY <1>5, <1>6, <2>1, <2>2
  <2>4. QED
    BY <2>1, <2>2, <2>3, SeqDef
<1>7. \A n \in RecipeNotes : ~REC!Exists(n) => rows'[n] = REC!Absent
  BY <1>2
<1>8. \A n \in RecipeNotes : REC!Exists(n)' => REC!Exists(n)
  BY <1>7 DEF REC!Exists
<1>9. RecipeShapes'
  <2>1. rows' \in [RecipeNotes -> Seq(Item)]
    BY <1>2, <1>6, <1>7, AbsentIsItems
  <2>2. run' \in [REC!Runs -> Work]
    BY <1>4 DEF RecipeInv, RecipeShapes
  <2>3. QED
    BY <1>1, <2>1, <2>2 DEF RecipeInv, RecipeShapes
<1>10. AllHonest'
  <2>1. ASSUME NEW n \in RecipeNotes, REC!Exists(n)' PROVE Honest(rows'[n])
    BY <1>5, <1>6, <1>8, <2>1 DEF RecipeInv, AllHonest, Honest
  <2>2. QED
    BY <1>1, <2>1 DEF RecipeInv, AllHonest, Honest
<1>11. Numbers'
  <2> SUFFICES ASSUME NEW n \in RecipeNotes, REC!Exists(n)', NEW i \in DOMAIN rows'[n]
               PROVE  /\ rows'[n][i].id <= lastId'
                      /\ \A m \in RecipeNotes : REC!Exists(m)' => \A j \in DOMAIN rows'[m] :
                            rows'[m][j].id = rows'[n][i].id => rows'[m][j] = rows'[n][i]
    BY DEF Numbers
  <2>1. REC!Exists(n) /\ i \in DOMAIN rows[n] /\ rows'[n][i] = Write(rows[n][i]) /\ rows'[n][i].id = rows[n][i].id
    BY <1>5, <1>6, <1>8
  <2>2. rows[n][i].id <= lastId
    BY <2>1 DEF RecipeInv, Numbers
  <2>3. ASSUME NEW m \in RecipeNotes, REC!Exists(m)', NEW j \in DOMAIN rows'[m], rows'[m][j].id = rows'[n][i].id
        PROVE  rows'[m][j] = rows'[n][i]
    <3>1. REC!Exists(m) /\ j \in DOMAIN rows[m] /\ rows'[m][j] = Write(rows[m][j]) /\ rows'[m][j].id = rows[m][j].id
      BY <1>5, <1>6, <1>8, <2>3
    <3>2. rows[m][j] = rows[n][i]
      BY <2>1, <2>3, <3>1 DEF RecipeInv, Numbers
    <3>3. QED
      BY <2>1, <3>1, <3>2
  <2>4. QED
    BY <1>1, <2>1, <2>2, <2>3
<1>12. AllSeek'
  <2> SUFFICES ASSUME NEW q \in REC!Runs, NEW t \in run'[q].todo PROVE Seeks(t)'
    BY DEF AllSeek
  <2>1. t \in run[q].todo
    BY <1>4 DEF RecipeInv, RecipeShapes
  <2>2. PICK u : u = t
    OBVIOUS
  <2>3. Seeks(u)
    BY <2>1, <2>2 DEF RecipeInv, AllSeek
  <2>4. ASSUME NEW n \in RecipeNotes, REC!Exists(n)', NEW i \in DOMAIN rows'[n], rows'[n][i].id = u.id
        PROVE  ~rows'[n][i].manual /\ rows'[n][i].name = u.name
    BY <1>5, <1>6, <1>8, <2>3, <2>4 DEF Seeks
  <2>5. Seeks(u)'
    BY <1>1, <2>3, <2>4 DEF Seeks
  <2>6. QED
    BY <2>2, <2>5
<1>13. AllSought'
  <2> SUFFICES ASSUME NEW n \in RecipeNotes, n \notin missed', REC!Exists(n)', NEW i \in DOMAIN rows'[n], Wanting(rows'[n][i])
               PROVE  \E q \in REC!Runs : Sought(run'[q], n, rows'[n][i])
    BY DEF AllSought, Sought, Wanting
  <2>1. REC!Exists(n) /\ i \in DOMAIN rows[n]
    BY <1>6, <1>8
  <2>2. rows'[n][i] = Write(rows[n][i])
    BY <1>6, <2>1
  <2>3. Mine(rows[n][i]) = {} /\ rows'[n][i] = rows[n][i]
    BY <1>5, <2>1, <2>2
  <2>4. PICK q \in REC!Runs : Sought(run[q], n, rows[n][i])
    BY <1>1, <2>1, <2>3 DEF RecipeInv, AllSought
  <2>5. q # r
    BY <1>1, <2>3, <2>4 DEF Sought
  <2>6. run'[q] = run[q]
    BY <1>4, <2>5 DEF RecipeInv, RecipeShapes
  <2>7. QED
    BY <2>3, <2>4, <2>6
<1>14. QED
  BY <1>9, <1>10, <1>11, <1>12, <1>13 DEF RecipeInv

LEMMA RestartKeepsRecipes == ASSUME RecipeInv, REC!Restart PROVE RecipeInv'
<1>1. /\ run' = [r \in REC!Runs |-> REC!NoRun] /\ UNCHANGED <<rows, lastId, tab, config>>
      /\ missed' = missed \cup UNION {run[r].notes \cup run[r].left : r \in REC!Runs}
  BY DEF REC!Restart
<1>2. RecipeShapes' /\ AllHonest' /\ Numbers'
  BY <1>1, NoRunIsWork DEF RecipeInv, RecipeShapes, AllHonest, Numbers, REC!Exists
<1>3. AllSeek'
  BY <1>1, NoRunIsWork DEF AllSeek
<1>4. \A n \in RecipeNotes \ missed' : n \notin missed /\ \A r \in REC!Runs : n \notin run[r].notes
  BY <1>1
<1>5. AllSought'
  BY <1>1, <1>4 DEF RecipeInv, AllSought, Sought, REC!Exists
<1>6. QED
  BY <1>2, <1>3, <1>5 DEF RecipeInv

LEMMA RecipeNext == RecipeInv /\ [REC!Next]_(REC!vars) => RecipeInv'
<1> SUFFICES ASSUME RecipeInv, [REC!Next]_(REC!vars) PROVE RecipeInv'
  OBVIOUS
<1>1. CASE UNCHANGED REC!vars
  BY <1>1 DEF REC!vars, RecipeInv, RecipeShapes, AllHonest, Numbers, AllSeek, Seeks, AllSought, REC!Exists
<1>2. CASE \E b \in Tabs, n \in RecipeNotes : REC!Open(b, n)
  BY <1>2, OpenKeepsRecipes
<1>3. CASE \E b \in Tabs : REC!Save(b)
  BY <1>3, SaveKeepsRecipes
<1>4. CASE \E n \in RecipeNotes : REC!Import(n) \/ REC!Delete(n)
  BY <1>4, ImportKeepsRecipes, DeleteKeepsRecipes
<1>5. CASE REC!Recalculate \/ REC!Restart
  BY <1>5, RecalculateKeepsRecipes, RestartKeepsRecipes
<1>6. CASE \E r \in REC!Runs :
             \/ REC!NextBatch(r) \/ REC!LoadIngredients(r) \/ REC!EmbedCategories(r)
             \/ REC!EmbedName(r) \/ REC!WriteCategories(r)
  BY <1>6, NextBatchKeepsRecipes, LoadKeepsRecipes, EmbedCategoriesKeepsRecipes,
     EmbedNameKeepsRecipes, WriteKeepsRecipes
<1>7. QED
  BY <1>1, <1>2, <1>3, <1>4, <1>5, <1>6 DEF REC!Next

LEMMA RecipesMove ==
  ASSUME [Next]_vars, part = "recipes"
  PROVE  [REC!Next]_(REC!vars)
<1>1. CASE UNCHANGED vars
  BY <1>1 DEF vars, shared, recipesVars, REC!vars
<1>2. CASE Next
  BY <1>2 DEF Next, BackupsStep, SessionsStep, TasksStep, RecipesStep, IndexStep
<1>3. QED
  BY <1>1, <1>2

LEMMA RecipesStand == Spec => [](part = "recipes" => RecipeInv)
<1>1. Init => (part = "recipes" => RecipeInv)
  BY RecipeInit DEF Init
<1>2. (part = "recipes" => RecipeInv) /\ [Next]_vars => (part = "recipes" => RecipeInv)'
  BY PartStays, RecipesMove, RecipeNext
<1>3. QED
  BY <1>1, <1>2, PTL DEF Spec

(* No run overwrites a category that was picked: what it looks for by id is    *)
(* gone as soon as somebody saves the recipe.                                  *)
THEOREM PickedStaysPicked == Spec => []PickStays
<1>1. RecipeInv => REC!PickStays
  BY DEF RecipeInv, AllHonest, Honest, REC!PickStays, REC!AllRows
<1>2. (part = "recipes" => RecipeInv) => PickStays
  BY <1>1 DEF PickStays
<1>3. QED
  BY <1>2, RecipesStand, PTL

(* Once no run has a recipe in its hands any more and none of them failed,     *)
(* every row left to the model has the model's category.                       *)
THEOREM SettledRecipesAreCategorized == Spec => []SettledIsCategorized
<1>1. RecipeInv => REC!SettledIsCategorized
  BY DEF RecipeInv, AllSought, Sought, Wanting, REC!SettledIsCategorized
<1>2. (part = "recipes" => RecipeInv) => SettledIsCategorized
  BY <1>1 DEF SettledIsCategorized
<1>3. QED
  BY <1>2, RecipesStand, PTL

--------------------------------------------------------------------------------
(* Task notes.                                                                 *)

Words == Typed \cup {Untitled} \cup (UNION {c.planned : c \in TaskEdits})
Sub == [id : Nat, label : Words, checked : BOOLEAN]
TabFields == {"at", "task", "config", "subs", "to", "way"}
RunFields == {"at", "seen", "items", "added"}

TaskShapes ==
    /\ config \in TaskEdits /\ lastId \in Nat
    /\ DOMAIN row = Tasks
    /\ subs \in [Tasks -> Seq(Sub)]
    /\ DOMAIN tab = Tabs
    /\ \A b \in Tabs :
          /\ DOMAIN tab[b] = TabFields /\ tab[b].subs \in Seq(Sub)
          /\ tab[b].at # "closed" => tab[b].task \in Tasks
          /\ tab[b].at \in {"closed", "loading", "open", "setting"}
    /\ DOMAIN run = Tasks
    /\ \A t \in Tasks :
          /\ DOMAIN run[t] = RunFields
          /\ run[t].items \in Seq(config.planned \cup {Untitled})

\* An id was given to one label, in the table and in every copy of it.
Given(s) == \A i \in DOMAIN s : s[i].id \in 1 .. lastId
Agree(s, u) == \A i \in DOMAIN s, j \in DOMAIN u : s[i].id = u[j].id => s[i].label = u[j].label
IdsNameLabels ==
    /\ \A t \in Tasks : Given(subs[t])
    /\ \A b \in Tabs : Given(tab[b].subs)
    /\ \A t, u \in Tasks : Agree(subs[t], subs[u])
    /\ \A t \in Tasks, b \in Tabs : Agree(subs[t], tab[b].subs)
Ticked == toggled.seen = toggled.hit

\* With one editor: the job has seen what the model may suggest again, and the
\* editor's copy holds no suggestion that is not in the table any more.
In(s) == {s[i].label : i \in 1 .. Len(s)}
PlanGrows ==
    TSK!OneEditor =>
    /\ \A t \in Tasks : TSK!Distinct(subs[t])
    /\ \A b \in Tabs : TSK!Distinct(tab[b].subs)
    /\ \A t \in Tasks : run[t].at \in {"asking", "adding"} =>
          In(subs[t]) \cap config.planned \subseteq run[t].seen
    /\ \A b \in Tabs \cap config.editors : tab[b].at = "open" /\ TSK!Exists(tab[b].task) =>
          In(tab[b].subs) \cap config.planned \subseteq In(subs[tab[b].task])

TaskInv == TaskShapes /\ IdsNameLabels /\ Ticked /\ PlanGrows /\ TSK!DoneHasTime
--------------------------------------------------------------------------------
LEMMA NoSubs == <<>> \in Seq(Sub) /\ DOMAIN <<>> = {} /\ In(<<>>) = {} /\ TSK!Distinct(<<>>)
<1>1. <<>> \in Seq(Sub) /\ Len(<<>>) = 0
  BY EmptySeq
<1>2. DOMAIN <<>> = {}
  OBVIOUS
<1>3. QED
  BY <1>1, <1>2 DEF In, TSK!Distinct

LEMMA ClosedTab ==
  /\ DOMAIN TSK!Closed = TabFields /\ TSK!Closed.subs = <<>> /\ TSK!Closed.at = "closed"
  /\ DOMAIN TSK!NoRun = RunFields /\ TSK!NoRun.items = <<>> /\ TSK!NoRun.at = "none"
BY DEF TSK!Closed, TSK!NoRun, TabFields, RunFields

LEMMA TaskInit == TSK!Init => TaskInv
<1> SUFFICES ASSUME TSK!Init PROVE TaskInv
  OBVIOUS
<1>1. /\ config \in TaskEdits /\ lastId = 0 /\ DOMAIN row = Tasks
      /\ subs = [t \in Tasks |-> <<>>] /\ tab = [b \in Tabs |-> TSK!Closed]
      /\ run = [t \in Tasks |-> TSK!NoRun] /\ toggled.seen = toggled.hit
  BY DEF TSK!Init
<1>2. <<>> \in Seq(config.planned \cup {Untitled})
  BY EmptySeq
<1>3. TaskShapes
  <2>1. subs \in [Tasks -> Seq(Sub)]
    BY <1>1, NoSubs
  <2>2. \A b \in Tabs : tab[b] = TSK!Closed /\ tab[b].subs \in Seq(Sub)
    BY <1>1, NoSubs, ClosedTab
  <2>3. \A t \in Tasks : run[t] = TSK!NoRun /\ run[t].items \in Seq(config.planned \cup {Untitled})
    BY <1>1, <1>2, ClosedTab
  <2>4. QED
    BY <1>1, <2>1, <2>2, <2>3, ClosedTab DEF TaskShapes
<1>4. IdsNameLabels
  BY <1>1, NoSubs, ClosedTab DEF IdsNameLabels, Given, Agree
<1>5. PlanGrows
  BY <1>1, NoSubs, ClosedTab DEF PlanGrows
<1>6. TSK!DoneHasTime
  BY DEF TSK!Init, TSK!DoneHasTime, TSK!NoRow, TSK!Default
<1>7. QED
  BY <1>1, <1>3, <1>4, <1>5, <1>6 DEF TaskInv, Ticked

--------------------------------------------------------------------------------
\* The same rows but for their checks.
Same(s, u) ==
    /\ DOMAIN s = DOMAIN u
    /\ \A i \in DOMAIN s : s[i].id = u[i].id /\ s[i].label = u[i].label

LEMMA SameIsAlike ==
  ASSUME NEW s \in Seq(Sub), NEW u \in Seq(Sub), Same(s, u)
  PROVE  In(s) = In(u) /\ (TSK!Distinct(u) => TSK!Distinct(s))
<1>1. Len(s) = Len(u) /\ DOMAIN s = 1 .. Len(s)
  BY DEF Same
<1>2. QED
  BY <1>1 DEF Same, In, TSK!Distinct

LEMMA ChecksKeepIds ==
  ASSUME IdsNameLabels, DOMAIN subs = Tasks, DOMAIN subs' = Tasks, lastId' = lastId,
         \A t \in Tasks : Same(subs'[t], subs[t]) \/ DOMAIN subs'[t] = {},
         \A b \in Tabs : Same(tab'[b].subs, tab[b].subs) \/ DOMAIN tab'[b].subs = {}
                         \/ \E t \in Tasks : tab'[b].subs = subs[t] /\ subs' = subs
  PROVE  IdsNameLabels'
BY DEF IdsNameLabels, Given, Agree, Same

\* A tab changes and the rows do not.
LEMMA TabWent ==
  ASSUME TaskInv, NEW b \in Tabs, NEW r, tab' = [tab EXCEPT ![b] = r],
         DOMAIN r = TabFields, r.subs \in Seq(Sub), r.at # "closed" => r.task \in Tasks,
         r.at \in {"closed", "loading", "open", "setting"},
         \/ r.subs = <<>>
         \/ r.at = "open" /\ r.subs = subs[r.task],
         UNCHANGED <<subs, lastId, run, toggled, config>>,
         DOMAIN row' = Tasks, \A t \in Tasks : TSK!Exists(t)' => TSK!Exists(t), TSK!DoneHasTime'
  PROVE  TaskInv'
<1>1. tab'[b] = r /\ DOMAIN tab' = Tabs /\ \A c \in Tabs \ {b} : tab'[c] = tab[c]
  BY DEF TaskInv, TaskShapes
<1>2. TaskShapes'
  BY <1>1 DEF TaskInv, TaskShapes
<1>3. IdsNameLabels'
  <2>1. \A c \in Tabs : Same(tab'[c].subs, tab[c].subs) \/ DOMAIN tab'[c].subs = {}
                         \/ \E t \in Tasks : tab'[c].subs = subs[t] /\ subs' = subs
    BY <1>1, NoSubs DEF Same
  <2>2. \A t \in Tasks : Same(subs'[t], subs[t])
    BY DEF Same
  <2>3. QED
    BY <2>1, <2>2, ChecksKeepIds DEF TaskInv, TaskShapes
<1>4. PlanGrows'
  <2> SUFFICES ASSUME TSK!OneEditor PROVE PlanGrows'
    BY DEF PlanGrows, TSK!OneEditor
  <2>1. \A c \in Tabs : TSK!Distinct(tab'[c].subs)
    BY <1>1, NoSubs DEF TaskInv, PlanGrows
  <2>2. \A t \in Tasks : TSK!Distinct(subs[t]) /\ (run[t].at \in {"asking", "adding"} =>
          In(subs[t]) \cap config.planned \subseteq run[t].seen)
    BY DEF TaskInv, PlanGrows
  <2>3. ASSUME NEW c \in Tabs \cap config.editors, tab'[c].at = "open", TSK!Exists(tab[c].task)'
        PROVE  In(tab'[c].subs) \cap config.planned \subseteq In(subs[tab'[c].task])
    <3>1. CASE c = b
      BY <1>1, <3>1, NoSubs
    <3>2. CASE c # b
      <4>1. tab[c].at = "open" /\ tab[c].task \in Tasks /\ tab'[c] = tab[c]
        BY <1>1, <2>3, <3>2 DEF TaskInv, TaskShapes
      <4>2. TSK!Exists(tab[c].task)
        BY <2>3, <4>1 DEF TSK!Exists, TSK!Gone
      <4>3. QED
        BY <4>1, <4>2 DEF TaskInv, PlanGrows
    <3>3. QED
      BY <3>1, <3>2
  <2>4. QED
    BY <2>1, <2>2, <2>3 DEF PlanGrows, TSK!Distinct, In, TSK!Exists, TSK!Gone
<1>5. QED
  BY <1>2, <1>3, <1>4 DEF TaskInv, Ticked

\* A run of the job changes and nothing else.
LEMMA RunWent ==
  ASSUME TaskInv, NEW t \in Tasks, NEW r, run' = [run EXCEPT ![t] = r],
         DOMAIN r = RunFields, r.items \in Seq(config.planned \cup {Untitled}),
         TSK!OneEditor /\ r.at \in {"asking", "adding"} =>
            In(subs[t]) \cap config.planned \subseteq r.seen,
         UNCHANGED <<row, subs, lastId, tab, toggled, config>>
  PROVE  TaskInv'
<1>1. run'[t] = r /\ DOMAIN run' = Tasks /\ \A u \in Tasks \ {t} : run'[u] = run[u]
  BY DEF TaskInv, TaskShapes
<1>2. TaskShapes'
  BY <1>1 DEF TaskInv, TaskShapes
<1>3. IdsNameLabels' /\ Ticked' /\ TSK!DoneHasTime'
  BY DEF TaskInv, IdsNameLabels, Given, Agree, Ticked, TSK!DoneHasTime
<1>4. PlanGrows'
  <2> SUFFICES ASSUME TSK!OneEditor PROVE PlanGrows'
    BY DEF PlanGrows, TSK!OneEditor
  <2>1. \A u \in Tasks : run'[u].at \in {"asking", "adding"} =>
          In(subs[u]) \cap config.planned \subseteq run'[u].seen
    BY <1>1 DEF TaskInv, PlanGrows
  <2>2. QED
    BY <2>1 DEF TaskInv, PlanGrows, TSK!Distinct, In, TSK!Exists
<1>5. QED
  BY <1>2, <1>3, <1>4 DEF TaskInv

LEMMA TabStepKeepsTasks ==
  ASSUME TaskInv, NEW b \in Tabs,
         \/ \E t \in Tasks : TSK!LoadRow(b, t) \/ TSK!ReadStatus(b, t)
         \/ TSK!LoadSubs(b) \/ TSK!Close(b) \/ TSK!WriteStatus(b)
  PROVE  TaskInv'
<1>1. ASSUME NEW t \in Tasks, TSK!LoadRow(b, t) PROVE TaskInv'
  <2>1. PICK r : /\ tab' = [tab EXCEPT ![b] = r]
                 /\ \/ r = [TSK!Closed EXCEPT !.at = "open", !.task = t, !.config = TSK!Default]
                    \/ r = [TSK!Closed EXCEPT !.at = "loading", !.task = t, !.config = row[t]]
    BY <1>1 DEF TSK!LoadRow, TSK!GoTab
  <2>2. DOMAIN r = TabFields /\ r.subs = <<>> /\ r.task \in Tasks /\ r.at \in {"open", "loading"}
    BY <2>1, ClosedTab DEF TabFields
  <2>3. UNCHANGED <<row, subs, lastId, run, toggled, config>>
    BY <1>1, Zenon DEF TSK!LoadRow
  <2>4. QED
    BY <2>1, <2>2, <2>3, NoSubs, TabWent DEF TaskInv, TaskShapes, TSK!Exists, TSK!DoneHasTime
<1>2. ASSUME NEW t \in Tasks, TSK!ReadStatus(b, t) PROVE TaskInv'
  <2> DEFINE Reading(to, way) ==
        [TSK!Closed EXCEPT !.at = "setting", !.task = t, !.config = row[t], !.to = to, !.way = way]
  <2>1. PICK to, way, r : tab' = [tab EXCEPT ![b] = r] /\ r = Reading(to, way)
    <3>1. PICK way \in {"note", "overview"}, to \in config.statuses : TSK!GoTab(b, Reading(to, way))
      BY <1>2, Zenon DEF TSK!ReadStatus
    <3>2. QED
      BY <3>1 DEF TSK!GoTab
  <2>2. DOMAIN r = TabFields /\ r.subs = <<>> /\ r.task \in Tasks /\ r.at = "setting"
    BY <2>1, ClosedTab DEF TabFields
  <2>3. UNCHANGED <<row, subs, lastId, run, toggled, config>>
    BY <1>2, Zenon DEF TSK!ReadStatus
  <2>4. QED
    BY <2>1, <2>2, <2>3, NoSubs, TabWent, Zenon DEF TaskInv, TaskShapes, TSK!Exists, TSK!DoneHasTime
<1>3. CASE TSK!LoadSubs(b)
  <2>1. PICK r : /\ tab' = [tab EXCEPT ![b] = r]
                 /\ r = [tab[b] EXCEPT !.at = "open", !.subs = subs[tab[b].task]]
    BY <1>3 DEF TSK!LoadSubs, TSK!GoTab
  <2>2. tab[b].task \in Tasks /\ DOMAIN tab[b] = TabFields
    BY <1>3 DEF TSK!LoadSubs, TaskInv, TaskShapes
  <2>3. DOMAIN r = TabFields /\ r.subs = subs[r.task] /\ r.task \in Tasks /\ r.at = "open"
    BY <2>1, <2>2 DEF TabFields
  <2>4. UNCHANGED <<row, subs, lastId, run, toggled, config>>
    BY <1>3 DEF TSK!LoadSubs
  <2>5. QED
    BY <2>1, <2>3, <2>4, TabWent DEF TaskInv, TaskShapes, TSK!Exists, TSK!DoneHasTime
<1>4. CASE TSK!Close(b)
  BY <1>4, ClosedTab, NoSubs, TabWent
     DEF TSK!Close, TSK!GoTab, TaskInv, TaskShapes, TSK!Exists, TSK!DoneHasTime
<1>5. CASE TSK!WriteStatus(b)
  <2>1. PICK t, c : /\ tab[b].task = t /\ t \in Tasks
                    /\ c = [status |-> tab[b].to, completed |-> TSK!Stamp(tab[b].config, tab[b].to, tab[b].way)]
                    /\ row' = row \/ (TSK!Exists(t) /\ row' = [row EXCEPT ![t] = c])
    BY <1>5 DEF TSK!WriteStatus, TaskInv, TaskShapes
  <2>2. c.status = "done" => c.completed
    BY <2>1 DEF TSK!Stamp
  <2>3. DOMAIN row = Tasks /\ TSK!DoneHasTime
    BY DEF TaskInv, TaskShapes
  <2>4. DOMAIN row' = Tasks /\ \A u \in Tasks : row'[u] = row[u] \/ (u = t /\ row'[u] = c /\ TSK!Exists(u))
    BY <2>1, <2>3
  <2>5. TSK!DoneHasTime'
    BY <2>2, <2>3, <2>4 DEF TSK!DoneHasTime
  <2>6. \A u \in Tasks : TSK!Exists(u)' => TSK!Exists(u)
    BY <2>4 DEF TSK!Exists
  <2>7. tab' = [tab EXCEPT ![b] = TSK!Closed] /\ UNCHANGED <<subs, lastId, run, toggled, config>>
    BY <1>5 DEF TSK!WriteStatus, TSK!GoTab
  <2>8. QED
    BY <2>4, <2>5, <2>6, <2>7, ClosedTab, NoSubs, TabWent
<1>6. QED
  BY <1>1, <1>2, <1>3, <1>4, <1>5

LEMMA RunStepKeepsTasks ==
  ASSUME TaskInv, NEW t \in Tasks,
         TSK!Enqueue(t) \/ TSK!JobRead(t) \/ TSK!JobAnswer(t) \/ TSK!JobEnd(t)
  PROVE  TaskInv'
<1> DEFINE Answers == config.planned \cup {Untitled}
<1>1. <<>> \in Seq(Answers) /\ DOMAIN run[t] = RunFields
  BY EmptySeq DEF TaskInv, TaskShapes
<1>2. UNCHANGED <<row, subs, lastId, tab, toggled, config>>
  BY DEF TSK!Enqueue, TSK!JobRead, TSK!JobAnswer, TSK!JobEnd
<1>3. PICK r : /\ run' = [run EXCEPT ![t] = r]
               /\ \/ r = TSK!NoRun
                  \/ r = [TSK!NoRun EXCEPT !.at = "planned"]
                  \/ r = [TSK!NoRun EXCEPT !.at = "asking", !.seen = TSK!ReadLabels(t)]
                  \/ /\ run[t].at = "asking"
                     /\ \E items \in [1 .. 2 -> Answers] \cup {<<>>} :
                           r = [run[t] EXCEPT !.at = "adding", !.items = items]
  <2>1. CASE TSK!Enqueue(t)
    BY <2>1 DEF TSK!Enqueue, TSK!GoRun
  <2>2. CASE TSK!JobRead(t)
    BY <2>2 DEF TSK!JobRead, TSK!GoRun
  <2>3. CASE TSK!JobAnswer(t)
    BY <2>3 DEF TSK!JobAnswer, TSK!GoRun
  <2>4. CASE TSK!JobEnd(t)
    BY <2>4 DEF TSK!JobEnd, TSK!GoRun
  <2>5. QED
    BY <2>1, <2>2, <2>3, <2>4
<1>4. In(subs[t]) = TSK!ReadLabels(t)
  BY DEF In, TSK!ReadLabels, TSK!Labels
<1>5. CASE r \in {TSK!NoRun, [TSK!NoRun EXCEPT !.at = "planned"]}
  BY <1>1, <1>2, <1>3, <1>5, ClosedTab, RunWent, Zenon DEF RunFields
<1>6. CASE r = [TSK!NoRun EXCEPT !.at = "asking", !.seen = TSK!ReadLabels(t)]
  <2>1. DOMAIN r = RunFields /\ r.items = <<>> /\ r.seen = In(subs[t])
    BY <1>4, <1>6, ClosedTab DEF RunFields
  <2>2. QED
    BY <1>1, <1>2, <1>3, <2>1, RunWent
<1>7. ASSUME run[t].at = "asking", NEW items \in [1 .. 2 -> Answers] \cup {<<>>},
             r = [run[t] EXCEPT !.at = "adding", !.items = items]
      PROVE  TaskInv'
  <2>1. items \in Seq(Answers)
    BY <1>1, SeqDef
  <2>2. DOMAIN r = RunFields /\ r.items = items /\ r.seen = run[t].seen
    BY <1>1, <1>7 DEF RunFields
  <2>3. In(subs[t]) \cap config.planned \subseteq run[t].seen \/ ~TSK!OneEditor
    BY <1>7 DEF TaskInv, PlanGrows
  <2>4. QED
    BY <1>2, <1>3, <2>1, <2>2, <2>3, RunWent, Zenon
<1>8. QED
  BY <1>3, <1>5, <1>6, <1>7

--------------------------------------------------------------------------------
(* What a save writes: rows without a label twice, with labels of the copy or  *)
(* typed ones, under ids that nothing had before.                              *)
LEMMA KeptRows ==
  ASSUME NEW u \in Seq(Sub), NEW e \in TSK!Edited(u), NEW kept, kept = TSK!Written(e)
  PROVE  /\ kept \in Seq(Sub) /\ In(kept) \subseteq In(u) \cup Typed
         /\ TSK!Distinct(u) => TSK!Distinct(kept)
<1>1. /\ DOMAIN u = 1 .. Len(u) /\ Len(u) \in Nat
      /\ \A i \in 1 .. Len(u) : u[i] \in Sub
  OBVIOUS
<1> DEFINE New == {w \in Typed \cup {Untitled} : \A i \in 1 .. Len(u) : u[i].label # w}
           Blank(w) == [id |-> 0, label |-> w, checked |-> FALSE]
<1>2. \/ e = u
      \/ \E w \in New : e = Append(u, Blank(w))
      \/ \E i \in DOMAIN u : e = But(u, i)
  <2>1. CASE e \in {Append(u, Blank(w)) : w \in (Typed \cup {Untitled}) \ {u[i].label : i \in 1 .. Len(u)}}
    BY <2>1
  <2>2. CASE e \in {TSK!Without(u, i) : i \in 1 .. Len(u)}
    BY <1>1, <2>2 DEF TSK!Without, But
  <2>3. QED
    BY <2>1, <2>2 DEF TSK!Edited
<1>3. ASSUME NEW s \in Seq(Sub), TSK!Distinct(u) => TSK!Distinct(s), In(s) \subseteq In(u) \cup Typed,
             kept = TSK!Written(s)
      PROVE  /\ kept \in Seq(Sub) /\ In(kept) \subseteq In(u) \cup Typed
             /\ TSK!Distinct(u) => TSK!Distinct(kept)
  <2>1. CASE kept = s
    BY <1>3, <2>1
  <2>2. CASE s # <<>> /\ kept = ButLast(s)
    <3>1. /\ kept \in Seq(Sub) /\ Len(kept) = Len(s) - 1
          /\ \A j \in 1 .. Len(s) - 1 : kept[j] = s[j]
      BY <2>2, ButLastIs
    <3>2. Len(s) \in Nat /\ \A j \in 1 .. Len(s) - 1 : j \in 1 .. Len(s)
      OBVIOUS
    <3>3. TSK!Distinct(s) => TSK!Distinct(kept)
      <4> SUFFICES ASSUME TSK!Distinct(s), NEW i \in 1 .. Len(kept), NEW j \in 1 .. Len(kept),
                          kept[i].label = kept[j].label
                   PROVE  i = j
        BY DEF TSK!Distinct
      <4>1. i \in 1 .. Len(s) /\ j \in 1 .. Len(s) /\ kept[i] = s[i] /\ kept[j] = s[j]
        BY <3>1, <3>2
      <4>2. QED
        BY <4>1 DEF TSK!Distinct
    <3>4. In(kept) \subseteq In(s)
      BY <3>1, <3>2 DEF In
    <3>5. QED
      BY <1>3, <3>1, <3>3, <3>4
  <2>3. QED
    BY <1>3, <2>1, <2>2 DEF TSK!Written, ButLast
<1>4. CASE e = u
  BY <1>3, <1>4
<1>5. ASSUME NEW w \in New, e = Append(u, Blank(w))
      PROVE  /\ kept \in Seq(Sub) /\ In(kept) \subseteq In(u) \cup Typed
             /\ TSK!Distinct(u) => TSK!Distinct(kept)
  <2>1. PICK x : x = Blank(w)
    OBVIOUS
  <2>2. x \in Sub /\ x.label = w
    BY <2>1 DEF Sub, Words
  <2>3. /\ e \in Seq(Sub) /\ DOMAIN e = 1 .. Len(u) + 1 /\ e[Len(u) + 1] = x
        /\ \A j \in 1 .. Len(u) : e[j] = u[j]
    BY <1>5, <2>1, <2>2, Appended
  <2>4. Len(e) = Len(u) + 1 /\ e # <<>>
    BY <1>1, <2>3, EmptySeq
  <2>5. CASE w # Untitled
    <3>1. TSK!Distinct(u) => TSK!Distinct(e)
      BY <1>1, <2>2, <2>3, <2>4 DEF TSK!Distinct
    <3>2. In(e) \subseteq In(u) \cup Typed
      BY <1>1, <2>2, <2>3, <2>4, <2>5 DEF In
    <3>3. QED
      BY <1>3, <2>3, <3>1, <3>2
  <2>6. CASE w = Untitled
    <3>1. kept = ButLast(e)
      BY <2>2, <2>3, <2>4, <2>6 DEF TSK!Written, ButLast
    <3>2. /\ kept \in Seq(Sub) /\ DOMAIN kept = 1 .. Len(e) - 1
          /\ \A j \in 1 .. Len(e) - 1 : kept[j] = e[j]
      BY <2>3, <2>4, <3>1, ButLastIs
    <3>3. Len(kept) = Len(u) /\ \A j \in 1 .. Len(u) : kept[j] = u[j]
      BY <1>1, <2>3, <2>4, <3>2
    <3>4. QED
      BY <3>2, <3>3 DEF In, TSK!Distinct
  <2>7. QED
    BY <2>5, <2>6
<1>6. ASSUME NEW i \in DOMAIN u, e = But(u, i)
      PROVE  /\ kept \in Seq(Sub) /\ In(kept) \subseteq In(u) \cup Typed
             /\ TSK!Distinct(u) => TSK!Distinct(kept)
  <2>1. e \in Seq(Sub) /\ \A j \in 1 .. Len(u) - 1 : e[j] = IF j < i THEN u[j] ELSE u[j + 1]
    BY <1>6, ButIs
  <2>2. Len(e) = Len(u) - 1
    BY <1>6, ButIs
  <2>3. TSK!Distinct(u) => TSK!Distinct(e)
    BY <1>1, <2>1, <2>2 DEF TSK!Distinct
  <2>4. In(e) \subseteq In(u)
    BY <1>1, <2>1, <2>2 DEF In
  <2>5. QED
    BY <1>3, <2>1, <2>3, <2>4
<1>7. QED
  BY <1>2, <1>4, <1>5, <1>6

LEMMA NewIds ==
  ASSUME lastId \in Nat, NEW t, NEW s \in Seq(Sub), NEW q, q = TSK!NextIds(t, s)
  PROVE  /\ q \in Seq(Sub) /\ Len(q) = Len(s) /\ In(q) = In(s)
         /\ TSK!Distinct(s) => TSK!Distinct(q)
         /\ \A i \in DOMAIN q : q[i].id = lastId + i
<1>1. DOMAIN s = 1 .. Len(s) /\ Len(s) \in Nat /\ \A i \in 1 .. Len(s) : s[i] \in Sub
  OBVIOUS
<1>2. q = [i \in 1 .. Len(s) |-> [s[i] EXCEPT !.id = lastId + i]]
  BY DEF TSK!NextIds, TSK!Numbered
<1>3. \A i \in 1 .. Len(s) : q[i] \in Sub /\ q[i].id = lastId + i /\ q[i].label = s[i].label
  <2> TAKE i \in 1 .. Len(s)
  <2>1. PICK x, k : x = s[i] /\ x \in Sub /\ k = lastId + i /\ k \in Nat
    BY <1>1
  <2>2. q[i] = [x EXCEPT !.id = k]
    BY <1>2, <2>1
  <2>3. QED
    BY <2>1, <2>2 DEF Sub
<1>4. q \in [1 .. Len(s) -> Sub]
  BY <1>2, <1>3
<1>5. q \in Seq(Sub) /\ Len(q) = Len(s) /\ DOMAIN q = 1 .. Len(s)
  BY <1>1, <1>4, SeqDef
<1>6. QED
  BY <1>3, <1>5 DEF In, TSK!Distinct

--------------------------------------------------------------------------------
\* The rows of a task are written: those there were, without a label twice, or
\* with new ids.
LEMMA RowsWent ==
  ASSUME TaskInv, TaskShapes', NEW t \in Tasks, NEW s \in Seq(Sub), subs' = [subs EXCEPT ![t] = s],
         lastId <= lastId',
         \A i \in DOMAIN s :
            \/ i \in DOMAIN subs[t] /\ s[i].id = subs[t][i].id /\ s[i].label = subs[t][i].label
            \/ s[i].id > lastId /\ s[i].id <= lastId',
         \A i, j \in DOMAIN s : s[i].id > lastId /\ s[i].id = s[j].id => i = j,
         \A b \in Tabs : Same(tab'[b].subs, tab[b].subs) \/ DOMAIN tab'[b].subs = {}
  PROVE  IdsNameLabels'
<1>1. \A u \in Tasks : subs'[u] = IF u = t THEN s ELSE subs[u]
  BY DEF TaskInv, TaskShapes
<1>2. lastId \in Nat /\ lastId' \in Nat
  BY DEF TaskInv, TaskShapes
<1>3. \A u \in Tasks : \A i \in DOMAIN subs[u] : subs[u][i].id \in Nat /\ subs[u][i].id >= 1 /\ subs[u][i].id <= lastId
  BY <1>2 DEF TaskInv, IdsNameLabels, Given
<1>4. \A b \in Tabs : \A i \in DOMAIN tab[b].subs : tab[b].subs[i].id \in Nat /\ tab[b].subs[i].id >= 1 /\ tab[b].subs[i].id <= lastId
  BY <1>2 DEF TaskInv, IdsNameLabels, Given
<1>5. \A i \in DOMAIN s : s[i].id \in Nat
  <2>1. \A i \in DOMAIN s : s[i] \in Sub
    OBVIOUS
  <2>2. QED
    BY <2>1 DEF Sub
<1>6. \A u \in Tasks : Given(subs[u])'
  BY <1>1, <1>2, <1>3, <1>5 DEF Given
<1>7. \A b \in Tabs : Given(tab[b].subs)'
  BY <1>2, <1>4 DEF Given, Same
<1>8. \A u \in Tasks : Agree(s, subs[u]) /\ Agree(subs[u], s)
  BY <1>2, <1>3, <1>5 DEF Agree, TaskInv, IdsNameLabels
<1>9. Agree(s, s)
  BY <1>2, <1>3, <1>5 DEF Agree, TaskInv, IdsNameLabels
<1>10. \A u, v \in Tasks : Agree(subs'[u], subs'[v])
  BY <1>1, <1>8, <1>9 DEF TaskInv, IdsNameLabels
<1>11. \A b \in Tabs : Agree(s, tab[b].subs)
  BY <1>2, <1>4, <1>5 DEF Agree, TaskInv, IdsNameLabels
<1>12. \A u \in Tasks, b \in Tabs : Agree(subs'[u], tab[b].subs)
  BY <1>1, <1>11 DEF TaskInv, IdsNameLabels
<1>13. \A u \in Tasks, b \in Tabs : Agree(subs'[u], tab'[b].subs)
  BY <1>12 DEF Agree, Same
<1>14. QED
  BY <1>6, <1>7, <1>10, <1>13 DEF IdsNameLabels, Agree

LEMMA SaveKeepsTasks ==
  ASSUME TaskInv, NEW b \in Tabs, TSK!Save(b)
  PROVE  TaskInv'
<1>1. PICK t : t = tab[b].task /\ t \in Tasks /\ b \in config.editors /\ tab[b].at = "open"
  BY DEF TSK!Save, TaskInv, TaskShapes
<1>2. tab' = [tab EXCEPT ![b] = TSK!Closed] /\ UNCHANGED <<run, toggled, config>>
  BY DEF TSK!Save, TSK!GoTab
<1>3. CASE UNCHANGED <<row, subs, lastId>>
  BY <1>2, <1>3, ClosedTab, NoSubs, TabWent DEF TaskInv, TaskShapes, TSK!Exists, TSK!DoneHasTime
<1>4. CASE TSK!Exists(t)
  <2>1. PICK status \in config.statuses, e \in TSK!Edited(tab[b].subs) :
          /\ row' = [row EXCEPT ![t] = [status |-> status,
                                        completed |-> tab[b].config.completed \/ status = "done"]]
          /\ subs' = [subs EXCEPT ![t] = TSK!NextIds(t, TSK!Written(e))]
          /\ lastId' = lastId + Len(TSK!Written(e))
    BY <1>1, <1>4 DEF TSK!Save
  <2>2. PICK kept, s : kept = TSK!Written(e) /\ s = TSK!NextIds(t, kept)
    OBVIOUS
  <2>3. tab[b].subs \in Seq(Sub) /\ lastId \in Nat /\ DOMAIN row = Tasks /\ DOMAIN tab = Tabs
    BY DEF TaskInv, TaskShapes
  <2>4. /\ kept \in Seq(Sub) /\ In(kept) \subseteq In(tab[b].subs) \cup Typed
        /\ TSK!Distinct(tab[b].subs) => TSK!Distinct(kept)
    BY <2>2, <2>3, KeptRows
  <2>5. /\ s \in Seq(Sub) /\ Len(s) = Len(kept) /\ In(s) = In(kept)
        /\ TSK!Distinct(kept) => TSK!Distinct(s)
        /\ \A i \in DOMAIN s : s[i].id = lastId + i
    BY <2>2, <2>3, <2>4, NewIds
  <2>6. subs' = [subs EXCEPT ![t] = s] /\ lastId' = lastId + Len(s) /\ Len(s) \in Nat /\ DOMAIN s = 1 .. Len(s)
    BY <2>1, <2>2, <2>5
  <2>7. /\ tab'[b] = TSK!Closed /\ DOMAIN tab' = Tabs /\ \A c \in Tabs \ {b} : tab'[c] = tab[c]
        /\ DOMAIN row' = Tasks
    BY <1>2, <2>1, <2>3
  <2>8. TaskShapes'
    <3>1. lastId' \in Nat /\ subs' \in [Tasks -> Seq(Sub)]
      <4>1. lastId' \in Nat
        BY <2>3, <2>6
      <4>2. subs \in [Tasks -> Seq(Sub)]
        BY DEF TaskInv, TaskShapes
      <4>3. QED
        BY <2>5, <2>6, <4>1, <4>2
    <3>2. \A c \in Tabs : /\ DOMAIN tab'[c] = TabFields /\ tab'[c].subs \in Seq(Sub)
                          /\ tab'[c].at # "closed" => tab'[c].task \in Tasks
                          /\ tab'[c].at \in {"closed", "loading", "open", "setting"}
      BY <2>7, ClosedTab, NoSubs DEF TaskInv, TaskShapes
    <3>3. QED
      BY <1>2, <2>7, <3>1, <3>2 DEF TaskInv, TaskShapes
  <2>9. IdsNameLabels'
    <3>1. \A c \in Tabs : Same(tab'[c].subs, tab[c].subs) \/ DOMAIN tab'[c].subs = {}
      BY <2>7, ClosedTab, NoSubs DEF Same
    <3>2. \A i \in DOMAIN s : s[i].id > lastId /\ s[i].id <= lastId'
      BY <2>3, <2>5, <2>6
    <3>3. \A i, j \in DOMAIN s : s[i].id = s[j].id => i = j
      BY <2>3, <2>5, <2>6
    <3>4. lastId <= lastId'
      BY <2>3, <2>6
    <3>5. QED
      BY <1>1, <2>5, <2>6, <2>8, <3>1, <3>2, <3>3, <3>4, RowsWent
  <2>10. PlanGrows'
    <3> SUFFICES ASSUME TSK!OneEditor PROVE PlanGrows'
      BY <1>2 DEF PlanGrows, TSK!OneEditor
    <3>1. \A u \in Tasks : subs'[u] = IF u = t THEN s ELSE subs[u]
      BY <2>6 DEF TaskInv, TaskShapes
    <3>2. TSK!Distinct(s) /\ \A u \in Tasks : TSK!Distinct(subs'[u])
      BY <2>4, <2>5, <3>1 DEF TaskInv, PlanGrows
    <3>3. \A c \in Tabs : TSK!Distinct(tab'[c].subs)
      BY <2>7, ClosedTab, NoSubs DEF TaskInv, PlanGrows
    <3>4. In(s) \cap config.planned \subseteq In(subs[t])
      <4>1. In(tab[b].subs) \cap config.planned \subseteq In(subs[t])
        BY <1>1, <1>4 DEF TaskInv, PlanGrows
      <4>2. Typed \cap config.planned = {}
        BY DEF TSK!OneEditor
      <4>3. QED
        BY <2>4, <2>5, <4>1, <4>2
    <3>5. \A u \in Tasks : run[u].at \in {"asking", "adding"} =>
             In(subs'[u]) \cap config.planned \subseteq run[u].seen
      BY <3>1, <3>4 DEF TaskInv, PlanGrows
    <3>6. \A c \in Tabs \cap config.editors : tab'[c].at # "open"
      <4>1. \A c \in config.editors : c = b
        BY <1>1 DEF TSK!OneEditor
      <4>2. QED
        BY <2>7, <4>1, ClosedTab
    <3>7. QED
      BY <1>2, <3>2, <3>3, <3>5, <3>6 DEF PlanGrows, TSK!Distinct, In
  <2>11. TSK!DoneHasTime'
    <3>1. \A u \in Tasks : row'[u] = row[u] \/
             (row'[u].status = status /\ row'[u].completed = (tab[b].config.completed \/ status = "done"))
      BY <2>1, <2>3
    <3>2. QED
      BY <3>1 DEF TaskInv, TSK!DoneHasTime
  <2>12. QED
    BY <1>2, <2>8, <2>9, <2>10, <2>11 DEF TaskInv, Ticked
<1>5. QED
  BY <1>1, <1>3, <1>4 DEF TSK!Save

LEMMA DeleteKeepsTasks ==
  ASSUME TaskInv, NEW t \in Tasks, TSK!Delete(t)
  PROVE  TaskInv'
<1>1. /\ row' = [row EXCEPT ![t] = TSK!Gone] /\ subs' = [subs EXCEPT ![t] = <<>>]
      /\ UNCHANGED <<lastId, tab, run, toggled, config>>
  BY DEF TSK!Delete
<1>2. \A u \in Tasks : subs'[u] = (IF u = t THEN <<>> ELSE subs[u]) /\ row'[u] = (IF u = t THEN TSK!Gone ELSE row[u])
  BY <1>1 DEF TaskInv, TaskShapes
<1>3. TaskShapes'
  <2>1. subs' \in [Tasks -> Seq(Sub)]
    BY <1>1, NoSubs DEF TaskInv, TaskShapes
  <2>2. QED
    BY <1>1, <2>1 DEF TaskInv, TaskShapes
<1>4. IdsNameLabels'
  <2>1. \A u \in Tasks : Same(subs'[u], subs[u]) \/ DOMAIN subs'[u] = {}
    BY <1>2, NoSubs DEF Same
  <2>2. \A c \in Tabs : Same(tab'[c].subs, tab[c].subs)
    BY <1>1 DEF Same
  <2>3. DOMAIN subs = Tasks /\ DOMAIN subs' = Tasks
    BY <1>1 DEF TaskInv, TaskShapes
  <2>4. QED
    BY <1>1, <2>1, <2>2, <2>3, ChecksKeepIds DEF TaskInv
<1>5. PlanGrows'
  <2> SUFFICES ASSUME TSK!OneEditor PROVE PlanGrows'
    BY <1>1 DEF PlanGrows, TSK!OneEditor
  <2>1. \A u \in Tasks : /\ TSK!Distinct(subs'[u])
                         /\ run[u].at \in {"asking", "adding"} =>
                               In(subs'[u]) \cap config.planned \subseteq run[u].seen
    BY <1>2, NoSubs DEF TaskInv, PlanGrows
  <2>2. ASSUME NEW c \in Tabs \cap config.editors, tab[c].at = "open", row'[tab[c].task] # TSK!Gone
        PROVE  In(tab[c].subs) \cap config.planned \subseteq In(subs'[tab[c].task])
    <3>1. tab[c].task \in Tasks
      BY <2>2 DEF TaskInv, TaskShapes
    <3>2. tab[c].task # t /\ TSK!Exists(tab[c].task)
      BY <1>2, <2>2, <3>1 DEF TSK!Exists
    <3>3. QED
      BY <1>2, <2>2, <3>1, <3>2 DEF TaskInv, PlanGrows
  <2>3. \A c \in Tabs : TSK!Distinct(tab[c].subs)
    BY DEF TaskInv, PlanGrows
  <2>4. QED
    BY <1>1, <2>1, <2>2, <2>3 DEF PlanGrows, TSK!Distinct, In, TSK!Exists, TSK!Gone
<1>6. TSK!DoneHasTime'
  BY <1>2 DEF TaskInv, TSK!DoneHasTime, TSK!Gone
<1>7. QED
  BY <1>1, <1>3, <1>4, <1>5, <1>6 DEF TaskInv, Ticked

\* The only check a tick changes is that of the row with the id it was shown.
LEMMA ToggleKeepsTasks ==
  ASSUME TaskInv, NEW b \in Tabs, TSK!Toggle(b)
  PROVE  TaskInv'
<1>1. PICK t : t = tab[b].task /\ t \in Tasks /\ tab[b].at = "open"
  BY DEF TSK!Toggle, TaskInv, TaskShapes
<1>2. UNCHANGED <<row, lastId, run, config>>
  BY Zenon DEF TSK!Toggle
<1>3. PICK i, hits :
        /\ i \in 1 .. Len(tab[b].subs)
        /\ hits = {j \in 1 .. Len(subs[t]) : subs[t][j].id = tab[b].subs[i].id}
        /\ subs' = [subs EXCEPT ![t] =
                      [j \in 1 .. Len(subs[t]) |->
                         IF j \in hits THEN [subs[t][j] EXCEPT !.checked = ~tab[b].subs[i].checked] ELSE subs[t][j]]]
        /\ toggled' = IF hits = {} THEN toggled
                      ELSE [seen |-> tab[b].subs[i].label, hit |-> subs[t][CHOOSE j \in hits : TRUE].label]
        /\ tab' = [tab EXCEPT ![b] = IF hits = {} THEN tab[b] ELSE [tab[b] EXCEPT !.subs[i].checked = ~@]]
  <2> DEFINE Hits(i) == {j \in 1 .. Len(subs[tab[b].task]) : subs[tab[b].task][j].id = tab[b].subs[i].id}
  <2>1. PICK i \in 1 .. Len(tab[b].subs) :
        /\ subs' = [subs EXCEPT ![tab[b].task] =
                      [j \in 1 .. Len(subs[tab[b].task]) |->
                         IF j \in Hits(i) THEN [subs[tab[b].task][j] EXCEPT !.checked = ~tab[b].subs[i].checked]
                         ELSE subs[tab[b].task][j]]]
        /\ toggled' = IF Hits(i) = {} THEN toggled
                      ELSE [seen |-> tab[b].subs[i].label,
                            hit |-> subs[tab[b].task][CHOOSE j \in Hits(i) : TRUE].label]
        /\ tab' = [tab EXCEPT ![b] = IF Hits(i) = {} THEN tab[b] ELSE [tab[b] EXCEPT !.subs[i].checked = ~@]]
    BY Zenon DEF TSK!Toggle, TSK!GoTab
  <2>2. PICK hits : hits = Hits(i)
    OBVIOUS
  <2>3. QED
    BY <1>1, <2>1, <2>2, Zenon
<1>4. /\ subs[t] \in Seq(Sub) /\ DOMAIN subs[t] = 1 .. Len(subs[t]) /\ Len(subs[t]) \in Nat
      /\ \A j \in 1 .. Len(subs[t]) : subs[t][j] \in Sub
  <2>1. subs[t] \in Seq(Sub)
    BY <1>1 DEF TaskInv, TaskShapes
  <2>2. QED
    BY <2>1
<1>5. /\ tab[b].subs \in Seq(Sub) /\ DOMAIN tab[b].subs = 1 .. Len(tab[b].subs)
      /\ \A j \in 1 .. Len(tab[b].subs) : tab[b].subs[j] \in Sub
  <2>1. tab[b].subs \in Seq(Sub)
    BY DEF TaskInv, TaskShapes
  <2>2. QED
    BY <2>1
<1>6. PICK s : s = subs'[t]
  OBVIOUS
<1>7. subs' = [subs EXCEPT ![t] = s] /\ s \in Seq(Sub) /\ Same(s, subs[t])
  <2>1. s = [j \in 1 .. Len(subs[t]) |->
               IF j \in hits THEN [subs[t][j] EXCEPT !.checked = ~tab[b].subs[i].checked] ELSE subs[t][j]]
    BY <1>1, <1>3, <1>6 DEF TaskInv, TaskShapes
  <2>2. subs' = [subs EXCEPT ![t] = s]
    BY <1>3, <2>1
  <2>3. ASSUME NEW j \in 1 .. Len(subs[t])
        PROVE  s[j] \in Sub /\ s[j].id = subs[t][j].id /\ s[j].label = subs[t][j].label
    <3>1. PICK x, y : x = subs[t][j] /\ x \in Sub /\ y = tab[b].subs[i] /\ y \in Sub
      BY <1>3, <1>4, <1>5
    <3>2. s[j] = IF j \in hits THEN [x EXCEPT !.checked = ~y.checked] ELSE x
      BY <2>1, <3>1
    <3>3. QED
      BY <3>1, <3>2 DEF Sub
  <2>4. s \in [1 .. Len(subs[t]) -> Sub]
    BY <2>1, <2>3
  <2>5. s \in Seq(Sub) /\ DOMAIN s = 1 .. Len(subs[t])
    BY <1>4, <2>4, SeqDef
  <2>6. QED
    BY <1>4, <2>2, <2>3, <2>5 DEF Same
<1>8. PICK r : r = tab'[b]
  OBVIOUS
<1>9. /\ tab' = [tab EXCEPT ![b] = r] /\ DOMAIN r = TabFields /\ r.subs \in Seq(Sub)
      /\ Same(r.subs, tab[b].subs) /\ r.at = tab[b].at /\ r.task = t
  <2>1. DOMAIN tab[b] = TabFields /\ DOMAIN tab = Tabs
    BY DEF TaskInv, TaskShapes
  <2>2. r = (IF hits = {} THEN tab[b] ELSE [tab[b] EXCEPT !.subs[i].checked = ~@]) /\ tab' = [tab EXCEPT ![b] = r]
    BY <1>3, <1>8, <2>1
  <2>3. CASE r = tab[b]
    BY <1>1, <1>5, <2>1, <2>2, <2>3 DEF Same
  <2>4. CASE r = [tab[b] EXCEPT !.subs[i].checked = ~@]
    <3>1. PICK u, x : u = tab[b].subs /\ x = u[i] /\ x \in Sub
      BY <1>3, <1>5
    <3>2. PICK y : y = [x EXCEPT !.checked = ~x.checked]
      OBVIOUS
    <3>3. y \in Sub /\ y.id = x.id /\ y.label = x.label
      BY <3>1, <3>2 DEF Sub
    <3>4. PICK v : v = [u EXCEPT ![i] = y]
      OBVIOUS
    <3>5. r = [tab[b] EXCEPT !.subs = v]
      BY <2>1, <2>4, <3>1, <3>2, <3>4 DEF TabFields
    <3>6. v \in Seq(Sub) /\ DOMAIN v = DOMAIN u /\ \A j \in DOMAIN u : v[j] = IF j = i THEN y ELSE u[j]
      BY <1>3, <1>5, <3>1, <3>3, <3>4, ExceptSeq
    <3>7. Same(v, u)
      BY <3>1, <3>3, <3>6 DEF Same
    <3>8. QED
      BY <1>1, <2>1, <2>2, <3>1, <3>5, <3>6, <3>7 DEF TabFields
  <2>5. QED
    BY <2>2, <2>3, <2>4
<1>10. /\ \A u \in Tasks : subs'[u] \in Seq(Sub) /\ Same(subs'[u], subs[u])
       /\ \A c \in Tabs : tab'[c].subs \in Seq(Sub) /\ Same(tab'[c].subs, tab[c].subs)
                          /\ tab'[c].at = tab[c].at /\ tab'[c].task = tab[c].task
  BY <1>1, <1>7, <1>9 DEF TaskInv, TaskShapes, Same
<1>11. TaskShapes'
  <2>1. subs' \in [Tasks -> Seq(Sub)]
    BY <1>7 DEF TaskInv, TaskShapes
  <2>2. DOMAIN tab' = Tabs /\ \A c \in Tabs : DOMAIN tab'[c] = TabFields
    BY <1>9 DEF TaskInv, TaskShapes
  <2>3. QED
    BY <1>2, <1>10, <2>1, <2>2 DEF TaskInv, TaskShapes
<1>12. IdsNameLabels'
  BY <1>2, <1>10, <1>11, ChecksKeepIds DEF TaskInv, TaskShapes
<1>13. \A u \in Tasks : In(subs'[u]) = In(subs[u]) /\ (TSK!Distinct(subs[u]) => TSK!Distinct(subs'[u]))
  BY <1>10, SameIsAlike DEF TaskInv, TaskShapes
<1>14. \A c \in Tabs : In(tab'[c].subs) = In(tab[c].subs) /\ (TSK!Distinct(tab[c].subs) => TSK!Distinct(tab'[c].subs))
  BY <1>10, SameIsAlike DEF TaskInv, TaskShapes
<1>15. PlanGrows'
  <2> SUFFICES ASSUME TSK!OneEditor PROVE PlanGrows'
    BY <1>2 DEF PlanGrows, TSK!OneEditor
  <2>1. \A u \in Tasks : /\ TSK!Distinct(subs'[u])
                         /\ run[u].at \in {"asking", "adding"} =>
                               In(subs'[u]) \cap config.planned \subseteq run[u].seen
    BY <1>13 DEF TaskInv, PlanGrows
  <2>2. \A c \in Tabs : TSK!Distinct(tab'[c].subs)
    BY <1>14 DEF TaskInv, PlanGrows
  <2>3. ASSUME NEW c \in Tabs \cap config.editors, tab'[c].at = "open", TSK!Exists(tab[c].task)
        PROVE  In(tab'[c].subs) \cap config.planned \subseteq In(subs'[tab'[c].task])
    <3>1. tab[c].at = "open" /\ tab'[c].task = tab[c].task /\ tab[c].task \in Tasks
      BY <1>10, <2>3 DEF TaskInv, TaskShapes
    <3>2. QED
      BY <1>13, <1>14, <2>3, <3>1 DEF TaskInv, PlanGrows
  <2>4. QED
    BY <1>2, <1>10, <2>1, <2>2, <2>3 DEF PlanGrows, TSK!Distinct, In, TSK!Exists, TSK!Gone
<1>16. Ticked'
  <2>1. CASE hits = {}
    BY <1>3, <2>1 DEF TaskInv, Ticked
  <2>2. CASE hits # {}
    <3>1. PICK k : k = CHOOSE j \in hits : TRUE
      OBVIOUS
    <3>2. k \in hits
      BY <2>2, <3>1
    <3>3. k \in DOMAIN subs[t] /\ subs[t][k].id = tab[b].subs[i].id
      BY <1>3, <1>4, <3>2
    <3>4. Agree(subs[t], tab[b].subs) /\ i \in DOMAIN tab[b].subs
      BY <1>1, <1>3, <1>5 DEF TaskInv, IdsNameLabels
    <3>5. subs[t][k].label = tab[b].subs[i].label
      BY <3>3, <3>4 DEF Agree
    <3>6. toggled' = [seen |-> tab[b].subs[i].label, hit |-> subs[t][k].label]
      BY <1>3, <2>2, <3>1
    <3>7. QED
      BY <3>5, <3>6 DEF Ticked
  <2>3. QED
    BY <2>1, <2>2
<1>17. TSK!DoneHasTime'
  BY <1>2 DEF TaskInv, TSK!DoneHasTime
<1>18. QED
  BY <1>11, <1>12, <1>15, <1>16, <1>17 DEF TaskInv

LEMMA JobAddKeepsTasks ==
  ASSUME TaskInv, NEW t \in Tasks, TSK!JobAdd(t)
  PROVE  TaskInv'
<1> DEFINE Answers == config.planned \cup {Untitled}
<1>1. /\ run[t].items \in Seq(Answers) /\ run[t].items # <<>> /\ DOMAIN run[t] = RunFields
      /\ run[t].at = "adding" /\ UNCHANGED <<row, tab, toggled, config>>
  BY DEF TSK!JobAdd, TaskInv, TaskShapes
<1>2. PICK label, rest : label = Head(run[t].items) /\ rest = Tail(run[t].items)
  OBVIOUS
<1>3. label \in Answers /\ rest \in Seq(Answers)
  BY <1>1, <1>2, HeadTailProperties
<1>4. CASE run' = [run EXCEPT ![t] = [run[t] EXCEPT !.items = Tail(@)]] /\ UNCHANGED <<subs, lastId>>
  <2>1. PICK r : r = [run[t] EXCEPT !.items = rest]
    OBVIOUS
  <2>2. DOMAIN r = RunFields /\ r.items = rest /\ r.seen = run[t].seen /\ run' = [run EXCEPT ![t] = r]
    BY <1>1, <1>2, <1>4, <2>1 DEF RunFields
  <2>3. TSK!OneEditor => In(subs[t]) \cap config.planned \subseteq run[t].seen
    BY <1>1 DEF TaskInv, PlanGrows
  <2>4. QED
    BY <1>1, <1>3, <1>4, <2>2, <2>3, RunWent
<1>5. CASE run' = [run EXCEPT ![t] = TSK!NoRun] /\ UNCHANGED <<subs, lastId>>
  <2>1. <<>> \in Seq(Answers)
    BY EmptySeq
  <2>2. QED
    BY <1>1, <1>5, <2>1, ClosedTab, RunWent
<1>6. CASE /\ label # Untitled /\ label \notin run[t].seen
           /\ subs' = [subs EXCEPT ![t] = Append(@, [id |-> lastId + 1, label |-> label, checked |-> FALSE])]
           /\ lastId' = lastId + 1
           /\ run' = [run EXCEPT ![t] = [run[t] EXCEPT !.items = Tail(@), !.seen = @ \cup {label}, !.added = @ + 1]]
  <2>1. PICK x : x = [id |-> lastId + 1, label |-> label, checked |-> FALSE]
    OBVIOUS
  <2>2. label \in config.planned /\ config \in TaskEdits /\ lastId \in Nat
    BY <1>3, <1>6 DEF TaskInv, TaskShapes
  <2>3. x \in Sub /\ x.id = lastId + 1 /\ x.label = label
    BY <2>1, <2>2 DEF Sub, Words
  <2>4. PICK s : s = Append(subs[t], x)
    OBVIOUS
  <2>5. subs[t] \in Seq(Sub)
    BY DEF TaskInv, TaskShapes
  <2>6. /\ s \in Seq(Sub) /\ DOMAIN s = 1 .. Len(subs[t]) + 1 /\ s[Len(subs[t]) + 1] = x
        /\ \A j \in 1 .. Len(subs[t]) : s[j] = subs[t][j]
    BY <2>3, <2>4, <2>5, Appended
  <2>7. Len(s) = Len(subs[t]) + 1 /\ DOMAIN subs[t] = 1 .. Len(subs[t]) /\ Len(subs[t]) \in Nat
    BY <2>3, <2>4, <2>5, AppendProperties
  <2>8. subs' = [subs EXCEPT ![t] = s] /\ \A u \in Tasks : subs'[u] = IF u = t THEN s ELSE subs[u]
    BY <1>6, <2>1, <2>4 DEF TaskInv, TaskShapes
  <2>9. PICK r : /\ r = [run[t] EXCEPT !.items = rest, !.seen = @ \cup {label}, !.added = @ + 1]
                 /\ run' = [run EXCEPT ![t] = r]
    BY <1>2, <1>6
  <2>10. DOMAIN r = RunFields /\ r.items = rest /\ r.seen = run[t].seen \cup {label} /\ r.at = "adding"
    BY <1>1, <2>9 DEF RunFields
  <2>11. run'[t] = r /\ DOMAIN run' = Tasks /\ \A u \in Tasks \ {t} : run'[u] = run[u]
    BY <2>9 DEF TaskInv, TaskShapes
  <2>12. TaskShapes'
    <3>1. subs' \in [Tasks -> Seq(Sub)]
      BY <2>6, <2>8 DEF TaskInv, TaskShapes
    <3>2. lastId' \in Nat
      BY <1>6, <2>2
    <3>3. \A u \in Tasks : DOMAIN run'[u] = RunFields /\ run'[u].items \in Seq(Answers)
      BY <1>3, <2>10, <2>11 DEF TaskInv, TaskShapes
    <3>4. QED
      BY <1>1, <2>11, <3>1, <3>2, <3>3 DEF TaskInv, TaskShapes
  <2>13. IdsNameLabels'
    <3>1. \A i \in DOMAIN s :
            \/ i \in DOMAIN subs[t] /\ s[i].id = subs[t][i].id /\ s[i].label = subs[t][i].label
            \/ s[i].id > lastId /\ s[i].id <= lastId'
      BY <1>6, <2>2, <2>3, <2>6, <2>7
    <3>2. \A i \in 1 .. Len(subs[t]) : subs[t][i].id \in 1 .. lastId
      BY <2>7 DEF TaskInv, IdsNameLabels, Given
    <3>3. \A i, j \in DOMAIN s : s[i].id > lastId /\ s[i].id = s[j].id => i = j
      BY <2>2, <2>3, <2>6, <2>7, <3>2
    <3>4. \A c \in Tabs : Same(tab'[c].subs, tab[c].subs)
      BY <1>1 DEF Same
    <3>5. lastId <= lastId'
      BY <1>6, <2>2
    <3>6. QED
      BY <2>6, <2>8, <2>12, <3>1, <3>3, <3>4, <3>5, RowsWent
  <2>14. PlanGrows'
    <3> SUFFICES ASSUME TSK!OneEditor PROVE PlanGrows'
      BY <1>1 DEF PlanGrows, TSK!OneEditor
    <3>1. In(subs[t]) \cap config.planned \subseteq run[t].seen /\ TSK!Distinct(subs[t])
      BY <1>1 DEF TaskInv, PlanGrows
    <3>2. In(s) = In(subs[t]) \cup {label}
      BY <2>3, <2>6, <2>7 DEF In
    <3>3. label \notin In(subs[t])
      BY <1>6, <2>2, <3>1
    <3>4. TSK!Distinct(s)
      <4> SUFFICES ASSUME NEW i \in 1 .. Len(subs[t]) + 1, NEW j \in 1 .. Len(subs[t]) + 1,
                          s[i].label = s[j].label
                   PROVE  i = j
        BY <2>7 DEF TSK!Distinct
      <4>1. \A k \in 1 .. Len(subs[t]) : s[k].label = subs[t][k].label /\ s[k].label # label
        BY <2>6, <3>3 DEF In
      <4>2. \A k \in 1 .. Len(subs[t]) + 1 : k \in 1 .. Len(subs[t]) \/ (k = Len(subs[t]) + 1 /\ s[k].label = label)
        BY <2>3, <2>6, <2>7
      <4>3. QED
        BY <3>1, <4>1, <4>2 DEF TSK!Distinct
    <3>5. \A u \in Tasks : /\ TSK!Distinct(subs'[u]) /\ In(subs[u]) \subseteq In(subs'[u])
                           /\ run'[u].at \in {"asking", "adding"} =>
                                 In(subs'[u]) \cap config.planned \subseteq run'[u].seen
      BY <2>8, <2>10, <2>11, <3>1, <3>2, <3>4 DEF TaskInv, PlanGrows
    <3>6. \A c \in Tabs : TSK!Distinct(tab[c].subs)
      BY DEF TaskInv, PlanGrows
    <3>7. ASSUME NEW c \in Tabs \cap config.editors, tab[c].at = "open", TSK!Exists(tab[c].task)
          PROVE  In(tab[c].subs) \cap config.planned \subseteq In(subs'[tab[c].task])
      <4>1. tab[c].task \in Tasks
        BY <3>7 DEF TaskInv, TaskShapes
      <4>2. QED
        BY <3>5, <3>7, <4>1 DEF TaskInv, PlanGrows
    <3>8. \A u \in Tasks : TSK!Distinct(subs[u])'
      BY <3>5 DEF TSK!Distinct
    <3>9. \A c \in Tabs : TSK!Distinct(tab[c].subs)'
      BY <1>1, <3>6 DEF TSK!Distinct
    <3>10. \A u \in Tasks : (run[u].at \in {"asking", "adding"} =>
                                 In(subs[u]) \cap config.planned \subseteq run[u].seen)'
      BY <1>1, <3>5 DEF In
    <3>11. \A c \in Tabs : (c \in config.editors /\ tab[c].at = "open" /\ TSK!Exists(tab[c].task) =>
                               In(tab[c].subs) \cap config.planned \subseteq In(subs[tab[c].task]))'
      BY <1>1, <3>7 DEF In, TSK!Exists, TSK!Gone
    <3>12. QED
      BY <3>8, <3>9, <3>10, <3>11 DEF PlanGrows
  <2>15. TSK!DoneHasTime' /\ Ticked'
    BY <1>1 DEF TaskInv, TSK!DoneHasTime, Ticked
  <2>16. QED
    BY <2>12, <2>13, <2>14, <2>15 DEF TaskInv
<1>7. QED
  BY <1>2, <1>4, <1>5, <1>6 DEF TSK!JobAdd, TSK!GoRun

LEMMA RestartKeepsTasks == TaskInv /\ TSK!Restart => TaskInv'
<1> SUFFICES ASSUME TaskInv, TSK!Restart PROVE TaskInv'
  OBVIOUS
<1>1. /\ UNCHANGED <<row, subs, lastId, toggled, config>>
      /\ DOMAIN run' = Tasks /\ DOMAIN tab' = Tabs
      /\ \A t \in Tasks : run'[t] \in {TSK!NoRun, [TSK!NoRun EXCEPT !.at = "planned"]}
      /\ \A b \in Tabs : tab'[b] = tab[b] \/ tab'[b] = TSK!Closed
  BY DEF TSK!Restart
<1>2. \A t \in Tasks : DOMAIN run'[t] = RunFields /\ run'[t].items = <<>> /\ run'[t].at \notin {"asking", "adding"}
  BY <1>1, ClosedTab DEF RunFields
<1>3. <<>> \in Seq(config.planned \cup {Untitled})
  BY EmptySeq
<1>4. TaskShapes'
  <2>1. \A b \in Tabs : tab[b].subs \in Seq(Sub) /\ tab'[b].subs \in Seq(Sub)
    BY <1>1, ClosedTab, NoSubs DEF TaskInv, TaskShapes
  <2>2. QED
    BY <1>1, <1>2, <1>3, <2>1, ClosedTab DEF TaskInv, TaskShapes
<1>5. IdsNameLabels'
  <2>1. \A b \in Tabs : Same(tab'[b].subs, tab[b].subs) \/ DOMAIN tab'[b].subs = {}
    BY <1>1, ClosedTab, NoSubs DEF Same
  <2>2. \A t \in Tasks : Same(subs'[t], subs[t])
    BY <1>1 DEF Same
  <2>3. QED
    BY <1>1, <2>1, <2>2, ChecksKeepIds DEF TaskInv, TaskShapes
<1>6. PlanGrows'
  <2> SUFFICES ASSUME TSK!OneEditor PROVE PlanGrows'
    BY <1>1 DEF PlanGrows, TSK!OneEditor
  <2>1. \A b \in Tabs : TSK!Distinct(tab'[b].subs)
    BY <1>1, ClosedTab, NoSubs DEF TaskInv, PlanGrows
  <2>2. \A t \in Tasks : TSK!Distinct(subs[t])
    BY DEF TaskInv, PlanGrows
  <2>3. ASSUME NEW b \in Tabs \cap config.editors, tab'[b].at = "open", TSK!Exists(tab[b].task)
        PROVE  In(tab'[b].subs) \cap config.planned \subseteq In(subs[tab'[b].task]) /\ tab'[b].task = tab[b].task
    BY <1>1, <2>3, ClosedTab DEF TaskInv, PlanGrows
  <2>4. \A b \in Tabs : tab'[b].at = "open" => tab'[b] = tab[b]
    BY <1>1, ClosedTab
  <2>5. QED
    BY <1>1, <1>2, <2>1, <2>2, <2>3, <2>4 DEF PlanGrows, TSK!Distinct, In, TSK!Exists, TSK!Gone
<1>7. TSK!DoneHasTime' /\ Ticked'
  BY <1>1 DEF TaskInv, TSK!DoneHasTime, Ticked
<1>8. QED
  BY <1>4, <1>5, <1>6, <1>7 DEF TaskInv

LEMMA TaskNext == TaskInv /\ [TSK!Next]_(TSK!vars) => TaskInv'
<1> SUFFICES ASSUME TaskInv, [TSK!Next]_(TSK!vars) PROVE TaskInv'
  OBVIOUS
<1>1. CASE UNCHANGED TSK!vars
  <2>1. UNCHANGED <<row, subs, lastId, tab, run, toggled, config>>
    BY <1>1 DEF TSK!vars
  <2>2. TaskShapes' /\ IdsNameLabels' /\ Ticked' /\ TSK!DoneHasTime'
    BY <2>1 DEF TaskInv, TaskShapes, IdsNameLabels, Given, Agree, Ticked, TSK!DoneHasTime
  <2>3. PlanGrows'
    <3> SUFFICES ASSUME TSK!OneEditor PROVE PlanGrows'
      BY <2>1 DEF PlanGrows, TSK!OneEditor
    <3>1. /\ \A t \in Tasks : TSK!Distinct(subs[t])
          /\ \A b \in Tabs : TSK!Distinct(tab[b].subs)
          /\ \A t \in Tasks : run[t].at \in {"asking", "adding"} =>
                In(subs[t]) \cap config.planned \subseteq run[t].seen
          /\ \A b \in Tabs \cap config.editors : tab[b].at = "open" /\ TSK!Exists(tab[b].task) =>
                In(tab[b].subs) \cap config.planned \subseteq In(subs[tab[b].task])
      BY DEF TaskInv, PlanGrows
    <3>2. QED
      BY <2>1, <3>1 DEF PlanGrows, TSK!Distinct, In, TSK!Exists, TSK!Gone
  <2>4. QED
    BY <2>2, <2>3 DEF TaskInv
<1>2. ASSUME NEW b \in Tabs, \/ \E t \in Tasks : TSK!LoadRow(b, t) \/ TSK!ReadStatus(b, t)
                             \/ TSK!LoadSubs(b) \/ TSK!Close(b) \/ TSK!WriteStatus(b)
      PROVE  TaskInv'
  BY <1>2, TabStepKeepsTasks
<1>3. ASSUME NEW b \in Tabs, TSK!Save(b) \/ TSK!Toggle(b) PROVE TaskInv'
  BY <1>3, SaveKeepsTasks, ToggleKeepsTasks
<1>4. ASSUME NEW t \in Tasks, \/ TSK!Delete(t) \/ TSK!JobAdd(t) \/ TSK!Enqueue(t)
                              \/ TSK!JobRead(t) \/ TSK!JobAnswer(t) \/ TSK!JobEnd(t)
      PROVE  TaskInv'
  BY <1>4, DeleteKeepsTasks, JobAddKeepsTasks, RunStepKeepsTasks
<1>5. CASE TSK!Restart
  BY <1>5, RestartKeepsTasks
<1>6. QED
  BY <1>1, <1>2, <1>3, <1>4, <1>5 DEF TSK!Next

LEMMA TasksMove ==
  ASSUME [Next]_vars, part = "tasks"
  PROVE  [TSK!Next]_(TSK!vars)
<1>1. CASE UNCHANGED vars
  BY <1>1 DEF vars, shared, tasksVars, TSK!vars
<1>2. CASE Next
  BY <1>2 DEF Next, BackupsStep, SessionsStep, TasksStep, RecipesStep, IndexStep
<1>3. QED
  BY <1>1, <1>2

LEMMA TasksStand == Spec => [](part = "tasks" => TaskInv)
<1>1. Init => (part = "tasks" => TaskInv)
  BY TaskInit DEF Init
<1>2. (part = "tasks" => TaskInv) /\ [Next]_vars => (part = "tasks" => TaskInv)'
  BY PartStays, TasksMove, TaskNext
<1>3. QED
  BY <1>1, <1>2, PTL DEF Spec

(* However tabs, the job, crashes and deletions interleave: a tick hits the    *)
(* box the user saw, what is done has its time, and with one editor no plan    *)
(* holds a subtask twice (task.go:430, subtasks.go:66).                        *)
THEOREM PlansAreSound == Spec => []PlanIsSound
<1>1. TaskInv => TSK!LabelsUnique /\ TSK!TickHitsTheSeen /\ TSK!DoneHasTime
  BY DEF TaskInv, PlanGrows, Ticked, TSK!LabelsUnique, TSK!TickHitsTheSeen
<1>2. (part = "tasks" => TaskInv) => PlanIsSound
  BY <1>1 DEF PlanIsSound
<1>3. QED
  BY <1>2, TasksStand, PTL

--------------------------------------------------------------------------------
(* Backups and the restore                                                     *)

Destinations == {RestoreTo[i] : i \in DOMAIN RestoreTo}

\* A record, its fields the ones of Idle, whatever they hold.
AsIdle(p) ==
    p = [at |-> p.at, db |-> p.db, got |-> p.got, time |-> p.time, ep |-> p.ep, todo |-> p.todo]

\* What a worker uploads is a whole bundle, and so is what an endpoint stores.
Bundled ==
    /\ DOMAIN bundles = BAK!AllEndpoints
    /\ DOMAIN worker = BackupWorkers /\ 1 .. plan.workers \subseteq BackupWorkers
    /\ \A w \in BackupWorkers :
          /\ AsIdle(worker[w])
          /\ worker[w].at = "put" => worker[w].got = DOMAIN worker[w].db
    /\ BAK!BundleComplete

\* What the restore counts as put is on every endpoint; the object it is at is
\* on the endpoints before the present one; and it writes the database only
\* with every file of it.
Putting ==
    /\ DOMAIN objects = BAK!AllEndpoints
    /\ AsIdle(restore)
    /\ restore.at \in {"media", "written"} => \A e \in Destinations : restore.got \subseteq objects[e]
    /\ restore.at = "media" =>
          /\ restore.ep \in DOMAIN RestoreTo
          /\ \A i \in 1 .. restore.ep - 1 : BAK!First(restore.todo) \in objects[RestoreTo[i]]
    /\ restore.at = "written" => DOMAIN restore.db \subseteq restore.got

BackupInv == Bundled /\ Putting

LEMMA EndpointsKnown ==
  /\ Destinations \subseteq BAK!AllEndpoints
  /\ DOMAIN RestoreTo = 1 .. Len(RestoreTo) /\ Len(RestoreTo) \in Nat
BY RestoreAssumption DEF Destinations, BAK!AllEndpoints

LEMMA BackupInit == BAK!Init => BackupInv
BY KeepingsAssumption DEF BAK!Init, BackupInv, Bundled, Putting, AsIdle, BAK!Idle, BAK!Empty, BAK!BundleComplete

\* What another action may do to a worker.
WorkerMay(w, p) ==
    worker' = [worker EXCEPT ![w] = p] /\ AsIdle(p) /\ (p.at = "put" => p.got = DOMAIN p.db)

LEMMA WorkerStepKeepsBundles ==
  ASSUME Bundled, NEW w, NEW p, WorkerMay(w, p), UNCHANGED <<bundles, plan>>
  PROVE  Bundled'
BY DEF Bundled, WorkerMay, AsIdle, BAK!BundleComplete

LEMMA IdleIsFine == AsIdle(BAK!Idle) /\ BAK!Idle.at = "idle"
BY DEF AsIdle, BAK!Idle

LEMMA BackupKeepsBundles ==
  ASSUME Bundled, NEW w \in BackupWorkers, BAK!Snapshot(w) \/ BAK!BundleStep(w)
  PROVE  Bundled'
<1>1. PICK p : p = worker[w] /\ AsIdle(p)
  BY DEF Bundled
<1>2. CASE BAK!Snapshot(w)
  <2>1. PICK q : BAK!Go(w, q) /\ q = [BAK!Idle EXCEPT !.at = "fetch", !.db = live]
    BY <1>2 DEF BAK!Snapshot
  <2>2. AsIdle(q) /\ q.at # "put"
    BY <2>1 DEF AsIdle, BAK!Idle
  <2>3. QED
    BY <1>2, <2>1, <2>2, WorkerStepKeepsBundles DEF WorkerMay, BAK!Snapshot, BAK!Go
<1>3. CASE BAK!FetchMedia(w)
  <2>1. PICK f : f = BAK!First(BAK!Manifest(p.db) \ p.got)
    OBVIOUS
  <2>2. PICK q : /\ BAK!Go(w, q)
                 /\ q \in {BAK!Idle, [p EXCEPT !.got = @ \cup {f}]}
    BY <1>1, <1>3, <2>1 DEF BAK!FetchMedia
  <2>3. AsIdle(q) /\ q.at # "put"
    BY <1>1, <1>3, <2>2, IdleIsFine DEF AsIdle, BAK!FetchMedia
  <2>4. QED
    BY <1>3, <2>2, <2>3, WorkerStepKeepsBundles DEF WorkerMay, BAK!FetchMedia, BAK!Go
<1>4. CASE BAK!CloseBundle(w)
  <2>1. PICK q : BAK!Go(w, q) /\ q = [p EXCEPT !.at = "put", !.time = clock]
    BY <1>1, <1>4 DEF BAK!CloseBundle
  <2>2. AsIdle(q) /\ q.got = DOMAIN q.db
    BY <1>1, <1>4, <2>1 DEF AsIdle, BAK!CloseBundle, BAK!Manifest
  <2>3. QED
    BY <1>4, <2>1, <2>2, WorkerStepKeepsBundles DEF WorkerMay, BAK!CloseBundle, BAK!Go
<1>5. QED
  BY <1>2, <1>3, <1>4 DEF BAK!BundleStep

\* Only an upload adds a bundle, and it adds a whole one.
LEMMA PutKeepsBundles ==
  ASSUME Bundled, NEW w \in BackupWorkers, BAK!PutBundle(w)
  PROVE  Bundled'
<1>1. PICK p : p = worker[w] /\ AsIdle(p) /\ p.at = "put" /\ p.got = DOMAIN p.db
  BY DEF Bundled, BAK!PutBundle
<1>2. PICK q : /\ worker' = [worker EXCEPT ![w] = q]
               /\ q \in {BAK!Idle, [p EXCEPT !.ep = @ + 1]}
  BY <1>1 DEF BAK!PutBundle, BAK!Go
<1>3. AsIdle(q) /\ (q.at = "put" => q.got = DOMAIN q.db)
  BY <1>1, <1>2, IdleIsFine DEF AsIdle
<1>4. PICK e : e = Endpoints[p.ep]
  OBVIOUS
<1>5. \/ UNCHANGED bundles
      \/ bundles' = [bundles EXCEPT ![e] = BAK!With(@, p.time, [db |-> p.db, media |-> p.got])]
  BY <1>1, <1>4 DEF BAK!PutBundle
<1>6. UNCHANGED plan
  BY DEF BAK!PutBundle
<1>7. DOMAIN bundles' = BAK!AllEndpoints /\ BAK!BundleComplete'
  <2>1. CASE UNCHANGED bundles
    BY <2>1 DEF Bundled, BAK!BundleComplete
  <2>2. CASE bundles' = [bundles EXCEPT ![e] = BAK!With(@, p.time, [db |-> p.db, media |-> p.got])]
    <3>1. ASSUME NEW d \in BAK!AllEndpoints, NEW t \in DOMAIN bundles'[d]
          PROVE  bundles'[d][t].media = DOMAIN bundles'[d][t].db
      BY <1>1, <2>2 DEF Bundled, BAK!BundleComplete, BAK!With
    <3>2. QED
      BY <2>2, <3>1 DEF Bundled, BAK!BundleComplete
  <2>3. QED
    BY <1>5, <2>1, <2>2
<1>8. QED
  BY <1>2, <1>3, <1>6, <1>7 DEF Bundled

LEMMA PurgeKeepsBundles ==
  ASSUME Bundled, NEW w \in BackupWorkers, BAK!PurgeStep(w)
  PROVE  Bundled'
<1>1. PICK p : p = worker[w] /\ AsIdle(p)
  BY DEF Bundled
<1>2. AsIdle(BAK!NextEndpoint(p)) /\ BAK!NextEndpoint(p).at # "put"
  BY <1>1, IdleIsFine DEF AsIdle, BAK!NextEndpoint
<1>3. CASE BAK!BeginPurge(w)
  <2>1. PICK q : BAK!Go(w, q) /\ q = [BAK!Idle EXCEPT !.at = "list", !.time = clock]
    BY <1>3 DEF BAK!BeginPurge
  <2>2. AsIdle(q) /\ q.at # "put"
    BY <2>1 DEF AsIdle, BAK!Idle
  <2>3. QED
    BY <1>3, <2>1, <2>2, WorkerStepKeepsBundles DEF WorkerMay, BAK!BeginPurge, BAK!Go
<1>4. CASE BAK!ListBundles(w)
  <2>1. PICK doomed, q : /\ BAK!Go(w, q)
                         /\ q \in {BAK!NextEndpoint(p), [p EXCEPT !.at = "delete", !.todo = doomed]}
    BY <1>1, <1>4, Zenon DEF BAK!ListBundles
  <2>2. AsIdle(q) /\ q.at # "put"
    BY <1>1, <1>2, <2>1 DEF AsIdle
  <2>3. QED
    BY <1>4, <2>1, <2>2, WorkerStepKeepsBundles DEF WorkerMay, BAK!ListBundles, BAK!Go
<1>5. CASE BAK!DeleteBundle(w)
  <2>1. PICK t, e : /\ t = CHOOSE u \in p.todo : \A v \in p.todo : v <= u
                    /\ e = Endpoints[p.ep]
    OBVIOUS
  <2>2. PICK q : /\ worker' = [worker EXCEPT ![w] = q]
                 /\ q \in {BAK!NextEndpoint(p), [p EXCEPT !.todo = @ \ {t}]}
    BY <1>1, <1>5, <2>1 DEF BAK!DeleteBundle, BAK!Go
  <2>3. AsIdle(q) /\ q.at # "put"
    BY <1>1, <1>2, <1>5, <2>2 DEF AsIdle, BAK!DeleteBundle
  <2>4. \/ UNCHANGED bundles
        \/ bundles' = [bundles EXCEPT ![e] = [u \in DOMAIN @ \ {t} |-> @[u]]]
    BY <1>1, <1>5, <2>1 DEF BAK!DeleteBundle
  <2>5. DOMAIN bundles' = BAK!AllEndpoints /\ BAK!BundleComplete'
    BY <2>4 DEF Bundled, BAK!BundleComplete
  <2>6. UNCHANGED plan
    BY <1>5 DEF BAK!DeleteBundle
  <2>7. QED
    BY <2>2, <2>3, <2>5, <2>6 DEF Bundled
<1>6. QED
  BY <1>3, <1>4, <1>5 DEF BAK!PurgeStep

\* The restore's own steps.
LEMMA RestoreStepKeepsPutting ==
  ASSUME Putting, BAK!RestoreStep
  PROVE  Putting'
<1>1. AsIdle(restore) /\ DOMAIN objects = BAK!AllEndpoints
  BY DEF Putting
<1>2. CASE BAK!PutMedia
  <2>1. PICK f : f = BAK!First(restore.todo)
    OBVIOUS
  <2>2. PICK e : e = RestoreTo[restore.ep] /\ e \in BAK!AllEndpoints
    BY <1>2, EndpointsKnown DEF Putting, BAK!PutMedia, Destinations
  <2>3. restore.ep \in 1 .. Len(RestoreTo)
    BY <1>2, EndpointsKnown DEF Putting, BAK!PutMedia
  <2>4. CASE BAK!Stop("failed") /\ UNCHANGED objects
    BY <1>1, <2>4 DEF Putting, AsIdle, BAK!Stop
  <2>5. CASE /\ objects' = [objects EXCEPT ![e] = @ \cup {f}]
             /\ restore.ep = Len(RestoreTo)
             /\ restore' = [restore EXCEPT !.ep = 1, !.todo = @ \ {f}, !.got = @ \cup {f}]
    <3>1. \A i \in 1 .. Len(RestoreTo) : f \in objects'[RestoreTo[i]]
      BY <1>1, <1>2, <2>1, <2>2, <2>3, <2>5, EndpointsKnown DEF Putting, BAK!PutMedia, Destinations
    <3>2. \A d \in Destinations : objects[d] \subseteq objects'[d] /\ f \in objects'[d]
      BY <1>1, <2>2, <2>5, <3>1, EndpointsKnown DEF Destinations
    <3>3. /\ AsIdle(restore') /\ restore'.at = "media" /\ restore'.ep = 1
          /\ restore'.got = restore.got \cup {f}
      BY <1>1, <1>2, <2>5 DEF AsIdle, BAK!PutMedia
    <3>4. QED
      BY <1>1, <1>2, <2>3, <2>5, <3>2, <3>3, EndpointsKnown DEF Putting, BAK!PutMedia, AsIdle
  <2>6. CASE /\ objects' = [objects EXCEPT ![e] = @ \cup {f}]
             /\ restore.ep # Len(RestoreTo)
             /\ restore' = [restore EXCEPT !.ep = @ + 1]
    <3>1. /\ AsIdle(restore') /\ restore'.at = "media" /\ restore'.ep = restore.ep + 1
          /\ restore'.got = restore.got /\ restore'.todo = restore.todo
      BY <1>1, <1>2, <2>6 DEF AsIdle, BAK!PutMedia
    <3>2. \A d \in Destinations : objects[d] \subseteq objects'[d]
      BY <1>1, <2>6, EndpointsKnown
    <3>3. \A i \in 1 .. restore.ep : f \in objects'[RestoreTo[i]]
      BY <1>1, <1>2, <2>1, <2>2, <2>3, <2>6, EndpointsKnown DEF Putting, BAK!PutMedia, Destinations
    <3>4. QED
      BY <1>1, <1>2, <2>1, <2>3, <2>6, <3>1, <3>2, <3>3, EndpointsKnown DEF Putting, BAK!PutMedia, AsIdle
  <2>7. QED
    BY <1>1, <1>2, <2>1, <2>2, <2>4, <2>5, <2>6 DEF BAK!PutMedia, AsIdle
<1>3. CASE BAK!WriteDatabase
  BY <1>1, <1>3 DEF Putting, BAK!WriteDatabase, BAK!Stop, BAK!Manifest, AsIdle
<1>4. CASE BAK!NormalizeReplicas
  BY <1>1, <1>4 DEF Putting, BAK!NormalizeReplicas, AsIdle
<1>5. QED
  BY <1>2, <1>3, <1>4 DEF BAK!RestoreStep

LEMMA OthersKeepPutting ==
  ASSUME Putting,
         \/ UNCHANGED <<objects, restore>>
         \/ \E on \in SUBSET BAK!Configured : BAK!StoreFile(on)
         \/ \E e \in BAK!AllEndpoints, f \in BAK!Files : BAK!LoseObject(e, f)
         \/ \E t \in 0 .. clock : BAK!Download(t)
  PROVE  Putting'
<1>1. CASE UNCHANGED <<objects, restore>>
  BY <1>1 DEF Putting, AsIdle
<1>2. ASSUME NEW on, BAK!StoreFile(on) PROVE Putting'
  <2>1. \A e \in BAK!AllEndpoints : objects[e] \subseteq objects'[e]
    BY <1>2 DEF BAK!StoreFile
  <2>2. DOMAIN objects' = BAK!AllEndpoints /\ restore' = restore
    BY <1>2 DEF BAK!StoreFile
  <2>3. QED
    BY <2>1, <2>2, EndpointsKnown DEF Putting, AsIdle, Destinations
<1>3. ASSUME NEW e, NEW f, BAK!LoseObject(e, f) PROVE Putting'
  BY <1>3 DEF Putting, AsIdle, BAK!LoseObject
<1>4. ASSUME NEW t, BAK!Download(t) PROVE Putting'
  <2>1. PICK i, b :
          /\ i \in DOMAIN RestoreTo
          /\ restore' = [BAK!Idle EXCEPT !.at = "media", !.time = t, !.db = b.db, !.todo = b.media]
    BY <1>4, Zenon DEF BAK!Download
  <2>2. AsIdle(restore') /\ restore'.at = "media" /\ restore'.ep = 1 /\ restore'.got = {}
    BY <2>1 DEF AsIdle, BAK!Idle
  <2>3. 1 \in DOMAIN RestoreTo
    BY <2>1, EndpointsKnown
  <2>4. \A j \in 1 .. restore'.ep - 1 : FALSE
    BY <2>2
  <2>5. UNCHANGED objects
    BY <1>4, Zenon DEF BAK!Download
  <2>6. QED
    BY <2>2, <2>3, <2>4, <2>5 DEF Putting
<1>5. QED
  BY <1>1, <1>2, <1>3, <1>4

LEMMA BackupNext == BackupInv /\ [BAK!Next]_(BAK!vars) => BackupInv'
<1> SUFFICES ASSUME BackupInv, [BAK!Next]_(BAK!vars) PROVE BackupInv'
  OBVIOUS
<1>1. CASE UNCHANGED <<worker, bundles, plan>> /\ Putting'
  BY <1>1 DEF BackupInv, Bundled, AsIdle, BAK!BundleComplete
<1>2. CASE UNCHANGED BAK!vars
  BY <1>1, <1>2, OthersKeepPutting DEF BAK!vars, BackupInv
<1>3. CASE BAK!Tick \/ \E f \in BAK!Files : BAK!SoftDelete(f)
  BY <1>1, <1>3, OthersKeepPutting DEF BAK!Tick, BAK!SoftDelete, BackupInv
<1>4. ASSUME NEW on \in SUBSET BAK!Configured, BAK!StoreFile(on) PROVE BackupInv'
  BY <1>1, <1>4, OthersKeepPutting DEF BAK!StoreFile, BackupInv
<1>5. ASSUME NEW e \in BAK!AllEndpoints, NEW f \in BAK!Files, BAK!LoseObject(e, f) PROVE BackupInv'
  BY <1>1, <1>5, OthersKeepPutting DEF BAK!LoseObject, BackupInv
<1>6. ASSUME NEW w \in 1 .. plan.workers, BAK!BackupStep(w) \/ BAK!PurgeStep(w) PROVE BackupInv'
  <2>1. UNCHANGED <<objects, restore>>
    BY <1>6 DEF BAK!BackupStep, BAK!BundleStep, BAK!PurgeStep, BAK!Snapshot, BAK!FetchMedia,
       BAK!CloseBundle, BAK!PutBundle, BAK!BeginPurge, BAK!ListBundles, BAK!DeleteBundle
  <2>2. w \in BackupWorkers
    BY DEF BackupInv, Bundled
  <2>3. QED
    BY <1>6, <2>1, <2>2, OthersKeepPutting, BackupKeepsBundles, PutKeepsBundles, PurgeKeepsBundles
       DEF BackupInv, BAK!BackupStep
<1>7. CASE BAK!Crash
  <2>1. Putting' /\ UNCHANGED <<bundles, plan>>
    BY <1>7, OthersKeepPutting DEF BAK!Crash, BackupInv
  <2>2. QED
    BY <1>7, <2>1, IdleIsFine DEF BackupInv, Bundled, BAK!Crash, BAK!BundleComplete
<1>8. ASSUME NEW t \in 0 .. clock, BAK!Download(t) PROVE BackupInv'
  BY <1>1, <1>8, OthersKeepPutting, Zenon DEF BAK!Download, BackupInv
<1>9. CASE BAK!RestoreStep
  <2>1. UNCHANGED <<worker, bundles, plan>>
    BY <1>9 DEF BAK!RestoreStep, BAK!PutMedia, BAK!WriteDatabase, BAK!NormalizeReplicas
  <2>2. QED
    BY <1>1, <1>9, <2>1, RestoreStepKeepsPutting DEF BackupInv
<1>10. QED
  BY <1>2, <1>3, <1>4, <1>5, <1>6, <1>7, <1>8, <1>9 DEF BAK!Next

\* Success is reported by the last step of the restore alone.
LEMMA OnlyNormalizingEnds ==
  ASSUME Putting, [BAK!Next]_(BAK!vars), restore'.at = "done", restore.at # "done"
  PROVE  BAK!NormalizeReplicas
<1>1. AsIdle(restore)
  BY DEF Putting
<1>2. CASE UNCHANGED restore
  BY <1>2
<1>3. ASSUME NEW t, BAK!Download(t) PROVE FALSE
  BY <1>3 DEF BAK!Download, BAK!Idle
<1>4. CASE BAK!PutMedia
  BY <1>1, <1>4 DEF BAK!PutMedia, BAK!Stop, AsIdle
<1>5. CASE BAK!WriteDatabase
  BY <1>1, <1>5 DEF BAK!WriteDatabase, BAK!Stop, AsIdle
<1>6. \/ UNCHANGED restore \/ \E t : BAK!Download(t)
      \/ BAK!PutMedia \/ BAK!WriteDatabase \/ BAK!NormalizeReplicas
  BY Zenon DEF BAK!Next, BAK!vars, BAK!Tick, BAK!StoreFile, BAK!SoftDelete, BAK!LoseObject,
     BAK!BackupStep, BAK!BundleStep, BAK!PurgeStep, BAK!Snapshot, BAK!FetchMedia,
     BAK!CloseBundle, BAK!PutBundle, BAK!BeginPurge, BAK!ListBundles, BAK!DeleteBundle,
     BAK!Crash, BAK!RestoreStep
<1>7. QED
  BY <1>2, <1>3, <1>4, <1>5, <1>6

LEMMA RestoreEndsWhole ==
  ASSUME Putting, [BAK!Next]_(BAK!vars)
  PROVE  BAK!Restored
<1> SUFFICES ASSUME restore'.at = "done", restore.at # "done",
                    NEW f \in DOMAIN restore'.db
             PROVE  /\ restore'.db[f] = Destinations
                    /\ \A e \in restore'.db[f] : f \in objects'[e]
  BY DEF BAK!Restored, Destinations
<1>1. BAK!NormalizeReplicas /\ AsIdle(restore)
  BY OnlyNormalizingEnds DEF Putting
<1>2. restore'.db = [g \in DOMAIN restore.db |-> Destinations] /\ UNCHANGED objects
  BY <1>1 DEF BAK!NormalizeReplicas, AsIdle, Destinations
<1>3. restore.at = "written"
  BY <1>1 DEF BAK!NormalizeReplicas
<1>4. QED
  BY <1>2, <1>3 DEF Putting

-------------------------------------------------------------------------------
(* The retention                                                               *)

\* A set of times up to n has a newest one.
LEMMA HasNewest ==
  ASSUME NEW n \in Nat, NEW S \in SUBSET (0 .. n), S # {}
  PROVE  \E t \in S : \A u \in S : u <= t
<1>1. PICK R : R = {p \in Nat \X Nat : p[1] < p[2]} /\ IsWellFoundedOn(R, Nat)
  BY NatLessThanWellFounded DEF OpToRel
<1>2. PICK T : T = {i \in Nat : \E t \in S : i = n - t}
  OBVIOUS
<1>3. T \subseteq Nat /\ T # {}
  <2>1. PICK t \in S : t \in 0 .. n
    OBVIOUS
  <2>2. n - t \in T
    BY <1>2, <2>1
  <2>3. QED
    BY <1>2, <2>2
<1>4. PICK x \in T : \A y \in T : <<y, x>> \notin R
  BY <1>1, <1>3, WFMin
<1>5. PICK t \in S : x = n - t
  BY <1>2, <1>4
<1>6. ASSUME NEW u \in S PROVE u <= t
  <2>1. n - u \in T /\ n - u \in Nat /\ x \in Nat
    BY <1>2, <1>3, <1>4
  <2>2. ~ (n - u < x)
    BY <1>1, <1>4, <2>1
  <2>3. QED
    BY <1>5, <2>2
<1>7. QED
  BY <1>6

\* Two times of the same period are less than a period apart.
LEMMA PeriodIsShort ==
  ASSUME NEW length \in Nat \ {0}, NEW t \in Int, NEW u \in Int,
         t \div length = u \div length, t <= u
  PROVE  u <= t + (length - 1)
OBVIOUS

SameDay(t, u) == t \div DayLength = u \div DayLength
SameWeek(t, u) == t \div WeekLength = u \div WeekLength
SameMonth(t, u) == t \div MonthLength = u \div MonthLength

\* What a purge of the time at keeps instead of t.
Follows(t, u, moment) ==
    /\ t < u
    /\ \/ t > moment - DailyWindow /\ u > moment - DailyWindow /\ SameDay(t, u)
       \/ /\ t <= moment - DailyWindow /\ u <= moment - DailyWindow
          /\ t > moment - WeeklyWindow /\ SameWeek(t, u)
       \/ t <= moment - WeeklyWindow /\ u <= moment - WeeklyWindow /\ SameMonth(t, u)

\* The newest of a period is kept.
LEMMA NewestIsKept ==
  ASSUME NEW n \in Nat, NEW S \in SUBSET (0 .. n), NEW length, NEW t \in S,
         t \notin BAK!NewestPer(length, S)
  PROVE  \E u \in S \cap BAK!NewestPer(length, S) : t < u /\ t \div length = u \div length
<1>1. PICK b, P : b = t \div length /\ P = {u \in S : u \div length = b}
  OBVIOUS
<1>2. PICK u \in P : \A v \in P : v <= u
  BY <1>1, HasNewest
<1>3. \A v : v \in BAK!Newest(P) => v \in BAK!NewestPer(length, S)
  BY <1>1 DEF BAK!NewestPer
<1>4. u \in BAK!NewestPer(length, S)
  BY <1>2, <1>3 DEF BAK!Newest
<1>5. u # t /\ t <= u
  BY <1>1, <1>2, <1>4
<1>6. QED
  BY <1>1, <1>4, <1>5

\* The instance counts with a Cardinality of its own.
LEMMA SameCount == \A S : BAK!Cardinality(S) = Cardinality(S)
BY DEF BAK!Cardinality, Cardinality

\* The newest of a day is kept.
LEMMA NewestOfDayIsKept ==
  ASSUME NEW n \in Nat, NEW S \in SUBSET (0 .. n), NEW t \in S,
         t \notin BAK!KeptPerDay(S)
  PROVE  \E u \in S \cap BAK!KeptPerDay(S) : t < u /\ SameDay(t, u)
<1>1. PICK P : P = {u \in S : SameDay(u, t)}
  OBVIOUS
<1>2. PICK u \in P : \A v \in P : v <= u
  BY <1>1, HasNewest DEF SameDay
<1>3. PICK N : N = {v \in S : v > u /\ v \div DayLength = u \div DayLength}
  OBVIOUS
<1>4. \A v \in S : SameDay(v, u) => ~ (v > u)
  BY <1>1, <1>2 DEF SameDay
<1>5. N = {}
  BY <1>3, <1>4 DEF SameDay
<1>6. BAK!Cardinality(N) < PerDay
  BY <1>5, FS_EmptySet, SameCount, RetentionAssumption
<1>7. BAK!Cardinality({v \in S : v > u /\ v \div DayLength = u \div DayLength}) < PerDay
  BY <1>3, <1>6, Zenon
<1>8. u \in S
  BY <1>1
<1>9. u \in BAK!KeptPerDay(S)
  BY <1>7, <1>8, Zenon DEF BAK!KeptPerDay
<1>10. u # t /\ t <= u
  BY <1>1, <1>2, <1>9 DEF SameDay
<1>11. QED
  BY <1>1, <1>9, <1>10 DEF SameDay

\* Instead of what it dooms, a purge keeps something newer of the same period;
\* but for what is older than the longest window.
LEMMA DoomedIsFollowed ==
  ASSUME NEW n \in Nat, NEW S \in SUBSET (0 .. n), NEW moment \in Nat,
         NEW t \in S \ BAK!Kept(S, moment), t > moment - MonthlyWindow
  PROVE  \E u \in S \cap BAK!Kept(S, moment) : Follows(t, u, moment)
<1>1. t \in Int /\ \A u \in S : u \in Int
  OBVIOUS
<1>2. CASE t > moment - DailyWindow
  <2>1. PICK D : D = {u \in S : u > moment - DailyWindow}
    OBVIOUS
  <2>2. t \in D /\ t \notin BAK!KeptPerDay(D)
    BY <1>2, <2>1 DEF BAK!Kept
  <2>3. PICK u \in D \cap BAK!KeptPerDay(D) : t < u /\ SameDay(t, u)
    BY <2>1, <2>2, NewestOfDayIsKept
  <2>4. QED
    BY <1>2, <2>1, <2>3 DEF BAK!Kept, Follows
<1>3. CASE t > moment - WeeklyWindow /\ t <= moment - DailyWindow
  <2>1. PICK W : W = BAK!Window(S, moment, WeeklyWindow, DailyWindow)
    OBVIOUS
  <2>2. t \in W /\ t \notin BAK!NewestPer(WeekLength, W)
    BY <1>3, <2>1 DEF BAK!Kept, BAK!Window
  <2>3. W \in SUBSET (0 .. n)
    BY <2>1 DEF BAK!Window
  <2>4. PICK u \in W \cap BAK!NewestPer(WeekLength, W) :
               t < u /\ t \div WeekLength = u \div WeekLength
    BY <2>2, <2>3, NewestIsKept
  <2>5. QED
    BY <1>3, <2>1, <2>4 DEF BAK!Kept, BAK!Window, Follows, SameWeek
<1>4. CASE t <= moment - WeeklyWindow
  <2>1. PICK M : M = BAK!Window(S, moment, MonthlyWindow, WeeklyWindow)
    OBVIOUS
  <2>2. t \in M /\ t \notin BAK!NewestPer(MonthLength, M)
    BY <1>4, <2>1 DEF BAK!Kept, BAK!Window
  <2>3. M \in SUBSET (0 .. n)
    BY <2>1 DEF BAK!Window
  <2>4. PICK u \in M \cap BAK!NewestPer(MonthLength, M) :
               t < u /\ t \div MonthLength = u \div MonthLength
    BY <2>2, <2>3, NewestIsKept
  <2>5. QED
    BY <1>4, <2>1, <2>4 DEF BAK!Kept, BAK!Window, Follows, SameMonth
<1>5. QED
  BY <1>1, <1>2, <1>3, <1>4, RetentionAssumption

Stored(e) == DOMAIN bundles[e]
Purges(p) == p.at \in {"list", "delete"}

\* Times are of the past, and a purge deletes what there is.
Clocked ==
    /\ clock \in Nat
    /\ plan.endpoints \in Nat \ {0}
    /\ \A i \in 1 .. plan.endpoints : Endpoints[i] \in BAK!AllEndpoints
    /\ DOMAIN ever = BAK!AllEndpoints
    /\ \A e \in BAK!AllEndpoints : Stored(e) \subseteq ever[e] /\ ever[e] \subseteq 0 .. clock
    /\ \A w \in BackupWorkers :
          /\ worker[w].time \in 0 .. clock /\ worker[w].ep \in 1 .. plan.endpoints
          /\ worker[w].at = "delete" => worker[w].todo # {} /\ worker[w].todo \subseteq 0 .. clock

\* The kinds of steps of a worker, by what they do to bundles and times.
Builds(p, q) ==
    /\ ~ Purges(p) /\ ~ Purges(q) /\ q.time \in 0 .. clock
    /\ UNCHANGED <<bundles, ever>>
Uploads(p, q) ==
    /\ ~ Purges(p) /\ ~ Purges(q) /\ q.time \in 0 .. clock
    /\ \A e \in BAK!AllEndpoints : \E new \in {{}, {p.time}} :
          Stored(e)' = Stored(e) \cup new /\ ever'[e] = ever[e] \cup new
BeginsPurge(p, q) ==
    /\ ~ Purges(p) /\ q.at = "list" /\ q.time = clock
    /\ UNCHANGED <<bundles, ever>>
\* On to the next endpoint, or done.
GoesOn(p, q) == q.at # "delete" /\ q.time \in 0 .. p.time /\ (Purges(q) => q.time = p.time)
Passes(p, q) == Purges(p) /\ GoesOn(p, q) /\ UNCHANGED <<bundles, ever>>
Dooms(p, q) ==
    LET S == Stored(Endpoints[p.ep]) IN
    /\ Purges(p) /\ q.at = "delete" /\ q.time = p.time /\ q.ep = p.ep
    /\ q.todo = S \ BAK!Kept(S, p.time) /\ q.todo # {}
    /\ UNCHANGED <<bundles, ever>>
Deletes(p, q) ==
    /\ p.at = "delete" /\ UNCHANGED ever
    /\ \E t \in p.todo :
          /\ \/ GoesOn(p, q)
             \/ /\ q.at = "delete" /\ q.time = p.time /\ q.ep = p.ep
                /\ q.todo = p.todo \ {t} /\ q.todo # {}
          /\ \A e \in BAK!AllEndpoints :
                \/ Stored(e)' = Stored(e)
                \/ e = Endpoints[p.ep] /\ Stored(e)' = Stored(e) \ {t}

WorkerTurn(w, q) ==
    /\ worker' = [worker EXCEPT ![w] = q] /\ UNCHANGED <<clock, plan>>
    /\ DOMAIN ever' = BAK!AllEndpoints /\ q.ep \in 1 .. plan.endpoints
    /\ \/ Builds(worker[w], q) \/ Uploads(worker[w], q) \/ BeginsPurge(worker[w], q)
       \/ Passes(worker[w], q) \/ Dooms(worker[w], q) \/ Deletes(worker[w], q)

LEMMA WorkerBuilds ==
  ASSUME Bundled, Clocked, NEW w \in BackupWorkers, BAK!Snapshot(w) \/ BAK!BundleStep(w)
  PROVE  \E q : WorkerTurn(w, q)
<1>1. PICK p : /\ p = worker[w] /\ AsIdle(p)
               /\ p.time \in 0 .. clock /\ clock \in Nat /\ p.ep \in 1 .. plan.endpoints
  BY DEF Bundled, Clocked
<1>2. DOMAIN ever = BAK!AllEndpoints
  BY DEF Clocked
<1>3. BAK!Idle.at = "idle" /\ BAK!Idle.time = 0 /\ BAK!Idle.ep \in 1 .. plan.endpoints
  BY DEF BAK!Idle, Clocked
<1>4. CASE BAK!Snapshot(w)
  <2>1. PICK q : BAK!Go(w, q) /\ q = [BAK!Idle EXCEPT !.at = "fetch", !.db = live]
    BY <1>4 DEF BAK!Snapshot
  <2>2. q.at = "fetch" /\ q.time = 0 /\ p.at = "idle" /\ q.ep \in 1 .. plan.endpoints
    BY <1>1, <1>3, <1>4, <2>1 DEF BAK!Idle, BAK!Snapshot
  <2>3. Builds(p, q)
    BY <1>1, <1>4, <2>2 DEF Builds, Purges, BAK!Snapshot
  <2>4. QED
    BY <1>1, <1>2, <1>4, <2>1, <2>2, <2>3 DEF WorkerTurn, BAK!Snapshot, BAK!Go
<1>5. CASE BAK!FetchMedia(w)
  <2>1. PICK f : f = BAK!First(BAK!Manifest(p.db) \ p.got)
    OBVIOUS
  <2>2. PICK q : /\ BAK!Go(w, q)
                 /\ q \in {BAK!Idle, [p EXCEPT !.got = @ \cup {f}]}
    BY <1>1, <1>5, <2>1 DEF BAK!FetchMedia
  <2>3. /\ q.at \in {"idle", "fetch"} /\ q.time \in {0, p.time} /\ p.at = "fetch"
        /\ q.ep \in 1 .. plan.endpoints
    BY <1>1, <1>3, <1>5, <2>2 DEF AsIdle, BAK!FetchMedia
  <2>4. Builds(p, q)
    BY <1>1, <1>5, <2>3 DEF Builds, Purges, BAK!FetchMedia
  <2>5. QED
    BY <1>1, <1>2, <1>5, <2>2, <2>3, <2>4 DEF WorkerTurn, BAK!FetchMedia, BAK!Go
<1>6. CASE BAK!CloseBundle(w)
  <2>1. PICK q : BAK!Go(w, q) /\ q = [p EXCEPT !.at = "put", !.time = clock]
    BY <1>1, <1>6 DEF BAK!CloseBundle
  <2>2. q.at = "put" /\ q.time = clock /\ p.at = "fetch" /\ q.ep \in 1 .. plan.endpoints
    BY <1>1, <1>6, <2>1 DEF AsIdle, BAK!CloseBundle
  <2>3. Builds(p, q)
    BY <1>1, <1>6, <2>2 DEF Builds, Purges, BAK!CloseBundle
  <2>4. QED
    BY <1>1, <1>2, <1>6, <2>1, <2>2, <2>3 DEF WorkerTurn, BAK!CloseBundle, BAK!Go
<1>7. QED
  BY <1>4, <1>5, <1>6 DEF BAK!BundleStep

LEMMA WorkerUploads ==
  ASSUME Bundled, Clocked, NEW w \in BackupWorkers, BAK!PutBundle(w)
  PROVE  \E q : WorkerTurn(w, q)
<1>1. PICK p : /\ p = worker[w] /\ AsIdle(p) /\ p.at = "put"
               /\ p.time \in 0 .. clock /\ clock \in Nat /\ p.ep \in 1 .. plan.endpoints
  BY DEF Bundled, Clocked, BAK!PutBundle
<1>2. DOMAIN ever = BAK!AllEndpoints /\ DOMAIN bundles = BAK!AllEndpoints
  BY DEF Clocked, Bundled
<1>3. PICK q : /\ worker' = [worker EXCEPT ![w] = q]
               /\ q = IF p.ep < plan.endpoints THEN [p EXCEPT !.ep = @ + 1] ELSE BAK!Idle
  BY <1>1 DEF BAK!PutBundle, BAK!Go, BAK!Last
<1>4. q.at \in {"idle", "put"} /\ q.time \in {0, p.time} /\ q.ep \in 1 .. plan.endpoints
  BY <1>1, <1>3 DEF AsIdle, BAK!Idle, Clocked
<1>5. PICK e : e = Endpoints[p.ep]
  OBVIOUS
<1>6. \/ UNCHANGED <<bundles, ever>>
      \/ /\ bundles' = [bundles EXCEPT ![e] = BAK!With(@, p.time, [db |-> p.db, media |-> p.got])]
         /\ ever' = [ever EXCEPT ![e] = @ \cup {p.time}]
  BY <1>1, <1>5 DEF BAK!PutBundle
<1>7. UNCHANGED <<clock, plan>>
  BY DEF BAK!PutBundle
<1>8. CASE UNCHANGED <<bundles, ever>>
  <2>1. Builds(p, q)
    BY <1>1, <1>4, <1>8 DEF Builds, Purges
  <2>2. QED
    BY <1>1, <1>2, <1>3, <1>4, <1>7, <1>8, <2>1 DEF WorkerTurn
<1>9. CASE /\ bundles' = [bundles EXCEPT ![e] = BAK!With(@, p.time, [db |-> p.db, media |-> p.got])]
           /\ ever' = [ever EXCEPT ![e] = @ \cup {p.time}]
  <2>1. ASSUME NEW d \in BAK!AllEndpoints
        PROVE  \E new \in {{}, {p.time}} :
                  Stored(d)' = Stored(d) \cup new /\ ever'[d] = ever[d] \cup new
    <3>1. CASE d = e
      <4>1. bundles'[d] = BAK!With(bundles[d], p.time, [db |-> p.db, media |-> p.got])
        BY <1>2, <1>9, <3>1
      <4>2. DOMAIN bundles'[d] = DOMAIN bundles[d] \cup {p.time}
        BY <4>1 DEF BAK!With
      <4>3. QED
        BY <1>2, <1>9, <3>1, <4>2 DEF Stored
    <3>2. CASE d # e
      BY <1>2, <1>9, <3>2 DEF Stored
    <3>3. QED
      BY <3>1, <3>2
  <2>2. Uploads(p, q)
    BY <1>1, <1>4, <1>5, <2>1 DEF Uploads, Purges
  <2>3. QED
    BY <1>1, <1>2, <1>3, <1>4, <1>7, <1>9, <2>2 DEF WorkerTurn
<1>10. QED
  BY <1>6, <1>8, <1>9

LEMMA WorkerPurges ==
  ASSUME Bundled, Clocked, NEW w \in BackupWorkers, BAK!PurgeStep(w)
  PROVE  \E q : WorkerTurn(w, q)
<1>1. PICK p : /\ p = worker[w] /\ AsIdle(p)
               /\ p.time \in 0 .. clock /\ clock \in Nat /\ p.ep \in 1 .. plan.endpoints
  BY DEF Bundled, Clocked
<1>2. DOMAIN ever = BAK!AllEndpoints /\ DOMAIN bundles = BAK!AllEndpoints
  BY DEF Clocked, Bundled
<1>3. GoesOn(p, BAK!NextEndpoint(p)) /\ BAK!NextEndpoint(p).ep \in 1 .. plan.endpoints
  BY <1>1 DEF GoesOn, Purges, AsIdle, BAK!NextEndpoint, BAK!Idle, BAK!Last, Clocked
<1>4. CASE BAK!BeginPurge(w)
  <2>1. PICK q : BAK!Go(w, q) /\ q = [BAK!Idle EXCEPT !.at = "list", !.time = clock]
    BY <1>4 DEF BAK!BeginPurge
  <2>2. q.at = "list" /\ q.time = clock /\ p.at = "idle" /\ q.ep \in 1 .. plan.endpoints
    BY <1>1, <1>4, <2>1 DEF BAK!Idle, BAK!BeginPurge, Clocked
  <2>3. BeginsPurge(p, q)
    BY <1>4, <2>2 DEF BeginsPurge, Purges, BAK!BeginPurge
  <2>4. QED
    BY <1>1, <1>2, <1>4, <2>1, <2>2, <2>3 DEF WorkerTurn, BAK!BeginPurge, BAK!Go
<1>5. CASE BAK!ListBundles(w)
  <2>1. PICK S, doomed : S = Stored(Endpoints[p.ep]) /\ doomed = S \ BAK!Kept(S, p.time)
    OBVIOUS
  <2>2. p.at = "list" /\ UNCHANGED <<bundles, ever, clock, plan>>
    BY <1>1, <1>5 DEF BAK!ListBundles
  <2>3. PICK q : /\ BAK!Go(w, q)
                 /\ \/ q = BAK!NextEndpoint(p)
                    \/ doomed # {} /\ q = [p EXCEPT !.at = "delete", !.todo = doomed]
    BY <1>1, <1>5, <2>1 DEF BAK!ListBundles, Stored
  <2>4. CASE q = BAK!NextEndpoint(p)
    <3>1. Passes(p, q)
      BY <1>3, <2>2, <2>4 DEF Passes, Purges
    <3>2. QED
      BY <1>1, <1>2, <1>3, <2>2, <2>3, <2>4, <3>1 DEF WorkerTurn, BAK!Go
  <2>5. CASE doomed # {} /\ q = [p EXCEPT !.at = "delete", !.todo = doomed]
    <3>1. q.at = "delete" /\ q.time = p.time /\ q.ep = p.ep /\ q.todo = doomed
      BY <1>1, <2>5 DEF AsIdle
    <3>2. Dooms(p, q)
      BY <2>1, <2>2, <2>5, <3>1 DEF Dooms, Purges
    <3>3. QED
      BY <1>1, <1>2, <2>2, <2>3, <3>1, <3>2 DEF WorkerTurn, BAK!Go
  <2>6. QED
    BY <2>3, <2>4, <2>5
<1>6. CASE BAK!DeleteBundle(w)
  <2>1. PICK t, e : /\ t = CHOOSE u \in p.todo : \A v \in p.todo : v <= u
                    /\ e = Endpoints[p.ep]
    OBVIOUS
  <2>2. p.at = "delete" /\ UNCHANGED <<ever, clock, plan>>
    BY <1>1, <1>6 DEF BAK!DeleteBundle
  <2>3. t \in p.todo
    <3>1. p.todo # {} /\ p.todo \in SUBSET (0 .. clock)
      BY <1>1, <2>2 DEF Clocked
    <3>2. QED
      BY <1>1, <2>1, <3>1, HasNewest
  <2>4. PICK q : /\ worker' = [worker EXCEPT ![w] = q]
                 /\ \/ q = BAK!NextEndpoint(p)
                    \/ p.todo # {t} /\ q = [p EXCEPT !.todo = @ \ {t}]
    BY <1>1, <1>6, <2>1 DEF BAK!DeleteBundle, BAK!Go
  <2>5. /\ q.ep \in 1 .. plan.endpoints
        /\ \/ GoesOn(p, q)
           \/ /\ q.at = "delete" /\ q.time = p.time /\ q.ep = p.ep
              /\ q.todo = p.todo \ {t} /\ q.todo # {}
    BY <1>1, <1>3, <2>2, <2>3, <2>4 DEF AsIdle
  <2>6. \/ UNCHANGED bundles
        \/ bundles' = [bundles EXCEPT ![e] = [u \in DOMAIN @ \ {t} |-> @[u]]]
    BY <1>1, <1>6, <2>1 DEF BAK!DeleteBundle
  <2>7. ASSUME NEW d \in BAK!AllEndpoints
        PROVE  \/ Stored(d)' = Stored(d)
               \/ d = e /\ Stored(d)' = Stored(d) \ {t}
    BY <1>2, <2>6 DEF Stored
  <2>8. Deletes(p, q)
    BY <2>1, <2>2, <2>3, <2>5, <2>7 DEF Deletes
  <2>9. QED
    BY <1>1, <1>2, <2>2, <2>4, <2>5, <2>8 DEF WorkerTurn
<1>7. QED
  BY <1>4, <1>5, <1>6 DEF BAK!PurgeStep

\* What the other steps leave alone.
Resting == UNCHANGED <<bundles, ever, worker, plan>> /\ clock' \in {clock, clock + 1}
Crashing ==
    /\ UNCHANGED <<bundles, ever, clock, plan>>
    /\ worker' = [w \in BackupWorkers |-> BAK!Idle]

LEMMA RetentionMoves ==
  ASSUME Bundled, Clocked, [BAK!Next]_(BAK!vars)
  PROVE  \/ Resting \/ Crashing
         \/ \E w \in 1 .. plan.workers : \E q : w \in BackupWorkers /\ WorkerTurn(w, q)
<1>1. CASE UNCHANGED <<bundles, ever, worker, plan, clock>>
  BY <1>1 DEF Resting
<1>2. CASE BAK!Tick
  BY <1>2 DEF Resting, BAK!Tick
<1>3. CASE BAK!Crash
  BY <1>3 DEF Crashing, BAK!Crash
<1>4. ASSUME NEW w \in 1 .. plan.workers, BAK!BackupStep(w) \/ BAK!PurgeStep(w)
      PROVE  \E q : w \in BackupWorkers /\ WorkerTurn(w, q)
  <2>1. w \in BackupWorkers
    BY DEF Bundled
  <2>2. QED
    BY <1>4, <2>1, WorkerBuilds, WorkerUploads, WorkerPurges DEF BAK!BackupStep
<1>5. \/ UNCHANGED <<bundles, ever, worker, plan, clock>> \/ BAK!Tick \/ BAK!Crash
      \/ \E w \in 1 .. plan.workers : BAK!BackupStep(w) \/ BAK!PurgeStep(w)
  BY Zenon DEF BAK!Next, BAK!vars, BAK!StoreFile, BAK!SoftDelete, BAK!LoseObject, BAK!Download,
     BAK!RestoreStep, BAK!PutMedia, BAK!WriteDatabase, BAK!NormalizeReplicas
<1>6. QED
  BY <1>1, <1>2, <1>3, <1>4, <1>5

LEMMA TurnKeepsClocked ==
  ASSUME Bundled, Clocked, NEW w \in BackupWorkers, NEW q, WorkerTurn(w, q)
  PROVE  Clocked'
<1>1. PICK p : /\ p = worker[w] /\ p.time \in 0 .. clock /\ clock \in Nat
               /\ Endpoints[p.ep] \in BAK!AllEndpoints
               /\ p.at = "delete" => p.todo \subseteq 0 .. clock
  BY DEF Clocked
<1>2. /\ worker' = [worker EXCEPT ![w] = q] /\ DOMAIN worker = BackupWorkers
      /\ UNCHANGED <<clock, plan>> /\ DOMAIN ever' = BAK!AllEndpoints
      /\ q.ep \in 1 .. plan.endpoints
  BY DEF WorkerTurn, Bundled
<1>3. /\ \/ Builds(p, q) \/ Uploads(p, q) \/ BeginsPurge(p, q)
         \/ Passes(p, q) \/ Dooms(p, q) \/ Deletes(p, q)
  BY <1>1 DEF WorkerTurn
<1>4. \A e \in BAK!AllEndpoints : Stored(e) \subseteq ever[e] /\ ever[e] \subseteq 0 .. clock
  BY DEF Clocked
<1>5. ASSUME NEW e \in BAK!AllEndpoints
      PROVE  Stored(e)' \subseteq ever'[e] /\ ever'[e] \subseteq 0 .. clock
  <2>1. CASE UNCHANGED <<bundles, ever>>
    BY <1>4, <2>1 DEF Stored
  <2>2. CASE Uploads(p, q)
    BY <1>1, <1>4, <2>2 DEF Uploads
  <2>3. CASE Deletes(p, q)
    <3>1. UNCHANGED ever /\ Stored(e)' \subseteq Stored(e)
      BY <2>3 DEF Deletes
    <3>2. QED
      BY <1>4, <3>1
  <2>4. QED
    BY <1>3, <2>1, <2>2, <2>3 DEF Builds, BeginsPurge, Passes, Dooms
<1>6. q.time \in 0 .. clock
  BY <1>1, <1>3 DEF Builds, Uploads, BeginsPurge, Passes, GoesOn, Dooms, Deletes
<1>7. ASSUME q.at = "delete" PROVE q.todo # {} /\ q.todo \subseteq 0 .. clock
  <2>1. CASE Dooms(p, q)
    <3>1. \A e \in BAK!AllEndpoints : Stored(e) \subseteq 0 .. clock
      BY <1>4
    <3>2. QED
      BY <1>1, <2>1, <3>1 DEF Dooms
  <2>2. CASE Deletes(p, q)
    BY <1>1, <1>7, <2>2 DEF Deletes, GoesOn
  <2>3. QED
    BY <1>3, <1>7, <2>1, <2>2 DEF Builds, Uploads, BeginsPurge, Passes, GoesOn, Purges
<1>8. ASSUME NEW v \in BackupWorkers
      PROVE  /\ worker'[v].time \in 0 .. clock /\ worker'[v].ep \in 1 .. plan.endpoints
             /\ worker'[v].at = "delete" => worker'[v].todo # {} /\ worker'[v].todo \subseteq 0 .. clock
  BY <1>2, <1>6, <1>7 DEF Clocked
<1>9. QED
  BY <1>1, <1>2, <1>5, <1>8 DEF Clocked, Stored

LEMMA ClockedNext ==
  ASSUME Bundled, Clocked, [BAK!Next]_(BAK!vars)
  PROVE  Clocked'
<1>1. CASE Resting
  <2>1. clock' \in Nat /\ \A i : i \in 0 .. clock => i \in 0 .. clock'
    BY <1>1 DEF Resting, Clocked
  <2>2. QED
    BY <1>1, <2>1 DEF Resting, Clocked, Stored
<1>2. CASE Crashing
  <2>1. clock \in Nat /\ plan.endpoints \in Nat \ {0} => 0 \in 0 .. clock /\ 1 \in 1 .. plan.endpoints
    OBVIOUS
  <2>2. QED
    BY <1>2, <2>1 DEF Crashing, Clocked, Stored, BAK!Idle
<1>3. QED
  BY <1>1, <1>2, RetentionMoves, TurnKeepsClocked

\* What a purge is about to delete is not the newest bundle the endpoint stored.
LatestSafe ==
    /\ \A e \in BAK!AllEndpoints : \A t \in ever[e] :
          t > clock - MonthlyWindow /\ (\A u \in ever[e] : u <= t) => t \in Stored(e)
    /\ \A w \in BackupWorkers : worker[w].at = "delete" =>
          \A e \in BAK!AllEndpoints : e = Endpoints[worker[w].ep] =>
             \A t \in worker[w].todo : t > worker[w].time - MonthlyWindow => \E u \in ever[e] : u > t

LEMMA TurnKeepsLatest ==
  ASSUME Bundled, Clocked, LatestSafe, NEW w \in BackupWorkers, NEW q, WorkerTurn(w, q)
  PROVE  LatestSafe'
<1>1. PICK p : p = worker[w] /\ p.time \in 0 .. clock /\ clock \in Nat
  BY DEF Clocked
<1>2. /\ worker' = [worker EXCEPT ![w] = q] /\ DOMAIN worker = BackupWorkers
      /\ clock' = clock
  BY DEF WorkerTurn, Bundled
<1>3. \/ Builds(p, q) \/ Uploads(p, q) \/ BeginsPurge(p, q)
      \/ Passes(p, q) \/ Dooms(p, q) \/ Deletes(p, q)
  BY <1>1 DEF WorkerTurn
<1>4. \A e \in BAK!AllEndpoints : Stored(e) \subseteq ever[e] /\ ever[e] \subseteq 0 .. clock
  BY DEF Clocked
<1>5. \A e \in BAK!AllEndpoints : ever[e] \subseteq ever'[e]
  BY <1>3 DEF Builds, Uploads, BeginsPurge, Passes, Dooms, Deletes
<1>6. ASSUME NEW e \in BAK!AllEndpoints, NEW t \in ever'[e],
             t > clock - MonthlyWindow, \A u \in ever'[e] : u <= t
      PROVE  t \in Stored(e)'
  <2>1. CASE UNCHANGED <<bundles, ever>>
    BY <1>6, <2>1 DEF LatestSafe, Stored
  <2>2. CASE Uploads(p, q)
    BY <1>6, <2>2 DEF LatestSafe, Uploads
  <2>3. CASE Deletes(p, q)
    <3>1. UNCHANGED ever /\ p.at = "delete" /\ t \in Stored(e) /\ t \in 0 .. clock
      BY <1>4, <1>6, <2>3 DEF LatestSafe, Deletes
    <3>2. ASSUME e = Endpoints[p.ep], t \in p.todo PROVE FALSE
      <4>1. t > p.time - MonthlyWindow
        BY <1>1, <1>6, <3>1, RetentionAssumption
      <4>2. PICK u \in ever[e] : u > t
        BY <1>1, <3>1, <3>2, <4>1 DEF LatestSafe
      <4>3. QED
        BY <1>4, <1>6, <3>1, <4>2
    <3>3. QED
      BY <2>3, <3>1, <3>2 DEF Deletes
  <2>4. QED
    BY <1>3, <2>1, <2>2, <2>3 DEF Builds, BeginsPurge, Passes, Dooms
<1>7. ASSUME q.at = "delete", NEW e \in BAK!AllEndpoints, e = Endpoints[q.ep],
             NEW t \in q.todo, t > q.time - MonthlyWindow
      PROVE  \E u \in ever[e] : u > t
  <2>1. CASE Dooms(p, q)
    <3>1. e = Endpoints[p.ep] /\ t \in Stored(e) \ BAK!Kept(Stored(e), p.time) /\ q.time = p.time
      BY <1>7, <2>1 DEF Dooms
    <3>2. PICK S, moment : S = Stored(e) /\ S \in SUBSET (0 .. clock) /\ moment = p.time /\ moment \in Nat
      BY <1>1, <1>4
    <3>3. t \in S \ BAK!Kept(S, moment) /\ t > moment - MonthlyWindow
      BY <1>7, <3>1, <3>2
    <3>4. PICK u \in S : Follows(t, u, moment)
      BY <1>1, <3>2, <3>3, DoomedIsFollowed
    <3>5. QED
      BY <1>4, <3>2, <3>4 DEF Follows
  <2>2. CASE Deletes(p, q)
    BY <1>1, <1>7, <2>2 DEF Deletes, GoesOn, LatestSafe
  <2>3. QED
    BY <1>3, <1>7, <2>1, <2>2 DEF Builds, Uploads, BeginsPurge, Passes, GoesOn, Purges
<1>8. ASSUME NEW v \in BackupWorkers, worker'[v].at = "delete",
             NEW e \in BAK!AllEndpoints, e = Endpoints[worker'[v].ep],
             NEW t \in worker'[v].todo, t > worker'[v].time - MonthlyWindow
      PROVE  \E u \in ever'[e] : u > t
  <2>1. \E u \in ever[e] : u > t
    BY <1>2, <1>7, <1>8 DEF LatestSafe
  <2>2. QED
    BY <1>5, <2>1
<1>9. QED
  BY <1>2, <1>6, <1>8 DEF LatestSafe

LEMMA LatestNext ==
  ASSUME Bundled, Clocked, LatestSafe, [BAK!Next]_(BAK!vars)
  PROVE  LatestSafe'
<1>1. CASE Resting
  <2>1. /\ \A i \in Int : i > clock' - MonthlyWindow => i > clock - MonthlyWindow
        /\ \A e \in BAK!AllEndpoints : ever[e] \subseteq Int
    BY <1>1, RetentionAssumption DEF Resting, Clocked
  <2>2. QED
    BY <1>1, <2>1 DEF Resting, LatestSafe, Stored
<1>2. CASE Crashing
  BY <1>2 DEF Crashing, LatestSafe, Stored, BAK!Idle
<1>3. QED
  BY <1>1, <1>2, RetentionMoves, TurnKeepsLatest

\* u still stands for what was backed up at t when a purge of the time at has
\* been: of its day; of the week of its day, once a weekly one; of the month of
\* that, once a monthly one.
Covers(t, u, moment) ==
    /\ t <= u
    /\ \/ SameDay(t, u)
       \/ /\ u <= moment - DailyWindow
          /\ \E d \in Int : t <= d /\ d <= u /\ SameDay(t, d) /\ SameWeek(d, u)
       \/ /\ u <= moment - WeeklyWindow
          /\ \E d, m \in Int : /\ t <= d /\ d <= m /\ m <= u
                               /\ SameDay(t, d) /\ SameWeek(d, m) /\ SameMonth(m, u)

LEMMA CoversLater ==
  ASSUME NEW t \in Int, NEW u \in Int, NEW moment \in Int, NEW later \in Int,
         moment <= later, Covers(t, u, moment)
  PROVE  Covers(t, u, later)
BY RetentionAssumption DEF Covers

LEMMA CoversItself == ASSUME NEW t \in Int, NEW moment PROVE Covers(t, t, moment)
BY DEF Covers, SameDay

LEMMA CoversOn ==
  ASSUME NEW t \in Int, NEW u \in Int, NEW v \in Int, NEW moment \in Int,
         Covers(t, u, moment), Follows(u, v, moment)
  PROVE  Covers(t, v, moment)
<1>1. t <= u /\ u < v /\ t <= v
  BY DEF Covers, Follows
<1>2. CASE u > moment - DailyWindow /\ SameDay(u, v)
  <2>1. SameDay(t, u)
    BY <1>2, RetentionAssumption DEF Covers
  <2>2. QED
    BY <1>1, <1>2, <2>1 DEF Covers, SameDay
<1>3. CASE v <= moment - DailyWindow /\ u > moment - WeeklyWindow /\ SameWeek(u, v)
  <2>1. PICK d \in Int : t <= d /\ d <= u /\ SameDay(t, d) /\ SameWeek(d, u)
    BY <1>1, <1>3, RetentionAssumption DEF Covers, SameWeek
  <2>2. QED
    BY <1>1, <1>3, <2>1 DEF Covers, SameWeek
<1>4. CASE v <= moment - WeeklyWindow /\ SameMonth(u, v)
  <2>1. PICK d \in Int, m \in Int :
          /\ t <= d /\ d <= m /\ m <= u
          /\ SameDay(t, d) /\ SameWeek(d, m) /\ SameMonth(m, u)
    BY <1>1 DEF Covers, SameWeek, SameMonth
  <2>2. m <= v /\ SameMonth(m, v)
    BY <1>1, <1>4, <2>1 DEF SameMonth
  <2>3. QED
    BY <1>1, <1>4, <2>1, <2>2 DEF Covers
<1>5. QED
  BY <1>2, <1>3, <1>4 DEF Follows

LEMMA CoversClosely ==
  ASSUME NEW t \in Int, NEW u \in Int, NEW moment \in Int, Covers(t, u, moment)
  PROVE  t <= u /\ u <= t + (DayLength - 1) + (WeekLength - 1) + (MonthLength - 1)
<1>1. PICK d \in Int, m \in Int :
        /\ t <= d /\ d <= m /\ m <= u
        /\ SameDay(t, d) /\ SameWeek(d, m) /\ SameMonth(m, u)
  BY DEF Covers, SameDay, SameWeek, SameMonth
<1>2. d <= t + (DayLength - 1)
  BY <1>1, PeriodIsShort, RetentionAssumption DEF SameDay
<1>3. m <= d + (WeekLength - 1)
  BY <1>1, PeriodIsShort, RetentionAssumption DEF SameWeek
<1>4. u <= m + (MonthLength - 1)
  BY <1>1, PeriodIsShort, RetentionAssumption DEF SameMonth
<1>5. QED
  BY <1>1, <1>2, <1>3, <1>4, RetentionAssumption

\* The time up to which bundles have been purged, or are by the purge at work.
PurgeTime == IF Purges(worker[1]) THEN worker[1].time ELSE clock

\* Whatever was backed up is covered; and what the purge deletes is followed by
\* something that it keeps.
Gapless ==
    plan.workers = 1 =>
       /\ \A e \in BAK!AllEndpoints : \A t \in ever[e] :
             t > clock - MonthlyWindow => \E u \in Stored(e) : Covers(t, u, PurgeTime)
       /\ worker[1].at = "delete" =>
             \A e \in BAK!AllEndpoints : e = Endpoints[worker[1].ep] =>
                \A t \in worker[1].todo : t > worker[1].time - MonthlyWindow =>
                   \E u \in Stored(e) \ worker[1].todo : Follows(t, u, worker[1].time)

LEMMA TurnKeepsCover ==
  ASSUME Bundled, Clocked, Gapless, plan.workers = 1, NEW q, WorkerTurn(1, q)
  PROVE  Gapless'
<1>1. /\ 1 \in BackupWorkers /\ DOMAIN worker = BackupWorkers
      /\ worker' = [worker EXCEPT ![1] = q] /\ worker'[1] = q
      /\ clock' = clock /\ plan' = plan
  BY DEF Bundled, WorkerTurn
<1>2. PICK p : p = worker[1] /\ p.time \in 0 .. clock /\ clock \in Nat
  BY <1>1 DEF Clocked
<1>3. \/ Builds(p, q) \/ Uploads(p, q) \/ BeginsPurge(p, q)
      \/ Passes(p, q) \/ Dooms(p, q) \/ Deletes(p, q)
  BY <1>2 DEF WorkerTurn
<1>4. \A e \in BAK!AllEndpoints : Stored(e) \subseteq ever[e] /\ ever[e] \subseteq 0 .. clock
  BY DEF Clocked
<1>5. PurgeTime \in Nat /\ PurgeTime' \in Nat /\ PurgeTime <= PurgeTime'
  BY <1>1, <1>2, <1>3 DEF PurgeTime, Purges, Builds, Uploads, BeginsPurge, Passes, GoesOn, Dooms, Deletes
<1>6. ASSUME NEW e \in BAK!AllEndpoints, NEW t \in ever'[e], t > clock - MonthlyWindow
      PROVE  \E u \in Stored(e)' : Covers(t, u, PurgeTime')
  <2>1. ASSUME t \in ever[e]
        PROVE  \E u \in Stored(e)' : u \in Int /\ t \in Int /\ Covers(t, u, PurgeTime)
    <3>1. PICK u \in Stored(e) : u \in Int /\ t \in Int /\ Covers(t, u, PurgeTime)
      BY <1>4, <1>6, <2>1 DEF Gapless
    <3>2. CASE u \in Stored(e)'
      BY <3>1, <3>2
    <3>3. CASE u \notin Stored(e)'
      <4>1. /\ p.at = "delete" /\ e = Endpoints[p.ep] /\ u \in p.todo
            /\ Stored(e) \ p.todo \subseteq Stored(e)'
        BY <1>3, <3>1, <3>3 DEF Stored, Builds, Uploads, BeginsPurge, Passes, Dooms, Deletes
      <4>2. PurgeTime = p.time /\ u > p.time - MonthlyWindow
        BY <1>2, <1>6, <3>1, <4>1, RetentionAssumption DEF PurgeTime, Purges, Covers
      <4>3. PICK v \in Stored(e) \ p.todo : Follows(u, v, p.time)
        BY <1>2, <4>1, <4>2 DEF Gapless
      <4>4. v \in Int /\ p.time \in Int
        BY <1>2, <1>4, <4>3
      <4>5. QED
        BY <3>1, <4>1, <4>2, <4>3, <4>4, CoversOn
    <3>4. QED
      BY <3>2, <3>3
  <2>2. CASE t \in ever[e]
    BY <1>5, <2>1, <2>2, CoversLater
  <2>3. CASE t \notin ever[e]
    <3>1. t = p.time /\ t \in Stored(e)'
      BY <1>3, <1>6, <2>3 DEF Builds, Uploads, BeginsPurge, Passes, Dooms, Deletes
    <3>2. QED
      BY <1>2, <3>1, CoversItself
  <2>4. QED
    BY <2>2, <2>3
<1>7. ASSUME q.at = "delete", NEW e \in BAK!AllEndpoints, e = Endpoints[q.ep],
             NEW t \in q.todo, t > q.time - MonthlyWindow
      PROVE  \E u \in Stored(e)' \ q.todo : Follows(t, u, q.time)
  <2>1. CASE Dooms(p, q)
    <3>1. PICK S, moment : /\ S = Stored(e) /\ S \in SUBSET (0 .. clock)
                       /\ moment = p.time /\ moment \in Nat /\ moment = q.time
                       /\ q.todo = S \ BAK!Kept(S, moment) /\ S = Stored(e)'
      BY <1>2, <1>4, <1>7, <2>1 DEF Dooms, Stored
    <3>2. PICK u \in S \cap BAK!Kept(S, moment) : Follows(t, u, moment)
      BY <1>2, <1>7, <3>1, DoomedIsFollowed
    <3>3. QED
      BY <3>1, <3>2
  <2>2. CASE Deletes(p, q)
    <3>1. PICK d \in p.todo :
            /\ q.time = p.time /\ q.ep = p.ep /\ q.todo = p.todo \ {d} /\ p.at = "delete"
            /\ Stored(e) \ p.todo \subseteq Stored(e)' \ p.todo
      BY <1>7, <2>2 DEF Deletes, GoesOn
    <3>2. PICK u \in Stored(e) \ p.todo : Follows(t, u, p.time)
      BY <1>2, <1>7, <3>1 DEF Gapless
    <3>3. QED
      BY <3>1, <3>2
  <2>3. QED
    BY <1>3, <1>7, <2>1, <2>2 DEF Builds, Uploads, BeginsPurge, Passes, GoesOn, Purges
<1>8. QED
  BY <1>1, <1>6, <1>7 DEF Gapless

LEMMA CoverNext ==
  ASSUME Bundled, Clocked, Gapless, [BAK!Next]_(BAK!vars)
  PROVE  Gapless'
<1> SUFFICES ASSUME plan'.workers = 1 PROVE Gapless'
  BY DEF Gapless
<1>1. plan' = plan /\ plan.workers = 1 /\ 1 \in BackupWorkers
  BY RetentionMoves DEF Resting, Crashing, WorkerTurn, Bundled
<1>2. ASSUME UNCHANGED <<bundles, ever>>, PurgeTime' >= PurgeTime, clock' >= clock,
             clock' \in Nat, PurgeTime' \in Nat, PurgeTime \in Nat,
             worker'[1].at = "delete" => worker'[1] = worker[1]
      PROVE  Gapless'
  <2>1. ASSUME NEW e \in BAK!AllEndpoints, NEW t \in ever[e], t > clock' - MonthlyWindow
        PROVE  \E u \in Stored(e) : Covers(t, u, PurgeTime')
    <3>1. t \in Int /\ t > clock - MonthlyWindow /\ Stored(e) \subseteq Int
      BY <1>2, <2>1, RetentionAssumption DEF Clocked
    <3>2. PICK u \in Stored(e) : Covers(t, u, PurgeTime)
      BY <1>1, <3>1 DEF Gapless
    <3>3. QED
      BY <1>2, <3>1, <3>2, CoversLater
  <2>2. QED
    BY <1>1, <1>2, <2>1 DEF Gapless, Stored
<1>3. CASE Resting
  BY <1>1, <1>2, <1>3 DEF Resting, PurgeTime, Purges, Clocked
<1>4. CASE Crashing
  BY <1>1, <1>2, <1>4 DEF Crashing, PurgeTime, Purges, Clocked, BAK!Idle
<1>5. ASSUME NEW w \in 1 .. plan.workers, NEW q, WorkerTurn(w, q) PROVE Gapless'
  BY <1>1, <1>5, TurnKeepsCover
<1>6. QED
  BY <1>3, <1>4, <1>5, RetentionMoves

RetentionInv == Clocked /\ LatestSafe /\ Gapless

LEMMA RetentionInit == BAK!Init => RetentionInv
<1> SUFFICES ASSUME BAK!Init PROVE RetentionInv
  OBVIOUS
<1>1. /\ clock = 0 /\ ever = [e \in BAK!AllEndpoints |-> {}]
      /\ bundles = [e \in BAK!AllEndpoints |-> BAK!Empty] /\ plan \in Keepings
      /\ worker = [w \in BackupWorkers |-> BAK!Idle]
  BY DEF BAK!Init
<1>2. /\ \A e \in BAK!AllEndpoints : Stored(e) = {} /\ ever[e] = {}
      /\ \A w \in BackupWorkers : worker[w].at = "idle" /\ worker[w].time = 0 /\ worker[w].ep = 1
  BY <1>1 DEF Stored, BAK!Empty, BAK!Idle
<1>3. /\ plan.endpoints \in Nat \ {0} /\ 1 .. plan.endpoints \subseteq DOMAIN Endpoints
      /\ plan.workers = 1 => 1 \in BackupWorkers
  BY <1>1, KeepingsAssumption
<1>4. \A i \in 1 .. plan.endpoints : Endpoints[i] \in BAK!AllEndpoints
  BY <1>3 DEF BAK!AllEndpoints
<1>5. Clocked
  BY <1>1, <1>2, <1>3, <1>4 DEF Clocked
<1>6. LatestSafe
  BY <1>2 DEF LatestSafe
<1>7. Gapless
  BY <1>2, <1>3 DEF Gapless
<1>8. QED
  BY <1>5, <1>6, <1>7 DEF RetentionInv

LEMMA RetentionNext ==
  ASSUME Bundled, RetentionInv, [BAK!Next]_(BAK!vars)
  PROVE  RetentionInv'
BY ClockedNext, LatestNext, CoverNext DEF RetentionInv

LEMMA RetentionFollows ==
  ASSUME Bundled, RetentionInv
  PROVE  BAK!LatestKept /\ BAK!CoverageKept
<1>1. BAK!LatestKept
  BY DEF RetentionInv, LatestSafe, BAK!LatestKept, Stored
<1>2. ASSUME plan.workers = 1, NEW e \in BAK!AllEndpoints, NEW t \in ever[e],
             t > clock - MonthlyWindow
      PROVE  \E u \in Stored(e) :
                t <= u /\ u <= t + (DayLength - 1) + (WeekLength - 1) + (MonthLength - 1)
  <2>1. PICK u \in Stored(e) : Covers(t, u, PurgeTime)
    BY <1>2 DEF RetentionInv, Gapless
  <2>2. t \in Int /\ u \in Int
    BY <2>1 DEF RetentionInv, Clocked
  <2>3. PurgeTime \in Int
    BY <1>2 DEF RetentionInv, Clocked, Bundled, PurgeTime
  <2>4. QED
    BY <2>1, <2>2, <2>3, CoversClosely
<1>3. QED
  BY <1>1, <1>2 DEF BAK!CoverageKept, Stored

LEMMA BackupsMove ==
  ASSUME [Next]_vars, part = "backups"
  PROVE  [BAK!Next]_(BAK!vars)
<1>1. CASE UNCHANGED vars
  BY <1>1 DEF vars, shared, backupsVars, BAK!vars
<1>2. CASE Next
  BY <1>2 DEF Next, BackupsStep, SessionsStep, TasksStep, RecipesStep, IndexStep
<1>3. QED
  BY <1>1, <1>2

LEMMA BackupsStand == Spec => [](part = "backups" => BackupInv /\ RetentionInv)
<1>1. Init => (part = "backups" => BackupInv /\ RetentionInv)
  BY BackupInit, RetentionInit DEF Init
<1>2. (part = "backups" => BackupInv /\ RetentionInv) /\ [Next]_vars
        => (part = "backups" => BackupInv /\ RetentionInv)'
  BY PartStays, BackupsMove, BackupNext, RetentionNext DEF BackupInv
<1>3. QED
  BY <1>1, <1>2, PTL DEF Spec

(* Whatever is lost, fails or is cut off while a bundle is built or stored: a  *)
(* bundle that an endpoint stores holds every file of its database             *)
(* (bundle.go:77).                                                             *)
THEOREM BundlesAreComplete == Spec => []BundleComplete
<1>1. (part = "backups" => BackupInv /\ RetentionInv) => BundleComplete
  BY DEF BackupInv, Bundled, BundleComplete
<1>2. QED
  BY <1>1, BackupsStand, PTL

(* A restore that reports success has put every live file on every endpoint of *)
(* its configuration, and its database says so, also beside a running server   *)
(* and after failed attempts (bundle.go:298).                                  *)
THEOREM RestoresAreReadable == Spec => RestoredIsReadable
<1>1. (part = "backups" => BackupInv /\ RetentionInv) /\ [Next]_vars
        => [part = "backups" => BAK!Restored]_vars
  BY BackupsMove, RestoreEndsWhole DEF BackupInv
<1>2. QED
  BY <1>1, BackupsStand, PTL DEF Spec, RestoredIsReadable

(* No purge, however late its deletions come after its list and its time, and  *)
(* however many work at once, deletes the newest bundle an endpoint ever       *)
(* stored, within the longest window (backup.go:112).  Purges that do not      *)
(* overlap, failing or cut off as often as it may be, leave for everything     *)
(* backed up within that window a bundle at most a day, a week and a month     *)
(* younger (retention.go:34).                                                  *)
THEOREM RetentionIsSound == Spec => []RetentionHolds
<1>1. (part = "backups" => BackupInv /\ RetentionInv) => RetentionHolds
  BY RetentionFollows DEF BackupInv, RetentionHolds
<1>2. QED
  BY <1>1, BackupsStand, PTL
--------------------------------------------------------------------------------
(* Numbers: the least of some.                                                 *)

LEMMA HasLeast ==
  ASSUME NEW S \in SUBSET Nat, S # {}
  PROVE  \E t \in S : \A u \in S : t <= u
<1>1. PICK R : R = {p \in Nat \X Nat : p[1] < p[2]} /\ IsWellFoundedOn(R, Nat)
  BY NatLessThanWellFounded DEF OpToRel
<1>2. S \subseteq Nat /\ S # {}
  OBVIOUS
<1>3. PICK t \in S : \A u \in S : <<u, t>> \notin R
  BY <1>1, <1>2, WFMin
<1>4. ASSUME NEW u \in S PROVE t <= u
  <2>1. ~ (u < t)
    BY <1>1, <1>2, <1>3
  <2>2. QED
    BY <1>2, <2>1
<1>5. QED
  BY <1>4
--------------------------------------------------------------------------------
(* The parts of Tables: what stands of a behaviour of Services stands of one   *)
(* of the server, and a behaviour of the server stays in its part, too.        *)

LEMMA ServerIsServices == ServerSpec => Spec
<1>1. ServerInit => Init
  BY DEF ServerInit
<1>2. [ServerNext]_<<vars, tablesVars>> => [Next]_vars
  BY DEF ServerNext, vars, tablesVars
<1>3. QED
  BY <1>1, <1>2, PTL DEF ServerSpec, Spec

LEMMA ServerStaysInPart == [ServerNext]_<<vars, tablesVars>> => part' = part
<1>1. CASE Next \/ UNCHANGED vars
  BY <1>1, PartStays
<1>2. CASE TablesNext /\ UNCHANGED vars
  BY <1>2 DEF vars
<1>3. QED
  BY <1>1, <1>2 DEF ServerNext

--------------------------------------------------------------------------------
(* The database: starts and what the server writes                             *)

\* The place of a statement that changes data in the list of a start.
AtDedupe == 8
AtCopy == 15
AtDrop == 16
AtNormalize == 33
AtBackfill == 35
FirstTrigger == 36
LastTrigger == 43

LEMMA Places ==
  /\ DOMAIN MIG!Script = 1 .. LastTrigger /\ MIG!Ready = LastTrigger + 1
  /\ \A i \in 1 .. LastTrigger :
        /\ MIG!Script[i] = "DEDUPE" => i = AtDedupe
        /\ MIG!Script[i] = "COPY_BODY" => i = AtCopy
        /\ MIG!Script[i] = "DROP_BODY" => i = AtDrop
        /\ MIG!Script[i] = "NORMALIZE" => i = AtNormalize
        /\ MIG!Script[i] = "BACKFILL" => i = AtBackfill
        /\ MIG!Script[i] = "VECTORS" => i = 14
        /\ MIG!Script[i] = "DROP_UPDATED_AT" => i = 17
        /\ MIG!Script[i] \notin {"body", "updated_at"}
  /\ MIG!Script[AtDedupe] = "DEDUPE" /\ MIG!Script[AtCopy] = "COPY_BODY"
  /\ MIG!Script[AtDrop] = "DROP_BODY" /\ MIG!Script[AtNormalize] = "NORMALIZE"
  /\ MIG!Script[AtBackfill] = "BACKFILL"
BY DEF AtDedupe, AtCopy, AtDrop, AtNormalize, AtBackfill, LastTrigger,
       MIG!Ready, MIG!Script, MIG!AuthScript, MIG!JobScript, MIG!NotesScript, MIG!MediaScript, MIG!UploadScript,
       MIG!OCRScript, MIG!STTScript, MIG!TagsScript, MIG!FTSScript, MIG!Triggers

\* The last eight statements create the triggers.
LEMMA EightTriggers ==
  ASSUME NEW s
  PROVE  MIG!HasTriggers(s) <=> {"notes_ai", "notes_ad", "notes_au", "tags_refs_ai", "tags_refs_ad",
                                 "auto_tags_refs_ai", "auto_tags_refs_ad", "tags_au"} \subseteq s
<1>1. /\ DOMAIN MIG!Triggers = 1 .. 8
      /\ MIG!Triggers[1] = "notes_ai" /\ MIG!Triggers[2] = "notes_ad" /\ MIG!Triggers[3] = "notes_au"
      /\ MIG!Triggers[4] = "tags_refs_ai" /\ MIG!Triggers[5] = "tags_refs_ad"
      /\ MIG!Triggers[6] = "auto_tags_refs_ai" /\ MIG!Triggers[7] = "auto_tags_refs_ad"
      /\ MIG!Triggers[8] = "tags_au"
  BY DEF MIG!Triggers
<1>2. ASSUME MIG!HasTriggers(s)
      PROVE  {"notes_ai", "notes_ad", "notes_au", "tags_refs_ai", "tags_refs_ad",
              "auto_tags_refs_ai", "auto_tags_refs_ad", "tags_au"} \subseteq s
  <2>1. \A i \in 1 .. 8 : MIG!Triggers[i] \in s
    BY <1>1, <1>2 DEF MIG!HasTriggers
  <2>2. QED
    BY <1>1, <2>1
<1>3. ASSUME {"notes_ai", "notes_ad", "notes_au", "tags_refs_ai", "tags_refs_ad",
              "auto_tags_refs_ai", "auto_tags_refs_ad", "tags_au"} \subseteq s
      PROVE  MIG!HasTriggers(s)
  <2>1. \A i \in 1 .. 8 : MIG!Triggers[i] \in s
    BY <1>1, <1>3
  <2>2. QED
    BY <1>1, <2>1 DEF MIG!HasTriggers
<1>4. QED
  BY <1>2, <1>3

LEMMA TriggersAreLast ==
  (\A i \in FirstTrigger .. LastTrigger : MIG!Script[i] \in schema) <=> MIG!HasTriggers(schema)
<1>1. /\ MIG!Script[36] = "notes_ai" /\ MIG!Script[37] = "notes_ad" /\ MIG!Script[38] = "notes_au"
      /\ MIG!Script[39] = "tags_refs_ai" /\ MIG!Script[40] = "tags_refs_ad"
      /\ MIG!Script[41] = "auto_tags_refs_ai" /\ MIG!Script[42] = "auto_tags_refs_ad"
      /\ MIG!Script[43] = "tags_au"
  BY DEF MIG!Script, MIG!AuthScript, MIG!JobScript, MIG!NotesScript, MIG!MediaScript, MIG!UploadScript,
         MIG!OCRScript, MIG!STTScript, MIG!TagsScript, MIG!FTSScript, MIG!Triggers
<1>2. (\A i \in 36 .. 43 : MIG!Script[i] \in schema) <=>
         /\ MIG!Script[36] \in schema /\ MIG!Script[37] \in schema /\ MIG!Script[38] \in schema
         /\ MIG!Script[39] \in schema /\ MIG!Script[40] \in schema /\ MIG!Script[41] \in schema
         /\ MIG!Script[42] \in schema /\ MIG!Script[43] \in schema
  OBVIOUS
<1>3. QED
  BY <1>1, <1>2, EightTriggers DEF FirstTrigger, LastTrigger

\* A start is at a statement or past all of them.
Keys ==
    /\ DOMAIN heading \subseteq NoteIds /\ DOMAIN heading \subseteq DOMAIN wrote
    /\ \E b \in Nat : DOMAIN updates \subseteq 1 .. b
    /\ DOMAIN tags \subseteq 1 .. MaxTags /\ \A t \in DOMAIN tags : tags[t] \in TagForms
    /\ DOMAIN refs = MIG!RefTables
    /\ \A table \in MIG!RefTables : refs[table] \subseteq (DOMAIN heading) \X (DOMAIN tags)
    /\ at \in 0 .. LastTrigger + 1

History(n) == {i \in DOMAIN updates : updates[i].note = n}

\* Until the column goes its bodies are the saved ones, and then all are in the
\* history.
Texts ==
    /\ \A n \in DOMAIN heading : MIG!LatestBody(n) = wrote[n]
    /\ "body" \in schema => \A n \in DOMAIN heading : body[n] = wrote[n]
    /\ at > AtCopy /\ "body" \in schema => \A n \in DOMAIN heading : body[n] # "" => History(n) # {}
    /\ at > AtDrop => "body" \notin schema

\* No two tags have the same normal name.
Tidy ==
    \A t \in DOMAIN tags :
       /\ TagNormal[tags[t]] = tags[t] /\ tags[t] # ""
       /\ \A u \in DOMAIN tags : tags[u] = tags[t] => u = t

\* Every row of the index is right; the rows come when the names are normal,
\* or the triggers exist already.
Indexed ==
    /\ DOMAIN fts \subseteq DOMAIN heading
    /\ \A n \in DOMAIN fts : fts[n] = [title |-> heading[n], tags |-> MIG!TagNames(tags, refs, n)]
    /\ DOMAIN fts # {} => MIG!HasTriggers(schema) \/ Tidy
    /\ at > AtNormalize => Tidy
    /\ at > AtBackfill => DOMAIN fts = DOMAIN heading
    /\ \A i \in FirstTrigger .. LastTrigger : at > i => MIG!Script[i] \in schema

\* Rows of jobs have keys, and after the statement no two active ones a payload.
Deduped ==
    /\ \A r, s \in runs : r.id \in Nat /\ (r.id = s.id => r = s)
    /\ at > AtDedupe => \A r, s \in runs : r.active /\ s.active /\ r # s =>
                           r.payload # s.payload \/ r.payload = NoPayload

DatabaseInv == Keys /\ Texts /\ Indexed /\ Deduped

LEMMA MaxTagsIsNat == MaxTags \in Nat /\ \E b \in Nat : NoteIds \subseteq 1 .. b
BY DatabaseAssumption

LEMMA LastIdIs ==
  ASSUME NEW b \in Nat, NEW S \in SUBSET (1 .. b)
  PROVE  /\ MIG!LastId(S) \in S \cup {0} /\ MIG!LastId(S) \in Nat
         /\ \A i \in S : i <= MIG!LastId(S)
         /\ S # {} => MIG!LastId(S) \in S
<1>1. S \cup {0} \in SUBSET (0 .. b) /\ S \cup {0} # {}
  OBVIOUS
<1>2. PICK m \in S \cup {0} : \A i \in S \cup {0} : i <= m
  BY <1>1, HasNewest
<1>3. \E k \in S \cup {0} : \A i \in S : i <= k
  BY <1>2
<1>4. MIG!LastId(S) \in S \cup {0} /\ \A i \in S : i <= MIG!LastId(S)
  BY <1>3 DEF MIG!LastId
<1>5. \A i \in S : i \in Nat /\ i > 0
  OBVIOUS
<1>6. \A k \in S \cup {0} : k \in Nat
  BY <1>5
<1>7. MIG!LastId(S) \in Nat
  BY <1>4, <1>6
<1>8. ASSUME S # {} PROVE MIG!LastId(S) \in S
  <2>1. PICK i \in S : i > 0 /\ i <= MIG!LastId(S)
    BY <1>4, <1>5, <1>8
  <2>2. MIG!LastId(S) # 0
    BY <2>1, <1>5
  <2>3. QED
    BY <1>4, <2>2
<1>9. QED
  BY <1>4, <1>7, <1>8

\* The newest of some rows.
LEMMA LastIdIsOnly ==
  ASSUME NEW b \in Nat, NEW S \in SUBSET (1 .. b), NEW i \in S, \A j \in S : j <= i
  PROVE  MIG!LastId(S) = i
<1>1. MIG!LastId(S) \in S /\ i <= MIG!LastId(S) /\ MIG!LastId(S) \in Nat
  BY LastIdIs
<1>2. MIG!LastId(S) <= i /\ i \in Nat
  BY <1>1
<1>3. QED
  BY <1>1, <1>2

LEMMA DatabaseInit == MIG!Init => DatabaseInv
<1> SUFFICES ASSUME MIG!Init PROVE DatabaseInv
  OBVIOUS
<1>1. PICK d \in Databases :
        /\ schema = d.schema /\ heading = d.title /\ body = d.body /\ updates = d.updates
        /\ tags = d.tags /\ refs = d.refs /\ fts = d.fts /\ runs = d.runs /\ wrote = d.saved
  BY DEF MIG!Init
<1>2. MIG!IsWhole(d) /\ at = 0
  BY DatabaseAssumption, Zenon DEF MIG!Init
<1>3. Keys
  <2>1. DOMAIN updates \subseteq 1 .. MIG!LastId(DOMAIN updates) /\ MIG!LastId(DOMAIN updates) \in Nat
    BY <1>1, <1>2 DEF MIG!IsWhole
  <2>2. \E b \in Nat : DOMAIN updates \subseteq 1 .. b
    BY <2>1
  <2>3. DOMAIN heading \subseteq NoteIds /\ DOMAIN heading \subseteq DOMAIN wrote
    BY <1>1, <1>2, Zenon DEF MIG!IsWhole
  <2>4. DOMAIN tags \subseteq 1 .. MaxTags /\ \A t \in DOMAIN tags : tags[t] \in TagForms
    BY <1>1, <1>2 DEF MIG!IsWhole
  <2>5. DOMAIN refs = MIG!RefTables
        /\ \A table \in MIG!RefTables : refs[table] \subseteq (DOMAIN heading) \X (DOMAIN tags)
    BY <1>1, <1>2 DEF MIG!IsWhole
  <2>6. at \in 0 .. LastTrigger + 1
    BY <1>2 DEF LastTrigger
  <2>7. QED
    BY <2>2, <2>3, <2>4, <2>5, <2>6 DEF Keys
<1>4. Texts
  <2>1. ASSUME NEW n \in DOMAIN heading PROVE MIG!LatestBody(n) = wrote[n]
    BY <1>1, <1>2, Zenon DEF MIG!IsWhole, MIG!LatestBody
  <2>2. "body" \in schema => \A n \in DOMAIN heading : body[n] = wrote[n]
    BY <1>1, <1>2 DEF MIG!IsWhole
  <2>3. QED
    BY <1>2, <2>1, <2>2 DEF Texts, AtCopy, AtDrop
<1>5. Indexed
  <2>1. DOMAIN fts \subseteq DOMAIN heading
    BY <1>1, <1>2, Zenon DEF MIG!IsWhole
  <2>2. \A n \in DOMAIN fts : fts[n] = [title |-> heading[n], tags |-> MIG!TagNames(tags, refs, n)]
    BY <1>1, <1>2, Zenon DEF MIG!IsWhole
  <2>3. DOMAIN fts # {} => MIG!HasTriggers(schema)
    BY <1>1, <1>2 DEF MIG!IsWhole
  <2>4. ~ (at > AtNormalize) /\ ~ (at > AtBackfill) /\ \A i \in FirstTrigger .. LastTrigger : ~ (at > i)
    BY <1>2 DEF AtNormalize, AtBackfill, FirstTrigger, LastTrigger
  <2>5. QED
    BY <2>1, <2>2, <2>3, <2>4 DEF Indexed
<1>6. Deduped
  <2>1. \A r, s \in runs : r.id \in Nat /\ (r.id = s.id => r = s)
    BY <1>1, <1>2 DEF MIG!IsWhole
  <2>2. ~ (at > AtDedupe)
    BY <1>2 DEF AtDedupe
  <2>3. QED
    BY <2>1, <2>2 DEF Deduped
<1>7. QED
  BY <1>3, <1>4, <1>5, <1>6 DEF DatabaseInv

\* What a statement does to the place in the list.
LEMMA AtStatement ==
  ASSUME NEW s, MIG!Executes(s), Keys
  PROVE  at \in 1 .. LastTrigger /\ MIG!Script[at] = s
BY Places DEF MIG!Executes

LEMMA TextsStay ==
  ASSUME Texts, heading' = heading, body' = body, updates' = updates, wrote' = wrote,
         "body" \in schema' <=> "body" \in schema,
         at' > AtCopy => at > AtCopy, at' > AtDrop => at > AtDrop
  PROVE  Texts'
<1>1. ASSUME NEW n \in DOMAIN heading PROVE MIG!LatestBody(n)' = wrote'[n]
  BY <1>1 DEF Texts, MIG!LatestBody
<1>2. \A n : History(n)' = History(n)
  BY DEF History
<1>3. QED
  BY <1>1, <1>2 DEF Texts

\* A step that is not a statement on bodies.
LEMMA TextsElsewhere ==
  ASSUME Texts, Keys, heading' = heading, body' = body, updates' = updates, wrote' = wrote,
         schema' = schema, at' = at + 1, at # AtCopy, at # AtDrop
  PROVE  Texts'
<1>1. (at' > AtCopy => at > AtCopy) /\ (at' > AtDrop => at > AtDrop)
  BY DEF Keys, AtCopy, AtDrop, LastTrigger
<1>2. QED
  BY <1>1, TextsStay

LEMMA TextsStart ==
  ASSUME Texts, Keys, MIG!Start \/ MIG!Fail \/ MIG!Crash
  PROVE  Texts'
<1>1. heading' = heading /\ body' = body /\ updates' = updates /\ wrote' = wrote /\ schema' = schema
  BY DEF MIG!Start, MIG!Fail, MIG!Crash, MIG!data, MIG!texts
<1>2. at' \in {0, 1}
  BY DEF MIG!Start, MIG!Fail, MIG!Crash
<1>3. (at' > AtCopy => at > AtCopy) /\ (at' > AtDrop => at > AtDrop)
  BY <1>2 DEF AtCopy, AtDrop
<1>4. QED
  BY <1>1, <1>3, TextsStay

LEMMA TextsMigrate ==
  ASSUME Texts, Keys, MIG!Migrate
  PROVE  Texts'
<1>1. CASE MIG!Ensure
  <2>1. at \in 1 .. LastTrigger /\ MIG!Script[at] \notin MIG!Changes /\ at' = at + 1
    BY <1>1, Places DEF MIG!Ensure, MIG!Proceed
  <2>2. at # AtCopy /\ at # AtDrop
    BY <2>1, Places DEF MIG!Changes
  <2>3. (at' > AtCopy => at > AtCopy) /\ (at' > AtDrop => at > AtDrop)
    BY <2>1, <2>2 DEF AtCopy, AtDrop, LastTrigger
  <2>4. heading' = heading /\ body' = body /\ updates' = updates /\ wrote' = wrote
    BY <1>1 DEF MIG!Ensure, MIG!data, MIG!texts
  <2>5. "body" \in schema' <=> "body" \in schema
    <3>1. MIG!Script[at] # "body"
      BY <2>1, Places
    <3>2. \A x : "body" \notin MIG!ColumnsOf(x)
      BY DEF MIG!ColumnsOf
    <3>3. QED
      BY <1>1, <3>1, <3>2 DEF MIG!Ensure
  <2>6. QED
    BY <2>3, <2>4, <2>5, TextsStay
<1>2. CASE MIG!Dedupe \/ MIG!Normalize \/ MIG!Backfill
  <2>1. heading' = heading /\ body' = body /\ updates' = updates /\ wrote' = wrote /\ schema' = schema
        /\ at' = at + 1
    BY <1>2 DEF MIG!Dedupe, MIG!Normalize, MIG!Backfill, MIG!texts, MIG!Proceed
  <2>2. at # AtCopy /\ at # AtDrop
    BY <1>2, AtStatement, Places DEF MIG!Dedupe, MIG!Normalize, MIG!Backfill
  <2>3. QED
    BY <2>1, <2>2, TextsElsewhere
<1>3. CASE MIG!EnsureVec
  <2>1. heading' = heading /\ body' = body /\ updates' = updates /\ wrote' = wrote /\ schema' = schema
    BY <1>3 DEF MIG!EnsureVec, MIG!texts
  <2>2. at' \in {at, at + 1}
    BY <1>3 DEF MIG!EnsureVec, MIG!Proceed
  <2>3. at = 14
    BY <1>3, AtStatement, Places DEF MIG!EnsureVec
  <2>4. (at' > AtCopy => at > AtCopy) /\ (at' > AtDrop => at > AtDrop)
    BY <2>2, <2>3 DEF AtCopy, AtDrop
  <2>5. QED
    BY <2>1, <2>4, TextsStay
<1>4. CASE MIG!DropColumn("DROP_UPDATED_AT", "updated_at")
  <2>1. heading' = heading /\ body' = body /\ updates' = updates /\ wrote' = wrote
        /\ schema' = schema \ {"updated_at"} /\ at' = at + 1
    BY <1>4 DEF MIG!DropColumn, MIG!texts, MIG!data, MIG!Proceed
  <2>2. at # AtCopy /\ at # AtDrop /\ at \in 1 .. LastTrigger
    BY <1>4, AtStatement, Places DEF MIG!DropColumn
  <2>3. (at' > AtCopy => at > AtCopy) /\ (at' > AtDrop => at > AtDrop)
    BY <2>1, <2>2 DEF AtCopy, AtDrop, LastTrigger
  <2>4. QED
    BY <2>1, <2>3, TextsStay
<1>5. CASE MIG!DropColumn("DROP_BODY", "body")
  <2>1. heading' = heading /\ body' = body /\ updates' = updates /\ wrote' = wrote
        /\ "body" \notin schema'
    BY <1>5 DEF MIG!DropColumn, MIG!texts, MIG!data
  <2>2. at = AtDrop
    BY <1>5, AtStatement, Places DEF MIG!DropColumn
  <2>3. ASSUME NEW n \in DOMAIN heading PROVE MIG!LatestBody(n)' = wrote'[n]
    <3>1. MIG!LatestBody(n) = wrote[n]
      BY DEF Texts
    <3>2. CASE History(n) # {}
      BY <2>1, <3>1, <3>2 DEF MIG!LatestBody, History
    <3>3. CASE History(n) = {} /\ "body" \in schema
      <4>1. body[n] = "" /\ body[n] = wrote[n]
        <5>1. at > AtCopy
          BY <2>2 DEF AtCopy, AtDrop
        <5>2. \A m \in DOMAIN heading : body[m] # "" => History(m) # {}
          BY <3>3, <5>1 DEF Texts, History
        <5>3. body[n] = wrote[n]
          BY <3>3 DEF Texts
        <5>4. QED
          BY <3>3, <5>2, <5>3
      <4>2. MIG!LatestBody(n)' = ""
        BY <2>1, <3>3 DEF MIG!LatestBody, History
      <4>3. QED
        BY <2>1, <4>1, <4>2
    <3>4. CASE History(n) = {} /\ "body" \notin schema
      BY <2>1, <3>1, <3>4 DEF MIG!LatestBody, History
    <3>5. QED
      BY <3>2, <3>3, <3>4
  <2>4. QED
    BY <2>1, <2>3 DEF Texts
<1>6. CASE MIG!CopyBody
  <2>1. at = AtCopy /\ at' = at + 1
    BY <1>6, AtStatement, Places DEF MIG!CopyBody, MIG!Proceed
  <2>2. heading' = heading /\ body' = body /\ wrote' = wrote /\ schema' = schema
    BY <1>6 DEF MIG!CopyBody
  <2>3. CASE "body" \notin schema
    <3>1. updates' = updates
      BY <1>6, <2>3 DEF MIG!CopyBody
    <3>2. ASSUME NEW n \in DOMAIN heading PROVE MIG!LatestBody(n)' = wrote'[n]
      BY <2>2, <3>1 DEF Texts, MIG!LatestBody
    <3>3. QED
      BY <2>2, <2>3, <3>2 DEF Texts
  <2>4. CASE "body" \in schema
    <3>1. PICK b \in Nat : DOMAIN updates \subseteq 1 .. b
      BY DEF Keys
    <3>2. PICK l \in Nat : l = MIG!LastId(DOMAIN updates) /\ \A i \in DOMAIN updates : i \in Nat /\ 0 < i /\ i <= l
      <4>1. DOMAIN updates \in SUBSET (1 .. b)
        BY <3>1
      <4>2. MIG!LastId(DOMAIN updates) \in Nat /\ \A i \in DOMAIN updates : i <= MIG!LastId(DOMAIN updates)
        BY <4>1, LastIdIs
      <4>3. \A i \in DOMAIN updates : i \in Nat /\ 0 < i
        BY <3>1
      <4>4. QED
        BY <4>2, <4>3
    <3>3. PICK C \in SUBSET DOMAIN heading : C = {n \in DOMAIN heading : body[n] # ""}
      OBVIOUS
    <3>4. updates' = [i \in DOMAIN updates \cup {l + n : n \in C} |->
                        IF i \in DOMAIN updates THEN updates[i] ELSE [note |-> i - l, body |-> body[i - l]]]
      BY <1>6, <2>4, <3>2, <3>3 DEF MIG!CopyBody
    <3>5. C \subseteq Nat \ {0}
      <4>1. PICK c \in Nat : NoteIds \subseteq 1 .. c
        BY MaxTagsIsNat
      <4>2. QED
        <5>1. ASSUME NEW n \in C PROVE n \in Nat \ {0}
          <6>1. n \in NoteIds
            BY <3>3 DEF Keys
          <6>2. n \in 1 .. c
            BY <4>1, <6>1
          <6>3. QED
            BY <6>2
        <5>2. QED
          BY <5>1
    <3>6. ASSUME NEW n \in C
          PROVE /\ l + n \in Nat /\ l + n > l /\ l + n \in DOMAIN updates' /\ l + n \notin DOMAIN updates
                /\ updates'[l + n].note = n /\ updates'[l + n].body = body[n]
      <4>1. l + n \in Nat /\ l + n > l /\ l + n \notin DOMAIN updates /\ (l + n) - l = n
        BY <3>2, <3>5
      <4>2. QED
        BY <3>4, <4>1
    <3>7. ASSUME NEW n \in DOMAIN heading PROVE MIG!LatestBody(n)' = wrote'[n]
      <4>1. CASE n \in C
        <5>1. l + n \in History(n)'
          BY <3>6, <4>1 DEF History
        <5>2. ASSUME NEW i \in History(n)' PROVE i \in Nat /\ 0 < i /\ i <= l + n
          <6>1. CASE i \in DOMAIN updates
            BY <3>2, <3>6, <4>1, <6>1
          <6>2. CASE i \notin DOMAIN updates
            <7>1. PICK m \in C : i = l + m
              BY <3>4, <6>2 DEF History
            <7>2. m = n
              BY <3>6, <7>1 DEF History
            <7>3. QED
              BY <3>6, <7>1, <7>2
          <6>3. QED
            BY <6>1, <6>2
        <5>3. l + n \in Nat
          BY <3>6, <4>1
        <5>4. History(n)' \in SUBSET (1 .. (l + n))
          BY <5>2, <5>3
        <5>5. MIG!LastId(History(n)') = l + n
          BY <5>1, <5>2, <5>3, <5>4, LastIdIsOnly
        <5>6. MIG!LatestBody(n)' = updates'[l + n].body
          BY <5>1, <5>5 DEF MIG!LatestBody, History, MIG!LastId
        <5>7. QED
          BY <2>2, <2>4, <3>6, <4>1, <5>6 DEF Texts
      <4>2. CASE n \notin C
        <5>1. History(n)' \subseteq DOMAIN updates
          <6>1. ASSUME NEW i \in History(n)', i \notin DOMAIN updates PROVE FALSE
            <7>1. PICK m \in C : i = l + m
              BY <3>4, <6>1 DEF History
            <7>2. m = n
              BY <3>6, <6>1, <7>1 DEF History
            <7>3. QED
              BY <4>2, <7>2
          <6>2. QED
            BY <6>1
        <5>2. History(n)' = History(n)
          BY <3>4, <5>1 DEF History
        <5>3. CASE History(n) = {}
          BY <2>2, <5>2, <5>3 DEF Texts, MIG!LatestBody, History
        <5>4. CASE History(n) # {}
          <6>1. MIG!LastId(History(n)) \in History(n)
            <7>1. History(n) \in SUBSET (1 .. b)
              BY <3>1 DEF History
            <7>2. QED
              BY <5>4, <7>1, LastIdIs
          <6>2. MIG!LatestBody(n) = updates[MIG!LastId(History(n))].body
            BY <5>4 DEF MIG!LatestBody, History
          <6>3. MIG!LatestBody(n)' = updates'[MIG!LastId(History(n)')].body
            BY <5>2, <5>4 DEF MIG!LatestBody, History, MIG!LastId
          <6>4. updates'[MIG!LastId(History(n)')] = updates[MIG!LastId(History(n))]
            BY <3>4, <5>2, <6>1 DEF History
          <6>5. QED
            BY <2>2, <6>2, <6>3, <6>4 DEF Texts
        <5>5. QED
          BY <5>3, <5>4
      <4>3. QED
        BY <4>1, <4>2
    <3>8. ASSUME NEW n \in DOMAIN heading, body[n] # "" PROVE History(n)' # {}
      BY <3>3, <3>6, <3>8 DEF History
    <3>9. QED
      <4>1. ~ (at' > AtDrop)
        BY <2>1 DEF AtCopy, AtDrop
      <4>2. \A n \in DOMAIN heading' : body'[n] = wrote'[n]
        BY <2>2, <2>4 DEF Texts
      <4>3. \A n \in DOMAIN heading' : body'[n] # "" => History(n)' # {}
        BY <2>2, <3>8
      <4>4. \A n \in DOMAIN heading' : MIG!LatestBody(n)' = wrote'[n]
        BY <2>2, <3>7
      <4>5. QED
        BY <4>1, <4>2, <4>3, <4>4 DEF Texts
  <2>5. QED
    BY <2>3, <2>4
<1>7. QED
  BY <1>1, <1>2, <1>3, <1>4, <1>5, <1>6 DEF MIG!Migrate

--------------------------------------------------------------------------------
(* Tags: the canonical one of a name, and the references to it                 *)

Name(t) == TagNormal[tags[t]]

LEMMA Names ==
  /\ IsFiniteSet(TagForms)
  /\ \A x \in TagForms : TagNormal[x] \in TagForms \cup {""}
  /\ \A x \in TagForms : TagNormal[x] # "" => TagNormal[TagNormal[x]] = TagNormal[x]
BY DatabaseAssumption

\* Of the tags with one normal name the oldest.
LEMMA CanonicalIs ==
  ASSUME Keys, NEW t \in DOMAIN tags
  PROVE  /\ MIG!Canonical(t) \in DOMAIN tags /\ Name(MIG!Canonical(t)) = Name(t)
         /\ \A v \in DOMAIN tags : Name(v) = Name(t) => MIG!Canonical(t) <= v
<1>1. PICK S : S = {u \in DOMAIN tags : TagNormal[tags[u]] = TagNormal[tags[t]]}
  OBVIOUS
<1>2. S \in SUBSET Nat /\ S # {}
  <2>1. \A u \in DOMAIN tags : u \in Nat
    BY MaxTagsIsNat DEF Keys
  <2>2. QED
    BY <1>1, <2>1
<1>3. PICK u \in S : \A v \in S : u <= v
  BY <1>2, HasLeast
<1>4. \E k \in DOMAIN tags : /\ TagNormal[tags[k]] = TagNormal[tags[t]]
                             /\ \A v \in DOMAIN tags : TagNormal[tags[v]] = TagNormal[tags[t]] => k <= v
  BY <1>1, <1>3
<1>5. QED
  BY <1>4 DEF MIG!Canonical, Name

LEMMA CanonicalOfEqual ==
  ASSUME Keys, NEW t \in DOMAIN tags, NEW u \in DOMAIN tags, Name(t) = Name(u)
  PROVE  MIG!Canonical(t) = MIG!Canonical(u)
<1>1. /\ MIG!Canonical(t) \in DOMAIN tags /\ Name(MIG!Canonical(t)) = Name(t)
      /\ \A v \in DOMAIN tags : Name(v) = Name(t) => MIG!Canonical(t) <= v
  BY CanonicalIs
<1>2. /\ MIG!Canonical(u) \in DOMAIN tags /\ Name(MIG!Canonical(u)) = Name(u)
      /\ \A v \in DOMAIN tags : Name(v) = Name(u) => MIG!Canonical(u) <= v
  BY CanonicalIs
<1>3. MIG!Canonical(t) <= MIG!Canonical(u) /\ MIG!Canonical(u) <= MIG!Canonical(t)
  BY <1>1, <1>2
<1>4. MIG!Canonical(t) \in Nat /\ MIG!Canonical(u) \in Nat
  BY <1>1, <1>2, MaxTagsIsNat DEF Keys
<1>5. QED
  BY <1>3, <1>4

\* The tags that stay: not blank, and the oldest of their name.
Stay == {t \in DOMAIN tags : TagNormal[tags[t]] # "" /\ MIG!Canonical(t) = t}

LEMMA CanonicalStays ==
  ASSUME Keys, NEW t \in DOMAIN tags, Name(t) # ""
  PROVE  MIG!Canonical(t) \in Stay /\ Name(MIG!Canonical(t)) = Name(t)
<1>1. MIG!Canonical(t) \in DOMAIN tags /\ Name(MIG!Canonical(t)) = Name(t)
  BY CanonicalIs
<1>2. MIG!Canonical(MIG!Canonical(t)) = MIG!Canonical(t)
  BY <1>1, CanonicalOfEqual
<1>3. QED
  BY <1>1, <1>2 DEF Stay, Name

LEMMA NormalizedTags ==
  ASSUME Keys, MIG!Normalize
  PROVE  /\ tags' = [t \in Stay |-> TagNormal[tags[t]]]
         /\ refs' = [table \in MIG!RefTables |->
                       {<<p[1], MIG!Canonical(p[2])>> : p \in {q \in refs[table] : TagNormal[tags[q[2]]] # ""}}]
         /\ heading' = heading /\ wrote' = wrote /\ updates' = updates /\ body' = body /\ schema' = schema
         /\ runs' = runs /\ at = AtNormalize /\ at' = at + 1
<1>1. at = AtNormalize
  BY AtStatement, Places DEF MIG!Normalize
<1>2. QED
  BY <1>1, Zenon DEF MIG!Normalize, MIG!Reassign, MIG!Proceed, MIG!texts, Stay

LEMMA NormalizeTidies ==
  ASSUME Keys, MIG!Normalize
  PROVE  Tidy' /\ Keys'
<1>1. DOMAIN tags' = Stay /\ \A t \in Stay : tags'[t] = TagNormal[tags[t]]
  BY NormalizedTags
<1>2. \A t \in Stay : t \in DOMAIN tags /\ tags[t] \in TagForms /\ TagNormal[tags[t]] # "" /\ MIG!Canonical(t) = t
  BY DEF Stay, Keys
<1>3. ASSUME NEW t \in Stay
      PROVE  tags'[t] \in TagForms /\ TagNormal[tags'[t]] = tags'[t] /\ tags'[t] # ""
  BY <1>1, <1>2, Names
<1>4. ASSUME NEW t \in Stay, NEW u \in Stay, tags'[u] = tags'[t] PROVE u = t
  <2>1. Name(u) = Name(t)
    BY <1>1, <1>4 DEF Name
  <2>2. MIG!Canonical(u) = MIG!Canonical(t)
    BY <1>2, <2>1, CanonicalOfEqual
  <2>3. QED
    BY <1>2, <2>2
<1>5. Tidy'
  BY <1>1, <1>3, <1>4 DEF Tidy
<1>6. DOMAIN refs' = MIG!RefTables
  BY NormalizedTags
<1>7. ASSUME NEW table \in MIG!RefTables, NEW q \in refs'[table] PROVE q \in (DOMAIN heading) \X Stay
  <2>1. PICK p \in refs[table] : TagNormal[tags[p[2]]] # "" /\ q = <<p[1], MIG!Canonical(p[2])>>
    <3>1. refs'[table] = {<<p[1], MIG!Canonical(p[2])>> : p \in {r \in refs[table] : TagNormal[tags[r[2]]] # ""}}
      BY NormalizedTags
    <3>2. QED
      BY <1>7, <3>1
  <2>2. p[1] \in DOMAIN heading /\ p[2] \in DOMAIN tags
    BY <2>1 DEF Keys
  <2>3. MIG!Canonical(p[2]) \in Stay
    BY <2>1, <2>2, CanonicalStays DEF Name
  <2>4. QED
    BY <2>1, <2>2, <2>3
<1>8. Keys'
  <2>1. DOMAIN heading' \subseteq NoteIds /\ DOMAIN heading' \subseteq DOMAIN wrote'
    BY NormalizedTags DEF Keys
  <2>2. \E b \in Nat : DOMAIN updates' \subseteq 1 .. b
    BY NormalizedTags DEF Keys
  <2>3. DOMAIN tags' \subseteq 1 .. MaxTags /\ \A t \in DOMAIN tags' : tags'[t] \in TagForms
    BY <1>1, <1>2, <1>3 DEF Keys
  <2>4. \A table \in MIG!RefTables : refs'[table] \subseteq (DOMAIN heading') \X (DOMAIN tags')
    BY <1>1, <1>7, NormalizedTags
  <2>5. at' \in 0 .. LastTrigger + 1
    <3>1. at = AtNormalize /\ at' = at + 1
      BY NormalizedTags
    <3>2. QED
      BY <3>1 DEF AtNormalize, LastTrigger
  <2>6. QED
    BY <1>6, <2>1, <2>2, <2>3, <2>4, <2>5 DEF Keys
<1>9. QED
  BY <1>5, <1>8

\* A note whose tags are all kept as they are keeps its names.
Kept == {t \in Stay : TagNormal[tags[t]] = tags[t]}

LEMMA NamesStay ==
  ASSUME Keys, MIG!Normalize, NEW n,
         \A table \in MIG!RefTables : \A t \in DOMAIN tags : <<n, t>> \in refs[table] => t \in Kept
  PROVE  MIG!TagNames(tags', refs', n) = MIG!TagNames(tags, refs, n)
<1>1. \A t \in Kept : t \in DOMAIN tags' /\ t \in DOMAIN tags /\ tags'[t] = tags[t] /\ MIG!Canonical(t) = t
                      /\ TagNormal[tags[t]] # ""
  BY NormalizedTags DEF Kept, Stay
<1>2. ASSUME NEW table \in MIG!RefTables
      PROVE  refs'[table] = {<<p[1], MIG!Canonical(p[2])>> : p \in {r \in refs[table] : TagNormal[tags[r[2]]] # ""}}
  BY NormalizedTags
<1>3. ASSUME NEW table \in MIG!RefTables, NEW t, <<n, t>> \in refs[table]
      PROVE  t \in Kept /\ <<n, t>> \in refs'[table]
  <2>1. t \in Kept
    BY <1>3 DEF Keys
  <2>2. <<n, t>> \in {r \in refs[table] : TagNormal[tags[r[2]]] # ""}
    BY <1>1, <1>3, <2>1
  <2>3. <<n, t>> = << <<n, t>>[1], MIG!Canonical(<<n, t>>[2])>>
    BY <1>1, <2>1
  <2>4. QED
    BY <1>2, <2>1, <2>2, <2>3
<1>4. ASSUME NEW table \in MIG!RefTables, NEW t, <<n, t>> \in refs'[table]
      PROVE  t \in Kept /\ <<n, t>> \in refs[table]
  <2>1. PICK p \in refs[table] : <<n, t>> = <<p[1], MIG!Canonical(p[2])>>
    BY <1>2, <1>4
  <2>2. p = <<n, p[2]>> /\ p[2] \in DOMAIN tags
    BY <2>1 DEF Keys
  <2>3. p[2] \in Kept
    BY <2>1, <2>2
  <2>4. QED
    BY <1>1, <2>1, <2>2, <2>3
<1>5. {u \in DOMAIN tags' : \E table \in MIG!RefTables : <<n, u>> \in refs'[table]}
        = {u \in DOMAIN tags : \E table \in MIG!RefTables : <<n, u>> \in refs[table]}
  BY <1>1, <1>3, <1>4
<1>6. \A u \in {v \in DOMAIN tags : \E table \in MIG!RefTables : <<n, v>> \in refs[table]} : tags'[u] = tags[u]
  BY <1>1, <1>3
<1>7. QED
  BY <1>5, <1>6 DEF MIG!TagNames

LEMMA TidyIsKept ==
  ASSUME Keys, Tidy, NEW t \in DOMAIN tags
  PROVE  t \in Kept
<1>1. MIG!Canonical(t) \in DOMAIN tags /\ Name(MIG!Canonical(t)) = Name(t)
  BY CanonicalIs
<1>2. MIG!Canonical(t) = t
  BY <1>1 DEF Tidy, Name
<1>3. QED
  BY <1>2 DEF Tidy, Kept, Stay

LEMMA IndexedNormalize ==
  ASSUME Keys, Indexed, MIG!Normalize
  PROVE  Indexed'
<1>1. Tidy' /\ heading' = heading /\ schema' = schema /\ at' = AtNormalize + 1
  BY NormalizeTidies, NormalizedTags
<1>2. fts' = IF MIG!HasTriggers(schema)
             THEN MIG!Rebuild(fts, {n \in DOMAIN fts : \E table \in MIG!RefTables, t \in DOMAIN tags \ Kept :
                                                        <<n, t>> \in refs[table]})
             ELSE fts
  BY DEF MIG!Normalize, Kept, Stay
<1>3. DOMAIN fts' = DOMAIN fts
  BY <1>2 DEF MIG!Rebuild
<1>4. ASSUME NEW n \in DOMAIN fts
      PROVE  fts'[n] = [title |-> heading[n], tags |-> MIG!TagNames(tags', refs', n)]
  <2>1. fts[n] = [title |-> heading[n], tags |-> MIG!TagNames(tags, refs, n)]
    BY DEF Indexed
  <2>2. CASE \A table \in MIG!RefTables : \A t \in DOMAIN tags : <<n, t>> \in refs[table] => t \in Kept
    <3>1. fts'[n] = fts[n]
      BY <1>2, <2>2 DEF MIG!Rebuild
    <3>2. QED
      BY <2>1, <2>2, <3>1, NamesStay
  <2>3. CASE ~ (\A table \in MIG!RefTables : \A t \in DOMAIN tags : <<n, t>> \in refs[table] => t \in Kept)
    <3>1. ~Tidy
      BY <2>3, TidyIsKept
    <3>2. MIG!HasTriggers(schema)
      BY <3>1 DEF Indexed
    <3>3. fts'[n] = [fts[n] EXCEPT !.tags = MIG!TagNames(tags', refs', n)]
      BY <1>2, <2>3, <3>2 DEF MIG!Rebuild
    <3>4. QED
      BY <2>1, <3>3
  <2>4. QED
    BY <2>2, <2>3
<1>5. DOMAIN fts' \subseteq DOMAIN heading'
  BY <1>1, <1>3 DEF Indexed
<1>6. \A n \in DOMAIN fts' : fts'[n] = [title |-> heading'[n], tags |-> MIG!TagNames(tags', refs', n)]
  BY <1>1, <1>3, <1>4
<1>7. ~ (at' > AtBackfill) /\ \A i \in FirstTrigger .. LastTrigger : ~ (at' > i)
  BY <1>1 DEF AtNormalize, AtBackfill, FirstTrigger, LastTrigger
<1>8. QED
  BY <1>1, <1>5, <1>6, <1>7 DEF Indexed

\* A finite set of names can be numbered.
LEMMA CanBeNumbered ==
  ASSUME NEW S, IsFiniteSet(S)
  PROVE  /\ MIG!Cardinality(S) \in Nat
         /\ \E s \in [1 .. MIG!Cardinality(S) -> S] : \A i, j \in DOMAIN s : s[i] = s[j] => i = j
<1>1. Cardinality(S) \in Nat /\ ExistsBijection(1 .. Cardinality(S), S)
  BY FS_CardinalityType
<1>2. MIG!Cardinality(S) = Cardinality(S)
  BY DEF MIG!Cardinality, Cardinality
<1>3. PICK f : f \in Bijection(1 .. Cardinality(S), S)
  BY <1>1 DEF ExistsBijection
<1>4. f \in [1 .. Cardinality(S) -> S] /\ \A i, j \in DOMAIN f : f[i] = f[j] => i = j
  <2>1. f \in Injection(1 .. Cardinality(S), S)
    BY <1>3 DEF Bijection
  <2>2. QED
    BY <2>1 DEF Injection, IsInjective
<1>5. QED
  BY <1>1, <1>2, <1>4

\* Saving the tags of a note adds the tags that are missing and replaces the
\* references of the note, in one table.
LEMMA TagsSaved ==
  ASSUME Keys, Tidy, NEW table \in MIG!RefTables, NEW n, NEW names \in SUBSET TagForms,
         MIG!SaveTagRefs(table, n, names)
  PROVE  /\ DOMAIN tags' \subseteq 1 .. MaxTags /\ DOMAIN tags \subseteq DOMAIN tags'
         /\ \A t \in DOMAIN tags : tags'[t] = tags[t]
         /\ \A t \in DOMAIN tags' : tags'[t] \in TagForms
         /\ Tidy'
         /\ DOMAIN refs' = MIG!RefTables
         /\ \A o \in MIG!RefTables : o # table => refs'[o] = refs[o]
         /\ refs'[table] \subseteq (DOMAIN heading \cup {n}) \X DOMAIN tags'
         /\ \A p : p[1] # n => (p \in refs'[table] <=> p \in refs[table])
<1> DEFINE normal == {TagNormal[x] : x \in names} \ {""}
           new == normal \ {tags[t] : t \in DOMAIN tags}
           count == MIG!Cardinality(new)
           missing == CHOOSE s \in [1 .. count -> new] : \A i, j \in DOMAIN s : s[i] = s[j] => i = j
           last == MIG!LastId(DOMAIN tags)
<1>1. /\ last + count <= MaxTags
      /\ tags' = [t \in DOMAIN tags \cup (last + 1 .. last + count) |->
                    IF t \in DOMAIN tags THEN tags[t] ELSE missing[t - last]]
      /\ refs' = [refs EXCEPT ![table] =
                    {p \in refs[table] : p[1] # n} \cup {<<n, t>> : t \in {u \in DOMAIN tags' : tags'[u] \in normal}}]
  BY Zenon DEF MIG!SaveTagRefs
<1>2. normal \subseteq TagForms /\ "" \notin normal /\ \A x \in normal : TagNormal[x] = x
  BY Names
<1>3. IsFiniteSet(new)
  BY <1>2, Names, FS_Subset
<1>4. count \in Nat /\ missing \in [1 .. count -> new] /\ \A i, j \in DOMAIN missing : missing[i] = missing[j] => i = j
  <2>1. count \in Nat /\ \E s \in [1 .. count -> new] : \A i, j \in DOMAIN s : s[i] = s[j] => i = j
    BY <1>3, CanBeNumbered
  <2> HIDE DEF count, new
  <2>2. QED
    BY <2>1
<1>5. last \in Nat /\ \A t \in DOMAIN tags : t \in Nat /\ 0 < t /\ t <= last
  <2>1. MaxTags \in Nat /\ DOMAIN tags \in SUBSET (1 .. MaxTags)
    BY MaxTagsIsNat DEF Keys
  <2>2. MIG!LastId(DOMAIN tags) \in Nat /\ \A t \in DOMAIN tags : t <= MIG!LastId(DOMAIN tags)
    BY <2>1, LastIdIs
  <2>3. QED
    BY <2>1, <2>2
<1>6. \A x \in new : x \in normal /\ \A t \in DOMAIN tags : tags[t] # x
  OBVIOUS
<1> HIDE DEF normal, new, count, missing, last
<1>7. DOMAIN tags' = DOMAIN tags \cup (last + 1 .. last + count)
  BY <1>1
<1>8. \A t \in DOMAIN tags : tags'[t] = tags[t]
  BY <1>1
<1>9. ASSUME NEW t \in last + 1 .. last + count
      PROVE  t \notin DOMAIN tags /\ t - last \in 1 .. count /\ t \in 1 .. MaxTags /\ tags'[t] = missing[t - last]
             /\ tags'[t] \in new
  <2>1. t \in Nat /\ t > last /\ t <= last + count
    BY <1>4, <1>5
  <2>2. t \notin DOMAIN tags /\ t - last \in 1 .. count
    BY <1>4, <1>5, <2>1
  <2>3. t \in 1 .. MaxTags
    BY <1>1, <1>4, <1>5, <2>1, MaxTagsIsNat
  <2>4. tags'[t] = missing[t - last]
    BY <1>1, <2>2
  <2>5. QED
    BY <1>4, <2>2, <2>3, <2>4
<1>10. DOMAIN tags' \subseteq 1 .. MaxTags
  BY <1>7, <1>9 DEF Keys
<1>11. \A t \in DOMAIN tags' : tags'[t] \in TagForms
  BY <1>2, <1>7, <1>8, <1>9, <1>6 DEF Keys
<1>12. ASSUME NEW t \in DOMAIN tags' PROVE TagNormal[tags'[t]] = tags'[t] /\ tags'[t] # ""
  <2>1. CASE t \in DOMAIN tags
    BY <1>8, <2>1 DEF Tidy
  <2>2. CASE t \notin DOMAIN tags
    BY <1>2, <1>7, <1>9, <1>6, <2>2
  <2>3. QED
    BY <2>1, <2>2
<1>13. ASSUME NEW t \in DOMAIN tags', NEW u \in DOMAIN tags', tags'[u] = tags'[t] PROVE u = t
  <2>1. CASE t \in DOMAIN tags /\ u \in DOMAIN tags
    BY <1>8, <1>13, <2>1 DEF Tidy
  <2>2. CASE t \in DOMAIN tags /\ u \notin DOMAIN tags
    BY <1>7, <1>8, <1>9, <1>6, <1>13, <2>2
  <2>3. CASE t \notin DOMAIN tags /\ u \in DOMAIN tags
    BY <1>7, <1>8, <1>9, <1>6, <1>13, <2>3
  <2>4. CASE t \notin DOMAIN tags /\ u \notin DOMAIN tags
    <3>1. t - last = u - last
      BY <1>4, <1>7, <1>9, <1>13, <2>4
    <3>2. t \in Nat /\ u \in Nat
      BY <1>10, MaxTagsIsNat
    <3>3. QED
      BY <1>5, <3>1, <3>2
  <2>5. QED
    BY <2>1, <2>2, <2>3, <2>4
<1>14. Tidy'
  BY <1>12, <1>13 DEF Tidy
<1>15. PICK R : R = {p \in refs[table] : p[1] # n} \cup {<<n, t>> : t \in {u \in DOMAIN tags' : tags'[u] \in normal}}
  OBVIOUS
<1>16. DOMAIN refs' = MIG!RefTables /\ refs'[table] = R /\ \A o \in MIG!RefTables : o # table => refs'[o] = refs[o]
  BY <1>1, <1>15 DEF Keys
<1>17. refs'[table] \subseteq (DOMAIN heading \cup {n}) \X DOMAIN tags'
  <2>1. \A p \in refs[table] : p \in (DOMAIN heading) \X (DOMAIN tags)
    BY DEF Keys
  <2>2. ASSUME NEW p \in R PROVE p \in (DOMAIN heading \cup {n}) \X DOMAIN tags'
    BY <1>7, <1>15, <2>1, <2>2
  <2>3. QED
    BY <1>16, <2>2
<1>18. ASSUME NEW p, p[1] # n PROVE p \in refs'[table] <=> p \in refs[table]
  BY <1>15, <1>16, <1>18
<1>19. QED
  BY <1>7, <1>8, <1>10, <1>11, <1>14, <1>16, <1>17, <1>18

\* The names of a note whose references stay, when tags are only added.
LEMMA SameNames ==
  ASSUME NEW T, NEW U, NEW R, NEW Q, NEW n, DOMAIN T \subseteq DOMAIN U, \A t \in DOMAIN T : U[t] = T[t],
         \A table \in MIG!RefTables : \A t : <<n, t>> \in Q[table] <=> <<n, t>> \in R[table],
         \A table \in MIG!RefTables : \A t : <<n, t>> \in R[table] => t \in DOMAIN T
  PROVE  MIG!TagNames(U, Q, n) = MIG!TagNames(T, R, n)
<1>1. {u \in DOMAIN U : \E table \in MIG!RefTables : <<n, u>> \in Q[table]}
        = {u \in DOMAIN T : \E table \in MIG!RefTables : <<n, u>> \in R[table]}
  OBVIOUS
<1>2. QED
  BY <1>1 DEF MIG!TagNames

--------------------------------------------------------------------------------
(* A start                                                                     *)

\* What the statements that have nothing to do with tags leave alone.
LEMMA IndexedStay ==
  ASSUME Indexed, heading' = heading, tags' = tags, refs' = refs, fts' = fts,
         MIG!HasTriggers(schema) => MIG!HasTriggers(schema'),
         at' > AtNormalize => at > AtNormalize, at' > AtBackfill => at > AtBackfill,
         \A i \in FirstTrigger .. LastTrigger : at' > i => MIG!Script[i] \in schema'
  PROVE  Indexed'
<1>1. Tidy => Tidy'
  BY DEF Tidy
<1>2. QED
  BY <1>1 DEF Indexed

LEMMA KeysStay ==
  ASSUME Keys, heading' = heading, tags' = tags, refs' = refs, wrote' = wrote, updates' = updates,
         at' \in 0 .. LastTrigger + 1
  PROVE  Keys'
BY DEF Keys

LEMMA DatabaseStart ==
  ASSUME Keys, Indexed, Deduped, MIG!Start \/ MIG!Fail \/ MIG!Crash
  PROVE  Keys' /\ Indexed' /\ Deduped'
<1>1. heading' = heading /\ tags' = tags /\ refs' = refs /\ fts' = fts /\ wrote' = wrote /\ updates' = updates
      /\ schema' = schema /\ runs' = runs
  BY DEF MIG!Start, MIG!Fail, MIG!Crash, MIG!data, MIG!texts, MIG!tagging
<1>2. at' \in {0, 1}
  BY DEF MIG!Start, MIG!Fail, MIG!Crash
<1>3. ~ (at' > AtNormalize) /\ ~ (at' > AtBackfill) /\ ~ (at' > AtDedupe)
      /\ (\A i \in FirstTrigger .. LastTrigger : ~ (at' > i)) /\ at' \in 0 .. LastTrigger + 1
  BY <1>2 DEF AtNormalize, AtBackfill, AtDedupe, FirstTrigger, LastTrigger
<1>4. Keys'
  BY <1>1, <1>3, KeysStay
<1>5. Indexed'
  BY <1>1, <1>3, IndexedStay
<1>6. Deduped'
  BY <1>1, <1>3 DEF Deduped
<1>7. QED
  BY <1>4, <1>5, <1>6

LEMMA DatabaseEnsure ==
  ASSUME Keys, Indexed, Deduped, MIG!Ensure
  PROVE  Keys' /\ Indexed' /\ Deduped'
<1>1. heading' = heading /\ tags' = tags /\ refs' = refs /\ fts' = fts /\ wrote' = wrote /\ updates' = updates
      /\ runs' = runs
  BY DEF MIG!Ensure, MIG!data, MIG!texts, MIG!tagging
<1>2. at \in 1 .. LastTrigger /\ at' = at + 1 /\ MIG!Script[at] \notin MIG!Changes
      /\ schema \subseteq schema' /\ MIG!Script[at] \in schema'
  BY Places DEF MIG!Ensure, MIG!Proceed
<1>3. at # AtNormalize /\ at # AtBackfill /\ at # AtDedupe
  BY <1>2, Places DEF MIG!Changes
<1>4. (at' > AtNormalize => at > AtNormalize) /\ (at' > AtBackfill => at > AtBackfill)
      /\ (at' > AtDedupe => at > AtDedupe) /\ at' \in 0 .. LastTrigger + 1
  BY <1>2, <1>3 DEF AtNormalize, AtBackfill, AtDedupe, LastTrigger
<1>5. ASSUME NEW i \in FirstTrigger .. LastTrigger, at' > i PROVE MIG!Script[i] \in schema'
  <2>1. CASE at = i
    BY <1>2, <2>1
  <2>2. CASE at # i
    <3>1. at > i
      BY <1>2, <1>5, <2>2 DEF FirstTrigger, LastTrigger
    <3>2. QED
      BY <1>2, <3>1 DEF Indexed
  <2>3. QED
    BY <2>1, <2>2
<1>6. MIG!HasTriggers(schema) => MIG!HasTriggers(schema')
  BY <1>2 DEF MIG!HasTriggers
<1>7. Keys'
  BY <1>1, <1>4, KeysStay
<1>8. Indexed'
  BY <1>1, <1>4, <1>5, <1>6, IndexedStay
<1>9. Deduped'
  BY <1>1, <1>4 DEF Deduped
<1>10. QED
  BY <1>7, <1>8, <1>9

LEMMA DatabaseDrop ==
  ASSUME Keys, Indexed, Deduped, NEW statement \in {"DROP_BODY", "DROP_UPDATED_AT"},
         NEW column \in {"body", "updated_at"}, MIG!DropColumn(statement, column)
  PROVE  Keys' /\ Indexed' /\ Deduped'
<1>1. heading' = heading /\ tags' = tags /\ refs' = refs /\ fts' = fts /\ wrote' = wrote /\ updates' = updates
      /\ runs' = runs /\ schema' = schema \ {column} /\ at' = at + 1
  BY DEF MIG!DropColumn, MIG!data, MIG!texts, MIG!tagging, MIG!Proceed
<1>2. at \in {16, 17}
  <2>1. MIG!Executes(statement)
    BY DEF MIG!DropColumn
  <2>2. at \in 1 .. LastTrigger /\ MIG!Script[at] = statement
    BY <2>1, AtStatement
  <2>3. QED
    BY <2>2, Places DEF AtDrop
<1>3. (at' > AtNormalize => at > AtNormalize) /\ (at' > AtBackfill => at > AtBackfill)
      /\ (at' > AtDedupe => at > AtDedupe) /\ at' \in 0 .. LastTrigger + 1
      /\ \A i \in FirstTrigger .. LastTrigger : ~ (at' > i)
  BY <1>1, <1>2 DEF AtNormalize, AtBackfill, AtDedupe, FirstTrigger, LastTrigger
<1>4. MIG!HasTriggers(schema) => MIG!HasTriggers(schema')
  BY <1>1, EightTriggers
<1>5. Keys'
  BY <1>1, <1>3, KeysStay
<1>6. Indexed'
  BY <1>1, <1>3, <1>4, IndexedStay
<1>7. Deduped'
  BY <1>1, <1>3 DEF Deduped
<1>8. QED
  BY <1>5, <1>6, <1>7

LEMMA DatabaseCopy ==
  ASSUME Keys, Indexed, Deduped, MIG!CopyBody
  PROVE  Keys' /\ Indexed' /\ Deduped'
<1>1. heading' = heading /\ tags' = tags /\ refs' = refs /\ fts' = fts /\ wrote' = wrote
      /\ runs' = runs /\ schema' = schema /\ at' = at + 1
  BY DEF MIG!CopyBody, MIG!tagging, MIG!Proceed
<1>2. at = AtCopy
  BY AtStatement, Places DEF MIG!CopyBody
<1>3. (at' > AtNormalize => at > AtNormalize) /\ (at' > AtBackfill => at > AtBackfill)
      /\ (at' > AtDedupe => at > AtDedupe) /\ at' \in 0 .. LastTrigger + 1
      /\ \A i \in FirstTrigger .. LastTrigger : ~ (at' > i)
  BY <1>1, <1>2 DEF AtCopy, AtNormalize, AtBackfill, AtDedupe, FirstTrigger, LastTrigger
<1>4. \E b \in Nat : DOMAIN updates' \subseteq 1 .. b
  <2>1. PICK b \in Nat : DOMAIN updates \subseteq 1 .. b
    BY DEF Keys
  <2>2. PICK c \in Nat : NoteIds \subseteq 1 .. c
    BY MaxTagsIsNat
  <2>3. DOMAIN updates \in SUBSET (1 .. b)
    BY <2>1
  <2>4. PICK l \in Nat : l = MIG!LastId(DOMAIN updates)
    BY <2>3, LastIdIs
  <2>5. \A i \in DOMAIN updates' : i \in DOMAIN updates \/ \E n \in DOMAIN heading : i = l + n
    BY <2>4 DEF MIG!CopyBody
  <2>6. b + l + c \in Nat
    BY <2>1, <2>2, <2>4
  <2>7. ASSUME NEW i \in DOMAIN updates' PROVE i \in 1 .. (b + l + c)
    <3>1. CASE i \in DOMAIN updates
      BY <2>1, <2>2, <2>4, <3>1
    <3>2. CASE i \notin DOMAIN updates
      <4>1. PICK n \in DOMAIN heading : i = l + n
        BY <2>5, <3>2
      <4>2. n \in 1 .. c
        BY <2>2, <4>1 DEF Keys
      <4>3. QED
        BY <2>1, <2>2, <2>4, <4>1, <4>2
    <3>3. QED
      BY <3>1, <3>2
  <2>8. QED
    BY <2>6, <2>7
<1>5. Keys'
  BY <1>1, <1>3, <1>4 DEF Keys
<1>6. Indexed'
  BY <1>1, <1>3, IndexedStay
<1>7. Deduped'
  BY <1>1, <1>3 DEF Deduped
<1>8. QED
  BY <1>5, <1>6, <1>7

LEMMA DatabaseVectors ==
  ASSUME Keys, Indexed, Deduped, MIG!EnsureVec
  PROVE  Keys' /\ Indexed' /\ Deduped'
<1>1. heading' = heading /\ tags' = tags /\ refs' = refs /\ fts' = fts /\ wrote' = wrote /\ updates' = updates
      /\ runs' = runs /\ schema' = schema /\ at' \in {at, at + 1}
  BY DEF MIG!EnsureVec, MIG!texts, MIG!tagging, MIG!Proceed
<1>2. at = 14
  BY AtStatement, Places DEF MIG!EnsureVec
<1>3. (at' > AtNormalize => at > AtNormalize) /\ (at' > AtBackfill => at > AtBackfill)
      /\ (at' > AtDedupe => at > AtDedupe) /\ at' \in 0 .. LastTrigger + 1
      /\ \A i \in FirstTrigger .. LastTrigger : ~ (at' > i)
  BY <1>1, <1>2 DEF AtNormalize, AtBackfill, AtDedupe, FirstTrigger, LastTrigger
<1>4. Keys'
  BY <1>1, <1>3, KeysStay
<1>5. Indexed'
  BY <1>1, <1>3, IndexedStay
<1>6. Deduped'
  BY <1>1, <1>3 DEF Deduped
<1>7. QED
  BY <1>4, <1>5, <1>6

LEMMA DatabaseDedupe ==
  ASSUME Keys, Indexed, Deduped, MIG!Dedupe
  PROVE  Keys' /\ Indexed' /\ Deduped'
<1>1. heading' = heading /\ tags' = tags /\ refs' = refs /\ fts' = fts /\ wrote' = wrote /\ updates' = updates
      /\ schema' = schema /\ at' = at + 1
  BY DEF MIG!Dedupe, MIG!texts, MIG!tagging, MIG!Proceed
<1>2. at = AtDedupe
  BY AtStatement, Places DEF MIG!Dedupe
<1>3. (at' > AtNormalize => at > AtNormalize) /\ (at' > AtBackfill => at > AtBackfill)
      /\ at' \in 0 .. LastTrigger + 1 /\ \A i \in FirstTrigger .. LastTrigger : ~ (at' > i)
  BY <1>1, <1>2 DEF AtNormalize, AtBackfill, AtDedupe, FirstTrigger, LastTrigger
<1>4. Keys'
  BY <1>1, <1>3, KeysStay
<1>5. Indexed'
  BY <1>1, <1>3, IndexedStay
<1>6. runs' = {r \in runs : r.active /\ r.payload # NoPayload =>
                  \A o \in runs : o.active /\ o.payload = r.payload => r.id <= o.id}
  BY DEF MIG!Dedupe
<1>7. ASSUME NEW r \in runs', NEW s \in runs', r.active, s.active, r # s
      PROVE  r.payload # s.payload \/ r.payload = NoPayload
  <2>1. SUFFICES ASSUME r.payload = s.payload, r.payload # NoPayload PROVE FALSE
    OBVIOUS
  <2>2. r \in runs /\ s \in runs /\ r.id <= s.id /\ s.id <= r.id
    BY <1>6, <1>7, <2>1
  <2>3. r.id \in Nat /\ s.id \in Nat /\ (r.id = s.id => r = s)
    BY <2>2 DEF Deduped
  <2>4. QED
    BY <1>7, <2>2, <2>3
<1>8. \A r, s \in runs' : r.id \in Nat /\ (r.id = s.id => r = s)
  BY <1>6 DEF Deduped
<1>9. Deduped'
  BY <1>7, <1>8 DEF Deduped
<1>10. QED
  BY <1>4, <1>5, <1>9

LEMMA DatabaseNormalize ==
  ASSUME Keys, Indexed, Deduped, MIG!Normalize
  PROVE  Keys' /\ Indexed' /\ Deduped'
<1>1. runs' = runs /\ at = AtNormalize
  BY NormalizedTags
<1>2. at > AtDedupe
  BY <1>1 DEF AtNormalize, AtDedupe
<1>3. Deduped'
  BY <1>1, <1>2 DEF Deduped
<1>4. QED
  BY <1>3, NormalizeTidies, IndexedNormalize

LEMMA DatabaseBackfill ==
  ASSUME Keys, Indexed, Deduped, MIG!Backfill
  PROVE  Keys' /\ Indexed' /\ Deduped'
<1>1. heading' = heading /\ tags' = tags /\ refs' = refs /\ wrote' = wrote /\ updates' = updates
      /\ runs' = runs /\ schema' = schema /\ at' = at + 1
  BY DEF MIG!Backfill, MIG!texts, MIG!tagging, MIG!Proceed
<1>2. at = AtBackfill
  BY AtStatement, Places DEF MIG!Backfill
<1>3. at > AtNormalize /\ at > AtDedupe /\ at' \in 0 .. LastTrigger + 1
      /\ \A i \in FirstTrigger .. LastTrigger : ~ (at' > i)
  BY <1>1, <1>2 DEF AtNormalize, AtBackfill, AtDedupe, FirstTrigger, LastTrigger
<1>4. Keys'
  BY <1>1, <1>3, KeysStay
<1>5. Indexed'
  <2>1. Tidy /\ Tidy'
    BY <1>1, <1>3 DEF Indexed, Tidy
  <2>2. fts' = [n \in DOMAIN heading |-> IF n \in DOMAIN fts THEN fts[n]
                  ELSE [title |-> heading[n], tags |-> MIG!TagNames(tags, refs, n)]]
    BY DEF MIG!Backfill
  <2>3. \A n \in DOMAIN heading : fts'[n] = [title |-> heading[n], tags |-> MIG!TagNames(tags, refs, n)]
    BY <2>2 DEF Indexed
  <2>4. DOMAIN fts' = DOMAIN heading
    BY <2>2
  <2>5. \A n \in DOMAIN fts' : fts'[n] = [title |-> heading'[n], tags |-> MIG!TagNames(tags', refs', n)]
    BY <1>1, <2>3, <2>4
  <2>6. QED
    BY <1>1, <1>3, <2>1, <2>4, <2>5 DEF Indexed
<1>6. Deduped'
  BY <1>1, <1>3 DEF Deduped
<1>7. QED
  BY <1>4, <1>5, <1>6

LEMMA DatabaseMigrate ==
  ASSUME Keys, Indexed, Deduped, MIG!Migrate
  PROVE  Keys' /\ Indexed' /\ Deduped'
BY DatabaseEnsure, DatabaseDrop, DatabaseCopy, DatabaseVectors, DatabaseDedupe, DatabaseNormalize,
   DatabaseBackfill DEF MIG!Migrate

--------------------------------------------------------------------------------
(* The server: saved and deleted notes, and the triggers                       *)

\* All statements are executed: the names are normal, every note has its row
\* and there are all triggers.
LEMMA ReadyIs ==
  ASSUME DatabaseInv, MIG!IsReady
  PROVE  /\ Tidy /\ DOMAIN fts = DOMAIN heading /\ MIG!HasTriggers(schema)
         /\ \A n \in DOMAIN heading :
               fts[n] = [title |-> heading[n], tags |-> MIG!TagNames(tags, refs, n)]
         /\ "body" \notin schema
         /\ \A r, s \in runs : r.active /\ s.active /\ r # s => r.payload # s.payload \/ r.payload = NoPayload
<1>1. at = LastTrigger + 1
  BY Places DEF MIG!IsReady
<1>2. at > AtNormalize /\ at > AtBackfill /\ at > AtDrop /\ at > AtDedupe
      /\ \A i \in FirstTrigger .. LastTrigger : at > i
  BY <1>1 DEF AtNormalize, AtBackfill, AtDrop, AtDedupe, FirstTrigger, LastTrigger
<1>3. Tidy /\ DOMAIN fts = DOMAIN heading /\ \A i \in FirstTrigger .. LastTrigger : MIG!Script[i] \in schema
  BY <1>2 DEF DatabaseInv, Indexed
<1>4. QED
  BY <1>2, <1>3, TriggersAreLast DEF DatabaseInv, Indexed, Texts, Deduped

\* After a step of the server that leaves the list of statements behind it.
LEMMA ServedIndex ==
  ASSUME DatabaseInv, MIG!IsReady, at' = at, schema' = schema, Tidy',
         DOMAIN fts' = DOMAIN heading',
         \A n \in DOMAIN heading' :
            fts'[n] = [title |-> heading'[n], tags |-> MIG!TagNames(tags', refs', n)]
  PROVE  Indexed'
<1>1. MIG!HasTriggers(schema) /\ \A i \in FirstTrigger .. LastTrigger : MIG!Script[i] \in schema
  BY ReadyIs, TriggersAreLast
<1>2. QED
  BY <1>1 DEF Indexed

\* What the triggers on a reference table make of the rows: they are those of
\* the new names.
LEMMA RetaggedRows ==
  ASSUME Keys, Tidy, MIG!HasTriggers(schema), NEW table \in MIG!RefTables, NEW n, NEW names \in SUBSET TagForms,
         MIG!SaveTagRefs(table, n, names), NEW f, NEW T,
         \A m \in DOMAIN f : f[m] = [title |-> T[m], tags |-> MIG!TagNames(tags, refs, m)]
  PROVE  /\ DOMAIN MIG!Retagged(f, table, n) = DOMAIN f
         /\ \A m \in DOMAIN f :
               MIG!Retagged(f, table, n)[m] = [title |-> T[m], tags |-> MIG!TagNames(tags', refs', m)]
<1>1. /\ DOMAIN tags \subseteq DOMAIN tags' /\ \A t \in DOMAIN tags : tags'[t] = tags[t]
      /\ \A o \in MIG!RefTables : o # table => refs'[o] = refs[o]
      /\ \A p : p[1] # n => (p \in refs'[table] <=> p \in refs[table])
  BY TagsSaved
<1>2. \A o \in MIG!RefTables : \A m, t : <<m, t>> \in refs[o] => t \in DOMAIN tags
  BY DEF Keys
<1>3. ASSUME NEW m, m # n PROVE MIG!TagNames(tags', refs', m) = MIG!TagNames(tags, refs, m)
  <2>1. \A o \in MIG!RefTables : \A t : <<m, t>> \in refs'[o] <=> <<m, t>> \in refs[o]
    <3>1. ASSUME NEW o \in MIG!RefTables, NEW t PROVE <<m, t>> \in refs'[o] <=> <<m, t>> \in refs[o]
      <4>1. <<m, t>>[1] # n
        BY <1>3
      <4>2. QED
        BY <1>1, <4>1
    <3>2. QED
      BY <3>1
  <2>2. QED
    BY <1>1, <1>2, <2>1, SameNames
<1>4. MIG!OnInsert[table] \in schema /\ MIG!OnDelete[table] \in schema
  BY EightTriggers DEF MIG!OnInsert, MIG!OnDelete, MIG!RefTables
<1>5. CASE {p \in refs[table] : p[1] = n} # {} \/ {p \in refs'[table] : p[1] = n} # {}
  <2>1. MIG!Retagged(f, table, n) = MIG!Rebuild(f, {n})
    BY <1>4, <1>5 DEF MIG!Retagged
  <2>2. QED
    BY <1>3, <2>1 DEF MIG!Rebuild
<1>6. CASE {p \in refs[table] : p[1] = n} = {} /\ {p \in refs'[table] : p[1] = n} = {}
  <2>1. MIG!Retagged(f, table, n) = f
    BY <1>6 DEF MIG!Retagged
  <2>2. \A o \in MIG!RefTables : \A t : <<n, t>> \in refs'[o] <=> <<n, t>> \in refs[o]
    <3>1. ASSUME NEW o \in MIG!RefTables, NEW t PROVE <<n, t>> \in refs'[o] <=> <<n, t>> \in refs[o]
      <4>1. <<n, t>>[1] = n
        OBVIOUS
      <4>2. CASE o = table
        BY <1>6, <4>1, <4>2
      <4>3. CASE o # table
        BY <1>1, <4>3
      <4>4. QED
        BY <4>2, <4>3
    <3>2. QED
      BY <3>1
  <2>3. MIG!TagNames(tags', refs', n) = MIG!TagNames(tags, refs, n)
    BY <1>1, <1>2, <2>2, SameNames
  <2>4. QED
    BY <1>3, <2>1, <2>3
<1>7. QED
  BY <1>5, <1>6

\* A save or a change of a note: the parts that all of them need.
LEMMA SaveNoteKeeps ==
  ASSUME DatabaseInv, NEW n \in NoteIds, NEW text \in NoteTexts, NEW names \in SUBSET TagForms,
         MIG!SaveNote(n, text, names)
  PROVE  DatabaseInv'
<1>1. /\ MIG!IsReady /\ (n \notin DOMAIN wrote \/ n \in DOMAIN heading)
      /\ heading' = MIG!With(heading, n, text)
      /\ updates' = MIG!With(updates, MIG!LastId(DOMAIN updates) + 1, [note |-> n, body |-> text])
      /\ wrote' = MIG!With(wrote, n, text) /\ MIG!SaveTagRefs("tags_refs", n, names)
      /\ schema' = schema /\ body' = body /\ runs' = runs /\ at' = at
  BY DEF MIG!SaveNote
<1>2. Keys /\ Texts /\ Indexed /\ Deduped
  BY DEF DatabaseInv
<1>3. /\ Tidy /\ DOMAIN fts = DOMAIN heading /\ MIG!HasTriggers(schema) /\ "body" \notin schema
      /\ \A m \in DOMAIN heading : fts[m] = [title |-> heading[m], tags |-> MIG!TagNames(tags, refs, m)]
  BY <1>1, ReadyIs
<1>4. "tags_refs" \in MIG!RefTables
  BY DEF MIG!RefTables
<1>5. /\ DOMAIN tags' \subseteq 1 .. MaxTags /\ \A t \in DOMAIN tags' : tags'[t] \in TagForms
      /\ DOMAIN tags \subseteq DOMAIN tags' /\ Tidy' /\ DOMAIN refs' = MIG!RefTables
      /\ \A o \in MIG!RefTables : o # "tags_refs" => refs'[o] = refs[o]
      /\ refs'["tags_refs"] \subseteq (DOMAIN heading \cup {n}) \X DOMAIN tags'
  BY <1>1, <1>2, <1>3, <1>4, TagsSaved
<1>6. /\ DOMAIN heading' = DOMAIN heading \cup {n} /\ heading'[n] = text
      /\ \A m \in DOMAIN heading : m # n => heading'[m] = heading[m]
      /\ DOMAIN wrote' = DOMAIN wrote \cup {n} /\ wrote'[n] = text
      /\ \A m \in DOMAIN wrote : m # n => wrote'[m] = wrote[m]
  BY <1>1 DEF MIG!With
<1>7. PICK b \in Nat : DOMAIN updates \subseteq 1 .. b
  BY <1>2 DEF Keys
<1>8. DOMAIN updates \in SUBSET (1 .. b)
  BY <1>7
<1>9. PICK l \in Nat : /\ l = MIG!LastId(DOMAIN updates) + 1
                       /\ \A i \in DOMAIN updates : i \in Nat /\ 0 < i /\ i < l
  <2>1. MIG!LastId(DOMAIN updates) \in Nat /\ \A i \in DOMAIN updates : i <= MIG!LastId(DOMAIN updates)
    BY <1>8, LastIdIs
  <2>2. \A i \in DOMAIN updates : i \in Nat /\ 0 < i
    BY <1>7
  <2>3. QED
    BY <2>1, <2>2
<1>10. /\ DOMAIN updates' = DOMAIN updates \cup {l} /\ updates'[l] = [note |-> n, body |-> text] /\ 0 < l
       /\ \A i \in DOMAIN updates : updates'[i] = updates[i]
  <2>1. updates' = MIG!With(updates, l, [note |-> n, body |-> text])
    BY <1>1, <1>9
  <2>2. 0 < l
    <3>1. MIG!LastId(DOMAIN updates) \in Nat
      BY <1>8, LastIdIs
    <3>2. QED
      BY <1>9, <3>1
  <2>3. QED
    BY <1>9, <2>1, <2>2 DEF MIG!With
<1>11. Keys'
  <2>1. DOMAIN heading' \subseteq NoteIds /\ DOMAIN heading' \subseteq DOMAIN wrote'
    BY <1>2, <1>6 DEF Keys
  <2>2. \E c \in Nat : DOMAIN updates' \subseteq 1 .. c
    <3>1. DOMAIN updates' \subseteq 1 .. l
      BY <1>9, <1>10
    <3>2. QED
      BY <1>9, <3>1
  <2>3. ASSUME NEW table \in MIG!RefTables PROVE refs'[table] \subseteq (DOMAIN heading') \X (DOMAIN tags')
    <3>1. CASE table = "tags_refs"
      BY <1>5, <1>6, <3>1
    <3>2. CASE table # "tags_refs"
      <4>1. refs'[table] = refs[table] /\ refs[table] \subseteq (DOMAIN heading) \X (DOMAIN tags)
        BY <1>2, <1>5, <3>2 DEF Keys
      <4>2. QED
        BY <1>5, <1>6, <4>1
    <3>3. QED
      BY <3>1, <3>2
  <2>4. at' \in 0 .. LastTrigger + 1
    BY <1>1, <1>2 DEF Keys
  <2>5. QED
    BY <1>5, <2>1, <2>2, <2>3, <2>4 DEF Keys
<1>12. Texts'
  <2>1. ASSUME NEW m \in DOMAIN heading' PROVE MIG!LatestBody(m)' = wrote'[m]
    <3>1. CASE m = n
      <4>1. l \in History(n)'
        BY <1>10 DEF History
      <4>2. \A i \in History(n)' : i \in 1 .. l /\ i <= l
        BY <1>9, <1>10 DEF History
      <4>3. History(n)' \in SUBSET (1 .. l)
        BY <4>2
      <4>4. MIG!LastId(History(n)') = l
        BY <1>9, <4>1, <4>2, <4>3, LastIdIsOnly
      <4>5. MIG!LatestBody(n)' = updates'[l].body
        BY <4>1, <4>4 DEF MIG!LatestBody, History, MIG!LastId
      <4>6. QED
        BY <1>6, <1>10, <3>1, <4>5
    <3>2. CASE m # n
      <4>1. m \in DOMAIN heading /\ m \in DOMAIN wrote
        BY <1>2, <1>6, <3>2 DEF Keys
      <4>2. History(m)' = History(m)
        BY <1>10, <3>2 DEF History
      <4>3. MIG!LatestBody(m) = wrote[m]
        BY <1>2, <4>1 DEF Texts
      <4>4. CASE History(m) = {}
        BY <1>1, <1>3, <1>6, <3>2, <4>1, <4>2, <4>3, <4>4, Zenon DEF MIG!LatestBody, History
      <4>5. CASE History(m) # {}
        <5>1. MIG!LastId(History(m)) \in History(m)
          <6>1. History(m) \in SUBSET (1 .. b)
            BY <1>7 DEF History
          <6>2. QED
            BY <4>5, <6>1, LastIdIs
        <5>2. MIG!LatestBody(m) = updates[MIG!LastId(History(m))].body
          BY <4>5 DEF MIG!LatestBody, History
        <5>3. MIG!LatestBody(m)' = updates'[MIG!LastId(History(m)')].body
          BY <4>2, <4>5 DEF MIG!LatestBody, History, MIG!LastId
        <5>4. updates'[MIG!LastId(History(m)')] = updates[MIG!LastId(History(m))]
          BY <1>10, <4>2, <5>1 DEF History
        <5>5. QED
          BY <1>6, <3>2, <4>1, <4>3, <5>2, <5>3, <5>4
      <4>6. QED
        BY <4>4, <4>5
    <3>3. QED
      BY <3>1, <3>2
  <2>2. "body" \notin schema'
    BY <1>1, <1>3
  <2>3. QED
    BY <2>1, <2>2 DEF Texts
<1>13. Indexed'
  <2>1. PICK f : f = (IF ~(n \notin DOMAIN wrote) THEN MIG!Retitled(fts, n, text)
                      ELSE IF "notes_ai" \in schema THEN MIG!With(fts, n, [title |-> text, tags |-> {}])
                      ELSE fts)
    OBVIOUS
  <2>2. fts' = MIG!Retagged(f, "tags_refs", n)
    BY <2>1 DEF MIG!SaveNote
  <2>3. "notes_ai" \in schema /\ "notes_au" \in schema
    BY <1>3, EightTriggers
  <2>4. DOMAIN f = DOMAIN heading'
        /\ \A m \in DOMAIN f : f[m] = [title |-> heading'[m], tags |-> MIG!TagNames(tags, refs, m)]
    <3>1. CASE n \in DOMAIN wrote
      <4>1. n \in DOMAIN fts /\ f = [fts EXCEPT ![n].title = text]
        BY <1>1, <1>3, <2>1, <2>3, <3>1 DEF MIG!Retitled
      <4>2. DOMAIN f = DOMAIN fts /\ \A m \in DOMAIN fts : m # n => f[m] = fts[m]
        BY <4>1
      <4>3. f[n] = [title |-> text, tags |-> MIG!TagNames(tags, refs, n)]
        BY <1>3, <4>1
      <4>4. QED
        BY <1>3, <1>6, <4>1, <4>2, <4>3
    <3>2. CASE n \notin DOMAIN wrote
      <4>1. f = MIG!With(fts, n, [title |-> text, tags |-> {}])
        BY <2>1, <2>3, <3>2
      <4>2. n \notin DOMAIN heading
        BY <1>2, <3>2 DEF Keys
      <4>3. MIG!TagNames(tags, refs, n) = {}
        <5>1. \A table \in MIG!RefTables : \A t : <<n, t>> \notin refs[table]
          BY <1>2, <4>2 DEF Keys
        <5>2. QED
          BY <5>1 DEF MIG!TagNames
      <4>4. QED
        BY <1>3, <1>6, <4>1, <4>2, <4>3 DEF MIG!With
    <3>3. QED
      BY <3>1, <3>2
  <2>5. /\ DOMAIN fts' = DOMAIN heading'
        /\ \A m \in DOMAIN heading' : fts'[m] = [title |-> heading'[m], tags |-> MIG!TagNames(tags', refs', m)]
    BY <1>1, <1>2, <1>3, <1>4, <2>2, <2>4, RetaggedRows
  <2>6. QED
    BY <1>1, <1>5, <2>5, ServedIndex
<1>14. Deduped'
  BY <1>1, <1>2 DEF Deduped
<1>15. QED
  BY <1>11, <1>12, <1>13, <1>14 DEF DatabaseInv
LEMMA SaveAutoTagsKeeps ==
  ASSUME DatabaseInv, NEW n \in NoteIds, NEW names \in SUBSET TagForms, MIG!SaveAutoTags(n, names)
  PROVE  DatabaseInv'
<1>1. /\ MIG!IsReady /\ n \in DOMAIN heading /\ MIG!SaveTagRefs("auto_tags_refs", n, names)
      /\ fts' = MIG!Retagged(fts, "auto_tags_refs", n)
      /\ schema' = schema /\ heading' = heading /\ body' = body /\ updates' = updates /\ wrote' = wrote
      /\ runs' = runs /\ at' = at
  BY DEF MIG!SaveAutoTags, MIG!texts
<1>2. Keys /\ Texts /\ Indexed /\ Deduped
  BY DEF DatabaseInv
<1>3. /\ Tidy /\ DOMAIN fts = DOMAIN heading /\ MIG!HasTriggers(schema)
      /\ \A m \in DOMAIN heading : fts[m] = [title |-> heading[m], tags |-> MIG!TagNames(tags, refs, m)]
  BY <1>1, ReadyIs
<1>4. "auto_tags_refs" \in MIG!RefTables
  BY DEF MIG!RefTables
<1>5. /\ DOMAIN tags' \subseteq 1 .. MaxTags /\ \A t \in DOMAIN tags' : tags'[t] \in TagForms
      /\ DOMAIN tags \subseteq DOMAIN tags' /\ Tidy' /\ DOMAIN refs' = MIG!RefTables
      /\ \A o \in MIG!RefTables : o # "auto_tags_refs" => refs'[o] = refs[o]
      /\ refs'["auto_tags_refs"] \subseteq (DOMAIN heading \cup {n}) \X DOMAIN tags'
  BY <1>1, <1>2, <1>3, <1>4, TagsSaved
<1>6. Keys'
  <2>1. ASSUME NEW table \in MIG!RefTables PROVE refs'[table] \subseteq (DOMAIN heading) \X (DOMAIN tags')
    <3>1. CASE table = "auto_tags_refs"
      BY <1>1, <1>5, <3>1
    <3>2. CASE table # "auto_tags_refs"
      <4>1. refs'[table] = refs[table] /\ refs[table] \subseteq (DOMAIN heading) \X (DOMAIN tags)
        BY <1>2, <1>5, <3>2 DEF Keys
      <4>2. QED
        BY <1>5, <4>1
    <3>3. QED
      BY <3>1, <3>2
  <2>2. QED
    BY <1>1, <1>2, <1>5, <2>1 DEF Keys
<1>7. Texts'
  BY <1>1, <1>2, TextsStay
<1>8. Indexed'
  <2>1. /\ DOMAIN fts' = DOMAIN heading'
        /\ \A m \in DOMAIN heading' : fts'[m] = [title |-> heading'[m], tags |-> MIG!TagNames(tags', refs', m)]
    BY <1>1, <1>2, <1>3, <1>4, RetaggedRows
  <2>2. QED
    BY <1>1, <1>5, <2>1, ServedIndex
<1>9. Deduped'
  BY <1>1, <1>2 DEF Deduped
<1>10. QED
  BY <1>6, <1>7, <1>8, <1>9 DEF DatabaseInv

LEMMA SaveTitleKeeps ==
  ASSUME DatabaseInv, NEW n \in NoteIds, NEW text \in NoteTexts, MIG!SaveTitle(n, text)
  PROVE  DatabaseInv'
<1>1. /\ MIG!IsReady /\ n \in DOMAIN heading /\ heading' = MIG!With(heading, n, text)
      /\ fts' = MIG!Retitled(fts, n, text)
      /\ schema' = schema /\ body' = body /\ updates' = updates /\ wrote' = wrote
      /\ tags' = tags /\ refs' = refs /\ runs' = runs /\ at' = at
  BY DEF MIG!SaveTitle, MIG!tagging
<1>2. Keys /\ Texts /\ Indexed /\ Deduped
  BY DEF DatabaseInv
<1>3. /\ Tidy /\ DOMAIN fts = DOMAIN heading /\ MIG!HasTriggers(schema) /\ "body" \notin schema
      /\ \A m \in DOMAIN heading : fts[m] = [title |-> heading[m], tags |-> MIG!TagNames(tags, refs, m)]
  BY <1>1, ReadyIs
<1>4. /\ DOMAIN heading' = DOMAIN heading /\ heading'[n] = text
      /\ \A m \in DOMAIN heading : m # n => heading'[m] = heading[m]
  BY <1>1 DEF MIG!With
<1>5. Keys'
  BY <1>1, <1>2, <1>4 DEF Keys
<1>6. Texts'
  <2>1. \A m \in DOMAIN heading : MIG!LatestBody(m)' = MIG!LatestBody(m)
    BY <1>1 DEF MIG!LatestBody, MIG!LastId
  <2>2. QED
    BY <1>1, <1>2, <1>3, <1>4, <2>1 DEF Texts
<1>7. Indexed'
  <2>1. "notes_au" \in schema
    BY <1>3, EightTriggers
  <2>2. fts' = [fts EXCEPT ![n].title = text]
    BY <1>1, <1>3, <2>1 DEF MIG!Retitled
  <2>3. DOMAIN fts' = DOMAIN fts /\ (\A m \in DOMAIN fts : m # n => fts'[m] = fts[m])
        /\ fts'[n] = [title |-> text, tags |-> MIG!TagNames(tags, refs, n)]
    BY <1>1, <1>3, <2>2
  <2>4. \A m : MIG!TagNames(tags', refs', m) = MIG!TagNames(tags, refs, m)
    BY <1>1 DEF MIG!TagNames
  <2>5. \A m \in DOMAIN heading' : fts'[m] = [title |-> heading'[m], tags |-> MIG!TagNames(tags', refs', m)]
    BY <1>3, <1>4, <2>3, <2>4
  <2>6. Tidy'
    BY <1>1, <1>3 DEF Tidy
  <2>7. QED
    BY <1>1, <1>3, <1>4, <2>3, <2>5, <2>6, ServedIndex
<1>8. Deduped'
  BY <1>1, <1>2 DEF Deduped
<1>9. QED
  BY <1>5, <1>6, <1>7, <1>8 DEF DatabaseInv

\* The other notes keep their history.
LEMMA DeleteNoteKeeps ==
  ASSUME DatabaseInv, NEW n \in NoteIds, MIG!DeleteNote(n)
  PROVE  DatabaseInv'
<1>1. /\ MIG!IsReady /\ n \in DOMAIN heading
      /\ heading' = [m \in DOMAIN heading \ {n} |-> heading[m]]
      /\ updates' = [i \in {j \in DOMAIN updates : updates[j].note # n} |-> updates[i]]
      /\ refs' = [table \in MIG!RefTables |-> {p \in refs[table] : p[1] # n}]
      /\ fts' = [m \in DOMAIN fts \ (IF "notes_ad" \in schema THEN {n} ELSE {}) |-> fts[m]]
      /\ schema' = schema /\ body' = body /\ wrote' = wrote /\ tags' = tags /\ runs' = runs /\ at' = at
  BY DEF MIG!DeleteNote
<1>2. Keys /\ Texts /\ Indexed /\ Deduped
  BY DEF DatabaseInv
<1>3. /\ Tidy /\ DOMAIN fts = DOMAIN heading /\ MIG!HasTriggers(schema) /\ "body" \notin schema
      /\ \A m \in DOMAIN heading : fts[m] = [title |-> heading[m], tags |-> MIG!TagNames(tags, refs, m)]
  BY <1>1, ReadyIs
<1>4. /\ DOMAIN heading' = DOMAIN heading \ {n}
      /\ \A m \in DOMAIN heading' : heading'[m] = heading[m]
  BY <1>1
<1>5. Keys'
  <2>1. \E b \in Nat : DOMAIN updates' \subseteq 1 .. b
    BY <1>1, <1>2 DEF Keys
  <2>2. DOMAIN refs' = MIG!RefTables
    BY <1>1
  <2>3. ASSUME NEW table \in MIG!RefTables PROVE refs'[table] \subseteq (DOMAIN heading') \X (DOMAIN tags')
    <3>1. refs'[table] = {p \in refs[table] : p[1] # n}
      BY <1>1
    <3>2. refs[table] \subseteq (DOMAIN heading) \X (DOMAIN tags)
      BY <1>2 DEF Keys
    <3>3. QED
      BY <1>1, <1>4, <3>1, <3>2
  <2>4. QED
    BY <1>1, <1>2, <1>4, <2>1, <2>2, <2>3 DEF Keys
<1>6. Texts'
  <2>1. ASSUME NEW m \in DOMAIN heading' PROVE MIG!LatestBody(m)' = wrote'[m]
    <3>1. m \in DOMAIN heading /\ m # n
      BY <1>4
    <3>2. History(m)' = History(m)
      BY <1>1, <3>1 DEF History
    <3>3. \A i \in History(m) : updates'[i] = updates[i]
      BY <1>1, <3>1 DEF History
    <3>4. MIG!LatestBody(m) = wrote[m]
      BY <1>2, <3>1 DEF Texts
    <3>5. CASE History(m) = {}
      BY <1>1, <1>3, <3>2, <3>4, <3>5, Zenon DEF MIG!LatestBody, History
    <3>6. CASE History(m) # {}
      <4>1. PICK b \in Nat : DOMAIN updates \subseteq 1 .. b
        BY <1>2 DEF Keys
      <4>2. History(m) \in SUBSET (1 .. b)
        BY <4>1 DEF History
      <4>3. MIG!LastId(History(m)) \in History(m)
        BY <3>6, <4>2, LastIdIs
      <4>4. MIG!LatestBody(m) = updates[MIG!LastId(History(m))].body
        BY <3>6 DEF MIG!LatestBody, History
      <4>5. MIG!LatestBody(m)' = updates'[MIG!LastId(History(m)')].body
        BY <3>2, <3>6 DEF MIG!LatestBody, History, MIG!LastId
      <4>6. QED
        BY <1>1, <3>2, <3>3, <3>4, <4>3, <4>4, <4>5
    <3>7. QED
      BY <3>5, <3>6
  <2>2. "body" \notin schema'
    BY <1>1, <1>3
  <2>3. QED
    BY <2>1, <2>2, Zenon DEF Texts
<1>7. Indexed'
  <2>1. "notes_ad" \in schema
    BY <1>3, EightTriggers
  <2>2. DOMAIN fts' = DOMAIN fts \ {n} /\ \A m \in DOMAIN fts' : fts'[m] = fts[m]
    BY <1>1, <2>1
  <2>3. ASSUME NEW m \in DOMAIN heading'
        PROVE  MIG!TagNames(tags', refs', m) = MIG!TagNames(tags, refs, m)
    <3>1. m # n
      BY <1>4
    <3>2. ASSUME NEW table \in MIG!RefTables, NEW t PROVE <<m, t>> \in refs'[table] <=> <<m, t>> \in refs[table]
      <4>1. refs'[table] = {p \in refs[table] : p[1] # n}
        BY <1>1
      <4>2. <<m, t>>[1] = m
        OBVIOUS
      <4>3. QED
        BY <3>1, <4>1, <4>2
    <3>3. \A table \in MIG!RefTables : \A t : <<m, t>> \in refs[table] => t \in DOMAIN tags
      BY <1>2 DEF Keys
    <3>4. QED
      BY <1>1, <3>2, <3>3, SameNames
  <2>4. \A m \in DOMAIN heading' : fts'[m] = [title |-> heading'[m], tags |-> MIG!TagNames(tags', refs', m)]
    BY <1>3, <1>4, <2>2, <2>3
  <2>5. Tidy'
    BY <1>1, <1>3 DEF Tidy
  <2>6. QED
    BY <1>1, <1>3, <1>4, <2>2, <2>4, <2>5, ServedIndex
<1>8. Deduped'
  BY <1>1, <1>2 DEF Deduped
<1>9. QED
  BY <1>5, <1>6, <1>7, <1>8 DEF DatabaseInv

\* A step that changes none of the tables in question.
LEMMA DatabaseStays ==
  ASSUME DatabaseInv, schema' = schema, heading' = heading, body' = body, updates' = updates, wrote' = wrote,
         tags' = tags, refs' = refs, fts' = fts, runs' = runs, at' = at
  PROVE  DatabaseInv'
<1>1. Keys /\ Texts /\ Indexed /\ Deduped
  BY DEF DatabaseInv
<1>2. Texts'
  BY <1>1, TextsStay
<1>3. Keys' /\ Deduped'
  BY <1>1 DEF Keys, Deduped
<1>4. Tidy <=> Tidy'
  BY DEF Tidy
<1>5. Indexed'
  BY <1>1, <1>4 DEF Indexed
<1>6. QED
  BY <1>2, <1>3, <1>5 DEF DatabaseInv

LEMMA ReindexKeeps ==
  ASSUME DatabaseInv, MIG!Reindex
  PROVE  DatabaseInv'
BY DatabaseStays DEF MIG!Reindex, MIG!texts, MIG!tagging

LEMMA DatabaseNext == DatabaseInv /\ [MIG!Next]_(MIG!vars) => DatabaseInv'
<1> SUFFICES ASSUME DatabaseInv, [MIG!Next]_(MIG!vars) PROVE DatabaseInv'
  OBVIOUS
<1>1. Keys /\ Texts /\ Indexed /\ Deduped
  BY DEF DatabaseInv
<1>2. CASE MIG!Start \/ MIG!Fail \/ MIG!Crash
  BY <1>1, <1>2, TextsStart, DatabaseStart DEF DatabaseInv
<1>3. CASE MIG!Migrate
  BY <1>1, <1>3, TextsMigrate, DatabaseMigrate DEF DatabaseInv
<1>4. CASE MIG!Serve
  BY <1>4, SaveNoteKeeps, SaveAutoTagsKeeps, SaveTitleKeeps, DeleteNoteKeeps, ReindexKeeps DEF MIG!Serve
<1>5. CASE UNCHANGED MIG!vars
  BY <1>5, DatabaseStays DEF MIG!vars, MIG!data, MIG!texts, MIG!tagging
<1>6. QED
  BY <1>2, <1>3, <1>4, <1>5 DEF MIG!Next
--------------------------------------------------------------------------------
(* The properties of the database                                              *)

\* The index has the names of the tags that the references lead to.
LEMMA DatabaseHolds == DatabaseInv => MIG!TextsKept /\ MIG!FtsInSync
<1> SUFFICES ASSUME DatabaseInv PROVE MIG!TextsKept /\ MIG!FtsInSync
  OBVIOUS
<1>1. MIG!TextsKept
  BY DEF DatabaseInv, Texts, MIG!TextsKept
<1>2. ASSUME MIG!IsReady
      PROVE  /\ DOMAIN fts = DOMAIN heading
             /\ \A n \in DOMAIN heading :
                   fts[n] = [title |-> heading[n],
                             tags |-> {tags[p[2]] : p \in {q \in UNION {refs[table] : table \in MIG!RefTables} :
                                                              q[1] = n}}]
  <2>1. DOMAIN fts = DOMAIN heading
        /\ \A n \in DOMAIN heading :
              fts[n] = [title |-> heading[n], tags |-> MIG!TagNames(tags, refs, n)]
    BY <1>2, ReadyIs
  <2>2. ASSUME NEW n \in DOMAIN heading
        PROVE  MIG!TagNames(tags, refs, n)
                 = {tags[p[2]] : p \in {q \in UNION {refs[table] : table \in MIG!RefTables} : q[1] = n}}
    <3>1. \A table \in MIG!RefTables : \A p \in refs[table] :
             /\ p = <<p[1], p[2]>> /\ p[2] \in DOMAIN tags
      BY DEF DatabaseInv, Keys
    <3>2. ASSUME NEW x \in MIG!TagNames(tags, refs, n)
          PROVE  x \in {tags[p[2]] : p \in {q \in UNION {refs[table] : table \in MIG!RefTables} : q[1] = n}}
      <4>1. PICK t \in DOMAIN tags : x = tags[t] /\ \E table \in MIG!RefTables : <<n, t>> \in refs[table]
        BY <3>2 DEF MIG!TagNames
      <4>2. PICK table \in MIG!RefTables : <<n, t>> \in refs[table]
        BY <4>1
      <4>3. <<n, t>> \in UNION {refs[o] : o \in MIG!RefTables} /\ <<n, t>>[1] = n /\ <<n, t>>[2] = t
        BY <4>2
      <4>4. QED
        BY <4>1, <4>3
    <3>3. ASSUME NEW p \in {q \in UNION {refs[table] : table \in MIG!RefTables} : q[1] = n}
          PROVE  tags[p[2]] \in MIG!TagNames(tags, refs, n)
      <4>1. PICK table \in MIG!RefTables : p \in refs[table]
        OBVIOUS
      <4>2. p = <<n, p[2]>> /\ p[2] \in DOMAIN tags
        BY <3>1, <4>1
      <4>3. p[2] \in {u \in DOMAIN tags : \E o \in MIG!RefTables : <<n, u>> \in refs[o]}
        BY <4>1, <4>2
      <4>4. QED
        BY <4>3 DEF MIG!TagNames
    <3>4. QED
      BY <3>2, <3>3
  <2>3. QED
    BY <2>1, <2>2
<1>3. QED
  BY <1>1, <1>2 DEF MIG!FtsInSync

\* A job that goes leaves the oldest with its payload.
LEMMA DedupeKeepsPending ==
  ASSUME Deduped, MIG!Dedupe
  PROVE  MIG!Pending' = MIG!Pending
<1>1. runs' = {r \in runs : r.active /\ r.payload # NoPayload =>
                               \A o \in runs : o.active /\ o.payload = r.payload => r.id <= o.id}
  BY DEF MIG!Dedupe
<1>2. ASSUME NEW s \in runs, s.active
      PROVE  \E r \in runs' : r.active /\ r.payload = s.payload
  <2>1. CASE s.payload = NoPayload
    BY <1>1, <1>2, <2>1
  <2>2. CASE s.payload # NoPayload
    <3>1. PICK ids : ids = {o.id : o \in {r \in runs : r.active /\ r.payload = s.payload}}
      OBVIOUS
    <3>2. ids \in SUBSET Nat /\ ids # {}
      BY <1>2, <3>1 DEF Deduped
    <3>3. PICK least \in ids : \A i \in ids : least <= i
      BY <3>2, HasLeast
    <3>4. PICK r \in runs : r.active /\ r.payload = s.payload /\ r.id = least
      BY <3>1, <3>3
    <3>5. \A o \in runs : o.active /\ o.payload = r.payload => r.id <= o.id
      BY <3>1, <3>3, <3>4
    <3>6. r \in runs'
      BY <1>1, <3>4, <3>5
    <3>7. QED
      BY <3>4, <3>6
  <2>3. QED
    BY <2>1, <2>2
<1>3. runs' \subseteq runs
  BY <1>1
<1>4. MIG!Pending' = {r.payload : r \in {s \in runs' : s.active}}
  BY DEF MIG!Pending
<1>5. MIG!Pending = {r.payload : r \in {s \in runs : s.active}}
  BY DEF MIG!Pending
<1>6. ASSUME NEW s \in runs, s.active PROVE s.payload \in MIG!Pending'
  <2>1. PICK r \in runs' : r.active /\ r.payload = s.payload
    BY <1>2, <1>6
  <2>2. QED
    BY <1>4, <2>1
<1>7. MIG!Pending \subseteq MIG!Pending'
  BY <1>5, <1>6
<1>8. MIG!Pending' \subseteq MIG!Pending
  BY <1>3, <1>4, <1>5
<1>9. QED
  BY <1>7, <1>8

\* A reference that moves leads to a tag with the same normal name.
LEMMA NormalizeKeepsNames ==
  ASSUME Keys, MIG!Normalize, NEW table \in MIG!RefTables
  PROVE  MIG!NormalRefs(table)' = MIG!NormalRefs(table)
<1>1. /\ tags' = [t \in Stay |-> TagNormal[tags[t]]]
      /\ refs'[table] = {<<p[1], MIG!Canonical(p[2])>> : p \in {q \in refs[table] : TagNormal[tags[q[2]]] # ""}}
  BY NormalizedTags
<1>2. \A p \in refs[table] : p = <<p[1], p[2]>> /\ p[1] \in NoteIds /\ p[2] \in DOMAIN tags
  BY DEF Keys
<1>3. ASSUME NEW t \in DOMAIN tags, Name(t) # ""
      PROVE  TagNormal[tags'[MIG!Canonical(t)]] = Name(t)
  <2>1. MIG!Canonical(t) \in Stay /\ Name(MIG!Canonical(t)) = Name(t)
    BY <1>3, CanonicalStays
  <2>2. tags'[MIG!Canonical(t)] = Name(t)
    BY <1>1, <2>1 DEF Name
  <2>3. tags[t] \in TagForms
    BY DEF Keys
  <2>4. QED
    BY <1>3, <2>2, <2>3, Names DEF Name
<1>4. \A x : x \in MIG!NormalRefs(table) <=>
             \E p \in refs[table] : x = <<p[1], Name(p[2])>> /\ Name(p[2]) # ""
  <2>1. ASSUME NEW p \in refs[table]
        PROVE  <<p[1], Name(p[2])>> \in NoteIds \X {""} <=> Name(p[2]) = ""
    BY <1>2
  <2>2. QED
    BY <2>1 DEF MIG!NormalRefs, Name
<1>5. MIG!NormalRefs(table)' = {<<p[1], TagNormal[tags'[p[2]]]>> : p \in refs'[table]} \ (NoteIds \X {""})
  BY DEF MIG!NormalRefs
<1>6. ASSUME NEW x \in MIG!NormalRefs(table) PROVE x \in MIG!NormalRefs(table)'
  <2>1. PICK p \in refs[table] : x = <<p[1], Name(p[2])>> /\ Name(p[2]) # ""
    BY <1>4, <1>6
  <2>2. PICK q \in refs'[table] : q[1] = p[1] /\ q[2] = MIG!Canonical(p[2])
    <3>1. <<p[1], MIG!Canonical(p[2])>> \in refs'[table]
      BY <1>1, <2>1 DEF Name
    <3>2. <<p[1], MIG!Canonical(p[2])>>[1] = p[1] /\ <<p[1], MIG!Canonical(p[2])>>[2] = MIG!Canonical(p[2])
      OBVIOUS
    <3>3. QED
      BY <3>1, <3>2
  <2>3. TagNormal[tags'[MIG!Canonical(p[2])]] = Name(p[2])
    BY <1>2, <1>3, <2>1
  <2>4. x \in {<<r[1], TagNormal[tags'[r[2]]]>> : r \in refs'[table]}
    <3>1. x = <<q[1], TagNormal[tags'[q[2]]]>>
      BY <2>1, <2>2, <2>3
    <3>2. QED
      BY <2>2, <3>1
  <2>5. x \notin NoteIds \X {""}
    BY <2>1
  <2>6. QED
    BY <1>5, <2>4, <2>5
<1>7. ASSUME NEW x \in MIG!NormalRefs(table)' PROVE x \in MIG!NormalRefs(table)
  <2>1. PICK q \in refs'[table] : x = <<q[1], TagNormal[tags'[q[2]]]>>
    BY <1>5, <1>7
  <2>2. PICK p \in refs[table] : q = <<p[1], MIG!Canonical(p[2])>> /\ Name(p[2]) # ""
    BY <1>1, <2>1, Zenon DEF Name
  <2>3. TagNormal[tags'[MIG!Canonical(p[2])]] = Name(p[2])
    BY <1>2, <1>3, <2>2
  <2>4. q[1] = p[1] /\ q[2] = MIG!Canonical(p[2])
    BY <2>2
  <2>5. x = <<p[1], Name(p[2])>>
    BY <2>1, <2>3, <2>4
  <2>6. QED
    BY <1>4, <2>2, <2>5
<1>8. QED
  BY <1>6, <1>7

LEMMA DatabaseKeepsWork ==
  DatabaseInv /\ DatabaseInv' /\ [MIG!Next]_(MIG!vars) => MIG!KeepsWork
<1> SUFFICES ASSUME DatabaseInv, DatabaseInv', [MIG!Next]_(MIG!vars), ~ MIG!IsReady
             PROVE  /\ MIG!Pending' = MIG!Pending
                    /\ \A table \in MIG!RefTables : MIG!NormalRefs(table)' = MIG!NormalRefs(table)
                    /\ MIG!IsReady' => \A r, s \in runs' : r.active /\ s.active /\ r # s =>
                                          r.payload # s.payload \/ r.payload = NoPayload
  BY DEF MIG!KeepsWork
<1>1. MIG!IsReady' => \A r, s \in runs' : r.active /\ s.active /\ r # s =>
                         r.payload # s.payload \/ r.payload = NoPayload
  <2>1. ASSUME MIG!IsReady' PROVE at' > AtDedupe
    <3>1. at' = LastTrigger + 1
      BY <2>1, Places DEF MIG!IsReady, MIG!Ready
    <3>2. QED
      BY <3>1 DEF LastTrigger, AtDedupe
  <2>2. QED
    BY <2>1 DEF DatabaseInv, Deduped
<1>2. Keys /\ Deduped
  BY DEF DatabaseInv
<1>3. ASSUME runs' = runs PROVE MIG!Pending' = MIG!Pending
  BY <1>3 DEF MIG!Pending
<1>4. ASSUME tags' = tags, refs' = refs, NEW table \in MIG!RefTables
      PROVE  MIG!NormalRefs(table)' = MIG!NormalRefs(table)
  BY <1>4 DEF MIG!NormalRefs
<1>5. CASE MIG!Dedupe
  <2>1. tags' = tags /\ refs' = refs
    BY <1>5 DEF MIG!Dedupe, MIG!tagging
  <2>2. QED
    BY <1>1, <1>2, <1>4, <1>5, <2>1, DedupeKeepsPending
<1>6. CASE MIG!Normalize
  <2>1. runs' = runs
    BY <1>6 DEF MIG!Normalize
  <2>2. QED
    BY <1>1, <1>2, <1>3, <1>6, <2>1, NormalizeKeepsNames
<1>7. CASE MIG!Start \/ MIG!Fail \/ MIG!Crash \/ MIG!Ensure \/ MIG!EnsureVec \/ MIG!CopyBody \/ MIG!Backfill
           \/ MIG!DropColumn("DROP_BODY", "body") \/ MIG!DropColumn("DROP_UPDATED_AT", "updated_at")
           \/ UNCHANGED MIG!vars
  <2>1. runs' = runs /\ tags' = tags /\ refs' = refs
    BY <1>7, Zenon DEF MIG!Start, MIG!Fail, MIG!Crash, MIG!Ensure, MIG!EnsureVec, MIG!CopyBody, MIG!Backfill,
                MIG!DropColumn, MIG!vars, MIG!data, MIG!texts, MIG!tagging
  <2>2. QED
    BY <1>1, <1>3, <1>4, <2>1
<1>8. CASE MIG!Serve
  BY <1>8 DEF MIG!Serve, MIG!SaveNote, MIG!SaveAutoTags, MIG!SaveTitle, MIG!DeleteNote, MIG!Reindex
<1>9. QED
  BY <1>5, <1>6, <1>7, <1>8 DEF MIG!Next, MIG!Migrate
LEMMA MigrationsMove ==
  ASSUME [ServerNext]_<<vars, tablesVars>>, part = "migrations"
  PROVE  [MIG!Next]_(MIG!vars)
<1>1. CASE UNCHANGED tablesVars
  BY <1>1 DEF tablesVars, migrationsVars, MIG!vars, MIG!data, MIG!texts, MIG!tagging, MIG!vectorIndex
<1>2. CASE TablesNext
  BY <1>2 DEF TablesNext, MigrationsStep, DailyStep, GroceryStep
<1>3. QED
  BY <1>1, <1>2 DEF ServerNext

LEMMA DatabaseStands == ServerSpec => [](part = "migrations" => DatabaseInv)
<1>1. ServerInit => (part = "migrations" => DatabaseInv)
  BY DatabaseInit DEF ServerInit, TablesInit
<1>2. (part = "migrations" => DatabaseInv) /\ [ServerNext]_<<vars, tablesVars>>
        => (part = "migrations" => DatabaseInv)'
  BY ServerStaysInPart, MigrationsMove, DatabaseNext
<1>3. QED
  BY <1>1, <1>2, PTL DEF ServerSpec

(* However often starts are cut off, fail or are repeated, on a database of    *)
(* any earlier release: the text a user saved last is what is read             *)
(* (db.go:369), and once the server runs the full-text index has every note,   *)
(* with its title and the names of all its tags (db.go:640).                   *)
THEOREM DatabaseStaysWhole == ServerSpec => []DatabaseIsWhole
<1>1. (part = "migrations" => DatabaseInv) => DatabaseIsWhole
  BY DatabaseHolds DEF DatabaseIsWhole
<1>2. QED
  BY <1>1, DatabaseStands, PTL

(* No statement of a start loses a pending job (db.go:265) or a tag of a note, *)
(* up to the normal form of its name (db.go:494), and when the server runs no  *)
(* two pending jobs have one payload.                                          *)
THEOREM StartsKeepWork == ServerSpec => StartKeepsWork
<1>1. (part = "migrations" => DatabaseInv) /\ (part = "migrations" => DatabaseInv)'
        /\ [ServerNext]_<<vars, tablesVars>>
        => [part = "migrations" => MIG!KeepsWork]_tablesVars
  BY ServerStaysInPart, MigrationsMove, DatabaseKeepsWork
<1>2. QED
  BY <1>1, DatabaseStands, PTL DEF ServerSpec, StartKeepsWork
--------------------------------------------------------------------------------
(* Sorting a finite set                                                        *)

\* The place of an element is the number of those before it and one more.
LEMMA CanBeSorted ==
  ASSUME NEW S, IsFiniteSet(S), NEW R,
         \A x \in S : <<x, x>> \notin R,
         \A x, y, z \in S : <<x, y>> \in R /\ <<y, z>> \in R => <<x, z>> \in R,
         \A x, y \in S : x # y => <<x, y>> \in R \/ <<y, x>> \in R
  PROVE  \E s \in [1 .. Cardinality(S) -> S] :
            \A i, j \in 1 .. Cardinality(S) : i < j => <<s[i], s[j]>> \in R
<1>1. PICK n \in Nat : n = Cardinality(S)
  BY FS_CardinalityType
<1>2. PICK Place : Place = [x \in S |-> Cardinality({y \in S : <<y, x>> \in R}) + 1]
  OBVIOUS
<1>3. ASSUME NEW x \in S, NEW T, T = {y \in S : <<y, x>> \in R}
      PROVE  IsFiniteSet(T) /\ Cardinality(T) \in Nat /\ Cardinality(T) < n /\ Place[x] = Cardinality(T) + 1
  <2>1. T \in SUBSET S /\ x \notin T
    BY <1>3
  <2>2. IsFiniteSet(T) /\ Cardinality(T) <= n /\ (n = Cardinality(T) => T = S)
    BY <1>1, <2>1, FS_Subset
  <2>3. Cardinality(T) \in Nat /\ Cardinality(T) # n
    BY <2>1, <2>2, FS_CardinalityType
  <2>4. Place[x] = Cardinality(T) + 1
    BY <1>2, <1>3
  <2>5. QED
    BY <2>2, <2>3, <2>4
<1>4. ASSUME NEW x \in S, NEW y \in S, <<x, y>> \in R PROVE Place[x] < Place[y]
  <2>1. PICK T, U : T = {z \in S : <<z, x>> \in R} /\ U = {z \in S : <<z, y>> \in R}
    OBVIOUS
  <2>2. T \in SUBSET U /\ x \in U /\ x \notin T
    BY <1>4, <2>1
  <2>3. IsFiniteSet(T) /\ IsFiniteSet(U) /\ Cardinality(T) \in Nat /\ Cardinality(U) \in Nat
    BY <1>3, <2>1, Zenon
  <2>4. Cardinality(T) <= Cardinality(U) /\ (Cardinality(U) = Cardinality(T) => U = T)
    BY <2>2, <2>3, FS_Subset
  <2>5. Cardinality(T) < Cardinality(U)
    BY <2>2, <2>3, <2>4
  <2>6. Place[x] = Cardinality(T) + 1 /\ Place[y] = Cardinality(U) + 1
    BY <1>3, <2>1, Zenon
  <2>7. QED
    BY <2>3, <2>5, <2>6
<1>5. ASSUME NEW x \in S PROVE Place[x] \in 1 .. n
  <2>1. PICK T : T = {y \in S : <<y, x>> \in R}
    OBVIOUS
  <2>2. Cardinality(T) \in Nat /\ Cardinality(T) < n /\ Place[x] = Cardinality(T) + 1
    BY <1>3, <2>1, Zenon
  <2>3. QED
    BY <2>2
<1>6. ASSUME NEW x \in S, NEW y \in S, x # y PROVE Place[x] # Place[y]
  <2>1. Place[x] \in Int /\ Place[y] \in Int
    BY <1>5
  <2>2. <<x, y>> \in R \/ <<y, x>> \in R
    BY <1>6
  <2>3. Place[x] < Place[y] \/ Place[y] < Place[x]
    BY <1>4, <2>2, Zenon
  <2>4. QED
    BY <2>1, <2>3
<1>7. PICK P : P = {Place[x] : x \in S}
  OBVIOUS
<1>8. P \in SUBSET (1 .. n)
  BY <1>5, <1>7
<1>9. Place \in Bijection(S, P)
  <2>1. Place \in [S -> P]
    BY <1>2, <1>7
  <2>2. \A x, y \in S : Place[x] = Place[y] => x = y
    BY <1>6
  <2>3. \A p \in P : \E x \in S : Place[x] = p
    BY <1>7
  <2>4. QED
    BY <2>1, <2>2, <2>3 DEF Bijection, Injection, IsInjective, Surjection
<1>10. P = 1 .. n
  <2>1. IsFiniteSet(1 .. n) /\ Cardinality(1 .. n) = n
    BY FS_Interval
  <2>2. Cardinality(P) = n
    BY <1>1, <1>9, FS_Bijection DEF ExistsBijection
  <2>3. QED
    BY <1>8, <2>1, <2>2, FS_Subset
<1>11. ASSUME NEW i \in 1 .. n PROVE \E x \in S : Place[x] = i
  <2>1. i \in P
    BY <1>10
  <2>2. QED
    BY <1>7, <2>1, Zenon
<1>12. PICK s : s = [i \in 1 .. n |-> CHOOSE x \in S : Place[x] = i]
  OBVIOUS
<1>13. \A i \in 1 .. n : s[i] \in S /\ Place[s[i]] = i
  BY <1>11, <1>12
<1>14. ASSUME NEW i \in 1 .. n, NEW j \in 1 .. n, i < j PROVE <<s[i], s[j]>> \in R
  <2>1. s[i] # s[j]
    BY <1>13, <1>14
  <2>2. <<s[j], s[i]>> \notin R
    BY <1>4, <1>13, <1>14
  <2>3. QED
    BY <1>13, <2>1, <2>2
<1>15. s \in [1 .. n -> S]
  BY <1>12, <1>13
<1>16. QED
  BY <1>1, <1>14, <1>15
--------------------------------------------------------------------------------
(* The daily lists: the order of the tasks and what is picked                  *)

\* Notes as a maker loads them, deleted ones included.
TodoRow == [status : {"todo", "in_progress", "done", "deleted"}, due : Int, priority : Int,
            rest : Int, quiet : BOOLEAN]

LEMMA ScoresAreNumbers ==
  ASSUME NEW x \in TodoRow, NEW day \in Int
  PROVE  /\ DAY!Rank(x, day) \in Int /\ DAY!Score(x, day) \in Int /\ DAY!DueInDays(x, day) \in Int
         /\ x.priority \in Int
<1>1. x.due \in Int /\ x.priority \in Int /\ x.rest \in Int
  BY DEF TodoRow
<1>2. DAY!DueInDays(x, day) \in Int
  BY <1>1 DEF DAY!DueInDays, DAY!NoDue
<1>3. DAY!Rank(x, day) \in Int
  BY DEF DAY!Rank
<1>4. Weight.due \in Int /\ Weight.priority \in Int /\ UrgentDueDays \in Int
  BY DaysAssumption
<1>5. x.priority * Weight.priority \in Int
  BY <1>1, <1>4
<1>6. (UrgentDueDays + 1 - DAY!DueInDays(x, day)) * Weight.due \in Int
  <2>1. UrgentDueDays + 1 - DAY!DueInDays(x, day) \in Int
    BY <1>2, <1>4
  <2>2. QED
    BY <1>4, <2>1
<1>7. DAY!Score(x, day) \in Int
  BY <1>1, <1>5, <1>6 DEF DAY!Score
<1>8. QED
  BY <1>1, <1>2, <1>3, <1>7

\* The first of the five numbers that differ decides.
Precedes(k, l) ==
    \/ k[1] < l[1]
    \/ k[1] = l[1] /\ k[2] < l[2]
    \/ k[1] = l[1] /\ k[2] = l[2] /\ k[3] < l[3]
    \/ k[1] = l[1] /\ k[2] = l[2] /\ k[3] = l[3] /\ k[4] < l[4]
    \/ k[1] = l[1] /\ k[2] = l[2] /\ k[3] = l[3] /\ k[4] = l[4] /\ k[5] < l[5]

LEMMA FirstDecides ==
  ASSUME NEW k, NEW l
  PROVE  (\E i \in 1 .. 5 : k[i] < l[i] /\ \A j \in 1 .. i - 1 : k[j] = l[j]) <=> Precedes(k, l)
<1>1. ASSUME NEW i \in 1 .. 5, k[i] < l[i], \A j \in 1 .. i - 1 : k[j] = l[j] PROVE Precedes(k, l)
  <2>1. i = 1 \/ i = 2 \/ i = 3 \/ i = 4 \/ i = 5
    OBVIOUS
  <2>2. QED
    BY <1>1, <2>1 DEF Precedes
<1>2. ASSUME Precedes(k, l) PROVE \E i \in 1 .. 5 : k[i] < l[i] /\ \A j \in 1 .. i - 1 : k[j] = l[j]
  <2>1. CASE k[1] < l[1]
    <3>1. 1 \in 1 .. 5 /\ \A j \in 1 .. 1 - 1 : k[j] = l[j]
      OBVIOUS
    <3>2. QED
      BY <2>1, <3>1
  <2>2. CASE k[1] = l[1] /\ k[2] < l[2]
    <3>1. 2 \in 1 .. 5 /\ \A j \in 1 .. 2 - 1 : k[j] = l[j]
      BY <2>2
    <3>2. QED
      BY <2>2, <3>1
  <2>3. CASE k[1] = l[1] /\ k[2] = l[2] /\ k[3] < l[3]
    <3>1. 3 \in 1 .. 5 /\ \A j \in 1 .. 3 - 1 : k[j] = l[j]
      BY <2>3
    <3>2. QED
      BY <2>3, <3>1
  <2>4. CASE k[1] = l[1] /\ k[2] = l[2] /\ k[3] = l[3] /\ k[4] < l[4]
    <3>1. 4 \in 1 .. 5 /\ \A j \in 1 .. 4 - 1 : k[j] = l[j]
      BY <2>4
    <3>2. QED
      BY <2>4, <3>1
  <2>5. CASE k[1] = l[1] /\ k[2] = l[2] /\ k[3] = l[3] /\ k[4] = l[4] /\ k[5] < l[5]
    <3>1. 5 \in 1 .. 5 /\ \A j \in 1 .. 5 - 1 : k[j] = l[j]
      BY <2>5
    <3>2. QED
      BY <2>5, <3>1
  <2>6. QED
    BY <1>2, <2>1, <2>2, <2>3, <2>4, <2>5 DEF Precedes
<1>3. QED
  BY <1>1, <1>2

KeyOf(ts, day, t) ==
    <<-DAY!Rank(ts[t], day), -DAY!Score(ts[t], day), DAY!DueInDays(ts[t], day), -ts[t].priority, t>>

LEMMA BeforeIs ==
  ASSUME NEW ts, NEW day, NEW a, NEW b
  PROVE  DAY!Before(ts, day, a, b) <=> Precedes(KeyOf(ts, day, a), KeyOf(ts, day, b))
<1>1. DAY!Before(ts, day, a, b) <=>
         \E i \in 1 .. 5 : /\ KeyOf(ts, day, a)[i] < KeyOf(ts, day, b)[i]
                           /\ \A j \in 1 .. i - 1 : KeyOf(ts, day, a)[j] = KeyOf(ts, day, b)[j]
  BY DEF DAY!Before, KeyOf
<1>2. QED
  BY <1>1, FirstDecides

Key == Int \X Int \X Int \X Int \X Int

\* No two tasks have the same key: its last number is the id.
LEMMA PrecedesIsOrder ==
  /\ \A k \in Key : ~ Precedes(k, k)
  /\ \A k, l, m \in Key : Precedes(k, l) /\ Precedes(l, m) => Precedes(k, m)
  /\ \A k, l \in Key : k[5] # l[5] => Precedes(k, l) \/ Precedes(l, k)
<1>1. ASSUME NEW k \in Key PROVE ~ Precedes(k, k)
  BY DEF Key, Precedes
<1>2. ASSUME NEW k \in Key, NEW l \in Key, NEW m \in Key, Precedes(k, l), Precedes(l, m) PROVE Precedes(k, m)
  BY <1>2 DEF Key, Precedes
<1>3. ASSUME NEW k \in Key, NEW l \in Key, k[5] # l[5] PROVE Precedes(k, l) \/ Precedes(l, k)
  BY <1>3 DEF Key, Precedes
<1>4. QED
  BY <1>1, <1>2, <1>3

LEMMA KeyIsKey ==
  ASSUME NEW ts \in [Todos -> TodoRow], NEW day \in Int, NEW t \in Todos
  PROVE  KeyOf(ts, day, t) \in Key
<1>1. ts[t] \in TodoRow /\ t \in Int
  BY DaysAssumption
<1>2. /\ DAY!Rank(ts[t], day) \in Int /\ DAY!Score(ts[t], day) \in Int /\ DAY!DueInDays(ts[t], day) \in Int
      /\ ts[t].priority \in Int
  BY <1>1, ScoresAreNumbers
<1>3. QED
  BY <1>1, <1>2 DEF KeyOf, Key

\* The instance counts with a Cardinality of its own.
LEMMA DaysCount == \A S : DAY!Cardinality(S) = Cardinality(S)
BY DEF DAY!Cardinality, Cardinality

\* What is sorted is each task once, in order.
LEMMA ScoredIs ==
  ASSUME NEW ts \in [Todos -> TodoRow], NEW day \in Int, NEW S \in SUBSET Todos,
         NEW n, n = Cardinality(S), NEW s, s = DAY!Scored(S, ts, day)
  PROVE  /\ IsFiniteSet(S) /\ n \in Nat
         /\ s \in Seq(S) /\ Len(s) = n
         /\ \A i, j \in 1 .. n : i < j => Precedes(KeyOf(ts, day, s[i]), KeyOf(ts, day, s[j]))
         /\ \A i, j \in 1 .. n : s[i] = s[j] => i = j
         /\ \A x \in S : \E i \in 1 .. n : s[i] = x
<1>1. IsFiniteSet(S) /\ n \in Nat
  BY DaysAssumption, FS_Subset, FS_CardinalityType
<1>2. PICK R : R = {p \in S \X S : Precedes(KeyOf(ts, day, p[1]), KeyOf(ts, day, p[2]))}
  OBVIOUS
<1>3. \A x, y \in S : <<x, y>> \in R <=> Precedes(KeyOf(ts, day, x), KeyOf(ts, day, y))
  BY <1>2
<1>4. \A x \in S : KeyOf(ts, day, x) \in Key /\ KeyOf(ts, day, x)[5] = x
  <2>1. ASSUME NEW x \in S PROVE KeyOf(ts, day, x) \in Key /\ KeyOf(ts, day, x)[5] = x
    <3>1. KeyOf(ts, day, x) \in Key
      BY KeyIsKey
    <3>2. KeyOf(ts, day, x)[5] = x
      BY DEF KeyOf
    <3>3. QED
      BY <3>1, <3>2
  <2>2. QED
    BY <2>1
<1>5. \A x \in S : <<x, x>> \notin R
  BY <1>3, <1>4, PrecedesIsOrder
<1>6. ASSUME NEW x \in S, NEW y \in S, NEW z \in S, <<x, y>> \in R, <<y, z>> \in R PROVE <<x, z>> \in R
  BY <1>3, <1>4, <1>6, PrecedesIsOrder
<1>7. ASSUME NEW x \in S, NEW y \in S, x # y PROVE <<x, y>> \in R \/ <<y, x>> \in R
  BY <1>3, <1>4, <1>7, PrecedesIsOrder
<1>8. \E q \in [1 .. Cardinality(S) -> S] :
         \A i, j \in 1 .. Cardinality(S) : i < j => <<q[i], q[j]>> \in R
  BY <1>1, <1>5, <1>6, <1>7, CanBeSorted
<1>9. \E q \in [1 .. DAY!Cardinality(S) -> S] :
         \A i, j \in DOMAIN q : i < j => DAY!Before(ts, day, q[i], q[j])
  <2>1. PICK q \in [1 .. n -> S] : \A i, j \in 1 .. n : i < j => <<q[i], q[j]>> \in R
    BY <1>8
  <2>2. ASSUME NEW i \in DOMAIN q, NEW j \in DOMAIN q, i < j PROVE DAY!Before(ts, day, q[i], q[j])
    <3>1. i \in 1 .. n /\ j \in 1 .. n /\ q[i] \in S /\ q[j] \in S
      BY <2>1
    <3>2. QED
      BY <1>3, <2>1, <2>2, <3>1, BeforeIs
  <2>3. q \in [1 .. DAY!Cardinality(S) -> S]
    BY <2>1, DaysCount
  <2>4. QED
    BY <2>2, <2>3
<1>10. s = CHOOSE q \in [1 .. DAY!Cardinality(S) -> S] :
              \A i, j \in DOMAIN q : i < j => DAY!Before(ts, day, q[i], q[j])
  BY DEF DAY!Scored, DAY!Sorted
<1>11. /\ s \in [1 .. DAY!Cardinality(S) -> S]
       /\ \A i, j \in DOMAIN s : i < j => DAY!Before(ts, day, s[i], s[j])
  BY <1>9, <1>10, Zenon
<1>12. s \in [1 .. n -> S] /\ \A i, j \in 1 .. n : i < j => DAY!Before(ts, day, s[i], s[j])
  BY <1>11, DaysCount
<1>13. s \in Seq(S) /\ Len(s) = n
  BY <1>1, <1>12
<1>14. \A i, j \in 1 .. n : i < j => Precedes(KeyOf(ts, day, s[i]), KeyOf(ts, day, s[j]))
  BY <1>12, BeforeIs
<1>15. ASSUME NEW i \in 1 .. n, NEW j \in 1 .. n, s[i] = s[j] PROVE i = j
  <2>1. s[i] \in S /\ ~ Precedes(KeyOf(ts, day, s[i]), KeyOf(ts, day, s[i]))
    BY <1>4, <1>12, PrecedesIsOrder
  <2>2. ~ (i < j) /\ ~ (j < i)
    BY <1>14, <1>15, <2>1
  <2>3. QED
    BY <2>2
<1>16. s \in Surjection(1 .. n, S)
  <2>1. IsFiniteSet(1 .. n) /\ Cardinality(1 .. n) = n
    BY <1>1, FS_Interval
  <2>2. PICK T : T = {s[i] : i \in 1 .. n}
    OBVIOUS
  <2>3. T \in SUBSET S
    BY <1>12, <2>2
  <2>4. s \in Bijection(1 .. n, T)
    BY <1>12, <1>15, <2>2 DEF Bijection, Injection, IsInjective, Surjection
  <2>5. Cardinality(T) = n
    BY <2>1, <2>4, FS_Bijection DEF ExistsBijection
  <2>6. T = S
    BY <1>1, <2>3, <2>5, FS_Subset
  <2>7. QED
    BY <2>4, <2>6 DEF Bijection
<1>17. \A x \in S : \E i \in 1 .. n : s[i] = x
  BY <1>16 DEF Surjection
<1>18. QED
  BY <1>1, <1>13, <1>14, <1>15, <1>17
Openable(ts) == {t \in Todos : ts[t].status \in {"todo", "in_progress"}}
Pressing(ts, day) == {t \in Openable(ts) : DAY!Forced(ts[t], day)}
Optional(ts, day) == {t \in Openable(ts) : ~ DAY!Forced(ts[t], day)}

LEMMA OpenAre ==
  ASSUME NEW ts \in [Todos -> TodoRow]
  PROVE  DAY!OpenTasks(ts) = Openable(ts)
<1>1. \A t \in Todos : ts[t].status \in {"todo", "in_progress", "done", "deleted"}
  BY DEF TodoRow
<1>2. DOMAIN ts = Todos
  OBVIOUS
<1>3. QED
  BY <1>1, <1>2 DEF DAY!OpenTasks, Openable

\* All that press, and as many others as there is room for.
IsSelection(ts, day, f, o, k) ==
    /\ f = DAY!Scored(Pressing(ts, day), ts, day) /\ o = DAY!Scored(Optional(ts, day), ts, day)
    /\ k = IF scenario.count < Len(f) THEN 0
           ELSE IF scenario.count - Len(f) < Len(o) THEN scenario.count - Len(f) ELSE Len(o)
    /\ k \in 0 .. Len(o)
    /\ DAY!Selected(ts, day) \in Seq(Todos) /\ Len(DAY!Selected(ts, day)) = Len(f) + k
    /\ \A i \in 1 .. Len(f) : DAY!Selected(ts, day)[i] = f[i]
    /\ \A j \in 1 .. k : DAY!Selected(ts, day)[Len(f) + j] = o[j]

LEMMA SelectedIs ==
  ASSUME NEW ts \in [Todos -> TodoRow], NEW day \in Int, scenario.count \in Nat \ {0}
  PROVE  \E f, o, k : IsSelection(ts, day, f, o, k)
<1>1. PICK f, o, picked : /\ f = DAY!Scored(Pressing(ts, day), ts, day)
                          /\ o = DAY!Scored(Optional(ts, day), ts, day)
                          /\ picked = DAY!Selected(ts, day)
  OBVIOUS
<1>2. PICK k : k = IF scenario.count < Len(f) THEN 0
                   ELSE IF scenario.count - Len(f) < Len(o) THEN scenario.count - Len(f) ELSE Len(o)
  OBVIOUS
<1>3. Pressing(ts, day) \in SUBSET Todos /\ Optional(ts, day) \in SUBSET Todos
  BY DEF Pressing, Optional, Openable
<1>4. f \in Seq(Pressing(ts, day)) /\ o \in Seq(Optional(ts, day))
  BY <1>3, <1>1, ScoredIs
<1>5. f \in Seq(Todos) /\ o \in Seq(Todos) /\ Len(f) \in Nat /\ Len(o) \in Nat
  BY <1>3, <1>4
<1>6. k \in 0 .. Len(o)
  BY <1>5, <1>2
<1>7. f = DAY!Scored({t \in DAY!OpenTasks(ts) : DAY!Forced(ts[t], day)}, ts, day)
  BY <1>1, OpenAre DEF Pressing
<1>8. o = DAY!Scored({t \in DAY!OpenTasks(ts) : ~ DAY!Forced(ts[t], day)}, ts, day)
  BY <1>1, OpenAre DEF Optional
<1>9. picked = f \o SubSeq(o, 1, k)
  <2>1. picked = LET target == IF scenario.count < 1 THEN 1 ELSE scenario.count
                     room == IF Len(f) > target THEN 0 ELSE target - Len(f) IN
                 f \o SubSeq(o, 1, IF room < Len(o) THEN room ELSE Len(o))
    BY <1>7, <1>8, <1>1 DEF DAY!Selected
  <2>2. ~ (scenario.count < 1)
    OBVIOUS
  <2>3. CASE scenario.count < Len(f)
    <3>1. k = 0 /\ Len(f) > scenario.count
      BY <2>3, <1>5, <1>2
    <3>2. (IF 0 < Len(o) THEN 0 ELSE Len(o)) = k
      BY <1>5, <3>1
    <3>3. QED
      BY <2>1, <2>2, <3>1, <3>2
  <2>4. CASE ~ (scenario.count < Len(f))
    <3>1. ~ (Len(f) > scenario.count)
      BY <2>4, <1>5
    <3>2. QED
      BY <1>2, <2>1, <2>2, <2>4, <3>1
  <2>5. QED
    BY <2>3, <2>4
<1>10. PICK e : e = SubSeq(o, 1, k)
  OBVIOUS
<1>11. e \in Seq(Todos) /\ Len(e) = k /\ \A j \in 1 .. k : e[j] = o[j]
  <2>1. 1 \in Int /\ k \in Int /\ \A j \in 1 .. k : o[j] \in Todos
    BY <1>5, <1>6
  <2>2. /\ e \in Seq(Todos) /\ Len(e) = IF 1 <= k THEN k - 1 + 1 ELSE 0
        /\ \A j \in 1 .. k - 1 + 1 : e[j] = o[1 + j - 1]
    BY <1>10, <2>1, SubSeqProperties
  <2>3. QED
    BY <1>6, <2>2
<1>12. /\ picked \in Seq(Todos) /\ Len(picked) = Len(f) + Len(e)
       /\ \A i \in 1 .. Len(f) + Len(e) : picked[i] = IF i <= Len(f) THEN f[i] ELSE e[i - Len(f)]
  BY <1>5, <1>9, <1>10, <1>11, ConcatProperties
<1>13. \A i \in 1 .. Len(f) : picked[i] = f[i]
  BY <1>5, <1>6, <1>11, <1>12
<1>14. ASSUME NEW j \in 1 .. k PROVE picked[Len(f) + j] = o[j]
  <2>1. PICK m : m = Len(f) + j
    OBVIOUS
  <2>2. m \in 1 .. Len(f) + Len(e) /\ ~ (m <= Len(f)) /\ m - Len(f) = j
    BY <1>5, <1>6, <1>11, <2>1
  <2>3. picked[m] = e[m - Len(f)]
    BY <1>12, <2>2
  <2>4. QED
    BY <1>11, <2>1, <2>2, <2>3
<1>15. IsSelection(ts, day, f, o, k)
  BY <1>5, <1>6, <1>11, <1>12, <1>13, <1>14, <1>1, <1>2 DEF IsSelection
<1>16. QED
  BY <1>15
LEMMA ForcedIs ==
  ASSUME NEW x \in TodoRow, NEW day \in Int
  PROVE  /\ DAY!DueSoon(x, day) <=> x.due # DAY!NoDue /\ x.due <= day + UrgentDueDays
         /\ DAY!Forced(x, day) <=> \/ x.due # DAY!NoDue /\ x.due <= day + UrgentDueDays
                                   \/ x.status = "in_progress" /\ ~ x.quiet
<1>1. x.due \in Int /\ UrgentDueDays \in Int /\ UrgentDueDays < DAY!NoDue
  BY DaysAssumption DEF TodoRow
<1>2. DAY!DueSoon(x, day) <=> x.due # DAY!NoDue /\ x.due <= day + UrgentDueDays
  BY <1>1 DEF DAY!DueSoon, DAY!DueInDays, DAY!NoDue
<1>3. QED
  BY <1>2 DEF DAY!Forced, DAY!Pending

WorthOf(ts, t) == ts[t].priority * Weight.priority + ts[t].rest

\* The optional tasks are sorted by what they are worth.
LEMMA OptionalByWorth ==
  ASSUME NEW ts \in [Todos -> TodoRow], NEW day \in Int, NEW t \in Optional(ts, day), NEW u \in Optional(ts, day),
         Precedes(KeyOf(ts, day, t), KeyOf(ts, day, u))
  PROVE  WorthOf(ts, u) <= WorthOf(ts, t)
<1>1. ASSUME NEW x \in Optional(ts, day)
      PROVE  /\ DAY!Rank(ts[x], day) = 0 /\ DAY!Score(ts[x], day) = WorthOf(ts, x) /\ WorthOf(ts, x) \in Int
  <2>1. x \in Todos /\ ts[x] \in TodoRow /\ ~ DAY!DueSoon(ts[x], day) /\ ~ DAY!Pending(ts[x])
    BY DEF Optional, Openable, DAY!Forced
  <2>2. ts[x].priority \in Int /\ ts[x].rest \in Int /\ Weight.priority \in Int
    BY <2>1, DaysAssumption DEF TodoRow
  <2>3. ts[x].priority * Weight.priority \in Int
    BY <2>2
  <2>4. QED
    BY <2>1, <2>2, <2>3 DEF DAY!Rank, DAY!Score, WorthOf
<1>2. /\ KeyOf(ts, day, t)[1] = 0 /\ KeyOf(ts, day, u)[1] = 0
      /\ KeyOf(ts, day, t)[2] = - WorthOf(ts, t) /\ KeyOf(ts, day, u)[2] = - WorthOf(ts, u)
  BY <1>1 DEF KeyOf
<1>3. - WorthOf(ts, t) <= - WorthOf(ts, u)
  BY <1>1, <1>2 DEF Precedes
<1>4. QED
  BY <1>1, <1>3

Taken(picked) == {picked[i] : i \in DOMAIN picked}

\* The picked list is the best: all that press, none twice, as many as there
\* should be, and nothing left out is worth more than an optional one.
LEMMA SelectedIsBest ==
  ASSUME NEW ts \in [Todos -> TodoRow], NEW day \in Int, scenario.count \in Nat \ {0},
         NEW picked, picked = DAY!Selected(ts, day)
  PROVE  /\ picked \in Seq(Todos)
         /\ Pressing(ts, day) \subseteq Taken(picked) /\ Taken(picked) \subseteq Openable(ts)
         /\ \A i, j \in DOMAIN picked : picked[i] = picked[j] => i = j
         /\ Cardinality(Taken(picked)) =
               IF Cardinality(Pressing(ts, day))
                    > (IF scenario.count < Cardinality(Openable(ts)) THEN scenario.count ELSE Cardinality(Openable(ts)))
               THEN Cardinality(Pressing(ts, day))
               ELSE IF scenario.count < Cardinality(Openable(ts)) THEN scenario.count ELSE Cardinality(Openable(ts))
         /\ \A t \in Taken(picked) \ Pressing(ts, day), u \in Openable(ts) \ Taken(picked) :
               WorthOf(ts, u) <= WorthOf(ts, t)
<1>1. PICK f, o, k : IsSelection(ts, day, f, o, k)
  BY SelectedIs
<1>2. /\ f = DAY!Scored(Pressing(ts, day), ts, day) /\ o = DAY!Scored(Optional(ts, day), ts, day)
      /\ k = IF scenario.count < Len(f) THEN 0
             ELSE IF scenario.count - Len(f) < Len(o) THEN scenario.count - Len(f) ELSE Len(o)
      /\ k \in 0 .. Len(o) /\ picked \in Seq(Todos) /\ Len(picked) = Len(f) + k
      /\ \A i \in 1 .. Len(f) : picked[i] = f[i]
      /\ \A j \in 1 .. k : picked[Len(f) + j] = o[j]
  BY <1>1 DEF IsSelection
<1>3. PICK P, O, N : P = Pressing(ts, day) /\ O = Optional(ts, day) /\ N = Openable(ts)
  OBVIOUS
<1>4. P \in SUBSET Todos /\ O \in SUBSET Todos /\ N = P \cup O /\ P \cap O = {}
  BY <1>3 DEF Pressing, Optional, Openable
<1>5. PICK m, n : m = Cardinality(P) /\ n = Cardinality(O)
  OBVIOUS
<1>6. /\ IsFiniteSet(P) /\ m \in Nat /\ f \in Seq(P) /\ Len(f) = m
      /\ \A i, j \in 1 .. m : f[i] = f[j] => i = j
      /\ \A x \in P : \E i \in 1 .. m : f[i] = x
  <2>1. f = DAY!Scored(P, ts, day) /\ P \in SUBSET Todos /\ m = Cardinality(P)
    BY <1>2, <1>3, <1>4, <1>5
  <2>2. QED
    BY <2>1, ScoredIs
<1>7. /\ IsFiniteSet(O) /\ n \in Nat /\ o \in Seq(O) /\ Len(o) = n
      /\ \A i, j \in 1 .. n : i < j => Precedes(KeyOf(ts, day, o[i]), KeyOf(ts, day, o[j]))
      /\ \A i, j \in 1 .. n : o[i] = o[j] => i = j
      /\ \A x \in O : \E i \in 1 .. n : o[i] = x
  <2>1. o = DAY!Scored(O, ts, day) /\ O \in SUBSET Todos /\ n = Cardinality(O)
    BY <1>2, <1>3, <1>4, <1>5
  <2>2. \A i, j \in 1 .. n : i < j => Precedes(KeyOf(ts, day, o[i]), KeyOf(ts, day, o[j]))
    BY <2>1, ScoredIs, Zenon
  <2>3. /\ IsFiniteSet(O) /\ n \in Nat /\ o \in Seq(O) /\ Len(o) = n
        /\ \A i, j \in 1 .. n : o[i] = o[j] => i = j
        /\ \A x \in O : \E i \in 1 .. n : o[i] = x
    BY <2>1, ScoredIs
  <2>4. QED
    BY <2>2, <2>3
<1>8. /\ k \in 0 .. n /\ picked \in Seq(Todos) /\ Len(picked) = m + k
      /\ \A i \in 1 .. m : picked[i] = f[i]
      /\ \A j \in 1 .. k : picked[m + j] = o[j]
  BY <1>2, <1>6, <1>7
<1>9. DOMAIN picked = 1 .. m + k
  BY <1>8
<1>10. ASSUME NEW i \in 1 .. m + k
       PROVE  \/ i \in 1 .. m /\ picked[i] = f[i] /\ picked[i] \in P
              \/ \E j \in 1 .. k : i = m + j /\ picked[i] = o[j] /\ picked[i] \in O
  <2>1. CASE i <= m
    <3>1. i \in 1 .. m
      BY <1>6, <2>1
    <3>2. QED
      BY <1>6, <1>8, <3>1
  <2>2. CASE ~ (i <= m)
    <3>1. PICK j \in 1 .. k : i = m + j
      <4>1. i - m \in 1 .. k /\ i = m + (i - m)
        BY <1>6, <1>8, <2>2
      <4>2. QED
        BY <4>1
    <3>2. j \in 1 .. n
      BY <1>7, <1>8
    <3>3. picked[i] = o[j] /\ o[j] \in O
      BY <1>7, <1>8, <3>1, <3>2
    <3>4. QED
      BY <3>1, <3>3
  <2>3. QED
    BY <2>1, <2>2
<1>11. ASSUME NEW i \in 1 .. m + k, NEW j \in 1 .. m + k, picked[i] = picked[j] PROVE i = j
  <2>1. CASE picked[i] \in P
    <3>1. picked[i] \notin O /\ picked[j] \notin O
      BY <1>4, <1>11, <2>1
    <3>2. i \in 1 .. m /\ j \in 1 .. m /\ f[i] = f[j]
      BY <1>10, <1>11, <3>1
    <3>3. QED
      BY <1>6, <3>2
  <2>2. CASE picked[i] \notin P
    <3>1. picked[j] \notin P
      BY <1>11, <2>2
    <3>2. PICK q \in 1 .. k : i = m + q /\ picked[i] = o[q]
      BY <1>10, <2>2
    <3>3. PICK r \in 1 .. k : j = m + r /\ picked[j] = o[r]
      BY <1>10, <3>1
    <3>4. q \in 1 .. n /\ r \in 1 .. n
      BY <1>7, <1>8
    <3>5. QED
      BY <1>7, <1>11, <3>2, <3>3, <3>4
  <2>3. QED
    BY <2>1, <2>2
<1>12. PICK T : T = Taken(picked)
  OBVIOUS
<1>13. \A x : x \in T <=> \E i \in 1 .. m + k : picked[i] = x
  BY <1>9, <1>12 DEF Taken
<1>14. T \subseteq N
  BY <1>4, <1>10, <1>13
<1>15. P \subseteq T
  <2>1. ASSUME NEW x \in P PROVE x \in T
    <3>1. PICK i \in 1 .. m : f[i] = x
      BY <1>6
    <3>2. i \in 1 .. m + k /\ picked[i] = x
      BY <1>6, <1>7, <1>8, <3>1
    <3>3. QED
      BY <1>13, <3>2
  <2>2. QED
    BY <2>1
<1>16. Cardinality(T) = m + k
  <2>1. m + k \in Nat
    BY <1>6, <1>7, <1>8
  <2>2. IsFiniteSet(1 .. m + k) /\ Cardinality(1 .. m + k) = m + k
    BY <2>1, FS_Interval
  <2>3. picked \in [1 .. m + k -> T]
    <3>1. picked \in [1 .. m + k -> Todos]
      BY <1>8, <1>9
    <3>2. \A i \in 1 .. m + k : picked[i] \in T
      BY <1>13
    <3>3. QED
      BY <3>1, <3>2
  <2>4. picked \in Bijection(1 .. m + k, T)
    BY <1>11, <1>13, <2>3 DEF Bijection, Injection, IsInjective, Surjection
  <2>5. QED
    BY <2>2, <2>4, FS_Bijection DEF ExistsBijection
<1>17. Cardinality(N) = m + n
  <2>1. Cardinality(P \cap O) = 0
    BY <1>4, FS_EmptySet
  <2>2. Cardinality(P \cup O) = Cardinality(P) + Cardinality(O) - Cardinality(P \cap O)
    BY <1>6, <1>7, FS_Union
  <2>3. QED
    BY <1>4, <1>5, <1>6, <1>7, <2>1, <2>2
<1>18. Cardinality(T) = IF m > (IF scenario.count < m + n THEN scenario.count ELSE m + n) THEN m
                        ELSE IF scenario.count < m + n THEN scenario.count ELSE m + n
  <2>1. k = IF scenario.count < m THEN 0 ELSE IF scenario.count - m < n THEN scenario.count - m ELSE n
    BY <1>2, <1>6, <1>7
  <2>2. scenario.count \in Nat
    OBVIOUS
  <2>3. QED
    BY <1>6, <1>7, <1>16, <2>1, <2>2
<1>19. ASSUME NEW t \in T \ P, NEW u \in N \ T PROVE WorthOf(ts, u) <= WorthOf(ts, t)
  <2>1. PICK i \in 1 .. m + k : picked[i] = t
    BY <1>13
  <2>2. PICK j \in 1 .. k : i = m + j /\ t = o[j] /\ t \in O
    BY <1>10, <2>1
  <2>3. u \in O
    BY <1>4, <1>15
  <2>4. PICK l \in 1 .. n : o[l] = u
    BY <1>7, <2>3
  <2>5. l \notin 1 .. k
    <3>1. SUFFICES ASSUME l \in 1 .. k PROVE FALSE
      OBVIOUS
    <3>2. PICK q : q = m + l
      OBVIOUS
    <3>3. m \in Nat /\ k \in Nat
      BY <1>6, <1>7, <1>8
    <3>4. q \in 1 .. m + k
      BY <3>1, <3>2, <3>3
    <3>5. picked[q] = o[l]
      BY <1>8, <3>1, <3>2
    <3>6. QED
      BY <1>13, <2>4, <3>4, <3>5
  <2>6. j \in 1 .. n /\ j < l
    BY <1>7, <1>8, <2>5
  <2>7. Precedes(KeyOf(ts, day, t), KeyOf(ts, day, u))
    BY <1>7, <2>2, <2>4, <2>6
  <2>8. QED
    BY <1>3, <2>2, <2>3, <2>7, OptionalByWorth
<1>20. Cardinality(N) = Cardinality(Openable(ts)) /\ Cardinality(P) = Cardinality(Pressing(ts, day))
       /\ Cardinality(T) = Cardinality(Taken(picked))
  BY <1>3, <1>12
<1>21. Cardinality(Taken(picked)) =
          IF Cardinality(Pressing(ts, day))
               > (IF scenario.count < Cardinality(Openable(ts)) THEN scenario.count ELSE Cardinality(Openable(ts)))
          THEN Cardinality(Pressing(ts, day))
          ELSE IF scenario.count < Cardinality(Openable(ts)) THEN scenario.count ELSE Cardinality(Openable(ts))
  BY <1>5, <1>17, <1>18, <1>20
<1>22. QED
  BY <1>3, <1>8, <1>9, <1>11, <1>12, <1>14, <1>15, <1>19, <1>21
--------------------------------------------------------------------------------
(* The daily lists: makers side by side                                        *)

MakerFields == {"at", "way", "over", "left", "tasks", "day", "gen", "shown", "list", "history"}

\* The id of a list that was begun: of a second that two processes saw, of an
\* earlier second, or numbered by now.
Stamped(g) ==
    /\ g.at \in Nat /\ g.seq \in Nat \ {0}
    /\ g.at \in recounted \/ g.at < today \/ (g.at = today /\ g.seq <= seq)
\* An id that is given once.
GivenOnce(g) == g.seq = DAY!Legacy \/ g.at \notin recounted

Loaded(x) == x.tasks \in [Todos -> TodoRow] /\ x.day \in Int
Working(x) == Loaded(x) /\ x.way \in {"view", "button", "job"}

MakersInv ==
    /\ today \in Nat /\ seq \in Nat /\ scenario \in Days /\ task \in [Todos -> TodoRow]
    /\ DOMAIN maker = Makers
    /\ \A m \in Makers :
          /\ DOMAIN maker[m] = MakerFields
          /\ maker[m].at # "idle" => Working(maker[m])
          /\ maker[m].at = "store" => Stamped(maker[m].gen)
    /\ \A m, n \in Makers : maker[m].at = "store" /\ maker[n].at = "store" /\ maker[m].gen = maker[n].gen =>
          m = n \/ ~ GivenOnce(maker[m].gen)

\* A stored list is what its maker picks, under an id of its own while no other
\* process saw its second.
StoresInv ==
    /\ \A s \in stores : s.picked \in Seq(Todos)
    /\ \A s \in stores :
          s.gen.seq # DAY!Legacy => Stamped(s.gen) /\ Loaded(s) /\ s.picked = DAY!Selected(s.tasks, s.day)
    /\ \A s, u \in stores : s.over = u.over /\ s.gen = u.gen => s = u \/ ~ GivenOnce(s.gen)
    /\ \A m \in Makers, s \in stores : maker[m].at = "store" => s.gen # maker[m].gen \/ ~ GivenOnce(s.gen)

\* The table has the rows of all stored lists, but for deleted tasks.
DailyInv == \A r : r \in daily <=> \E s \in stores : r \in DAY!RowsFor(s) /\ DAY!Live(r.task)

ListsInv == MakersInv /\ StoresInv /\ DailyInv

LEMMA SelectedStays ==
  ASSUME scenario' = scenario, NEW ts, NEW day
  PROVE  DAY!Selected(ts, day)' = DAY!Selected(ts, day)
BY DEF DAY!Selected, DAY!Scored, DAY!Sorted, DAY!Before

LEMMA ListsInit == DAY!Init => ListsInv
<1> SUFFICES ASSUME DAY!Init PROVE ListsInv
  OBVIOUS
<1>1. /\ scenario \in Days /\ today = scenario.time[1] /\ seq = 0 /\ recounted = {} /\ task = scenario.tasks
      /\ maker = [m \in Makers |-> DAY!Idle]
  BY DEF DAY!Init
<1>2. PICK gen, old : gen = [at |-> 0, seq |-> DAY!Legacy] /\ old = scenario.legacy
  OBVIOUS
<1>3. /\ daily = {[over |-> o, gen |-> gen, task |-> old[i], pos |-> 0] : o \in Overviews, i \in 1 .. Len(old)}
      /\ stores = IF old = <<>> THEN {}
                  ELSE {[over |-> o, gen |-> gen, tasks |-> task, day |-> 0, picked |-> old] : o \in Overviews}
  BY <1>2 DEF DAY!Init
<1>4. /\ today \in Nat /\ old \in Seq(Todos)
      /\ task \in [Todos -> [status : {"todo", "in_progress", "done"}, due : Int,
                             priority : Int, rest : Int, quiet : BOOLEAN]]
  BY <1>1, <1>2, DaysAssumption
<1>5. task \in [Todos -> TodoRow] /\ \A t \in Todos : DAY!Live(t)
  <2>1. ASSUME NEW t \in Todos PROVE task[t] \in TodoRow /\ DAY!Live(t)
    <3>1. task[t] \in [status : {"todo", "in_progress", "done"}, due : Int,
                       priority : Int, rest : Int, quiet : BOOLEAN]
      BY <1>4
    <3>2. task[t].status # "deleted"
      BY <3>1
    <3>3. DAY!Deleted.status = "deleted"
      BY DEF DAY!Deleted
    <3>4. QED
      BY <3>1, <3>2, <3>3 DEF TodoRow, DAY!Live
  <2>2. QED
    BY <1>4, <2>1
<1>6. DOMAIN DAY!Idle = MakerFields /\ DAY!Idle.at = "idle"
  BY DEF DAY!Idle, MakerFields
<1>7. MakersInv
  BY <1>1, <1>4, <1>5, <1>6 DEF MakersInv
<1>8. \A s \in stores : /\ s.gen = gen /\ s.picked = old /\ s.over \in Overviews /\ old # <<>>
                        /\ s = [over |-> s.over, gen |-> gen, tasks |-> task, day |-> 0, picked |-> old]
  BY <1>3
<1>9. gen.seq = DAY!Legacy
  BY <1>2
<1>10. StoresInv
  <2>1. \A m \in Makers : maker[m].at # "store"
    BY <1>1, <1>6
  <2>2. \A s \in stores : s.gen.seq = DAY!Legacy
    BY <1>8, <1>9
  <2>3. \A s, u \in stores : s.over = u.over /\ s.gen = u.gen => s = u
    BY <1>8
  <2>4. \A s \in stores : s.picked \in Seq(Todos)
    BY <1>4, <1>8
  <2>5. QED
    BY <2>1, <2>2, <2>3, <2>4 DEF StoresInv
<1>11. DailyInv
  <2>1. ASSUME NEW s \in stores
        PROVE  DAY!RowsFor(s) = {[over |-> s.over, gen |-> gen, task |-> old[i], pos |-> 0] : i \in DOMAIN old}
    BY <1>8, <1>9 DEF DAY!RowsFor
  <2>2. \A i \in DOMAIN old : old[i] \in Todos
    BY <1>4
  <2>3. DOMAIN old = 1 .. Len(old)
    BY <1>4
  <2>4. ASSUME NEW r \in daily PROVE \E s \in stores : r \in DAY!RowsFor(s) /\ DAY!Live(r.task)
    <3>1. PICK o \in Overviews, i \in 1 .. Len(old) : r = [over |-> o, gen |-> gen, task |-> old[i], pos |-> 0]
      BY <1>3, <2>4
    <3>2. old # <<>>
      BY <1>4, <3>1
    <3>3. PICK s \in stores : s.over = o
      <4>1. [over |-> o, gen |-> gen, tasks |-> task, day |-> 0, picked |-> old] \in stores
        BY <1>3, <3>2
      <4>2. QED
        BY <4>1
    <3>4. r \in DAY!RowsFor(s)
      BY <2>1, <2>3, <3>1, <3>3
    <3>5. DAY!Live(r.task)
      BY <1>5, <2>2, <2>3, <3>1
    <3>6. QED
      BY <3>3, <3>4, <3>5
  <2>5. ASSUME NEW s \in stores, NEW r \in DAY!RowsFor(s) PROVE r \in daily
    <3>1. PICK i \in DOMAIN old : r = [over |-> s.over, gen |-> gen, task |-> old[i], pos |-> 0]
      BY <2>1, <2>5
    <3>2. QED
      BY <1>3, <1>8, <2>3, <3>1
  <2>6. QED
    BY <2>4, <2>5 DEF DailyInv
<1>12. QED
  BY <1>7, <1>10, <1>11 DEF ListsInv

\* A maker goes on without a new id; the table stays.
LEMMA MakerGoesOn ==
  ASSUME ListsInv, NEW m \in Makers, NEW x, DAY!Go(m, x), DOMAIN x = MakerFields, x.at # "store",
         x.at # "idle" => Working(x),
         today' = today, task' = task, daily' = daily, seq' = seq, stores' = stores, recounted' = recounted, scenario' = scenario
  PROVE  ListsInv'
<1>1. maker' = [maker EXCEPT ![m] = x]
  BY DEF DAY!Go
<1>2. DOMAIN maker = Makers
  BY DEF ListsInv, MakersInv
<1>3. DOMAIN maker' = Makers /\ maker'[m] = x /\ \A n \in Makers : n # m => maker'[n] = maker[n]
  BY <1>1, <1>2
<1>4. MakersInv'
  BY <1>3 DEF ListsInv, MakersInv, Stamped, GivenOnce, DAY!Legacy, Working, Loaded
<1>5. StoresInv'
  <2>1. \A s \in stores' : s.gen.seq # DAY!Legacy =>
           /\ s.gen.at \in Nat /\ s.gen.seq \in Nat \ {0}
           /\ s.gen.at \in recounted' \/ s.gen.at < today' \/ (s.gen.at = today' /\ s.gen.seq <= seq')
    BY DEF ListsInv, StoresInv, Stamped
  <2>2. \A s \in stores' : s.gen.seq # DAY!Legacy => Loaded(s) /\ s.picked = DAY!Selected(s.tasks, s.day)'
    BY SelectedStays DEF ListsInv, StoresInv
  <2>3. \A n \in Makers, s \in stores' : maker'[n].at = "store" => s.gen # maker'[n].gen \/ ~ GivenOnce(s.gen)'
    BY <1>3 DEF ListsInv, StoresInv, GivenOnce, DAY!Legacy
  <2>4. \A s, u \in stores' : s.over = u.over /\ s.gen = u.gen => s = u \/ ~ GivenOnce(s.gen)'
    BY DEF ListsInv, StoresInv, GivenOnce, DAY!Legacy
  <2>5. \A s \in stores' : s.picked \in Seq(Todos)
    BY DEF ListsInv, StoresInv
  <2>6. QED
    BY <2>1, <2>2, <2>3, <2>4, <2>5 DEF StoresInv, Stamped, GivenOnce, DAY!Legacy
<1>6. DailyInv'
  BY DEF ListsInv, DailyInv, DAY!Live, DAY!RowsFor, DAY!Legacy
<1>7. QED
  BY <1>4, <1>5, <1>6 DEF ListsInv
\* What a maker knows of itself.
LEMMA MakerKnown ==
  ASSUME ListsInv, NEW m \in Makers
  PROVE  /\ DOMAIN maker[m] = MakerFields
         /\ maker[m].at # "idle" => Working(maker[m])
         /\ DOMAIN DAY!Idle = MakerFields /\ DAY!Idle.at = "idle"
BY DEF ListsInv, MakersInv, DAY!Idle, MakerFields

LEMMA LoadTasksKeepsLists == ASSUME ListsInv, NEW m \in Makers, DAY!LoadTasks(m) PROVE ListsInv'
<1>1. task \in [Todos -> TodoRow] /\ today \in Nat /\ TicksOfDay \in Nat \ {0}
  BY DaysAssumption DEF ListsInv, MakersInv
<1>2. DAY!Today \in Int
  BY <1>1 DEF DAY!Today
<1>3. PICK x : /\ DAY!Go(m, x) /\ DOMAIN x = MakerFields /\ x.at \in {"find", "stamp", "next"}
               /\ x.tasks = task /\ x.day = DAY!Today
               /\ x.way \in {"view", "button", "job"}
  <2>1. CASE \E o \in scenario.overs, way \in scenario.ways \ {"job"} :
               DAY!Go(m, [DAY!Idle EXCEPT !.at = IF way = "view" THEN "find" ELSE "stamp", !.way = way, !.over = o,
                                          !.tasks = task, !.day = DAY!Today])
    <3>1. PICK o \in scenario.overs, way \in scenario.ways \ {"job"} :
               DAY!Go(m, [DAY!Idle EXCEPT !.at = IF way = "view" THEN "find" ELSE "stamp", !.way = way, !.over = o,
                                          !.tasks = task, !.day = DAY!Today])
      BY <2>1, Zenon
    <3>2. PICK x : x = [DAY!Idle EXCEPT !.at = IF way = "view" THEN "find" ELSE "stamp", !.way = way, !.over = o,
                                          !.tasks = task, !.day = DAY!Today]
      OBVIOUS
    <3>3. DOMAIN x = MakerFields /\ x.at \in {"find", "stamp"} /\ x.tasks = task /\ x.day = DAY!Today
          /\ x.way = way
      BY <3>2, MakerKnown DEF MakerFields
    <3>4. way \in {"view", "button", "job"}
      BY <3>1, DaysAssumption DEF ListsInv, MakersInv
    <3>5. QED
      BY <3>1, <3>2, <3>3, <3>4
  <2>2. CASE DAY!Go(m, [DAY!Idle EXCEPT !.at = "next", !.way = "job", !.left = scenario.overs,
                                        !.tasks = task, !.day = DAY!Today])
    <3>1. PICK x : x = [DAY!Idle EXCEPT !.at = "next", !.way = "job", !.left = scenario.overs,
                                        !.tasks = task, !.day = DAY!Today]
      OBVIOUS
    <3>2. DOMAIN x = MakerFields /\ x.at = "next" /\ x.tasks = task /\ x.day = DAY!Today /\ x.way = "job"
      BY <3>1, MakerKnown DEF MakerFields
    <3>3. QED
      BY <2>2, <3>1, <3>2
  <2>3. QED
    BY <2>1, <2>2, Zenon DEF DAY!LoadTasks
<1>4. Working(x) /\ x.at # "store"
  BY <1>1, <1>2, <1>3 DEF Working, Loaded
<1>5. today' = today /\ task' = task /\ daily' = daily /\ seq' = seq /\ stores' = stores /\ recounted' = recounted /\ scenario' = scenario
  BY Zenon DEF DAY!LoadTasks
<1>6. QED
  BY <1>3, <1>4, <1>5, MakerGoesOn

LEMMA MakerReads ==
  ASSUME ListsInv, NEW m \in Makers,
         \/ DAY!NextOverview(m) \/ DAY!FindLatest(m) \/ DAY!ReadDaily(m)
         \/ DAY!FindCurrent(m) \/ DAY!ReadHistory(m) \/ DAY!Answer(m)
  PROVE  ListsInv'
<1>1. today' = today /\ task' = task /\ daily' = daily /\ seq' = seq /\ stores' = stores /\ recounted' = recounted /\ scenario' = scenario
  BY Zenon DEF DAY!NextOverview, DAY!FindLatest, DAY!ReadDaily, DAY!FindCurrent, DAY!ReadHistory, DAY!Answer
<1>2. ASSUME DAY!Go(m, DAY!Idle) PROVE ListsInv'
  BY <1>1, <1>2, MakerKnown, MakerGoesOn
<1>3. ASSUME NEW x, DAY!Go(m, x), DOMAIN x = MakerFields, x.at # "store",
             maker[m].at # "idle", x.tasks = maker[m].tasks, x.day = maker[m].day, x.way = maker[m].way
      PROVE  ListsInv'
  <2>1. Working(x)
    BY <1>3, MakerKnown DEF Working, Loaded
  <2>2. QED
    BY <1>1, <1>3, <2>1, MakerGoesOn
<1>4. CASE DAY!NextOverview(m)
  <2>1. PICK o : o = CHOOSE x \in maker[m].left : \A y \in maker[m].left : x <= y
    OBVIOUS
  <2>2. CASE DAY!Go(m, [maker[m] EXCEPT !.at = "stamp", !.over = o, !.left = @ \ {o}])
    <3>1. PICK x : x = [maker[m] EXCEPT !.at = "stamp", !.over = o, !.left = @ \ {o}]
      OBVIOUS
    <3>2. /\ DOMAIN x = MakerFields /\ x.at = "stamp" /\ x.tasks = maker[m].tasks /\ x.day = maker[m].day /\ x.way = maker[m].way
      BY <3>1, MakerKnown DEF MakerFields
    <3>3. maker[m].at = "next"
      BY <1>4 DEF DAY!NextOverview
    <3>4. QED
      BY <1>3, <2>2, <3>1, <3>2, <3>3
  <2>3. QED
    BY <1>2, <1>4, <2>1, <2>2 DEF DAY!NextOverview
<1>5. CASE DAY!FindLatest(m)
  <2>1. maker[m].at = "find"
    BY <1>5, Zenon DEF DAY!FindLatest
  <2>2. CASE DAY!Go(m, [maker[m] EXCEPT !.at = "stamp"])
    <3>1. PICK x : x = [maker[m] EXCEPT !.at = "stamp"]
      OBVIOUS
    <3>2. DOMAIN x = MakerFields /\ x.at = "stamp" /\ x.tasks = maker[m].tasks /\ x.day = maker[m].day /\ x.way = maker[m].way
      BY <3>1, MakerKnown DEF MakerFields
    <3>3. QED
      BY <1>3, <2>1, <2>2, <3>1, <3>2
  <2>3. ASSUME NEW g, DAY!Go(m, [maker[m] EXCEPT !.at = "read", !.shown = g]) PROVE ListsInv'
    <3>1. PICK x : x = [maker[m] EXCEPT !.at = "read", !.shown = g]
      OBVIOUS
    <3>2. DOMAIN x = MakerFields /\ x.at = "read" /\ x.tasks = maker[m].tasks /\ x.day = maker[m].day /\ x.way = maker[m].way
      BY <3>1, MakerKnown DEF MakerFields
    <3>3. QED
      BY <1>3, <2>1, <2>3, <3>1, <3>2
  <2>4. QED
    BY <1>5, <2>2, <2>3, Zenon DEF DAY!FindLatest
<1>6. CASE DAY!ReadDaily(m)
  <2>1. PICK list : list = DAY!RowsOf(maker[m].over, maker[m].shown)
    OBVIOUS
  <2>2. maker[m].at = "read"
        /\ DAY!Go(m, [maker[m] EXCEPT !.at = IF list = <<>> THEN "stamp" ELSE "history", !.list = list])
    BY <1>6, <2>1 DEF DAY!ReadDaily
  <2>3. PICK x : x = [maker[m] EXCEPT !.at = IF list = <<>> THEN "stamp" ELSE "history", !.list = list]
    OBVIOUS
  <2>4. DOMAIN x = MakerFields /\ x.at # "store" /\ x.tasks = maker[m].tasks /\ x.day = maker[m].day /\ x.way = maker[m].way
    BY <2>3, MakerKnown DEF MakerFields
  <2>5. QED
    BY <1>3, <2>2, <2>3, <2>4
<1>7. CASE DAY!FindCurrent(m)
  <2>1. maker[m].at = "history"
    BY <1>7, Zenon DEF DAY!FindCurrent
  <2>2. CASE DAY!Go(m, [maker[m] EXCEPT !.at = "answer"])
    <3>1. PICK x : x = [maker[m] EXCEPT !.at = "answer"]
      OBVIOUS
    <3>2. DOMAIN x = MakerFields /\ x.at = "answer" /\ x.tasks = maker[m].tasks /\ x.day = maker[m].day /\ x.way = maker[m].way
      BY <3>1, MakerKnown DEF MakerFields
    <3>3. QED
      BY <1>3, <2>1, <2>2, <3>1, <3>2
  <2>3. ASSUME NEW g, DAY!Go(m, [maker[m] EXCEPT !.at = "list", !.gen = g]) PROVE ListsInv'
    <3>1. PICK x : x = [maker[m] EXCEPT !.at = "list", !.gen = g]
      OBVIOUS
    <3>2. DOMAIN x = MakerFields /\ x.at = "list" /\ x.tasks = maker[m].tasks /\ x.day = maker[m].day /\ x.way = maker[m].way
      BY <3>1, MakerKnown DEF MakerFields
    <3>3. QED
      BY <1>3, <2>1, <2>3, <3>1, <3>2
  <2>4. QED
    BY <1>7, <2>2, <2>3, Zenon DEF DAY!FindCurrent
<1>8. CASE DAY!ReadHistory(m)
  <2>1. PICK h : h = {r.gen : r \in DAY!Rows(maker[m].over)} \ {maker[m].gen}
    OBVIOUS
  <2>2. maker[m].at = "list" /\ DAY!Go(m, [maker[m] EXCEPT !.at = "answer", !.history = h])
    BY <1>8, <2>1 DEF DAY!ReadHistory
  <2>3. PICK x : x = [maker[m] EXCEPT !.at = "answer", !.history = h]
    OBVIOUS
  <2>4. DOMAIN x = MakerFields /\ x.at = "answer" /\ x.tasks = maker[m].tasks /\ x.day = maker[m].day /\ x.way = maker[m].way
    BY <2>3, MakerKnown DEF MakerFields
  <2>5. QED
    BY <1>3, <2>2, <2>3, <2>4
<1>9. CASE DAY!Answer(m)
  BY <1>2, <1>9 DEF DAY!Answer
<1>10. QED
  BY <1>4, <1>5, <1>6, <1>7, <1>8, <1>9
\* An id that is given now was never given before, but in a second that another
\* process saw.
LEMMA StampKeepsLists == ASSUME ListsInv, NEW m \in Makers, DAY!StampGeneration(m) PROVE ListsInv'
<1>1. PICK g, x : /\ g = [at |-> today, seq |-> seq + 1]
                  /\ x = [maker[m] EXCEPT !.at = "store", !.gen = g]
  OBVIOUS
<1>2. /\ maker[m].at = "stamp" /\ seq' = seq + 1 /\ maker' = [maker EXCEPT ![m] = x]
      /\ today' = today /\ task' = task /\ daily' = daily /\ stores' = stores
      /\ recounted' = recounted /\ scenario' = scenario
  BY <1>1 DEF DAY!StampGeneration, DAY!Go, DAY!NewId
<1>3. /\ DOMAIN x = MakerFields /\ x.at = "store" /\ x.gen = g /\ x.tasks = maker[m].tasks /\ x.day = maker[m].day
      /\ x.way = maker[m].way
  BY <1>1, MakerKnown DEF MakerFields
<1>4. Working(x)
  BY <1>2, <1>3, MakerKnown DEF Working, Loaded
<1>5. today \in Nat /\ seq \in Nat /\ DOMAIN maker = Makers
  BY DEF ListsInv, MakersInv
<1>6. DOMAIN maker' = Makers /\ maker'[m] = x /\ \A n \in Makers : n # m => maker'[n] = maker[n]
  BY <1>2, <1>5
<1>7. g.at = today /\ g.seq = seq + 1
  BY <1>1
<1>8. ASSUME NEW h, Stamped(h)
      PROVE  /\ h # g \/ h.at \in recounted
             /\ h.at \in Nat /\ h.seq \in Nat \ {0}
             /\ h.at \in recounted' \/ h.at < today' \/ (h.at = today' /\ h.seq <= seq')
  BY <1>2, <1>5, <1>7, <1>8 DEF Stamped
<1>9. MakersInv'
  <2>1. ASSUME NEW n \in Makers
        PROVE  /\ DOMAIN maker'[n] = MakerFields
               /\ maker'[n].at # "idle" => Working(maker'[n])
               /\ maker'[n].at = "store" =>
                     /\ maker'[n].gen.at \in Nat /\ maker'[n].gen.seq \in Nat \ {0}
                     /\ \/ maker'[n].gen.at \in recounted'
                        \/ maker'[n].gen.at < today' \/ (maker'[n].gen.at = today' /\ maker'[n].gen.seq <= seq')
    <3>1. CASE n = m
      BY <1>2, <1>3, <1>4, <1>5, <1>6, <1>7, <3>1
    <3>2. CASE n # m
      <4>1. /\ maker'[n] = maker[n] /\ DOMAIN maker[n] = MakerFields
            /\ (maker[n].at # "idle" => Working(maker[n])) /\ (maker[n].at = "store" => Stamped(maker[n].gen))
        BY <1>6, <3>2 DEF ListsInv, MakersInv
      <4>2. QED
        BY <1>8, <4>1
    <3>3. QED
      BY <3>1, <3>2
  <2>2. ASSUME NEW n \in Makers, NEW l \in Makers,
               maker'[n].at = "store", maker'[l].at = "store", maker'[n].gen = maker'[l].gen
        PROVE  n = l \/ ~ GivenOnce(maker'[n].gen)
    <3>1. \A k \in Makers : maker[k].at = "store" => maker[k].gen # g \/ ~ GivenOnce(g)
      <4>1. ASSUME NEW k \in Makers, maker[k].at = "store" PROVE maker[k].gen # g \/ ~ GivenOnce(g)
        <5>1. Stamped(maker[k].gen)
          BY <4>1 DEF ListsInv, MakersInv
        <5>2. QED
          BY <1>5, <1>7, <1>8, <5>1 DEF GivenOnce, DAY!Legacy
      <4>2. QED
        BY <4>1
    <3>2. QED
      BY <1>3, <1>6, <2>2, <3>1 DEF ListsInv, MakersInv
  <2>3. ASSUME NEW n \in Makers, NEW l \in Makers,
               maker'[n].at = "store", maker'[l].at = "store", maker'[n].gen = maker'[l].gen
        PROVE  n = l \/ ~ GivenOnce(maker[n].gen)'
    BY <1>2, <2>2, <2>3 DEF GivenOnce, DAY!Legacy
  <2>4. QED
    BY <1>2, <1>5, <1>6, <2>1, <2>3 DEF ListsInv, MakersInv, Stamped, Working, Loaded
<1>10. StoresInv'
  <2>1. ASSUME NEW s \in stores
        PROVE  /\ s.gen # g \/ ~ GivenOnce(s.gen)
               /\ s.gen.seq # 0 =>
                     /\ s.gen.at \in Nat /\ s.gen.seq \in Nat \ {0}
                     /\ s.gen.at \in recounted' \/ s.gen.at < today' \/ (s.gen.at = today' /\ s.gen.seq <= seq')
                     /\ Loaded(s) /\ s.picked = DAY!Selected(s.tasks, s.day)'
    <3>1. CASE s.gen.seq = 0
      BY <1>5, <1>7, <3>1
    <3>2. CASE s.gen.seq # 0
      <4>1. Stamped(s.gen) /\ Loaded(s) /\ s.picked = DAY!Selected(s.tasks, s.day)
        BY <3>2 DEF ListsInv, StoresInv, DAY!Legacy
      <4>2. DAY!Selected(s.tasks, s.day)' = DAY!Selected(s.tasks, s.day)
        BY <1>2, SelectedStays
      <4>3. QED
        BY <1>8, <3>2, <4>1, <4>2 DEF GivenOnce, DAY!Legacy
    <3>3. QED
      BY <3>1, <3>2
  <2>2. \A n \in Makers, s \in stores' : maker'[n].at = "store" => s.gen # maker'[n].gen \/ ~ GivenOnce(s.gen)'
    BY <1>2, <1>3, <1>6, <2>1 DEF ListsInv, StoresInv, GivenOnce, DAY!Legacy
  <2>3. \A s, u \in stores' : s.over = u.over /\ s.gen = u.gen => s = u \/ ~ GivenOnce(s.gen)'
    BY <1>2 DEF ListsInv, StoresInv, GivenOnce, DAY!Legacy
  <2>4. \A s \in stores' : s.picked \in Seq(Todos)
    BY <1>2 DEF ListsInv, StoresInv
  <2>5. QED
    BY <1>2, <2>1, <2>2, <2>3, <2>4 DEF StoresInv, Stamped, GivenOnce, DAY!Legacy
<1>11. DailyInv'
  BY <1>2 DEF ListsInv, DailyInv, DAY!Live, DAY!RowsFor, DAY!Legacy
<1>12. QED
  BY <1>9, <1>10, <1>11 DEF ListsInv

\* A list is stored whole or not at all, and its id is used up.
LEMMA StoreKeepsLists == ASSUME ListsInv, NEW m \in Makers, DAY!StoreGeneration(m) PROVE ListsInv'
<1>1. PICK q, picked : q = maker[m] /\ picked = DAY!Selected(q.tasks, q.day)
  OBVIOUS
<1>2. PICK refused \in BOOLEAN : refused <=> \E i \in DOMAIN picked : ~ DAY!Live(picked[i])
  OBVIOUS
<1>3. PICK new : new = [over |-> q.over, gen |-> q.gen, tasks |-> q.tasks, day |-> q.day, picked |-> picked]
  OBVIOUS
<1>4. PICK x : x = CASE q.way = "view" -> [q EXCEPT !.at = "history", !.list = picked, !.shown = q.gen]
                     [] q.way = "button" -> DAY!Idle
                     [] q.way = "job" -> IF refused THEN DAY!Idle ELSE [q EXCEPT !.at = "next"]
  OBVIOUS
<1>5. /\ q.at = "store" /\ DAY!Go(m, x)
      /\ daily' = daily \cup {[over |-> q.over, gen |-> q.gen, task |-> picked[i], pos |-> i] :
                                 i \in DAY!StoredRows(picked)}
      /\ stores' = IF refused \/ picked = <<>> THEN stores ELSE stores \cup {new}
      /\ today' = today /\ task' = task /\ seq' = seq /\ recounted' = recounted /\ scenario' = scenario
  <2>1. refused = (\E i \in DOMAIN picked : ~ DAY!Live(picked[i]))
    BY <1>2
  <2>2. QED
    BY <1>1, <1>3, <1>4, <2>1, Zenon DEF DAY!StoreGeneration
<1>6. Stamped(q.gen) /\ Loaded(q) /\ Working(q) /\ DOMAIN q = MakerFields /\ q.gen.seq # DAY!Legacy
  BY <1>1, <1>5 DEF ListsInv, MakersInv, Stamped, Working, DAY!Legacy
<1>7. DOMAIN x = MakerFields /\ x.at # "store" /\ (x.at # "idle" => Working(x))
  <2>1. CASE q.way = "view"
    <3>1. x = [q EXCEPT !.at = "history", !.list = picked, !.shown = q.gen]
      BY <1>4, <2>1
    <3>2. /\ DOMAIN x = MakerFields /\ x.at = "history"
          /\ x.tasks = q.tasks /\ x.day = q.day /\ x.way = q.way
      BY <1>6, <3>1 DEF MakerFields
    <3>3. QED
      BY <1>6, <3>2 DEF Working, Loaded
  <2>2. CASE q.way = "button" \/ (q.way = "job" /\ refused)
    <3>1. x = DAY!Idle
      BY <1>4, <2>2
    <3>2. QED
      BY <3>1, MakerKnown
  <2>3. CASE q.way = "job" /\ ~ refused
    <3>1. x = [q EXCEPT !.at = "next"]
      BY <1>4, <2>3
    <3>2. DOMAIN x = MakerFields /\ x.at = "next" /\ x.tasks = q.tasks /\ x.day = q.day /\ x.way = q.way
      BY <1>6, <3>1 DEF MakerFields
    <3>3. QED
      BY <1>6, <3>2 DEF Working, Loaded
  <2>4. QED
    BY <1>6, <2>1, <2>2, <2>3 DEF Working
<1>8. scenario.count \in Nat \ {0}
  BY DaysAssumption DEF ListsInv, MakersInv
<1>9. picked \in Seq(Todos)
  BY <1>1, <1>6, <1>8, SelectedIsBest DEF Loaded
<1>10. /\ maker' = [maker EXCEPT ![m] = x] /\ DOMAIN maker = Makers
       /\ new.over = q.over /\ new.gen = q.gen /\ new.tasks = q.tasks /\ new.day = q.day /\ new.picked = picked
  BY <1>3, <1>5 DEF ListsInv, MakersInv, DAY!Go
<1>11. DOMAIN maker' = Makers /\ maker'[m] = x /\ \A n \in Makers : n # m => maker'[n] = maker[n]
  BY <1>10
<1>12. MakersInv'
  BY <1>5, <1>7, <1>11 DEF ListsInv, MakersInv, Stamped, GivenOnce, DAY!Legacy, Working, Loaded
<1>13. \A s \in stores : s.gen # new.gen \/ ~ GivenOnce(s.gen)
  BY <1>1, <1>5, <1>10 DEF ListsInv, StoresInv
<1>14. StoresInv'
  <2>1. ASSUME NEW s \in stores', s.gen.seq # DAY!Legacy
        PROVE  Stamped(s.gen) /\ Loaded(s) /\ s.picked = DAY!Selected(s.tasks, s.day)'
    <3>1. Stamped(s.gen) /\ Loaded(s) /\ s.picked = DAY!Selected(s.tasks, s.day)
      <4>1. CASE s \in stores
        BY <2>1, <4>1 DEF ListsInv, StoresInv
      <4>2. CASE s = new
        BY <1>1, <1>6, <1>10, <4>2 DEF Loaded
      <4>3. QED
        BY <1>5, <4>1, <4>2
    <3>2. DAY!Selected(s.tasks, s.day)' = DAY!Selected(s.tasks, s.day)
      BY <1>5, SelectedStays
    <3>3. QED
      BY <3>1, <3>2
  <2>2. ASSUME NEW s \in stores', NEW u \in stores', s.over = u.over, s.gen = u.gen
        PROVE  s = u \/ ~ GivenOnce(s.gen)'
    BY <1>5, <1>13, <2>2 DEF ListsInv, StoresInv, GivenOnce, DAY!Legacy
  <2>3. ASSUME NEW n \in Makers, NEW s \in stores', maker'[n].at = "store"
        PROVE  s.gen # maker'[n].gen \/ ~ GivenOnce(s.gen)'
    <3>1. n # m /\ maker'[n] = maker[n] /\ (maker[n].gen # q.gen \/ ~ GivenOnce(q.gen))
      BY <1>1, <1>5, <1>7, <1>11, <2>3 DEF ListsInv, MakersInv
    <3>2. QED
      BY <1>5, <1>10, <2>3, <3>1 DEF ListsInv, StoresInv, GivenOnce, DAY!Legacy
  <2>4. \A s \in stores' : s.picked \in Seq(Todos)
    BY <1>5, <1>9, <1>10 DEF ListsInv, StoresInv
  <2>5. QED
    BY <1>5, <2>1, <2>2, <2>3, <2>4 DEF StoresInv, Stamped, GivenOnce, DAY!Legacy
<1>15. DailyInv'
  <2>1. DAY!RowsFor(new) = {[over |-> q.over, gen |-> q.gen, task |-> picked[i], pos |-> i] : i \in DOMAIN picked}
    BY <1>6, <1>10 DEF DAY!RowsFor
  <2>2. \A t : DAY!Live(t)' <=> DAY!Live(t)
    BY <1>5 DEF DAY!Live
  <2>3. \A s : DAY!RowsFor(s)' = DAY!RowsFor(s)
    BY DEF DAY!RowsFor, DAY!Legacy
  <2>4. CASE refused
    <3>1. DAY!StoredRows(picked) = {}
      BY <1>2, <2>4 DEF DAY!StoredRows
    <3>2. daily' = daily /\ stores' = stores
      BY <1>5, <2>4, <3>1
    <3>3. QED
      BY <2>2, <2>3, <3>2 DEF ListsInv, DailyInv
  <2>5. CASE ~ refused
    <3>1. \A i \in DOMAIN picked : DAY!Live(picked[i])
      BY <1>2, <2>5
    <3>2. DAY!StoredRows(picked) = DOMAIN picked
      BY <3>1 DEF DAY!StoredRows
    <3>3. daily' = daily \cup DAY!RowsFor(new)
      BY <1>5, <2>1, <3>2
    <3>4. \A r \in DAY!RowsFor(new) : DAY!Live(r.task)
      BY <2>1, <3>1
    <3>5. CASE picked = <<>>
      <4>1. DAY!RowsFor(new) = {}
        BY <2>1, <3>5
      <4>2. daily' = daily /\ stores' = stores
        BY <1>5, <3>3, <3>5, <4>1
      <4>3. QED
        BY <2>2, <2>3, <4>2 DEF ListsInv, DailyInv
    <3>6. CASE picked # <<>>
      <4>1. stores' = stores \cup {new}
        BY <1>5, <2>5, <3>6
      <4>2. ASSUME NEW r
            PROVE  r \in daily' <=> \E s \in stores' : r \in DAY!RowsFor(s) /\ DAY!Live(r.task)
        BY <3>3, <3>4, <4>1 DEF ListsInv, DailyInv
      <4>3. QED
        BY <2>2, <2>3, <4>2 DEF DailyInv
    <3>7. QED
      BY <3>5, <3>6
  <2>6. QED
    BY <2>4, <2>5
<1>16. QED
  BY <1>12, <1>14, <1>15 DEF ListsInv
\* A deleted task takes its rows along; no other change makes a task deleted or
\* brings it back.
LEMMA TaskChangeKeepsLists ==
  ASSUME ListsInv, NEW t \in Todos, DAY!ChangeStatus(t) \/ DAY!DeleteTask(t)
  PROVE  ListsInv'
<1>1. /\ today' = today /\ seq' = seq /\ maker' = maker /\ stores' = stores
      /\ recounted' = recounted /\ scenario' = scenario /\ DAY!Live(t)
  BY DEF DAY!ChangeStatus, DAY!DeleteTask
<1>2. task \in [Todos -> TodoRow]
  BY DEF ListsInv, MakersInv
<1>3. DAY!Deleted \in TodoRow
  BY DEF DAY!Deleted, TodoRow
<1>4. /\ task' \in [Todos -> TodoRow]
      /\ \A u \in Todos : u # t => task'[u] = task[u]
      /\ \/ task'[t] # DAY!Deleted /\ daily' = daily
         \/ task'[t] = DAY!Deleted /\ daily' = {r \in daily : r.task # t}
  <2>1. CASE DAY!ChangeStatus(t)
    <3>1. PICK s \in {"todo", "in_progress", "done"} : task' = [task EXCEPT ![t].status = s]
      BY <2>1 DEF DAY!ChangeStatus
    <3>2. task[t] \in TodoRow
      BY <1>2
    <3>3. PICK x : x = [task[t] EXCEPT !.status = s]
      OBVIOUS
    <3>4. x \in TodoRow /\ x.status = s
      BY <3>2, <3>3 DEF TodoRow
    <3>5. x # DAY!Deleted
      BY <3>4 DEF DAY!Deleted
    <3>6. task' = [task EXCEPT ![t] = x]
      BY <3>1, <3>3
    <3>7. daily' = daily
      BY <2>1 DEF DAY!ChangeStatus
    <3>8. QED
      BY <1>2, <3>4, <3>5, <3>6, <3>7
  <2>2. CASE DAY!DeleteTask(t)
    <3>1. task' = [task EXCEPT ![t] = DAY!Deleted] /\ daily' = {r \in daily : r.task # t}
      BY <2>2 DEF DAY!DeleteTask
    <3>2. QED
      BY <1>2, <1>3, <3>1
  <2>3. QED
    BY <2>1, <2>2
<1>5. MakersInv'
  BY <1>1, <1>4 DEF ListsInv, MakersInv, Stamped, GivenOnce, DAY!Legacy, Working, Loaded
<1>6. StoresInv'
  <2>1. \A s \in stores' : s.gen.seq # DAY!Legacy => s.picked = DAY!Selected(s.tasks, s.day)'
    BY <1>1, SelectedStays DEF ListsInv, StoresInv
  <2>2. QED
    BY <1>1, <2>1 DEF ListsInv, StoresInv, Stamped, GivenOnce, Loaded, DAY!Legacy
<1>7. DailyInv'
  <2>1. \A s : DAY!RowsFor(s)' = DAY!RowsFor(s)
    BY DEF DAY!RowsFor, DAY!Legacy
  <2>2. ASSUME NEW s \in stores, NEW r \in DAY!RowsFor(s) PROVE r.task \in Todos
    <3>1. s.picked \in Seq(Todos)
      BY DEF ListsInv, StoresInv
    <3>2. PICK i \in DOMAIN s.picked : r.task = s.picked[i]
      BY <2>2 DEF DAY!RowsFor
    <3>3. QED
      BY <3>1, <3>2
  <2>3. \A r : r \in daily' <=> r \in daily /\ task'[r.task] # DAY!Deleted
    <3>1. ASSUME NEW r \in daily PROVE r.task \in Todos /\ task[r.task] # DAY!Deleted
      BY <2>2 DEF ListsInv, DailyInv, DAY!Live
    <3>2. task[t] # DAY!Deleted
      BY <1>1 DEF DAY!Live
    <3>3. QED
      BY <1>4, <3>1, <3>2
  <2>4. ASSUME NEW r
        PROVE  r \in daily' <=> \E s \in stores : r \in DAY!RowsFor(s) /\ task'[r.task] # DAY!Deleted
    <3>1. \A s \in stores : r \in DAY!RowsFor(s) /\ task'[r.task] # DAY!Deleted => task[r.task] # DAY!Deleted
      BY <1>1, <1>4, <2>2 DEF DAY!Live
    <3>2. r \in daily <=> \E s \in stores : r \in DAY!RowsFor(s) /\ task[r.task] # DAY!Deleted
      BY DEF ListsInv, DailyInv, DAY!Live
    <3>3. QED
      BY <2>3, <3>1, <3>2
  <2>5. QED
    BY <1>1, <2>1, <2>4 DEF DailyInv, DAY!Live
<1>8. QED
  BY <1>5, <1>6, <1>7 DEF ListsInv

\* Time goes on, and a restart drops all makers and their numbers.
LEMMA TimeKeepsLists == ASSUME ListsInv, DAY!Tick \/ DAY!Restart PROVE ListsInv'
<1>1. /\ task' = task /\ daily' = daily /\ stores' = stores /\ scenario' = scenario
      /\ \/ today' = today + 1 /\ seq' = seq /\ maker' = maker /\ recounted' = recounted
         \/ /\ seq' = 0 /\ maker' = [m \in Makers |-> DAY!Idle]
            /\ \E t \in scenario.time[1] .. scenario.time[2] :
                  today' = t /\ recounted' = recounted \cup (t .. today)
  BY DEF DAY!Tick, DAY!Restart
<1>2. today \in Nat /\ seq \in Nat /\ scenario.time[1] \in Nat /\ scenario.time[2] \in Nat
  BY DaysAssumption DEF ListsInv, MakersInv
<1>3. today' \in Nat /\ seq' \in Nat /\ recounted \subseteq recounted'
  BY <1>1, <1>2
<1>4. ASSUME NEW g, Stamped(g)
      PROVE  /\ g.at \in Nat /\ g.seq \in Nat \ {0}
             /\ g.at \in recounted' \/ g.at < today' \/ (g.at = today' /\ g.seq <= seq')
  <2>1. g.at \in Nat /\ g.seq \in Nat \ {0} /\ (g.at \in recounted \/ g.at <= today)
    BY <1>2, <1>4 DEF Stamped
  <2>2. CASE g.at \in recounted
    BY <1>3, <2>1, <2>2
  <2>3. CASE g.at <= today /\ g.at \notin recounted
    <3>1. CASE today' = today + 1
      BY <1>2, <2>1, <2>3, <3>1
    <3>2. ASSUME NEW t \in scenario.time[1] .. scenario.time[2], today' = t, recounted' = recounted \cup (t .. today)
          PROVE  g.at \in recounted' \/ g.at < today'
      <4>1. t \in Nat /\ (g.at < t \/ g.at \in t .. today)
        BY <1>2, <2>1, <2>3, <3>2
      <4>2. QED
        BY <3>2, <4>1
    <3>3. QED
      BY <1>1, <2>1, <3>1, <3>2
  <2>4. QED
    BY <2>1, <2>2, <2>3
<1>5. MakersInv'
  <2>1. CASE today' = today + 1 /\ seq' = seq /\ maker' = maker /\ recounted' = recounted
    BY <1>1, <1>3, <1>4, <2>1 DEF ListsInv, MakersInv, Stamped, GivenOnce, DAY!Legacy, Working, Loaded
  <2>2. CASE seq' = 0 /\ maker' = [m \in Makers |-> DAY!Idle]
    <3>1. DOMAIN DAY!Idle = MakerFields /\ DAY!Idle.at = "idle"
      BY DEF DAY!Idle, MakerFields
    <3>2. QED
      BY <1>1, <1>3, <2>2, <3>1 DEF ListsInv, MakersInv
  <2>3. QED
    BY <1>1, <2>1, <2>2
<1>6. StoresInv'
  <2>1. \A s \in stores' : s.gen.seq # DAY!Legacy =>
           /\ s.gen.at \in Nat /\ s.gen.seq \in Nat \ {0}
           /\ s.gen.at \in recounted' \/ s.gen.at < today' \/ (s.gen.at = today' /\ s.gen.seq <= seq')
    BY <1>1, <1>4 DEF ListsInv, StoresInv
  <2>2. \A s \in stores' : s.gen.seq # DAY!Legacy => Loaded(s) /\ s.picked = DAY!Selected(s.tasks, s.day)'
    BY <1>1, SelectedStays DEF ListsInv, StoresInv
  <2>3. \A m \in Makers, s \in stores' : maker'[m].at = "store" => s.gen # maker'[m].gen \/ ~ GivenOnce(s.gen)'
    BY <1>1, <1>3 DEF ListsInv, StoresInv, GivenOnce, DAY!Legacy, DAY!Idle
  <2>4. /\ \A s, u \in stores' : s.over = u.over /\ s.gen = u.gen => s = u \/ ~ GivenOnce(s.gen)'
        /\ \A s \in stores' : s.picked \in Seq(Todos)
    BY <1>1, <1>3 DEF ListsInv, StoresInv, GivenOnce, DAY!Legacy
  <2>5. QED
    BY <2>1, <2>2, <2>3, <2>4 DEF StoresInv, Stamped, GivenOnce, DAY!Legacy
<1>7. DailyInv'
  BY <1>1 DEF ListsInv, DailyInv, DAY!Live, DAY!RowsFor, DAY!Legacy
<1>8. QED
  BY <1>5, <1>6, <1>7 DEF ListsInv

LEMMA ListsNext == ListsInv /\ [DAY!Next]_(DAY!vars) => ListsInv'
<1> SUFFICES ASSUME ListsInv, [DAY!Next]_(DAY!vars) PROVE ListsInv'
  OBVIOUS
<1>1. ASSUME NEW m \in Makers,
             \/ DAY!LoadTasks(m) \/ DAY!NextOverview(m) \/ DAY!FindLatest(m) \/ DAY!ReadDaily(m)
             \/ DAY!StampGeneration(m) \/ DAY!StoreGeneration(m) \/ DAY!FindCurrent(m) \/ DAY!ReadHistory(m)
             \/ DAY!Answer(m)
      PROVE  ListsInv'
  BY <1>1, LoadTasksKeepsLists, MakerReads, StampKeepsLists, StoreKeepsLists
<1>2. CASE \E t \in Todos : DAY!ChangeStatus(t) \/ DAY!DeleteTask(t)
  BY <1>2, TaskChangeKeepsLists
<1>3. CASE DAY!Tick \/ DAY!Restart
  BY <1>3, TimeKeepsLists
<1>4. CASE UNCHANGED DAY!vars
  <2>1. /\ today' = today /\ task' = task /\ daily' = daily /\ seq' = seq /\ maker' = maker
        /\ stores' = stores /\ recounted' = recounted /\ scenario' = scenario
    BY <1>4 DEF DAY!vars
  <2>2. MakersInv'
    BY <2>1 DEF ListsInv, MakersInv, Stamped, GivenOnce, DAY!Legacy, Working, Loaded
  <2>3. StoresInv'
    <3>1. \A s \in stores' : s.gen.seq # DAY!Legacy => s.picked = DAY!Selected(s.tasks, s.day)'
      BY <2>1, SelectedStays DEF ListsInv, StoresInv
    <3>2. QED
      BY <2>1, <3>1 DEF ListsInv, StoresInv, Stamped, GivenOnce, Loaded, DAY!Legacy
  <2>4. DailyInv'
    BY <2>1 DEF ListsInv, DailyInv, DAY!Live, DAY!RowsFor, DAY!Legacy
  <2>5. QED
    BY <2>2, <2>3, <2>4 DEF ListsInv
<1>5. QED
  BY <1>1, <1>2, <1>3, <1>4 DEF DAY!Next

--------------------------------------------------------------------------------
(* The properties of the daily lists                                           *)

LEMMA ListsAreSound == ListsInv => DAY!GenerationIsWhole /\ DAY!PickIsBest
<1> SUFFICES ASSUME ListsInv PROVE DAY!GenerationIsWhole /\ DAY!PickIsBest
  OBVIOUS
<1>1. DAY!GenerationIsWhole
  <2>1. ASSUME NEW r \in daily, GivenOnce(r.gen)
        PROVE  \E s \in stores :
                  {x \in DAY!Rows(r.over) : x.gen = r.gen} = {x \in DAY!RowsFor(s) : DAY!Live(x.task)}
    <3>1. PICK s \in stores : r \in DAY!RowsFor(s)
      BY DEF ListsInv, DailyInv
    <3>2. \A u \in stores : \A x \in DAY!RowsFor(u) : x.over = u.over /\ x.gen = u.gen
      BY DEF DAY!RowsFor
    <3>3. r.over = s.over /\ r.gen = s.gen
      BY <3>1, <3>2
    <3>4. ASSUME NEW x \in daily, x.over = r.over, x.gen = r.gen
          PROVE  x \in DAY!RowsFor(s) /\ DAY!Live(x.task)
      <4>1. PICK u \in stores : x \in DAY!RowsFor(u) /\ DAY!Live(x.task)
        BY <3>4 DEF ListsInv, DailyInv
      <4>2. u = s
        BY <2>1, <3>2, <3>3, <3>4, <4>1 DEF ListsInv, StoresInv
      <4>3. QED
        BY <4>1, <4>2
    <3>5. ASSUME NEW x \in DAY!RowsFor(s), DAY!Live(x.task)
          PROVE  x \in daily /\ x.over = r.over /\ x.gen = r.gen
      BY <3>2, <3>3, <3>5 DEF ListsInv, DailyInv
    <3>6. {x \in DAY!Rows(r.over) : x.gen = r.gen} = {x \in DAY!RowsFor(s) : DAY!Live(x.task)}
      BY <3>4, <3>5 DEF DAY!Rows
    <3>7. QED
      BY <3>6
  <2>2. QED
    BY <2>1 DEF GivenOnce, DAY!GenerationIsWhole
<1>2. scenario.count \in Nat \ {0}
  BY DaysAssumption DEF ListsInv, MakersInv
<1> DEFINE N(s) == {t \in Todos : s.tasks[t].status \in {"todo", "in_progress"}}
           P(s) == {t \in N(s) : \/ s.tasks[t].due # DAY!NoDue /\ s.tasks[t].due <= s.day + UrgentDueDays
                                 \/ s.tasks[t].status = "in_progress" /\ ~ s.tasks[t].quiet}
           T(s) == {s.picked[i] : i \in DOMAIN s.picked}
           b(s) == IF scenario.count < DAY!Cardinality(N(s)) THEN scenario.count ELSE DAY!Cardinality(N(s))
<1>3. ASSUME NEW s \in stores, s.gen.seq # DAY!Legacy
      PROVE  /\ P(s) \subseteq T(s) /\ T(s) \subseteq N(s)
             /\ \A i, j \in DOMAIN s.picked : s.picked[i] = s.picked[j] => i = j
             /\ DAY!Cardinality(T(s)) = IF DAY!Cardinality(P(s)) > b(s) THEN DAY!Cardinality(P(s)) ELSE b(s)
             /\ \A t \in T(s) \ P(s), u \in N(s) \ T(s) :
                   s.tasks[u].priority * Weight.priority + s.tasks[u].rest
                     <= s.tasks[t].priority * Weight.priority + s.tasks[t].rest
  <2>1. /\ s.tasks \in [Todos -> TodoRow] /\ s.day \in Int
        /\ s.picked = DAY!Selected(s.tasks, s.day)
    BY <1>3 DEF ListsInv, StoresInv, Loaded
  <2>2. N(s) = Openable(s.tasks) /\ T(s) = Taken(s.picked)
    BY DEF Openable, Taken
  <2>3. P(s) = Pressing(s.tasks, s.day)
    <3>1. \A t \in N(s) : s.tasks[t] \in TodoRow
      BY <2>1
    <3>2. \A t \in N(s) : DAY!Forced(s.tasks[t], s.day)
                            <=> \/ s.tasks[t].due # DAY!NoDue /\ s.tasks[t].due <= s.day + UrgentDueDays
                                \/ s.tasks[t].status = "in_progress" /\ ~ s.tasks[t].quiet
      BY <2>1, <3>1, ForcedIs
    <3>3. QED
      BY <2>2, <3>2 DEF Pressing
  <2>4. b(s) = IF scenario.count < Cardinality(N(s)) THEN scenario.count ELSE Cardinality(N(s))
    BY DaysCount
  <2> HIDE DEF N, P, T, b
  <2>5. PICK ts, day, picked : ts = s.tasks /\ day = s.day /\ picked = s.picked
    OBVIOUS
  <2>6. /\ Pressing(ts, day) \subseteq Taken(picked) /\ Taken(picked) \subseteq Openable(ts)
        /\ \A i, j \in DOMAIN picked : picked[i] = picked[j] => i = j
        /\ Cardinality(Taken(picked)) =
              IF Cardinality(Pressing(ts, day))
                   > (IF scenario.count < Cardinality(Openable(ts)) THEN scenario.count ELSE Cardinality(Openable(ts)))
              THEN Cardinality(Pressing(ts, day))
              ELSE IF scenario.count < Cardinality(Openable(ts)) THEN scenario.count ELSE Cardinality(Openable(ts))
        /\ \A t \in Taken(picked) \ Pressing(ts, day), u \in Openable(ts) \ Taken(picked) :
              WorthOf(ts, u) <= WorthOf(ts, t)
    BY <1>2, <2>1, <2>5, SelectedIsBest
  <2>7. /\ P(s) \subseteq T(s) /\ T(s) \subseteq N(s)
        /\ \A i, j \in DOMAIN s.picked : s.picked[i] = s.picked[j] => i = j
    BY <2>2, <2>3, <2>5, <2>6
  <2>8. Cardinality(T(s)) = IF Cardinality(P(s)) > b(s) THEN Cardinality(P(s)) ELSE b(s)
    BY <2>2, <2>3, <2>4, <2>5, <2>6
  <2>9. \A t \in T(s) \ P(s), u \in N(s) \ T(s) :
           s.tasks[u].priority * Weight.priority + s.tasks[u].rest
             <= s.tasks[t].priority * Weight.priority + s.tasks[t].rest
    BY <2>2, <2>3, <2>5, <2>6 DEF WorthOf
  <2>10. QED
    BY <2>7, <2>8, <2>9, DaysCount
<1>4. DAY!PickIsBest
  BY <1>3 DEF DAY!PickIsBest
<1>5. QED
  BY <1>1, <1>4
LEMMA DailyMove ==
  ASSUME [ServerNext]_<<vars, tablesVars>>, part = "daily"
  PROVE  [DAY!Next]_(DAY!vars)
<1>1. CASE UNCHANGED tablesVars
  BY <1>1 DEF tablesVars, dailyVars, scenarioVars, DAY!vars
<1>2. CASE TablesNext
  BY <1>2 DEF TablesNext, MigrationsStep, DailyStep, GroceryStep
<1>3. QED
  BY <1>1, <1>2 DEF ServerNext

LEMMA ListsStand == ServerSpec => [](part = "daily" => ListsInv)
<1>1. ServerInit => (part = "daily" => ListsInv)
  BY ListsInit DEF ServerInit, TablesInit
<1>2. (part = "daily" => ListsInv) /\ [ServerNext]_<<vars, tablesVars>> => (part = "daily" => ListsInv)'
  BY ServerStaysInPart, DailyMove, ListsNext
<1>3. QED
  BY <1>1, <1>2, PTL DEF ServerSpec

(* Whatever makers do side by side, in one second, across restarts and beside  *)
(* tasks that are deleted: what the table has of a list is what one maker      *)
(* picked, whole and in order (daily.go:15), unless a restart let two          *)
(* processes see the second of its id, and each picked list is the best for    *)
(* the tasks its maker saw (scoring.go:77).                                    *)
THEOREM DailyListsAreSound == ServerSpec => []DailyListIsSound
<1>1. (part = "daily" => ListsInv) => DailyListIsSound
  BY ListsAreSound DEF DailyListIsSound
<1>2. QED
  BY <1>1, ListsStand, PTL
--------------------------------------------------------------------------------
(* Grocery lists: the links of a list are those to the recipes it was made for *)
(* that still exist                                                            *)

Served == [servings : Int, preCook : Int]
Known == meta \in [Dishes -> Served]

PlanFields == {"at", "left", "meta", "rows", "people", "advance"}
Planning(v) ==
    /\ DOMAIN v = PlanFields /\ v.at \in {"idle", "recipes", "store"}
    /\ v.left \subseteq Dishes /\ DOMAIN v.meta \subseteq Dishes
Plans == DOMAIN planner = Planners /\ \A p \in Planners : Planning(planner[p])

\* The read of an entry of made stays, whatever happens to its list.
Linked ==
    /\ DOMAIN lists \subseteq DOMAIN made
    /\ DOMAIN made \subseteq 1 .. MaxLists
    /\ \A i \in DOMAIN made : DOMAIN made[i] = {"read", "edited"} /\ DOMAIN made[i].read.meta \subseteq Dishes
    /\ \A i \in DOMAIN lists :
          /\ DOMAIN lists[i] = {"recipes", "items"}
          /\ lists[i].recipes = {r \in DOMAIN made[i].read.meta : GRO!Exists(r)}

GroceryInv == Known /\ Plans /\ Linked

LEMMA IdlePlan == Planning(GRO!Idle)
BY DEF Planning, PlanFields, GRO!Idle

LEMMA GroceryInit == GRO!Init => GroceryInv
<1> SUFFICES ASSUME GRO!Init PROVE GroceryInv
  OBVIOUS
<1>1. /\ scenario \in Shoppings /\ meta = scenario.meta /\ planner = [p \in Planners |-> GRO!Idle]
      /\ lists = GRO!Empty /\ made = GRO!Empty
  BY DEF GRO!Init
<1>2. Known
  BY <1>1, ShoppingAssumption DEF Known, Served
<1>3. Plans
  BY <1>1, IdlePlan DEF Plans
<1>4. Linked
  BY <1>1 DEF Linked, GRO!Empty
<1>5. QED
  BY <1>2, <1>3, <1>4 DEF GroceryInv

\* A planner goes on and nothing else matters.
LEMMA PlanGoesOn ==
  ASSUME GroceryInv, NEW p \in Planners, NEW v, Planning(v), GRO!Go(p, v), UNCHANGED <<meta, lists, made>>
  PROVE  GroceryInv'
<1>1. DOMAIN planner' = Planners /\ planner'[p] = v /\ \A q \in Planners : q # p => planner'[q] = planner[q]
  BY DEF GroceryInv, Plans, GRO!Go
<1>2. Plans'
  BY <1>1 DEF GroceryInv, Plans
<1>3. Known' /\ Linked'
  BY DEF GroceryInv, Known, Linked, GRO!Exists
<1>4. QED
  BY <1>2, <1>3 DEF GroceryInv

LEMMA GenerateKeepsLinks == ASSUME GroceryInv, NEW p \in Planners, GRO!Generate(p) PROVE GroceryInv'
<1>1. PICK chosen, people, advance :
        /\ chosen \in SUBSET Dishes
        /\ GRO!Go(p, [GRO!Idle EXCEPT !.at = "recipes", !.left = chosen, !.people = people, !.advance = advance])
  BY DEF GRO!Generate
<1>2. PICK v : v = [GRO!Idle EXCEPT !.at = "recipes", !.left = chosen, !.people = people, !.advance = advance]
  OBVIOUS
<1>3. Planning(v)
  BY <1>1, <1>2 DEF Planning, PlanFields, GRO!Idle
<1>4. GRO!Go(p, v) /\ UNCHANGED <<meta, lists, made>>
  BY <1>1, <1>2 DEF GRO!Generate
<1>5. QED
  BY <1>3, <1>4, PlanGoesOn

LEMMA ReadRecipeKeepsLinks == ASSUME GroceryInv, NEW p \in Planners, GRO!ReadRecipe(p) PROVE GroceryInv'
<1>1. PICK r \in planner[p].left :
        GRO!Go(p, IF GRO!Exists(r)
                  THEN [planner[p] EXCEPT !.left = @ \ {r},
                                          !.meta = [s \in DOMAIN @ \cup {r} |-> IF s = r THEN meta[r] ELSE @[s]]]
                  ELSE GRO!Idle)
  BY DEF GRO!ReadRecipe
<1>2. PICK w : w = [s \in DOMAIN planner[p].meta \cup {r} |-> IF s = r THEN meta[r] ELSE planner[p].meta[s]]
  OBVIOUS
<1>3. PICK v : v = [planner[p] EXCEPT !.left = @ \ {r}, !.meta = w]
  OBVIOUS
<1>4. r \in Dishes /\ DOMAIN w \subseteq Dishes /\ Planning(planner[p])
  BY <1>2 DEF GroceryInv, Plans, Planning
<1>5. Planning(v)
  BY <1>3, <1>4 DEF Planning, PlanFields
<1>6. GRO!Go(p, IF GRO!Exists(r) THEN v ELSE GRO!Idle)
  BY <1>1, <1>2, <1>3
<1>7. Planning(IF GRO!Exists(r) THEN v ELSE GRO!Idle) /\ UNCHANGED <<meta, lists, made>>
  BY <1>5, IdlePlan DEF GRO!ReadRecipe
<1>8. QED
  BY <1>6, <1>7, PlanGoesOn

LEMMA ReadIngredientsKeepsLinks ==
  ASSUME GroceryInv, NEW p \in Planners, GRO!ReadIngredients(p) PROVE GroceryInv'
<1>1. PICK found : GRO!Go(p, [planner[p] EXCEPT !.at = "store", !.rows = found])
  BY Zenon DEF GRO!ReadIngredients
<1>2. PICK v : v = [planner[p] EXCEPT !.at = "store", !.rows = found]
  OBVIOUS
<1>3. Planning(planner[p]) /\ UNCHANGED <<meta, lists, made>>
  BY DEF GroceryInv, Plans, GRO!ReadIngredients
<1>4. Planning(v) /\ GRO!Go(p, v)
  BY <1>1, <1>2, <1>3 DEF Planning, PlanFields
<1>5. QED
  BY <1>3, <1>4, PlanGoesOn

\* A list is stored with all its recipes; one that is gone by then stores none.
LEMMA StoreListKeepsLinks == ASSUME GroceryInv, NEW p \in Planners, GRO!StoreList(p) PROVE GroceryInv'
<1>1. PICK v, id, all : v = planner[p] /\ id = GRO!Cardinality(DOMAIN made) + 1 /\ all = GRO!Lines(v)
  OBVIOUS
<1>2. /\ id <= MaxLists /\ GRO!Go(p, GRO!Idle) /\ UNCHANGED meta
      /\ IF GRO!Storable(DOMAIN v.meta)
         THEN /\ lists' = [i \in DOMAIN lists \cup {id} |->
                              IF i = id THEN [recipes |-> DOMAIN v.meta, items |-> all] ELSE lists[i]]
              /\ made' = [i \in DOMAIN made \cup {id} |-> IF i = id THEN [read |-> v, edited |-> FALSE] ELSE made[i]]
         ELSE UNCHANGED <<lists, made>>
  BY <1>1, Zenon DEF GRO!StoreList
<1>3. CASE ~ GRO!Storable(DOMAIN v.meta)
  BY <1>2, <1>3, IdlePlan, PlanGoesOn
<1>4. CASE GRO!Storable(DOMAIN v.meta)
  <2>1. id \in 1 .. MaxLists
    <3>1. IsFiniteSet(1 .. MaxLists) /\ DOMAIN made \in SUBSET (1 .. MaxLists)
      BY ShoppingAssumption, FS_Interval DEF GroceryInv, Linked
    <3>2. Cardinality(DOMAIN made) \in Nat /\ GRO!Cardinality(DOMAIN made) = Cardinality(DOMAIN made)
      BY <3>1, FS_Subset, FS_CardinalityType DEF Cardinality, GRO!Cardinality
    <3>3. QED
      BY <1>1, <1>2, <3>2, ShoppingAssumption
  <2>2. Planning(v) /\ \A r \in DOMAIN v.meta : GRO!Exists(r)
    BY <1>1, <1>4 DEF GroceryInv, Plans, GRO!Storable
  <2>3. /\ DOMAIN lists' = DOMAIN lists \cup {id} /\ DOMAIN made' = DOMAIN made \cup {id}
        /\ lists'[id] = [recipes |-> DOMAIN v.meta, items |-> all] /\ made'[id] = [read |-> v, edited |-> FALSE]
        /\ \A i \in DOMAIN lists : i # id => lists'[i] = lists[i]
        /\ \A i \in DOMAIN made : i # id => made'[i] = made[i]
    BY <1>2, <1>4
  <2>4. ASSUME NEW i \in DOMAIN made'
        PROVE  DOMAIN made'[i] = {"read", "edited"} /\ DOMAIN made'[i].read.meta \subseteq Dishes
    BY <2>2, <2>3 DEF GroceryInv, Linked, Planning
  <2>5. ASSUME NEW i \in DOMAIN lists'
        PROVE  /\ DOMAIN lists'[i] = {"recipes", "items"}
               /\ lists'[i].recipes = {r \in DOMAIN made'[i].read.meta : GRO!Exists(r)}
    <3>1. CASE i = id
      BY <2>2, <2>3, <3>1
    <3>2. CASE i # id
      BY <2>3, <3>2 DEF GroceryInv, Linked
    <3>3. QED
      BY <3>1, <3>2
  <2>6. \A r : GRO!Exists(r) <=> GRO!Exists(r)'
    BY <1>2 DEF GRO!Exists
  <2>7. Linked'
    BY <2>1, <2>3, <2>4, <2>5, <2>6 DEF GroceryInv, Linked
  <2>8. Plans' /\ Known'
    BY <1>2, IdlePlan DEF GroceryInv, Plans, Known, GRO!Go
  <2>9. QED
    BY <2>7, <2>8 DEF GroceryInv
<1>5. QED
  BY <1>3, <1>4

LEMMA UpdateListKeepsLinks == ASSUME GroceryInv, NEW b \in ListTabs, GRO!UpdateList(b) PROVE GroceryInv'
<1>1. PICK id, items :
        /\ UNCHANGED <<meta, planner>>
        /\ IF id \in DOMAIN lists
           THEN lists' = [lists EXCEPT ![id].items = items] /\ made' = [made EXCEPT ![id].edited = TRUE]
           ELSE UNCHANGED <<lists, made>>
  BY DEF GRO!UpdateList
<1>2. /\ DOMAIN lists' = DOMAIN lists /\ DOMAIN made' = DOMAIN made
      /\ \A i \in DOMAIN lists : DOMAIN lists'[i] = DOMAIN lists[i] /\ lists'[i].recipes = lists[i].recipes
      /\ \A i \in DOMAIN made : DOMAIN made'[i] = DOMAIN made[i] /\ made'[i].read = made[i].read
  BY <1>1 DEF GroceryInv, Linked
<1>3. Linked'
  BY <1>1, <1>2 DEF GroceryInv, Linked, GRO!Exists
<1>4. Plans' /\ Known'
  BY <1>1 DEF GroceryInv, Plans, Known
<1>5. QED
  BY <1>3, <1>4 DEF GroceryInv

LEMMA DeleteListKeepsLinks == ASSUME GroceryInv, NEW id, GRO!DeleteList(id) PROVE GroceryInv'
<1>1. lists' = [i \in DOMAIN lists \ {id} |-> lists[i]] /\ UNCHANGED <<meta, planner, made>>
  BY DEF GRO!DeleteList
<1>2. DOMAIN lists' \subseteq DOMAIN lists /\ \A i \in DOMAIN lists' : lists'[i] = lists[i]
  BY <1>1
<1>3. QED
  BY <1>1, <1>2 DEF GroceryInv, Known, Plans, Linked, GRO!Exists

LEMMA EditRecipeKeepsLinks == ASSUME GroceryInv, NEW r \in Dishes, GRO!EditRecipe(r) PROVE GroceryInv'
<1>1. meta' = [meta EXCEPT ![r].servings = 1] /\ UNCHANGED <<planner, lists, made>> /\ GRO!Exists(r)
  BY DEF GRO!EditRecipe
<1>2. PICK m : m = [meta[r] EXCEPT !.servings = 1]
  OBVIOUS
<1>3. meta[r] \in Served /\ m \in Served /\ m.servings = 1
  BY <1>2 DEF GroceryInv, Known, Served
<1>4. meta' = [meta EXCEPT ![r] = m]
  BY <1>1, <1>2
<1>5. Known' /\ \A s \in Dishes : meta'[s] = IF s = r THEN m ELSE meta[s]
  BY <1>3, <1>4 DEF GroceryInv, Known
<1>6. m # GRO!Gone
  BY <1>3 DEF GRO!Gone
<1>7. \A s \in Dishes : GRO!Exists(s)' <=> GRO!Exists(s)
  BY <1>1, <1>5, <1>6 DEF GRO!Exists
<1>8. Linked' /\ Plans'
  BY <1>1, <1>7 DEF GroceryInv, Linked, Plans
<1>9. QED
  BY <1>5, <1>8 DEF GroceryInv

\* A deleted recipe takes its links along.
LEMMA DeleteRecipeKeepsLinks == ASSUME GroceryInv, NEW r \in Dishes, GRO!DeleteRecipe(r) PROVE GroceryInv'
<1>1. /\ meta' = [meta EXCEPT ![r] = GRO!Gone] /\ UNCHANGED <<planner, made>>
      /\ lists' = [i \in DOMAIN lists |-> [lists[i] EXCEPT !.recipes = @ \ {r}]]
  BY DEF GRO!DeleteRecipe
<1>2. GRO!Gone \in Served
  BY DEF GRO!Gone, Served
<1>3. Known' /\ \A s \in Dishes : meta'[s] = IF s = r THEN GRO!Gone ELSE meta[s]
  BY <1>1, <1>2 DEF GroceryInv, Known
<1>4. \A s \in Dishes : GRO!Exists(s)' <=> GRO!Exists(s) /\ s # r
  BY <1>3 DEF GRO!Exists
<1>5. ASSUME NEW i \in DOMAIN lists
      PROVE  DOMAIN lists'[i] = DOMAIN lists[i] /\ lists'[i].recipes = lists[i].recipes \ {r}
  BY <1>1 DEF GroceryInv, Linked
<1>6. DOMAIN lists' = DOMAIN lists
  BY <1>1
<1>7. ASSUME NEW i \in DOMAIN lists'
      PROVE  /\ DOMAIN lists'[i] = {"recipes", "items"}
             /\ lists'[i].recipes = {s \in DOMAIN made'[i].read.meta : GRO!Exists(s)'}
  BY <1>1, <1>4, <1>5, <1>6 DEF GroceryInv, Linked
<1>8. Linked' /\ Plans'
  BY <1>1, <1>6, <1>7 DEF GroceryInv, Linked, Plans
<1>9. QED
  BY <1>3, <1>8 DEF GroceryInv

LEMMA GroceryNext == GroceryInv /\ [GRO!Next]_(GRO!vars) => GroceryInv'
<1> SUFFICES ASSUME GroceryInv, [GRO!Next]_(GRO!vars) PROVE GroceryInv'
  OBVIOUS
<1>1. ASSUME NEW p \in Planners, GRO!Generate(p) PROVE GroceryInv'
  BY <1>1, GenerateKeepsLinks
<1>2. ASSUME NEW p \in Planners, GRO!ReadRecipe(p) PROVE GroceryInv'
  BY <1>2, ReadRecipeKeepsLinks
<1>3. ASSUME NEW p \in Planners, GRO!ReadIngredients(p) PROVE GroceryInv'
  BY <1>3, ReadIngredientsKeepsLinks
<1>4. ASSUME NEW p \in Planners, GRO!StoreList(p) PROVE GroceryInv'
  BY <1>4, StoreListKeepsLinks
<1>5. ASSUME NEW b \in ListTabs, GRO!OpenList(b) PROVE GroceryInv'
  BY <1>5 DEF GRO!OpenList, GroceryInv, Known, Plans, Linked, GRO!Exists
<1>6. ASSUME NEW b \in ListTabs, GRO!UpdateList(b) PROVE GroceryInv'
  BY <1>6, UpdateListKeepsLinks
<1>7. ASSUME NEW id, GRO!DeleteList(id) PROVE GroceryInv'
  BY <1>7, DeleteListKeepsLinks
<1>8. ASSUME NEW r \in Dishes, GRO!EditRecipe(r) PROVE GroceryInv'
  BY <1>8, EditRecipeKeepsLinks
<1>9. ASSUME NEW r \in Dishes, GRO!DeleteRecipe(r) PROVE GroceryInv'
  BY <1>9, DeleteRecipeKeepsLinks
<1>10. CASE UNCHANGED GRO!vars
  BY <1>10 DEF GRO!vars, GroceryInv, Known, Plans, Linked, GRO!Exists
<1>11. QED
  BY <1>1, <1>2, <1>3, <1>4, <1>5, <1>6, <1>7, <1>8, <1>9, <1>10, Zenon DEF GRO!Next

LEMMA GroceryTyped == GroceryInv => GRO!TypeOK
BY DEF GroceryInv, Plans, Planning, Linked, GRO!TypeOK

LEMMA LinksHold == GroceryInv => GRO!LinksAreWhole
BY DEF GroceryInv, Linked, GRO!LinksAreWhole

LEMMA GroceryMove ==
  ASSUME [ServerNext]_<<vars, tablesVars>>, part = "grocery"
  PROVE  [GRO!Next]_(GRO!vars)
<1>1. CASE UNCHANGED tablesVars
  BY <1>1 DEF tablesVars, groceryVars, scenarioVars, GRO!vars
<1>2. CASE TablesNext
  BY <1>2 DEF TablesNext, MigrationsStep, DailyStep, GroceryStep
<1>3. QED
  BY <1>1, <1>2 DEF ServerNext

LEMMA GroceryStands == ServerSpec => [](part = "grocery" => GroceryInv)
<1>1. ServerInit => (part = "grocery" => GroceryInv)
  BY GroceryInit DEF ServerInit, TablesInit
<1>2. (part = "grocery" => GroceryInv) /\ [ServerNext]_<<vars, tablesVars>> => (part = "grocery" => GroceryInv)'
  BY ServerStaysInPart, GroceryMove, GroceryNext
<1>3. QED
  BY <1>1, <1>2, PTL DEF ServerSpec

(* A grocery list is stored with all its recipes or not at all, and a deleted  *)
(* recipe takes its links and nothing else, whoever plans, edits and deletes   *)
(* meanwhile: the half of ListsMatch that is not about sums (actions.go:183).  *)
THEOREM ListLinksAreWhole == ServerSpec => [](part = "grocery" => GRO!LinksAreWhole)
<1>1. (part = "grocery" => GroceryInv) => (part = "grocery" => GRO!LinksAreWhole)
  BY LinksHold
<1>2. QED
  BY <1>1, GroceryStands, PTL
================================================================================
