--------------------------- MODULE MediaStoreProofs ---------------------------
(***************************************************************************)
(* What holds of MediaStore for every set of files, endpoints and workers, *)
(* every limit of the sweep and every failure, of stores and statements.   *)
(*                                                                         *)
(* A stored replica can only get lost by a deletion of its object.  The    *)
(* argument is that whoever deletes one has made up its mind about a file  *)
(* that is deleted, or was inserted while the purge was under way, or is   *)
(* cleaning up its own failed upload, and that a deleted file never        *)
(* becomes live again, nor a failed upload an accepted one.  It does not   *)
(* use that an UPDATE of file_s3 is ever written.                          *)
(***************************************************************************)
EXTENDS MediaStore, TLAPS

WorkType == [at : {"idle", "next", "load", "source", "put", "mark", "remove", "gone"},
             job : Jobs, file : Files \cup {None}, ep : Endpoints \cup {None},
             todo : SUBSET Pairs]
PurgeType == [at : {"idle", "busy"}, known : SUBSET Files, eps : SUBSET Endpoints,
              todo : SUBSET Pairs]
Typed ==
  /\ row \in [Files -> {"none", "live", "deleted"}]
  /\ up \in [Files -> {"new", "store", "abandon", "clean", "cache", "acked", "failed", "killed"}]
  /\ attempt \in [Pairs -> {"put", "record", "uploaded", "upload_failed"}]
  /\ removal \in [Files -> {"no", "enqueue", "done"}]
  /\ replica \in [Pairs -> {"none", "uploading", "uploaded", "upload_failed", "deleted",
                           "delete_failed"}]
  /\ object \in [Pairs -> BOOLEAN]
  /\ raced \subseteq Files
  /\ work \in [Workers -> WorkType]
  /\ purge \in PurgeType

\* Files are inserted once, by their request.
Born ==
  \A f \in Files :
    /\ row[f] = "none" <=> up[f] = "new"
    /\ row[f] = "none" => \A e \in Endpoints : replica[<<f, e>>] = "none" /\ attempt[<<f, e>>] = "put"
    /\ removal[f] = "enqueue" => row[f] = "deleted"

\* What the object store owes to whoever has stored the replica.
Kept(f, e) == row[f] = "live" /\ f \notin raced /\ up[f] # "failed" => object[<<f, e>>]

\* Only deleted files are deleted from the stores, only existing ones repaired.
Sound(j) ==
  /\ j.op = "repair" => j.file \in Files /\ j.ep \in Endpoints /\ row[j.file] # "none"
  /\ j.op = "delete" => j.file \in Files /\ row[j.file] = "deleted"
JobsSound == \A j \in queued : j \in Jobs /\ Sound(j)

Repairing == {"load", "source", "put", "mark"}
Deleting  == {"remove", "gone"}
Worker(x) ==
  /\ x.at # "idle" => Sound(x.job)
  /\ x.at \in Repairing => x.file \in Files /\ x.ep \in Endpoints /\ row[x.file] # "none"
  /\ x.at = "mark" => Kept(x.file, x.ep)
  /\ x.at \in Deleting => x.file \in Files /\ row[x.file] = "deleted"
  /\ x.at = "gone" => x.ep \in Endpoints
  /\ \A f \in Files, e \in Endpoints : <<f, e>> \in x.todo =>
       /\ row[f] # "none"
       /\ x.at \in Deleting => row[f] = "deleted"
WorkSound == \A w \in Workers : Worker(work[w])

\* A purge knows every live file but those inserted since it began.
PurgeSound ==
  /\ purge.at = "idle" => purge.todo = {}
  /\ purge.at = "busy" => \A f \in Files : row[f] = "live" => f \in purge.known \cup raced
  /\ \A f \in Files, e \in Endpoints : <<f, e>> \in purge.todo => f \notin purge.known

AttemptSound ==
  \A f \in Files, e \in Endpoints : attempt[<<f, e>>] \in {"record", "uploaded"} => Kept(f, e)
Accepted ==
  \A f \in Files :
    up[f] \in {"cache", "acked"} => \E e \in Endpoints : attempt[<<f, e>>] = "uploaded"

RecordedKept == \A f \in Files, e \in Endpoints : replica[<<f, e>>] = "uploaded" => Kept(f, e)

Inv == Typed /\ Born /\ JobsSound /\ WorkSound /\ PurgeSound /\ AttemptSound /\ Accepted /\
       RecordedKept

LEMMA PairFacts ==
  /\ \A f \in Files, e \in Endpoints : <<f, e>> \in Pairs
  /\ \A p \in Pairs : p[1] \in Files /\ p[2] \in Endpoints /\ p = <<p[1], p[2]>>
  BY DEF Pairs

LEMMA NoWorkFacts == NoWork \in WorkType /\ Worker(NoWork) /\ Worker(NoWork)'
<1>1. Sweep \in Jobs
  BY DEF Jobs
<1>2. NoWork \in WorkType
  BY <1>1 DEF WorkType, NoWork
<1>3. QED
  BY <1>2 DEF Worker, NoWork, Repairing, Deleting

LEMMA InitInv == Init => Inv
<1> SUFFICES ASSUME Init PROVE Inv
  OBVIOUS
<1>1. Typed
  BY NoWorkFacts DEF Init, Typed, PurgeType, NoPurge
<1>2. Born /\ AttemptSound /\ Accepted /\ RecordedKept
  BY PairFacts DEF Init, Born, AttemptSound, Accepted, RecordedKept
<1>3. JobsSound /\ WorkSound
  BY NoWorkFacts DEF Init, JobsSound, WorkSound
<1>4. PurgeSound
  BY DEF Init, PurgeSound, NoPurge
<1>5. QED
  BY <1>1, <1>2, <1>3, <1>4 DEF Inv

(***************************************************************************)
(* What a step may do to those it does not know of.                        *)
(***************************************************************************)
Forward ==
  \A f \in Files : /\ row[f] # "none" => row'[f] # "none"
                   /\ row[f] = "deleted" => row'[f] = "deleted"
\* A failed upload stays one.
FailedStays == \A f \in Files : up[f] = "failed" => up'[f] = "failed"
KeptStays ==
  \A f \in Files, e \in Endpoints : row[f] # "none" /\ Kept(f, e) => Kept(f, e)'

LEMMA SameRow == row' = row => Forward
  BY DEF Forward

LEMMA MoreObjects ==
  ASSUME row' = row, raced' = raced, FailedStays,
         \A f \in Files, e \in Endpoints : object[<<f, e>>] => object'[<<f, e>>]
  PROVE  KeptStays
BY DEF KeptStays, Kept, FailedStays

LEMMA SameUp == up' = up => FailedStays
  BY DEF FailedStays

LEMMA SoundStays ==
  ASSUME Forward, NEW j, Sound(j)
  PROVE  Sound(j)'
BY DEF Forward, Sound

LEMMA WorkerStays ==
  ASSUME Forward, KeptStays, NEW x, Worker(x)
  PROVE  Worker(x)'
<1>1. x.at # "idle" => Sound(x.job)'
  BY SoundStays DEF Worker
<1>2. x.at = "mark" => Kept(x.file, x.ep)'
  BY DEF Worker, KeptStays, Repairing
<1>3. QED
  BY <1>1, <1>2 DEF Worker, Forward

LEMMA JobsStay ==
  ASSUME Inv, Forward, \A j \in queued' : j \in queued \/ (j \in Jobs /\ Sound(j))
  PROVE  JobsSound'
<1>1. \A j \in queued' : j \in Jobs /\ Sound(j)
  BY DEF Inv, JobsSound
<1>2. QED
  BY <1>1, SoundStays DEF JobsSound

LEMMA WorkStays ==
  ASSUME Inv, Forward, KeptStays, work' = work
  PROVE  WorkSound'
BY WorkerStays DEF Inv, WorkSound

LEMMA AttemptsStay ==
  ASSUME Inv, KeptStays, attempt' = attempt
  PROVE  AttemptSound'
<1>1. ASSUME NEW f \in Files, NEW e \in Endpoints, attempt[<<f, e>>] \in {"record", "uploaded"}
      PROVE  Kept(f, e)'
  <2>1. row[f] # "none"
    BY <1>1 DEF Inv, Born
  <2>2. QED
    BY <1>1, <2>1 DEF Inv, AttemptSound, KeptStays
<1>2. QED
  BY <1>1 DEF AttemptSound

LEMMA AcceptedStay ==
  ASSUME Inv, attempt' = attempt,
         \A f \in Files : up'[f] \in {"cache", "acked"} => up[f] \in {"cache", "acked"}
  PROVE  Accepted'
BY DEF Inv, Accepted

LEMMA RecordsStay ==
  ASSUME Inv, KeptStays,
         \A f \in Files, e \in Endpoints :
           replica'[<<f, e>>] = "uploaded" => replica[<<f, e>>] = "uploaded" \/ Kept(f, e)',
         \A f \in Files, e \in Endpoints : replica'[<<f, e>>] = "uploaded" => row[f] # "none"
  PROVE  RecordedKept'
BY DEF Inv, RecordedKept, KeptStays

\* A step of worker w.
LEMMA WorkerStep ==
  ASSUME Inv, UNCHANGED <<row, up, attempt, removal, purge, raced>>, KeptStays,
         object' \in [Pairs -> BOOLEAN],
         replica' \in [Pairs -> {"none", "uploading", "uploaded", "upload_failed", "deleted",
                                 "delete_failed"}],
         \A j \in queued' : j \in queued,
         NEW w \in Workers, NEW x \in WorkType, Worker(x)', work' = [work EXCEPT ![w] = x],
         \A f \in Files, e \in Endpoints :
           /\ row[f] = "none" => replica'[<<f, e>>] = replica[<<f, e>>]
           /\ replica'[<<f, e>>] = "uploaded" => replica[<<f, e>>] = "uploaded" \/ Kept(f, e)'
  PROVE  Inv'
<1>1. Forward
  BY SameRow
<1>2. Typed'
  BY DEF Inv, Typed
<1>3. Born'
  BY DEF Inv, Born
<1>4. JobsSound'
  <2>1. \A j \in queued : j \in Jobs /\ Sound(j)
    BY DEF Inv, JobsSound
  <2>2. QED
    BY <1>1, <2>1, SoundStays DEF JobsSound
<1>5. WorkSound'
  <2>1. \A v \in Workers : work'[v] = IF v = w THEN x ELSE work[v]
    BY DEF Inv, Typed
  <2>2. \A v \in Workers : Worker(work[v])'
    <3>1. \A v \in Workers : Worker(work[v])
      BY DEF Inv, WorkSound
    <3> TAKE v \in Workers
    <3>2. CASE v = w
      <4>1. work'[v] = x
        BY <2>1, <3>2
      <4>2. QED
        BY <4>1
    <3>3. CASE v # w
      <4>1. work'[v] = work[v]
        BY <2>1, <3>3
      <4>2. Worker(work[v]) /\ Forward /\ KeptStays
        BY <1>1, <3>1
      <4> DEFINE y == work[v]
      <4>3. QED
        BY <4>1, <4>2, WorkerStays DEF Worker
    <3>4. QED
      BY <3>2, <3>3
  <2>3. QED
    BY <2>2 DEF WorkSound
<1>6. PurgeSound'
  BY DEF Inv, PurgeSound
<1>7. AttemptSound' /\ Accepted'
  BY <1>1, AttemptsStay, AcceptedStay
<1>8. RecordedKept'
  BY RecordsStay DEF Inv, Born
<1>9. QED
  BY <1>2, <1>3, <1>4, <1>5, <1>6, <1>7, <1>8 DEF Inv

\* A worker that leaves the tables alone.
LEMMA ThinkingStep ==
  ASSUME Inv, UNCHANGED <<row, up, attempt, removal, purge, raced, object, replica>>,
         \A j \in queued' : j \in queued,
         NEW w \in Workers, NEW x \in WorkType, Worker(x), work' = [work EXCEPT ![w] = x]
  PROVE  Inv'
<1>1. Forward /\ KeptStays
  BY SameRow, SameUp, MoreObjects
<1>2. Worker(x)'
  BY <1>1, WorkerStays
<1>3. /\ object' \in [Pairs -> BOOLEAN]
      /\ replica' \in [Pairs -> {"none", "uploading", "uploaded", "upload_failed", "deleted",
                                 "delete_failed"}]
  BY DEF Inv, Typed
<1>4. QED
  BY <1>1, <1>2, <1>3, WorkerStep

\* After a repair the sweep goes on with what it has left.
LEMMA AfterRepair ==
  ASSUME Inv, NEW w \in Workers, work[w].at \in Repairing, EndRepair(w)
  PROVE  \E x \in WorkType : Worker(x) /\ work' = [work EXCEPT ![w] = x]
<1> DEFINE y == [work[w] EXCEPT !.at = "next"]
           x == IF work[w].job = Sweep THEN y ELSE NoWork
<1>1. work[w] \in WorkType /\ Worker(work[w])
  BY DEF Inv, Typed, WorkSound
<1>2. /\ y \in WorkType /\ y.at = "next" /\ y.job = work[w].job /\ y.todo = work[w].todo
  BY <1>1 DEF WorkType
<1>3. Worker(y)
  <2> HIDE DEF y
  <2>1. QED
    BY <1>1, <1>2 DEF Worker, Repairing, Deleting
<1>4. x \in WorkType /\ Worker(x)
  BY <1>2, <1>3, NoWorkFacts
<1>5. work' = [work EXCEPT ![w] = x]
  BY DEF EndRepair
<1> HIDE DEF x
<1>6. QED
  BY <1>4, <1>5

LEMMA RepairLoadInv ==
  ASSUME Inv, NEW w \in Workers, RepairLoad(w)
  PROVE  Inv'
<1> DEFINE y == [work[w] EXCEPT !.at = "source"]
<1>1. /\ UNCHANGED <<row, up, attempt, removal, purge, raced, object, replica, queued>>
      /\ work[w].at = "load"
  BY DEF RepairLoad
<1>2. work[w] \in WorkType /\ Worker(work[w])
  BY DEF Inv, Typed, WorkSound
<1>3. CASE EndRepair(w)
  BY <1>1, <1>3, AfterRepair, ThinkingStep DEF Repairing
<1>4. CASE work' = [work EXCEPT ![w].at = "source"]
  <2>1. /\ y \in WorkType /\ y.at = "source" /\ y.job = work[w].job /\ y.todo = work[w].todo
        /\ y.file = work[w].file /\ y.ep = work[w].ep
    BY <1>2 DEF WorkType
  <2>2. work' = [work EXCEPT ![w] = y]
    BY <1>4 DEF Inv, Typed
  <2> HIDE DEF y
  <2>3. Worker(y)
    BY <1>1, <1>2, <2>1 DEF Worker, Repairing, Deleting
  <2>4. QED
    BY <1>1, <2>1, <2>2, <2>3, ThinkingStep
<1>5. QED
  BY <1>3, <1>4 DEF RepairLoad

LEMMA RepairSourceInv ==
  ASSUME Inv, NEW w \in Workers, RepairSource(w)
  PROVE  Inv'
<1> DEFINE y == [work[w] EXCEPT !.at = "put"]
<1>1. /\ UNCHANGED <<row, up, attempt, removal, purge, raced, object, replica, queued>>
      /\ work[w].at = "source"
  BY DEF RepairSource
<1>2. work[w] \in WorkType /\ Worker(work[w])
  BY DEF Inv, Typed, WorkSound
<1>3. CASE EndRepair(w)
  BY <1>1, <1>3, AfterRepair, ThinkingStep DEF Repairing
<1>4. CASE work' = [work EXCEPT ![w].at = "put"]
  <2>1. /\ y \in WorkType /\ y.at = "put" /\ y.job = work[w].job /\ y.todo = work[w].todo
        /\ y.file = work[w].file /\ y.ep = work[w].ep
    BY <1>2 DEF WorkType
  <2>2. work' = [work EXCEPT ![w] = y]
    BY <1>4 DEF Inv, Typed
  <2> HIDE DEF y
  <2>3. Worker(y)
    BY <1>1, <1>2, <2>1 DEF Worker, Repairing, Deleting
  <2>4. QED
    BY <1>1, <2>1, <2>2, <2>3, ThinkingStep
<1>5. QED
  BY <1>3, <1>4 DEF RepairSource

\* The object is there before the row says so.
LEMMA RepairPutInv ==
  ASSUME Inv, NEW w \in Workers, RepairPut(w)
  PROVE  Inv'
<1>1. /\ UNCHANGED <<row, up, attempt, removal, purge, raced, replica, queued>>
      /\ work[w].at = "put" /\ work' = [work EXCEPT ![w].at = "mark"]
  BY DEF RepairPut
<1>2. work[w] \in WorkType /\ Worker(work[w])
  BY DEF Inv, Typed, WorkSound
<1>3. PICK f \in Files, e \in Endpoints : f = work[w].file /\ e = work[w].ep
  BY <1>1, <1>2 DEF Worker, Repairing
<1>4. PICK y : y = [work[w] EXCEPT !.at = "mark"]
  OBVIOUS
<1>5. /\ y \in WorkType /\ y.at = "mark" /\ y.job = work[w].job /\ y.todo = work[w].todo
      /\ y.file = f /\ y.ep = e
  BY <1>2, <1>3, <1>4 DEF WorkType
<1>6. work' = [work EXCEPT ![w] = y]
  BY <1>1, <1>4 DEF Inv, Typed
<1>7. object' = [object EXCEPT ![<<f, e>>] = TRUE]
  BY <1>3 DEF RepairPut
<1>8. object' \in [Pairs -> BOOLEAN] /\ object'[<<f, e>>] /\ KeptStays
  BY <1>1, <1>7, SameUp, MoreObjects, PairFacts DEF Inv, Typed
<1>9. Worker(y)'
  <2>1. Kept(f, e)'
    BY <1>8 DEF Kept
  <2>2. Sound(work[w].job)
    BY <1>1, <1>2 DEF Worker
  <2>3. Sound(y.job)'
    BY <1>1, <1>5, <2>2 DEF Sound
  <2>4. \A g \in Files, d \in Endpoints : <<g, d>> \in y.todo => row'[g] # "none"
    BY <1>1, <1>2, <1>5 DEF Worker
  <2>5. row'[f] # "none"
    BY <1>1, <1>2, <1>3 DEF Worker, Repairing
  <2>6. Kept(y.file, y.ep)'
    BY <1>5, <2>1
  <2>7. QED
    BY <1>5, <2>3, <2>4, <2>5, <2>6 DEF Worker, Repairing, Deleting
<1>10. replica' \in [Pairs -> {"none", "uploading", "uploaded", "upload_failed", "deleted",
                               "delete_failed"}]
  BY <1>1 DEF Inv, Typed
<1>11. QED
  BY <1>1, <1>5, <1>6, <1>8, <1>9, <1>10, WorkerStep

\* Also a Put that failed may have stored its object.
LEMMA RepairFailsInv ==
  ASSUME Inv, NEW w \in Workers, RepairFails(w)
  PROVE  Inv'
<1>1. /\ UNCHANGED <<row, up, attempt, removal, purge, raced, replica, queued>>
      /\ work[w].at \in Repairing /\ EndRepair(w)
  BY DEF RepairFails, Repairing
<1>2. PICK x \in WorkType : Worker(x) /\ work' = [work EXCEPT ![w] = x]
  BY <1>1, AfterRepair
<1>3. object' \in [Pairs -> BOOLEAN] /\ KeptStays
  <2>1. CASE UNCHANGED object
    BY <1>1, <2>1, SameUp, MoreObjects DEF Inv, Typed
  <2>2. CASE object' = [object EXCEPT ![<<work[w].file, work[w].ep>>] = TRUE]
    <3>1. object' \in [Pairs -> BOOLEAN]
      BY <2>2 DEF Inv, Typed
    <3>2. \A f \in Files, e \in Endpoints : object[<<f, e>>] => object'[<<f, e>>]
      BY <2>2, PairFacts DEF Inv, Typed
    <3>3. QED
      BY <1>1, <3>1, <3>2, SameUp, MoreObjects
  <2>3. QED
    BY <2>1, <2>2 DEF RepairFails
<1>4. Worker(x)'
  BY <1>1, <1>2, <1>3, SameRow, WorkerStays
<1>5. replica' \in [Pairs -> {"none", "uploading", "uploaded", "upload_failed", "deleted",
                              "delete_failed"}]
  BY <1>1 DEF Inv, Typed
<1>6. QED
  BY <1>1, <1>2, <1>3, <1>4, <1>5, WorkerStep

\* The row of a repaired replica tells the truth.
LEMMA RepairMarkInv ==
  ASSUME Inv, NEW w \in Workers, RepairMark(w)
  PROVE  Inv'
<1>1. /\ UNCHANGED <<row, up, attempt, removal, purge, raced, object, queued>>
      /\ work[w].at = "mark" /\ EndRepair(w)
  BY DEF RepairMark
<1>2. PICK x \in WorkType : Worker(x) /\ work' = [work EXCEPT ![w] = x]
  BY <1>1, AfterRepair DEF Repairing
<1>3. work[w] \in WorkType /\ Worker(work[w])
  BY DEF Inv, Typed, WorkSound
<1>4. PICK f \in Files, e \in Endpoints :
        f = work[w].file /\ e = work[w].ep /\ row[f] # "none" /\ Kept(f, e)
  BY <1>1, <1>3 DEF Worker, Repairing
<1>5. replica' = [replica EXCEPT ![<<f, e>>] = "uploaded"]
  BY <1>4 DEF RepairMark
<1>6. /\ object' \in [Pairs -> BOOLEAN]
      /\ replica' \in [Pairs -> {"none", "uploading", "uploaded", "upload_failed", "deleted",
                                 "delete_failed"}]
  BY <1>1, <1>5 DEF Inv, Typed
<1>7. \A g \in Files, d \in Endpoints :
        replica'[<<g, d>>] = IF g = f /\ d = e THEN "uploaded" ELSE replica[<<g, d>>]
  BY <1>5, PairFacts DEF Inv, Typed
<1>8. Kept(f, e)'
  BY <1>1, <1>4 DEF Kept
<1>9. \A g \in Files, d \in Endpoints :
        /\ row[g] = "none" => replica'[<<g, d>>] = replica[<<g, d>>]
        /\ replica'[<<g, d>>] = "uploaded" => replica[<<g, d>>] = "uploaded" \/ Kept(g, d)'
  BY <1>4, <1>7, <1>8
<1>10. KeptStays /\ Worker(x)'
  BY <1>1, <1>2, SameRow, SameUp, MoreObjects, WorkerStays
<1>11. QED
  BY <1>1, <1>2, <1>6, <1>9, <1>10, WorkerStep

LEMMA SweepNextInv ==
  ASSUME Inv, NEW w \in Workers, SweepNext(w)
  PROVE  Inv'
<1>1. /\ UNCHANGED <<row, up, attempt, removal, purge, raced, object, replica, queued>>
      /\ work[w].at = "next"
  BY DEF SweepNext
<1>2. work[w] \in WorkType /\ Worker(work[w])
  BY DEF Inv, Typed, WorkSound
<1>3. CASE work' = [work EXCEPT ![w] = NoWork]
  BY <1>1, <1>3, NoWorkFacts, ThinkingStep
<1>4. ASSUME NEW p \in work[w].todo,
             work' = [work EXCEPT ![w].at = "load", ![w].file = p[1], ![w].ep = p[2],
                                  ![w].todo = @ \ {p}]
      PROVE  Inv'
  <2>1. work[w].todo \subseteq Pairs
    BY <1>2 DEF WorkType
  <2>2. p \in Pairs /\ p[1] \in Files /\ p[2] \in Endpoints /\ p = <<p[1], p[2]>>
    BY <2>1, PairFacts
  <2>3. row[p[1]] # "none"
    BY <1>2, <2>2 DEF Worker
  <2>4. PICK y : y = [work[w] EXCEPT !.at = "load", !.file = p[1], !.ep = p[2], !.todo = @ \ {p}]
    OBVIOUS
  <2>5. /\ y \in WorkType /\ y.at = "load" /\ y.job = work[w].job /\ y.file = p[1] /\ y.ep = p[2]
        /\ y.todo = work[w].todo \ {p}
    BY <1>2, <2>2, <2>4 DEF WorkType
  <2>6. work' = [work EXCEPT ![w] = y]
    BY <1>4, <2>4 DEF Inv, Typed
  <2>7. Worker(y)
    <3>1. Sound(y.job)
      BY <1>1, <1>2, <2>5 DEF Worker
    <3>2. \A f \in Files, e \in Endpoints : <<f, e>> \in y.todo => row[f] # "none"
      BY <1>2, <2>5 DEF Worker
    <3>3. QED
      BY <2>2, <2>3, <2>5, <3>1, <3>2 DEF Worker, Repairing, Deleting
  <2>8. QED
    BY <1>1, <2>5, <2>6, <2>7, ThinkingStep
<1>5. QED
  BY <1>3, <1>4 DEF SweepNext

\* What is queued is sound, and the sweep selects replicas of existing files.
LEMMA StartJobInv ==
  ASSUME Inv, NEW w \in Workers, NEW j \in Jobs, StartJob(w, j)
  PROVE  Inv'
<1>1. /\ UNCHANGED <<row, up, attempt, removal, purge, raced, object, replica>>
      /\ Sound(j) /\ \A i \in queued' : i \in queued
  BY DEF StartJob, Inv, JobsSound
<1>2. PICK y : y =
        CASE j.op = "repair" -> [NoWork EXCEPT !.at = "load", !.job = j, !.file = j.file, !.ep = j.ep]
          [] j.op = "delete" -> [NoWork EXCEPT !.at = "remove", !.job = j, !.file = j.file,
                                               !.todo = {j.file} \X Endpoints]
          [] j.op = "sweep"  -> [NoWork EXCEPT !.at = "next", !.job = j, !.todo = SweepSelection]
  OBVIOUS
<1>3. work' = [work EXCEPT ![w] = y]
  BY <1>2 DEF StartJob
<1>4. NoWork \in WorkType /\ NoWork.todo = {}
  BY NoWorkFacts DEF NoWork
<1>5. y \in WorkType /\ Worker(y)
  <2>1. CASE j.op = "repair"
    <3>1. y = [NoWork EXCEPT !.at = "load", !.job = j, !.file = j.file, !.ep = j.ep]
      BY <1>2, <2>1
    <3>2. j.file \in Files /\ j.ep \in Endpoints /\ row[j.file] # "none"
      BY <1>1, <2>1 DEF Sound
    <3>3. /\ y \in WorkType /\ y.at = "load" /\ y.job = j /\ y.file = j.file /\ y.ep = j.ep
          /\ y.todo = {}
      BY <1>4, <3>1, <3>2 DEF WorkType
    <3>4. QED
      BY <1>1, <3>2, <3>3 DEF Worker, Repairing, Deleting
  <2>2. CASE j.op = "delete"
    <3>1. y = [NoWork EXCEPT !.at = "remove", !.job = j, !.file = j.file,
                             !.todo = {j.file} \X Endpoints]
      BY <1>2, <2>2
    <3>2. j.file \in Files /\ row[j.file] = "deleted"
      BY <1>1, <2>2 DEF Sound
    <3>3. {j.file} \X Endpoints \in SUBSET Pairs
      BY <3>2 DEF Pairs
    <3>4. /\ y \in WorkType /\ y.at = "remove" /\ y.job = j /\ y.file = j.file
          /\ y.todo = {j.file} \X Endpoints
      BY <1>4, <3>1, <3>2, <3>3 DEF WorkType
    <3>5. \A f \in Files, e \in Endpoints : <<f, e>> \in y.todo => f = j.file
      BY <3>4
    <3>6. QED
      BY <1>1, <3>2, <3>4, <3>5 DEF Worker, Repairing, Deleting
  <2>3. CASE j.op = "sweep"
    <3>1. y = [NoWork EXCEPT !.at = "next", !.job = j, !.todo = SweepSelection]
      BY <1>2, <2>3
    <3>2. SweepSelection \in SUBSET Pairs
      BY DEF SweepSelection, Failed
    <3>3. /\ y \in WorkType /\ y.at = "next" /\ y.job = j /\ y.todo = SweepSelection
      BY <1>4, <3>1, <3>2 DEF WorkType
    <3>4. \A f \in Files, e \in Endpoints : <<f, e>> \in y.todo => row[f] # "none"
      BY <3>3 DEF SweepSelection, Failed, Inv, Born
    <3>5. QED
      BY <1>1, <3>3, <3>4 DEF Worker, Repairing, Deleting
  <2>4. QED
    BY <2>1, <2>2, <2>3 DEF Jobs, Repair, Delete, Sweep
<1>6. QED
  BY <1>1, <1>3, <1>5, ThinkingStep

LEMMA DeletedNeedsNothing ==
  ASSUME row' = row, raced' = raced, FailedStays,
         NEW f \in Files, row[f] = "deleted" \/ up'[f] = "failed",
         \A g \in Files, e \in Endpoints : g # f => object'[<<g, e>>] = object[<<g, e>>]
  PROVE  KeptStays
BY DEF KeptStays, Kept, FailedStays

\* Only replicas of deleted files are deleted.
LEMMA DeleteObjectInv ==
  ASSUME Inv, NEW w \in Workers, DeleteObject(w)
  PROVE  Inv'
<1>1. /\ UNCHANGED <<row, up, attempt, removal, purge, raced, queued>>
      /\ work[w].at = "remove"
  BY DEF DeleteObject
<1>2. work[w] \in WorkType /\ Worker(work[w])
  BY DEF Inv, Typed, WorkSound
<1>3. CASE work' = [work EXCEPT ![w] = NoWork] /\ UNCHANGED <<object, replica>>
  BY <1>1, <1>3, NoWorkFacts, ThinkingStep
<1>4. ASSUME NEW p \in work[w].todo, NEW at \in {"gone", "remove"}, NEW there \in BOOLEAN,
             NEW y,
             y = [work[w] EXCEPT !.at = at, !.ep = IF at = "gone" THEN p[2] ELSE @,
                                 !.todo = @ \ {p}],
             work' = [work EXCEPT ![w] = y], object' = [object EXCEPT ![p] = there],
             replica' \in {replica, [replica EXCEPT ![p] = "delete_failed"]}
      PROVE  Inv'
  <2>1. work[w].todo \subseteq Pairs
    BY <1>2 DEF WorkType
  <2>2. p \in Pairs /\ p[1] \in Files /\ p[2] \in Endpoints /\ p = <<p[1], p[2]>>
    BY <2>1, PairFacts
  <2>3. row[p[1]] = "deleted"
    BY <1>1, <1>2, <2>2 DEF Worker, Deleting
  <2>4. /\ y \in WorkType /\ y.at = at /\ y.job = work[w].job /\ y.file = work[w].file
        /\ at = "gone" => y.ep = p[2]
        /\ y.todo = work[w].todo \ {p}
    BY <1>2, <1>4, <2>2 DEF WorkType
  <2>5. Worker(y)
    <3>1. Sound(y.job) /\ y.file \in Files /\ row[y.file] = "deleted"
      BY <1>1, <1>2, <2>4 DEF Worker, Deleting
    <3>2. \A f \in Files, e \in Endpoints : <<f, e>> \in y.todo => row[f] = "deleted"
      BY <1>1, <1>2, <2>4 DEF Worker, Deleting
    <3>3. QED
      BY <2>2, <2>4, <3>1, <3>2 DEF Worker, Repairing, Deleting
  <2>6. \A g \in Files, e \in Endpoints : g # p[1] => <<g, e>> # p
    BY <2>2
  <2>7. object' \in [Pairs -> BOOLEAN] /\ KeptStays
    <3>1. \A g \in Files, e \in Endpoints : g # p[1] => object'[<<g, e>>] = object[<<g, e>>]
      BY <1>4, <2>6, PairFacts DEF Inv, Typed
    <3>2. object' \in [Pairs -> BOOLEAN]
      BY <1>4 DEF Inv, Typed
    <3>3. QED
      BY <1>1, <2>2, <2>3, <3>1, <3>2, SameUp, DeletedNeedsNothing
  <2>8. /\ replica' \in [Pairs -> {"none", "uploading", "uploaded", "upload_failed", "deleted",
                                   "delete_failed"}]
        /\ \A g \in Files, e \in Endpoints :
             /\ g # p[1] => replica'[<<g, e>>] = replica[<<g, e>>]
             /\ replica'[<<g, e>>] \in {replica[<<g, e>>], "delete_failed"}
    BY <1>4, <2>2, <2>6, PairFacts DEF Inv, Typed
  <2>9. Worker(y)'
    BY <1>1, <2>5, <2>7, SameRow, WorkerStays
  <2>10. \A f \in Files, e \in Endpoints :
           /\ row[f] = "none" => replica'[<<f, e>>] = replica[<<f, e>>]
           /\ replica'[<<f, e>>] = "uploaded" => replica[<<f, e>>] = "uploaded" \/ Kept(f, e)'
    BY <2>3, <2>8
  <2>11. QED
    BY <1>1, <1>4, <2>4, <2>7, <2>8, <2>9, <2>10, WorkerStep
<1>5. ASSUME NEW p \in work[w].todo,
             object' = [object EXCEPT ![p] = FALSE],
             work' = [work EXCEPT ![w].at = "gone", ![w].ep = p[2], ![w].todo = @ \ {p}],
             UNCHANGED replica
      PROVE  Inv'
  <2>1. PICK y : y = [work[w] EXCEPT !.at = "gone", !.ep = IF "gone" = "gone" THEN p[2] ELSE @,
                                     !.todo = @ \ {p}]
    OBVIOUS
  <2>2. work' = [work EXCEPT ![w] = y]
    BY <1>5, <2>1 DEF Inv, Typed
  <2>3. QED
    BY <1>4, <1>5, <2>1, <2>2
<1>6. ASSUME NEW p \in work[w].todo, NEW there \in {object[p], FALSE},
             replica' \in {replica, [replica EXCEPT ![p] = "delete_failed"]},
             work' = [work EXCEPT ![w].todo = @ \ {p}],
             object' = [object EXCEPT ![p] = there]
      PROVE  Inv'
  <2>1. PICK y : y = [work[w] EXCEPT !.at = "remove", !.ep = IF "remove" = "gone" THEN p[2] ELSE @,
                                     !.todo = @ \ {p}]
    OBVIOUS
  <2>2. y = [work[w] EXCEPT !.todo = @ \ {p}]
    BY <1>1, <1>2, <2>1 DEF WorkType
  <2>3. work' = [work EXCEPT ![w] = y]
    BY <1>6, <2>2 DEF Inv, Typed
  <2>4. there \in BOOLEAN
    BY <1>2 DEF Inv, Typed, WorkType
  <2>5. QED
    BY <1>4, <1>6, <2>1, <2>3, <2>4
<1>7. \A p \in work[w].todo : p = <<p[1], p[2]>>
  BY <1>2, PairFacts DEF WorkType
<1>8. QED
  BY <1>3, <1>5, <1>6, <1>7 DEF DeleteObject, Written

LEMMA DeleteMarkInv ==
  ASSUME Inv, NEW w \in Workers, DeleteMark(w)
  PROVE  Inv'
<1>1. /\ UNCHANGED <<row, up, attempt, removal, purge, raced, object, queued>>
      /\ work[w].at = "gone"
      /\ work' = [work EXCEPT ![w].at = "remove", ![w].ep = None]
  BY DEF DeleteMark
<1>2. work[w] \in WorkType /\ Worker(work[w])
  BY DEF Inv, Typed, WorkSound
<1>3. PICK f \in Files, e \in Endpoints :
        f = work[w].file /\ e = work[w].ep /\ row[f] = "deleted"
  BY <1>1, <1>2 DEF Worker, Deleting
<1>4. replica' = [replica EXCEPT ![<<f, e>>] = "deleted"] \/ replica' = replica
  BY <1>3 DEF DeleteMark, Written
<1>5. /\ object' \in [Pairs -> BOOLEAN]
      /\ replica' \in [Pairs -> {"none", "uploading", "uploaded", "upload_failed", "deleted",
                                 "delete_failed"}]
  BY <1>1, <1>4 DEF Inv, Typed
<1>6. \A g \in Files, d \in Endpoints :
        \/ replica'[<<g, d>>] = replica[<<g, d>>]
        \/ g = f /\ d = e /\ replica'[<<g, d>>] = "deleted"
  <2>1. CASE replica' = replica
    BY <2>1
  <2>2. CASE replica' = [replica EXCEPT ![<<f, e>>] = "deleted"]
    BY <2>2, PairFacts DEF Inv, Typed
  <2>3. QED
    BY <1>4, <2>1, <2>2
<1>7. \A g \in Files, d \in Endpoints :
        /\ row[g] = "none" => replica'[<<g, d>>] = replica[<<g, d>>]
        /\ replica'[<<g, d>>] = "uploaded" => replica[<<g, d>>] = "uploaded" \/ Kept(g, d)'
  BY <1>3, <1>6
<1>8. PICK y : y = [work[w] EXCEPT !.at = "remove", !.ep = None]
  OBVIOUS
<1>9. /\ y \in WorkType /\ y.at = "remove" /\ y.job = work[w].job /\ y.file = work[w].file
      /\ y.todo = work[w].todo
  BY <1>2, <1>8 DEF WorkType
<1>10. work' = [work EXCEPT ![w] = y]
  BY <1>1, <1>8 DEF Inv, Typed
<1>11. Worker(y)
  BY <1>1, <1>2, <1>9 DEF Worker, Repairing, Deleting
<1>12. KeptStays /\ Worker(y)'
  BY <1>1, <1>11, SameRow, SameUp, MoreObjects, WorkerStays
<1>13. QED
  BY <1>1, <1>5, <1>7, <1>9, <1>10, <1>12, WorkerStep

(***************************************************************************)
(* The request of a file, and its removal.                                 *)
(***************************************************************************)

\* InsertFile: nobody has heard of the file before.
LEMMA InsertFileInv ==
  ASSUME Inv, NEW f \in Files, InsertFile(f)
  PROVE  Inv'
<1>1. /\ UNCHANGED <<attempt, removal, object, queued, work, purge>>
      /\ up[f] = "new" /\ row[f] = "none"
      /\ up' = [up EXCEPT ![f] = "store"] /\ row' = [row EXCEPT ![f] = "live"]
      /\ \A g \in Files, e \in Endpoints :
           replica'[<<g, e>>] = IF g = f THEN "uploading" ELSE replica[<<g, e>>]
      /\ raced' = IF purge.at = "idle" THEN raced ELSE raced \cup {f}
  BY PairFacts DEF InsertFile, Inv, Born
<1>2. Typed'
  BY DEF InsertFile, Inv, Typed
<1>3. Forward
  BY <1>1 DEF Forward, Inv, Typed
<1>4. KeptStays
  BY <1>1 DEF KeptStays, Kept, Inv, Typed, Born
<1>5. Born'
  BY <1>1 DEF Inv, Born, Typed
<1>6. JobsSound' /\ WorkSound'
  BY <1>1, <1>3, <1>4, JobsStay, WorkStays
<1>7. PurgeSound'
  BY <1>1 DEF Inv, PurgeSound, Typed, PurgeType
<1>8. AttemptSound'
  BY <1>1, <1>4, AttemptsStay
<1>9. Accepted'
  BY <1>1, AcceptedStay DEF Inv, Typed
<1>10. RecordedKept'
  BY <1>1, <1>4, RecordsStay DEF Inv, Born
<1>11. QED
  BY <1>2, <1>5, <1>6, <1>7, <1>8, <1>9, <1>10 DEF Inv

\* Steps that touch neither rows nor stores: only what the request or the
\* removal does and the queue change.
LEMMA RequestStep ==
  ASSUME Inv, UNCHANGED <<row, attempt, replica, object, raced, work, purge>>,
         up' \in [Files -> {"new", "store", "abandon", "clean", "cache", "acked", "failed", "killed"}],
         removal' \in [Files -> {"no", "enqueue", "done"}],
         \A f \in Files : /\ up'[f] = "new" <=> up[f] = "new"
                          /\ up[f] = "failed" => up'[f] = "failed"
                          /\ removal'[f] = "enqueue" => removal[f] = "enqueue",
         \A f \in Files : up'[f] \in {"cache", "acked"} =>
           up[f] \in {"cache", "acked"} \/ \E e \in Endpoints : attempt[<<f, e>>] = "uploaded",
         \A j \in queued' : j \in queued \/ (j \in Jobs /\ Sound(j))
  PROVE  Inv'
<1>1. Forward /\ KeptStays
  BY SameRow, MoreObjects DEF FailedStays
<1>2. Typed'
  BY DEF Inv, Typed
<1>3. Born'
  BY DEF Inv, Born
<1>4. JobsSound'
  BY <1>1, JobsStay
<1>5. WorkSound' /\ AttemptSound'
  BY <1>1, WorkStays, AttemptsStay
<1>6. PurgeSound'
  BY DEF Inv, PurgeSound
<1>7. Accepted'
  BY DEF Inv, Accepted
<1>8. RecordedKept'
  BY <1>1, RecordsStay DEF Inv, Born
<1>9. QED
  BY <1>2, <1>3, <1>4, <1>5, <1>6, <1>7, <1>8 DEF Inv

LEMMA LoadFailsInv ==
  ASSUME Inv, NEW w \in Workers, NEW j \in Jobs, LoadFails(w, j)
  PROVE  Inv'
<1>1. /\ UNCHANGED <<row, attempt, replica, object, raced, work, purge, up, removal>>
      /\ \A i \in queued' : i \in queued
  BY DEF LoadFails
<1>2. /\ up' \in [Files -> {"new", "store", "abandon", "clean", "cache", "acked", "failed", "killed"}]
      /\ removal' \in [Files -> {"no", "enqueue", "done"}]
  BY <1>1 DEF Inv, Typed
<1>3. QED
  BY <1>1, <1>2, RequestStep

LEMMA QuietRequestInv ==
  ASSUME Inv, NEW f \in Files, Reject(f) \/ CachePut(f) \/ ReadFile(f)
  PROVE  Inv'
<1>1. /\ UNCHANGED <<row, attempt, replica, object, raced, work, purge, removal, queued>>
      /\ \/ up' = up
         \/ up[f] = "store" /\ up' = [up EXCEPT ![f] = "abandon"]
         \/ up[f] = "cache" /\ up' = [up EXCEPT ![f] = "acked"]
  BY DEF Reject, CachePut, ReadFile, Answered
<1>2. /\ up' \in [Files -> {"new", "store", "abandon", "clean", "cache", "acked", "failed", "killed"}]
      /\ removal' \in [Files -> {"no", "enqueue", "done"}]
      /\ \A g \in Files : /\ up'[g] = "new" <=> up[g] = "new"
                          /\ up[g] = "failed" => up'[g] = "failed"
                          /\ up'[g] \in {"cache", "acked"} => up[g] \in {"cache", "acked"}
  BY <1>1 DEF Inv, Typed
<1>3. \A j \in queued' : j \in queued \/ (j \in Jobs /\ Sound(j))
  BY <1>1
<1>4. QED
  BY <1>1, <1>2, <1>3, RequestStep

\* An accepted upload has a replica; repairs are queued for the others.
LEMMA AcceptInv ==
  ASSUME Inv, NEW f \in Files, Accept(f)
  PROVE  Inv'
<1>1. /\ UNCHANGED <<row, attempt, replica, object, raced, work, purge, removal>>
      /\ up[f] = "store" /\ up' = [up EXCEPT ![f] = "cache"]
      /\ \E e \in Endpoints : attempt[<<f, e>>] = "uploaded"
  BY DEF Accept, Answered, Stored
<1>2. \A j \in queued' : j \in queued \/ \E e \in Endpoints : j = Repair(f, e)
  BY DEF Accept, EnqueueAll
<1>3. \A e \in Endpoints : Repair(f, e) \in Jobs /\ Sound(Repair(f, e))
  <2>1. row[f] # "none"
    BY <1>1 DEF Inv, Born
  <2>2. QED
    BY <2>1 DEF Jobs, Repair, Sound
<1>4. \A j \in queued' : j \in queued \/ (j \in Jobs /\ Sound(j))
  BY <1>2, <1>3
<1>5. /\ up' \in [Files -> {"new", "store", "abandon", "clean", "cache", "acked", "failed", "killed"}]
      /\ removal' \in [Files -> {"no", "enqueue", "done"}]
      /\ \A g \in Files : /\ up'[g] = "new" <=> up[g] = "new"
                          /\ up[g] = "failed" => up'[g] = "failed"
                          /\ up'[g] \in {"cache", "acked"} => up[g] \in {"cache", "acked"} \/ g = f
  BY <1>1 DEF Inv, Typed
<1>6. QED
  BY <1>1, <1>4, <1>5, RequestStep

LEMMA EnqueueDeleteInv ==
  ASSUME Inv, NEW f \in Files, EnqueueDelete(f)
  PROVE  Inv'
<1>1. /\ UNCHANGED <<row, attempt, replica, object, raced, work, purge, up>>
      /\ removal[f] = "enqueue" /\ removal' = [removal EXCEPT ![f] = "done"]
  BY DEF EnqueueDelete
<1>2. \A j \in queued' : j \in queued \/ j = Delete(f)
  BY DEF EnqueueDelete, EnqueueAll
<1>3. Delete(f) \in Jobs /\ Sound(Delete(f))
  <2>1. row[f] = "deleted"
    BY <1>1 DEF Inv, Born
  <2>2. QED
    BY <2>1 DEF Jobs, Delete, Sound
<1>4. \A j \in queued' : j \in queued \/ (j \in Jobs /\ Sound(j))
  BY <1>2, <1>3
<1>5. /\ up' \in [Files -> {"new", "store", "abandon", "clean", "cache", "acked", "failed", "killed"}]
      /\ removal' \in [Files -> {"no", "enqueue", "done"}]
      /\ \A g \in Files : removal'[g] = "enqueue" => removal[g] = "enqueue"
  BY <1>1 DEF Inv, Typed
<1>6. QED
  BY <1>1, <1>4, <1>5, RequestStep

LEMMA SweepTickInv == Inv /\ SweepTick => Inv'
<1> SUFFICES ASSUME Inv, SweepTick PROVE Inv'
  OBVIOUS
<1>1. UNCHANGED <<row, attempt, replica, object, raced, work, purge, up, removal>>
  BY DEF SweepTick
<1>2. Sweep \in Jobs /\ Sound(Sweep)
  BY DEF Jobs, Sweep, Sound
<1>3. \A j \in queued' : j \in queued \/ (j \in Jobs /\ Sound(j))
  BY <1>2 DEF SweepTick
<1>4. /\ up' \in [Files -> {"new", "store", "abandon", "clean", "cache", "acked", "failed", "killed"}]
      /\ removal' \in [Files -> {"no", "enqueue", "done"}]
  BY <1>1 DEF Inv, Typed
<1>5. QED
  BY <1>1, <1>3, <1>4, RequestStep

\* Workers, queue and purge are content with the rows that go forward.
LEMMA OthersStay ==
  ASSUME Inv, Forward, KeptStays, UNCHANGED <<work, queued, purge, raced>>,
         \A f \in Files : row'[f] = "live" => row[f] = "live"
  PROVE  JobsSound' /\ WorkSound' /\ PurgeSound'
<1>1. \A j \in queued' : j \in queued \/ (j \in Jobs /\ Sound(j))
  OBVIOUS
<1>2. PurgeSound'
  BY DEF Inv, PurgeSound
<1>3. QED
  BY <1>1, <1>2, JobsStay, WorkStays

\* The goroutine of one endpoint goes on; the others stay where they are.
LEMMA AttemptStep ==
  ASSUME Inv, Typed', KeptStays, UNCHANGED <<row, up, removal, queued, work, purge, raced>>,
         NEW f \in Files, NEW e \in Endpoints, NEW result,
         up[f] = "store", attempt[<<f, e>>] # "uploaded",
         \A g \in Files, d \in Endpoints :
           attempt'[<<g, d>>] = IF g = f /\ d = e THEN result ELSE attempt[<<g, d>>],
         \A g \in Files, d \in Endpoints :
           replica'[<<g, d>>] = replica[<<g, d>>] \/ (g = f /\ d = e),
         result \in {"record", "uploaded"} => Kept(f, e)',
         replica'[<<f, e>>] = "uploaded" => replica[<<f, e>>] = "uploaded" \/ Kept(f, e)'
  PROVE  Inv'
<1>1. Forward
  BY SameRow
<1>2. row[f] # "none"
  BY DEF Inv, Born
<1>3. Born'
  <2> SUFFICES ASSUME NEW g \in Files
               PROVE  /\ row[g] = "none" <=> up[g] = "new"
                      /\ row[g] = "none" => \A d \in Endpoints :
                           replica'[<<g, d>>] = "none" /\ attempt'[<<g, d>>] = "put"
                      /\ removal[g] = "enqueue" => row[g] = "deleted"
    BY DEF Born
  <2>1. CASE g = f
    BY <1>2, <2>1 DEF Inv, Born
  <2>2. CASE g # f
    <3>1. \A d \in Endpoints : /\ replica'[<<g, d>>] = replica[<<g, d>>]
                               /\ attempt'[<<g, d>>] = attempt[<<g, d>>]
      BY <2>2
    <3>2. QED
      BY <3>1 DEF Inv, Born
  <2>3. QED
    BY <2>1, <2>2
<1>4. JobsSound' /\ WorkSound' /\ PurgeSound'
  BY <1>1, OthersStay
<1>5. AttemptSound'
  <2> SUFFICES ASSUME NEW g \in Files, NEW d \in Endpoints,
                      attempt'[<<g, d>>] \in {"record", "uploaded"}
               PROVE  Kept(g, d)'
    BY DEF AttemptSound
  <2>1. CASE g = f /\ d = e
    BY <2>1
  <2>2. CASE ~(g = f /\ d = e)
    <3>1. attempt'[<<g, d>>] = attempt[<<g, d>>]
      BY <2>2
    <3>2. Kept(g, d) /\ row[g] # "none"
      BY <3>1 DEF Inv, AttemptSound, Born
    <3>3. QED
      BY <3>2 DEF KeptStays
  <2>3. QED
    BY <2>1, <2>2
<1>6. Accepted'
  <2> SUFFICES ASSUME NEW g \in Files, up[g] \in {"cache", "acked"}
               PROVE  \E d \in Endpoints : attempt'[<<g, d>>] = "uploaded"
    BY DEF Accepted
  <2>1. PICK d \in Endpoints : attempt[<<g, d>>] = "uploaded"
    BY DEF Inv, Accepted
  <2>2. attempt'[<<g, d>>] = "uploaded"
    BY <2>1
  <2>3. QED
    BY <2>2
<1>7. RecordedKept'
  <2>1. \A g \in Files, d \in Endpoints :
          replica'[<<g, d>>] = "uploaded" => replica[<<g, d>>] = "uploaded" \/ Kept(g, d)'
    OBVIOUS
  <2>2. \A g \in Files, d \in Endpoints : replica'[<<g, d>>] = "uploaded" => row[g] # "none"
    BY <1>2 DEF Inv, Born
  <2>3. QED
    BY <2>1, <2>2, RecordsStay
<1>8. QED
  BY <1>3, <1>4, <1>5, <1>6, <1>7 DEF Inv

LEMMA PutReplicaInv ==
  ASSUME Inv, NEW f \in Files, NEW e \in Endpoints, PutReplica(f, e)
  PROVE  Inv'
<1>1. /\ UNCHANGED <<row, up, removal, replica, queued, work, purge, raced>>
      /\ up[f] = "store" /\ attempt[<<f, e>>] = "put"
  BY DEF PutReplica
<1>2. \A g \in Files, d \in Endpoints :
        /\ object'[<<g, d>>] = IF g = f /\ d = e THEN TRUE ELSE object[<<g, d>>]
        /\ attempt'[<<g, d>>] = IF g = f /\ d = e THEN "record" ELSE attempt[<<g, d>>]
  BY PairFacts DEF PutReplica, Inv, Typed
<1>3. Typed'
  BY DEF PutReplica, Inv, Typed
<1>4. KeptStays /\ Kept(f, e)'
  BY <1>1, <1>2, SameUp, MoreObjects DEF Kept
<1>5. /\ \A g \in Files, d \in Endpoints :
           /\ replica'[<<g, d>>] = replica[<<g, d>>] \/ (g = f /\ d = e)
           /\ attempt'[<<g, d>>] = IF g = f /\ d = e THEN "record" ELSE attempt[<<g, d>>]
      /\ replica'[<<f, e>>] = "uploaded" => replica[<<f, e>>] = "uploaded" \/ Kept(f, e)'
  BY <1>1, <1>2
<1>6. QED
  BY <1>1, <1>3, <1>4, <1>5, AttemptStep

LEMMA RecordReplicaInv ==
  ASSUME Inv, NEW f \in Files, NEW e \in Endpoints, RecordReplica(f, e)
  PROVE  Inv'
<1>1. /\ UNCHANGED <<row, up, removal, object, queued, work, purge, raced>>
      /\ up[f] = "store" /\ attempt[<<f, e>>] = "record"
  BY DEF RecordReplica
<1>2. \A g \in Files, d \in Endpoints :
        /\ \/ replica'[<<g, d>>] = replica[<<g, d>>]
           \/ g = f /\ d = e /\ replica'[<<g, d>>] = "uploaded"
        /\ attempt'[<<g, d>>] = IF g = f /\ d = e THEN "uploaded" ELSE attempt[<<g, d>>]
  <2>1. \A g \in Files, d \in Endpoints :
          attempt'[<<g, d>>] = IF g = f /\ d = e THEN "uploaded" ELSE attempt[<<g, d>>]
    BY PairFacts DEF RecordReplica, Inv, Typed
  <2>2. CASE replica' = replica
    BY <2>1, <2>2
  <2>3. CASE replica' = [replica EXCEPT ![<<f, e>>] = "uploaded"]
    BY <2>1, <2>3, PairFacts DEF Inv, Typed
  <2>4. QED
    BY <2>2, <2>3 DEF RecordReplica, Written
<1>3. Typed'
  BY DEF RecordReplica, Written, Inv, Typed
<1>4. KeptStays
  BY <1>1, SameUp, MoreObjects
<1>5. Kept(f, e)'
  BY <1>1 DEF Inv, AttemptSound, Kept
<1>6. QED
  BY <1>1, <1>2, <1>3, <1>4, <1>5, AttemptStep

LEMMA PutFailsInv ==
  ASSUME Inv, NEW f \in Files, NEW e \in Endpoints, PutFails(f, e)
  PROVE  Inv'
<1>1. /\ UNCHANGED <<row, up, removal, queued, work, purge, raced>>
      /\ up[f] = "store" /\ attempt[<<f, e>>] = "put"
      /\ attempt' = [attempt EXCEPT ![<<f, e>>] = "upload_failed"]
      /\ replica' = [replica EXCEPT ![<<f, e>>] = "upload_failed"] \/ replica' = replica
      /\ \E there \in {object[<<f, e>>], TRUE} : object' = [object EXCEPT ![<<f, e>>] = there]
  BY DEF PutFails
<1>2. \A g \in Files, d \in Endpoints :
        /\ \/ replica'[<<g, d>>] = replica[<<g, d>>]
           \/ g = f /\ d = e /\ replica'[<<g, d>>] = "upload_failed"
        /\ attempt'[<<g, d>>] = IF g = f /\ d = e THEN "upload_failed" ELSE attempt[<<g, d>>]
        /\ object[<<g, d>>] => object'[<<g, d>>]
  <2>1. \A g \in Files, d \in Endpoints :
          /\ attempt'[<<g, d>>] = IF g = f /\ d = e THEN "upload_failed" ELSE attempt[<<g, d>>]
          /\ object[<<g, d>>] => object'[<<g, d>>]
    BY <1>1, PairFacts DEF Inv, Typed
  <2>2. CASE replica' = replica
    BY <2>1, <2>2
  <2>3. CASE replica' = [replica EXCEPT ![<<f, e>>] = "upload_failed"]
    BY <2>1, <2>3, PairFacts DEF Inv, Typed
  <2>4. QED
    BY <1>1, <2>2, <2>3
<1>3. Typed'
  <2>1. object' \in [Pairs -> BOOLEAN]
    BY <1>1, PairFacts DEF Inv, Typed
  <2>2. /\ attempt' \in [Pairs -> {"put", "record", "uploaded", "upload_failed"}]
        /\ replica' \in [Pairs -> {"none", "uploading", "uploaded", "upload_failed", "deleted",
                                   "delete_failed"}]
    BY <1>1 DEF Inv, Typed
  <2>3. QED
    BY <1>1, <2>1, <2>2 DEF Inv, Typed
<1>4. KeptStays
  BY <1>1, <1>2, SameUp, MoreObjects
<1>5. QED
  BY <1>1, <1>2, <1>3, <1>4, AttemptStep

\* A row is deleted, or should have been; the objects stay for the time being.
LEMMA RowDeletedInv ==
  ASSUME Inv, NEW f \in Files, CleanupFailedUpload(f) \/ SoftDelete(f)
  PROVE  Inv'
<1>1. /\ UNCHANGED <<attempt, replica, object, queued, work, purge, raced>>
      /\ row[f] # "none"
  BY DEF CleanupFailedUpload, SoftDelete, Inv, Born
<1>2. \/ /\ up[f] = "abandon" /\ up' = [up EXCEPT ![f] = "clean"] /\ removal' = removal
         /\ row' = [row EXCEPT ![f] = "deleted"] \/ row' = row
      \/ /\ removal' = [removal EXCEPT ![f] = "enqueue"] /\ up' = up
         /\ row' = [row EXCEPT ![f] = "deleted"]
  BY DEF CleanupFailedUpload, SoftDelete
<1>3. Typed'
  BY <1>1, <1>2 DEF Inv, Typed
<1>4. Forward /\ KeptStays /\ \A g \in Files : row'[g] = "live" => row[g] = "live"
  BY <1>1, <1>2 DEF Forward, KeptStays, Kept, Inv, Typed
<1>5. Born'
  BY <1>1, <1>2 DEF Inv, Born, Typed
<1>6. JobsSound' /\ WorkSound' /\ PurgeSound'
  BY <1>1, <1>4, OthersStay
<1>7. AttemptSound'
  BY <1>1, <1>4, AttemptsStay
<1>8. Accepted'
  BY <1>1, <1>2, AcceptedStay DEF Inv, Typed
<1>9. RecordedKept'
  BY <1>1, <1>4, RecordsStay DEF Inv, Born
<1>10. QED
  BY <1>3, <1>5, <1>6, <1>7, <1>8, <1>9 DEF Inv

\* The objects of a failed upload are deleted, also when its row was not.
LEMMA CleanupObjectsInv ==
  ASSUME Inv, NEW f \in Files, CleanupObjects(f)
  PROVE  Inv'
<1>1. /\ UNCHANGED <<row, attempt, removal, replica, queued, work, purge, raced>>
      /\ up[f] = "clean" /\ up' = [up EXCEPT ![f] = "failed"]
  BY DEF CleanupObjects
<1>2. up'[f] = "failed" /\ FailedStays
  BY <1>1 DEF FailedStays, Inv, Typed
<1>3. PICK kept \in SUBSET {e \in Endpoints : object[<<f, e>>]} :
        object' = [p \in Pairs |-> IF p[1] = f THEN p[2] \in kept ELSE object[p]]
  BY DEF CleanupObjects
<1>4. object' \in [Pairs -> BOOLEAN]
  <2>1. object \in [Pairs -> BOOLEAN]
    BY DEF Inv, Typed
  <2>2. \A p \in Pairs : (IF p[1] = f THEN p[2] \in kept ELSE object[p]) \in BOOLEAN
    <3> TAKE p \in Pairs
    <3>1. object[p] \in BOOLEAN /\ (p[2] \in kept) \in BOOLEAN
      BY <2>1
    <3>2. QED
      BY <3>1, Zenon
  <2>3. QED
    BY <1>3, <2>2, Zenon
<1>5. \A g \in Files, e \in Endpoints : g # f => object'[<<g, e>>] = object[<<g, e>>]
  BY <1>3, PairFacts
<1>6. Typed'
  BY <1>1, <1>4 DEF Inv, Typed
<1>7. Forward /\ KeptStays
  BY <1>1, <1>2, <1>5, SameRow, DeletedNeedsNothing
<1>8. Born'
  BY <1>1 DEF Inv, Born, Typed
<1>9. JobsSound' /\ WorkSound' /\ PurgeSound'
  BY <1>1, <1>7, OthersStay
<1>10. AttemptSound'
  BY <1>1, <1>7, AttemptsStay
<1>11. Accepted'
  BY <1>1, AcceptedStay DEF Inv, Typed
<1>12. RecordedKept'
  BY <1>1, <1>7, RecordsStay DEF Inv, Born
<1>13. QED
  BY <1>6, <1>8, <1>9, <1>10, <1>11, <1>12 DEF Inv

(***************************************************************************)
(* The purge, crashes, and what follows.                                   *)
(***************************************************************************)

LEMMA PurgeStep ==
  ASSUME Inv, UNCHANGED <<row, up, attempt, removal, replica, queued, work, raced>>,
         KeptStays, object' \in [Pairs -> BOOLEAN], purge' \in PurgeType, PurgeSound'
  PROVE  Inv'
<1>1. Forward
  BY SameRow
<1>2. Typed' /\ Born'
  BY DEF Inv, Typed, Born
<1>3. \A j \in queued' : j \in queued \/ (j \in Jobs /\ Sound(j))
  OBVIOUS
<1>4. JobsSound' /\ WorkSound' /\ AttemptSound' /\ Accepted'
  BY <1>1, <1>3, JobsStay, WorkStays, AttemptsStay, AcceptedStay
<1>5. RecordedKept'
  BY RecordsStay DEF Inv, Born
<1>6. QED
  BY <1>2, <1>4, <1>5 DEF Inv

LEMMA PurgeInv ==
  ASSUME Inv, PurgeStart \/ PurgeEnd \/ \E e \in Endpoints : PurgeList(e)
  PROVE  Inv'
<1>1. UNCHANGED <<row, up, attempt, removal, replica, queued, work, raced, object>>
  BY DEF PurgeStart, PurgeEnd, PurgeList
<1>2. KeptStays /\ object' \in [Pairs -> BOOLEAN] /\ purge \in PurgeType
  BY <1>1, SameUp, MoreObjects DEF Inv, Typed
<1>3. CASE PurgeStart
  <2>1. KnownFiles \in SUBSET Files
    BY DEF KnownFiles
  <2>2. purge' = [at |-> "busy", known |-> KnownFiles, eps |-> Endpoints, todo |-> {}]
    BY <1>3 DEF PurgeStart
  <2>3. purge' \in PurgeType
    BY <2>1, <2>2 DEF PurgeType
  <2>4. PurgeSound'
    BY <1>1, <2>2 DEF PurgeSound, KnownFiles
  <2>5. QED
    BY <1>1, <1>2, <2>3, <2>4, PurgeStep
<1>4. CASE PurgeEnd
  <2>1. purge' = NoPurge
    BY <1>4 DEF PurgeEnd
  <2>2. purge' \in PurgeType /\ PurgeSound'
    BY <2>1 DEF NoPurge, PurgeType, PurgeSound
  <2>3. QED
    BY <1>1, <1>2, <2>2, PurgeStep
<1>5. ASSUME NEW e \in Endpoints, PurgeList(e)
      PROVE  Inv'
  <2>1. PICK seen \in {{}, {f \in Files : object[<<f, e>>]}} :
          purge' = [purge EXCEPT !.eps = @ \ {e}, !.todo = (seen \ purge.known) \X {e}]
    BY <1>5 DEF PurgeList
  <2>2. purge.at = "busy"
    BY <1>5 DEF PurgeList
  <2>3. (seen \ purge.known) \X {e} \in SUBSET Pairs
    BY DEF Pairs
  <2>4. /\ purge' \in PurgeType /\ purge'.at = "busy" /\ purge'.known = purge.known
        /\ purge'.todo = (seen \ purge.known) \X {e}
    BY <1>2, <2>1, <2>2, <2>3 DEF PurgeType
  <2>5. PurgeSound'
    BY <1>1, <2>2, <2>4 DEF Inv, PurgeSound
  <2>6. QED
    BY <1>1, <1>2, <2>4, <2>5, PurgeStep
<1>6. QED
  BY <1>3, <1>4, <1>5

\* The object of a live file that the purge takes is of one it cannot know of.
LEMMA PurgeObjectInv ==
  ASSUME Inv, NEW p \in Pairs, PurgeObject(p)
  PROVE  Inv'
<1>1. /\ UNCHANGED <<row, up, attempt, removal, replica, queued, work, raced>>
      /\ p \in purge.todo /\ purge' = [purge EXCEPT !.todo = @ \ {p}]
      /\ object' = [object EXCEPT ![p] = FALSE] \/ object' = object
  BY DEF PurgeObject
<1>2. p[1] \in Files /\ p[2] \in Endpoints /\ p = <<p[1], p[2]>> /\ purge \in PurgeType
  BY PairFacts DEF Inv, Typed
<1>3. /\ purge' \in PurgeType /\ purge'.at = purge.at /\ purge'.known = purge.known
      /\ purge'.todo = purge.todo \ {p}
  BY <1>1, <1>2 DEF PurgeType
<1>4. purge.at = "busy" /\ (row[p[1]] = "live" => p[1] \in raced)
  <2>1. purge.at # "idle" /\ p[1] \notin purge.known
    BY <1>1, <1>2 DEF Inv, PurgeSound
  <2>2. purge.at = "busy"
    BY <1>2, <2>1 DEF PurgeType
  <2>3. QED
    BY <1>2, <2>1, <2>2 DEF Inv, PurgeSound
<1>5. object' \in [Pairs -> BOOLEAN]
  BY <1>1 DEF Inv, Typed
<1>6. KeptStays
  <2> SUFFICES ASSUME NEW f \in Files, NEW e \in Endpoints, Kept(f, e)
               PROVE  Kept(f, e)'
    BY DEF KeptStays
  <2>1. CASE <<f, e>> = p
    BY <1>1, <1>2, <1>4, <2>1 DEF Kept
  <2>2. CASE <<f, e>> # p
    <3>1. object'[<<f, e>>] = object[<<f, e>>]
      BY <1>1, <2>2, PairFacts DEF Inv, Typed
    <3>2. QED
      BY <1>1, <3>1 DEF Kept
  <2>3. QED
    BY <2>1, <2>2
<1>7. PurgeSound'
  BY <1>1, <1>3, <1>4 DEF Inv, PurgeSound
<1>8. QED
  BY <1>1, <1>3, <1>5, <1>6, <1>7, PurgeStep

\* What was running goes back to the queue; its jobs are still sound.
LEMMA CrashInv == Inv /\ Crash => Inv'
<1> SUFFICES ASSUME Inv, Crash PROVE Inv'
  OBVIOUS
<1>1. /\ UNCHANGED <<row, attempt, replica, object, raced>>
      /\ up' = [f \in Files |-> IF up[f] \in {"new", "acked", "failed"} THEN up[f] ELSE "killed"]
      /\ removal' = [f \in Files |-> IF removal[f] = "no" THEN "no" ELSE "done"]
      /\ queued' = queued \cup Running /\ purge' = NoPurge
      /\ work' = [w \in Workers |-> NoWork]
  BY DEF Crash
<1>2. Forward /\ KeptStays
  BY <1>1, SameRow, MoreObjects DEF FailedStays
<1>3. Typed'
  BY <1>1, NoWorkFacts DEF Inv, Typed, NoPurge, PurgeType
<1>4. Born'
  BY <1>1 DEF Inv, Born, Typed
<1>5. JobsSound'
  <2>1. \A j \in Running : j \in Jobs /\ Sound(j)
    <3>1. \A w \in Workers : work[w].job \in Jobs /\ Worker(work[w])
      BY DEF Inv, Typed, WorkType, WorkSound
    <3>2. QED
      BY <3>1 DEF Running, Worker
  <2>2. \A j \in queued' : j \in queued \/ (j \in Jobs /\ Sound(j))
    BY <1>1, <2>1
  <2>3. QED
    BY <1>2, <2>2, JobsStay
<1>6. WorkSound'
  BY <1>1, NoWorkFacts DEF WorkSound
<1>7. PurgeSound'
  BY <1>1 DEF PurgeSound, NoPurge
<1>8. AttemptSound' /\ RecordedKept'
  BY <1>1, <1>2, AttemptsStay, RecordsStay DEF Inv, Born
<1>9. Accepted'
  BY <1>1, AcceptedStay DEF Inv, Typed
<1>10. QED
  BY <1>3, <1>4, <1>5, <1>6, <1>7, <1>8, <1>9 DEF Inv

LEMMA SameInv == Inv /\ UNCHANGED vars => Inv'
<1> SUFFICES ASSUME Inv, UNCHANGED vars PROVE Inv'
  OBVIOUS
<1>1. /\ UNCHANGED <<row, attempt, replica, object, raced, work, purge, up, removal, queued>>
  BY DEF vars
<1>2. \A j \in queued' : j \in queued \/ (j \in Jobs /\ Sound(j))
  BY <1>1
<1>3. /\ up' \in [Files -> {"new", "store", "abandon", "clean", "cache", "acked", "failed", "killed"}]
      /\ removal' \in [Files -> {"no", "enqueue", "done"}]
  BY <1>1 DEF Inv, Typed
<1>4. QED
  BY <1>1, <1>2, <1>3, RequestStep

LEMMA NextInv == Inv /\ [Next]_vars => Inv'
<1> SUFFICES ASSUME Inv, [Next]_vars PROVE Inv'
  OBVIOUS
<1>1. ASSUME NEW f \in Files,
             InsertFile(f) \/ UploadStep(f) \/ SoftDelete(f) \/ EnqueueDelete(f) \/ ReadFile(f)
      PROVE  Inv'
  <2>1. ASSUME NEW e \in Endpoints, PutReplica(f, e) \/ RecordReplica(f, e) \/ PutFails(f, e)
        PROVE  Inv'
    BY <2>1, PutReplicaInv, RecordReplicaInv, PutFailsInv
  <2>2. CASE InsertFile(f) \/ Accept(f) \/ EnqueueDelete(f) \/ CleanupObjects(f)
    BY <2>2, InsertFileInv, AcceptInv, EnqueueDeleteInv, CleanupObjectsInv
  <2>3. CASE Reject(f) \/ CachePut(f) \/ ReadFile(f)
    BY <2>3, QuietRequestInv
  <2>4. CASE CleanupFailedUpload(f) \/ SoftDelete(f)
    BY <2>4, RowDeletedInv
  <2>5. QED
    BY <1>1, <2>1, <2>2, <2>3, <2>4 DEF UploadStep
<1>2. ASSUME NEW w \in Workers, JobStep(w)
      PROVE  Inv'
  <2>1. ASSUME NEW j \in Jobs, StartJob(w, j) \/ LoadFails(w, j)
        PROVE  Inv'
    BY <2>1, StartJobInv, LoadFailsInv
  <2>2. CASE SweepNext(w) \/ RepairLoad(w) \/ RepairSource(w) \/ RepairPut(w)
    BY <2>2, SweepNextInv, RepairLoadInv, RepairSourceInv, RepairPutInv
  <2>3. CASE RepairFails(w) \/ RepairMark(w) \/ DeleteObject(w) \/ DeleteMark(w)
    BY <2>3, RepairFailsInv, RepairMarkInv, DeleteObjectInv, DeleteMarkInv
  <2>4. QED
    BY <1>2, <2>1, <2>2, <2>3 DEF JobStep
<1>3. CASE SweepTick
  BY <1>3, SweepTickInv
<1>4. CASE PurgeStart \/ PurgeEnd \/ \E e \in Endpoints : PurgeList(e)
  BY <1>4, PurgeInv
<1>5. ASSUME NEW p \in Pairs, PurgeObject(p)
      PROVE  Inv'
  BY <1>5, PurgeObjectInv
<1>6. CASE Crash
  BY <1>6, CrashInv
<1>7. CASE UNCHANGED vars
  BY <1>7, SameInv
<1>8. QED
  BY <1>1, <1>2, <1>3, <1>4, <1>5, <1>6, <1>7 DEF Next

LEMMA Always == Spec => []Inv
  BY InitInv, NextInv, PTL DEF Spec

\* What file_s3 says of a live file is true, for every number of files, endpoints
\* and workers and whichever of its UPDATEs are lost; only a purge that began before
\* the file was inserted, or the clean-up of its failed upload, may break it.
THEOREM RecordsAreTrue == Spec => []UploadedIsStored
<1>1. Inv => UploadedIsStored
  <2> SUFFICES ASSUME Inv, NEW p \in Pairs, row[p[1]] = "live", up[p[1]] # "failed",
                      replica[p] = "uploaded", p[1] \notin raced
               PROVE  object[p]
    BY DEF UploadedIsStored
  <2>1. p[1] \in Files /\ p[2] \in Endpoints /\ p = <<p[1], p[2]>>
    BY PairFacts
  <2>2. QED
    BY <2>1 DEF Inv, RecordedKept, Kept
<1>2. QED
  BY <1>1, Always, PTL

\* An upload that was acknowledged stays readable until the file is deleted: the
\* object that decided Accept is not lost, also when file_s3 was never told of it.
THEOREM AckedIsReadable == Spec => []LiveIsReadable
<1>1. Inv => LiveIsReadable
  <2> SUFFICES ASSUME Inv, NEW f \in Files, up[f] = "acked", row[f] = "live", f \notin raced
               PROVE  \E e \in Endpoints : object[<<f, e>>]
    BY DEF LiveIsReadable
  <2>1. PICK e \in Endpoints : attempt[<<f, e>>] = "uploaded"
    BY DEF Inv, Accepted
  <2>2. object[<<f, e>>]
    BY <2>1 DEF Inv, AttemptSound, Kept
  <2>3. QED
    BY <2>2
<1>2. QED
  BY <1>1, Always, PTL
==============================================================================
