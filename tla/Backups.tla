-------------------------------- MODULE Backups --------------------------------
(* Backups of the database with its media (internal/backup), their retention   *)
(* and the restore command.  A backup is a snapshot of the database bundled    *)
(* with the objects of the files that are live in it; a purge thins out the    *)
(* stored bundles by day, week and month; the restore puts the objects back    *)
(* and writes the database.  One action is one request to an endpoint or one   *)
(* step on the local disk.                                                     *)
EXTENDS Integers, Sequences, FiniteSets

CONSTANTS
    Endpoints,     \* endpoints, in the order of the configuration
    RestoreTo,     \* the endpoints the restore command is configured with
    Workers,       \* job workers, 1 .. n
    MaxFiles,      \* bound: files ever stored
    PerDay,        \* backups kept per day (3)
    DayLength, WeekLength, MonthLength,       \* in ticks
    DailyWindow, WeeklyWindow, MonthlyWindow, \* 7 days, 3 months, 5 years
    Configs        \* how many endpoints and workers there are, and bounds:
                   \* [endpoints, workers, time, files, losses, errors, restores]

VARIABLES
    now,      \* the clock
    live,     \* rows of files and file_s3: live file -> endpoints it is on
    objects,  \* endpoint -> media objects that can be read intact
    bundles,  \* endpoint -> (time in the key -> bundle)
    worker,   \* the backup or purge each worker executes
    restore,  \* the restore command
    ever,     \* endpoint -> times of all bundles it ever stored
    config, used

vars == <<now, live, objects, bundles, worker, restore, ever, config, used>>

AllEndpoints == {Endpoints[i] : i \in DOMAIN Endpoints}
Files == 1 .. MaxFiles
Last == config.endpoints       \* the last configured one
Configured == {Endpoints[i] : i \in 1 .. Last}
Empty == [x \in {} |-> {}]
With(f, k, v) == [x \in DOMAIN f \cup {k} |-> IF x = k THEN v ELSE f[x]]
First(S) == CHOOSE x \in S : \A y \in S : x <= y

Idle == [at |-> "idle", db |-> Empty, got |-> {}, time |-> 0, ep |-> 1, todo |-> {}]

Init ==
    /\ now = 0
    /\ live = Empty
    /\ objects = [e \in AllEndpoints |-> {}]
    /\ bundles = [e \in AllEndpoints |-> Empty]
    /\ worker = [w \in Workers |-> Idle]
    /\ restore = Idle
    /\ ever = [e \in AllEndpoints |-> {}]
    /\ config \in Configs
    /\ used = [files |-> 0, losses |-> 0, errors |-> 0, restores |-> 0]

Use(what) == used[what] < config[what] /\ used' = [used EXCEPT ![what] = @ + 1]
Go(w, p) == worker' = [worker EXCEPT ![w] = p]

-------------------------------------------------------------------------------
(* The server beside the backups                                               *)

Tick ==
    /\ now < config.time
    /\ now' = now + 1
    /\ UNCHANGED <<live, objects, bundles, worker, restore, ever, config, used>>

(* A file is live once one endpoint has it (MediaStore).                       *)
StoreFile(on) ==
    /\ Use("files") /\ on # {}
    /\ live' = With(live, used.files + 1, on)
    /\ objects' = [e \in AllEndpoints |->
                      IF e \in on THEN objects[e] \cup {used.files + 1} ELSE objects[e]]
    /\ UNCHANGED <<now, bundles, worker, restore, ever, config>>

(* Its objects stay.                                                           *)
SoftDelete(f) ==
    /\ f \in DOMAIN live
    /\ live' = [g \in DOMAIN live \ {f} |-> live[g]]
    /\ UNCHANGED <<now, objects, bundles, worker, restore, ever, config, used>>

(* Lost or corrupted; not while the restore is at work.                        *)
LoseObject(e, f) ==
    /\ f \in objects[e] /\ restore.at = "idle" /\ Use("losses")
    /\ objects' = [objects EXCEPT ![e] = @ \ {f}]
    /\ UNCHANGED <<now, live, bundles, worker, restore, ever, config>>

-------------------------------------------------------------------------------
(* Run: snapshot, bundle, upload                                               *)

(* buildBundleManifest: what the bundle must hold.                             *)
Manifest(db) == DOMAIN db

(* A consistent copy of the database.                                          *)
Snapshot(w) ==
    /\ worker[w] = Idle
    /\ Go(w, [Idle EXCEPT !.at = "fetch", !.db = live])
    /\ UNCHANGED <<now, live, objects, bundles, restore, ever, config, used>>

\* Mutant: what cannot be fetched is left out.
FetchMedia_Skips(w) ==
    LET p == worker[w] IN
    /\ p.at = "fetch" /\ p.got # Manifest(p.db)
    /\ Go(w, [p EXCEPT !.at = "put", !.time = now])
    /\ UNCHANGED <<now, live, objects, bundles, restore, ever, config, used>>

(* fetchMediaCiphertext: the endpoints one after the other, until one has the  *)
(* object with the hash of the manifest.  None: the backup fails.              *)
FetchMedia(w) ==
    LET p == worker[w]
        f == First(Manifest(p.db) \ p.got) IN
    /\ p.at = "fetch" /\ p.got # Manifest(p.db)
    /\ \/ /\ \E e \in Configured : f \in objects[e]
          /\ Go(w, [p EXCEPT !.got = @ \cup {f}]) /\ UNCHANGED used
       \/ /\ \A e \in Configured : f \notin objects[e]
          /\ Go(w, Idle) /\ UNCHANGED used
       \/ Go(w, Idle) /\ Use("errors")
    /\ UNCHANGED <<now, live, objects, bundles, restore, ever, config>>

(* The time of the key is taken when the bundle is complete.                   *)
CloseBundle(w) ==
    /\ worker[w].at = "fetch" /\ worker[w].got = Manifest(worker[w].db)
    /\ Go(w, [worker[w] EXCEPT !.at = "put", !.time = now])
    /\ UNCHANGED <<now, live, objects, bundles, restore, ever, config, used>>

(* One endpoint after the other, whatever fails.                               *)
PutBundle(w) ==
    LET p == worker[w]
        e == Endpoints[p.ep] IN
    /\ p.at = "put"
    /\ Go(w, IF p.ep < Last THEN [p EXCEPT !.ep = @ + 1] ELSE Idle)
    /\ \/ /\ bundles' = [bundles EXCEPT ![e] = With(@, p.time, [db |-> p.db, media |-> p.got])]
          /\ ever' = [ever EXCEPT ![e] = @ \cup {p.time}]
          /\ UNCHANGED used
       \/ Use("errors") /\ UNCHANGED <<bundles, ever>>
    /\ UNCHANGED <<now, live, objects, restore, config>>

-------------------------------------------------------------------------------
(* Purge: retention                                                            *)

Newest(S) == {t \in S : \A u \in S : u <= t}

(* The newest PerDay of S in each day, the newest in each week or month.       *)
KeptPerDay(S) ==
    {t \in S : Cardinality({u \in S : u > t /\ u \div DayLength = t \div DayLength}) < PerDay}
NewestPer(length, S) ==
    UNION {Newest({t \in S : t \div length = b}) : b \in {t \div length : t \in S}}
OldestPer(length, S) ==
    {t \in S : \A u \in S : u \div length = t \div length => u >= t}

Window(S, at, from, to) == {t \in S : t > at - from /\ t <= at - to}

\* Mutant: one of all the months is kept.
Kept_OneMonth(S, at) ==
    KeptPerDay({t \in S : t > at - DailyWindow})
      \cup NewestPer(WeekLength, Window(S, at, WeeklyWindow, DailyWindow))
      \cup Newest(Window(S, at, MonthlyWindow, WeeklyWindow))

\* Mutant: the oldest of a week or month is kept.
Kept_Oldest(S, at) ==
    KeptPerDay({t \in S : t > at - DailyWindow})
      \cup OldestPer(WeekLength, Window(S, at, WeeklyWindow, DailyWindow))
      \cup OldestPer(MonthLength, Window(S, at, MonthlyWindow, WeeklyWindow))

(* ClassifyBackups.  Objects with other names are not looked at.               *)
Kept(S, at) ==
    KeptPerDay({t \in S : t > at - DailyWindow})
      \cup NewestPer(WeekLength, Window(S, at, WeeklyWindow, DailyWindow))
      \cup NewestPer(MonthLength, Window(S, at, MonthlyWindow, WeeklyWindow))

(* The time is taken once for all endpoints.                                   *)
BeginPurge(w) ==
    /\ worker[w] = Idle
    /\ Go(w, [Idle EXCEPT !.at = "list", !.time = now])
    /\ UNCHANGED <<now, live, objects, bundles, restore, ever, config, used>>

NextEndpoint(p) ==
    IF p.ep < Last THEN [p EXCEPT !.at = "list", !.ep = @ + 1, !.todo = {}] ELSE Idle

(* An endpoint that cannot be listed is left alone.                            *)
ListBundles(w) ==
    LET p == worker[w]
        stored == DOMAIN bundles[Endpoints[p.ep]]
        doomed == stored \ Kept(stored, p.time) IN
    /\ p.at = "list"
    /\ \/ /\ Go(w, IF doomed = {} THEN NextEndpoint(p)
                   ELSE [p EXCEPT !.at = "delete", !.todo = doomed])
          /\ UNCHANGED used
       \/ Go(w, NextEndpoint(p)) /\ Use("errors")
    /\ UNCHANGED <<now, live, objects, bundles, restore, ever, config>>

(* From the newest to the oldest; a deletion that fails is left for the next.  *)
DeleteBundle(w) ==
    LET p == worker[w]
        e == Endpoints[p.ep]
        t == CHOOSE t \in p.todo : \A u \in p.todo : u <= t IN
    /\ p.at = "delete"
    /\ Go(w, IF p.todo = {t} THEN NextEndpoint(p) ELSE [p EXCEPT !.todo = @ \ {t}])
    /\ \/ /\ bundles' = [bundles EXCEPT ![e] = [u \in DOMAIN @ \ {t} |-> @[u]]]
          /\ UNCHANGED used
       \/ Use("errors") /\ UNCHANGED bundles
    /\ UNCHANGED <<now, live, objects, restore, ever, config>>

(* The process dies with whatever its workers do.                              *)
Crash ==
    /\ Use("errors")
    /\ worker' = [w \in Workers |-> Idle]
    /\ UNCHANGED <<now, live, objects, bundles, restore, ever, config>>

-------------------------------------------------------------------------------
(* The restore command: RestorePayload.  restore.got is what it has put on     *)
(* the endpoint restore.ep, restore.todo what the bundle still holds.          *)

(* The first endpoint that has the key.                                        *)
Download(t) ==
    /\ restore.at = "idle" /\ Use("restores")
    /\ \E i \in DOMAIN RestoreTo :
          LET stored == bundles[RestoreTo[i]] IN
          /\ t \in DOMAIN stored
          /\ \A j \in 1 .. i - 1 : t \notin DOMAIN bundles[RestoreTo[j]]
          /\ restore' = [Idle EXCEPT !.at = "media", !.time = t,
                                     !.db = stored[t].db, !.todo = stored[t].media]
    /\ UNCHANGED <<now, live, objects, bundles, worker, ever, config>>

Stop(at) == restore' = [restore EXCEPT !.at = at]

\* Mutant: the first endpoint is enough.
PutMedia_Once ==
    LET f == First(restore.todo) IN
    /\ restore.at = "media" /\ restore.todo # {}
    /\ objects' = [objects EXCEPT ![RestoreTo[1]] = @ \cup {f}]
    /\ restore' = [restore EXCEPT !.ep = 1, !.todo = @ \ {f}, !.got = @ \cup {f}]
    /\ UNCHANGED <<now, live, bundles, worker, ever, config, used>>

(* Every object to every endpoint; one that fails ends the command.            *)
PutMedia ==
    LET f == First(restore.todo)
        last == restore.ep = Len(RestoreTo) IN
    /\ restore.at = "media" /\ restore.todo # {}
    /\ \/ /\ objects' = [objects EXCEPT ![RestoreTo[restore.ep]] = @ \cup {f}]
          /\ restore' = [restore EXCEPT !.ep = IF last THEN 1 ELSE @ + 1,
                                        !.todo = IF last THEN @ \ {f} ELSE @,
                                        !.got = IF last THEN @ \cup {f} ELSE @]
          /\ UNCHANGED used
       \/ Stop("failed") /\ Use("errors") /\ UNCHANGED objects
    /\ UNCHANGED <<now, live, bundles, worker, ever, config>>

(* Every file of the manifest must have been in the bundle.                    *)
WriteDatabase ==
    /\ restore.at = "media" /\ restore.todo = {}
    /\ IF Manifest(restore.db) \subseteq restore.got THEN Stop("written") ELSE Stop("failed")
    /\ UNCHANGED <<now, live, objects, bundles, worker, ever, config, used>>

(* normalizeReplicaState: the replica rows of the restored files, in one       *)
(* transaction.  Before it the database holds the rows of the snapshot.        *)
NormalizeReplicas ==
    /\ restore.at = "written"
    /\ restore' = [restore EXCEPT
                      !.at = "done",
                      !.db = [f \in DOMAIN @ |-> {RestoreTo[i] : i \in DOMAIN RestoreTo}]]
    /\ UNCHANGED <<now, live, objects, bundles, worker, ever, config, used>>

-------------------------------------------------------------------------------
BundleStep(w) == FetchMedia(w) \/ CloseBundle(w)
BackupStep(w) == Snapshot(w) \/ BundleStep(w) \/ PutBundle(w)
PurgeStep(w) == BeginPurge(w) \/ ListBundles(w) \/ DeleteBundle(w)
RestoreStep == PutMedia \/ WriteDatabase \/ NormalizeReplicas

Next ==
    \/ Tick
    \/ \E on \in SUBSET Configured : StoreFile(on)
    \/ \E f \in Files : SoftDelete(f)
    \/ \E e \in AllEndpoints, f \in Files : LoseObject(e, f)
    \/ \E w \in 1 .. config.workers : BackupStep(w) \/ PurgeStep(w)
    \/ Crash
    \/ \E t \in 0 .. now : Download(t)
    \/ RestoreStep

Spec == Init /\ [][Next]_vars
-------------------------------------------------------------------------------
TypeOK ==
    /\ now \in 0 .. config.time
    /\ \A f \in DOMAIN live : f \in Files /\ live[f] \in SUBSET Configured \ {{}}
    /\ \A e \in AllEndpoints : DOMAIN bundles[e] \subseteq ever[e] /\ ever[e] \subseteq 0 .. now
    /\ \A w \in Workers : worker[w].at \in {"idle", "fetch", "put", "list", "delete"}
    /\ restore.at \in {"idle", "media", "written", "done", "failed"}

(* The newest backup an endpoint ever stored is there as long as it is younger *)
(* than the longest window, also when purges work on lists and times of long   *)
(* ago, overlap with backups and each other, fail in part or are cut off       *)
(* (backup.go:112).                                                            *)
LatestKept ==
    \A e \in AllEndpoints : \A t \in ever[e] :
       t > now - MonthlyWindow /\ (\A u \in ever[e] : u <= t) => t \in DOMAIN bundles[e]

(* Purges that do not overlap tear no hole, however often they fail or are cut *)
(* off: whatever was backed up within the longest window is followed, within   *)
(* its day, then the week of that bundle, then the month of that, by one that  *)
(* is still stored (retention.go:34).                                          *)
CoverageKept ==
    config.workers = 1 =>
       \A e \in AllEndpoints : \A t \in ever[e] :
          t > now - MonthlyWindow =>
             \E u \in DOMAIN bundles[e] :
                t <= u /\ u <= t + (DayLength - 1) + (WeekLength - 1) + (MonthLength - 1)

(* A stored bundle can be restored: it holds every file that is live in its    *)
(* database, whatever was lost while it was built (bundle.go:77).              *)
BundleComplete ==
    \A e \in AllEndpoints : \A t \in DOMAIN bundles[e] :
       bundles[e][t].media = DOMAIN bundles[e][t].db

(* When the restore reports success, its database names, for every live file,  *)
(* exactly the endpoints of its configuration, and the objects are there.      *)
Restored ==
    restore'.at = "done" /\ restore.at # "done" =>
       \A f \in DOMAIN restore'.db :
          /\ restore'.db[f] = {RestoreTo[i] : i \in DOMAIN RestoreTo}
          /\ \A e \in restore'.db[f] : f \in objects'[e]
RestoredIsReadable == [][Restored]_vars
===============================================================================
