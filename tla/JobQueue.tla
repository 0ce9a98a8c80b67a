------------------------------ MODULE JobQueue ------------------------------
(***************************************************************************)
(* internal/jobs/jobs.go: the job system on the SQLite table job_runs.     *)
(*                                                                         *)
(* Callers (HTTP handlers, tasks) enqueue, retry and cancel runs;          *)
(* schedulers insert a run at every tick; workers pick the oldest planned  *)
(* run, claim it by compare-and-swap, execute its task and record the      *)
(* outcome; the janitor is itself a task.  The process may be stopped or   *)
(* crash at any point and is started again with zombie recovery.           *)
(*                                                                         *)
(* One action is one SQL statement (SQLite serializes them) or one         *)
(* in-process step between two statements.                                 *)
(***************************************************************************)
EXTENDS Integers, FiniteSets

CONSTANTS
  Workers, Callers,  \* goroutines: job workers, callers of Enqueue/RetryRun
  RunIds,            \* row ids (AUTOINCREMENT: never reused)
  Defs,              \* job definitions
  Janitor,           \* the built-in janitor's definition
  CronDefs,          \* definitions with a schedule
  RegSets,           \* sets of definitions a server start may register
  Payloads, NoPayload, \* payload texts; SQL NULL
  CallerKeys,        \* the (job, payload) pairs the server's code enqueues
  None,              \* no run / no key
  Retention,         \* 30 days, in clock units
  MaxClock,          \* bound on the clock
  MaxStarts,         \* bound on server starts
  MaxFaults,         \* bound on failing SQL writes
  ObserverPanics     \* may the event observer panic?

ASSUME ConstantsAssumption ==
  /\ Janitor \in Defs
  /\ CronDefs \subseteq Defs
  /\ \A R \in RegSets : R \subseteq Defs /\ Janitor \in R
  /\ CallerKeys \subseteq [job : Defs, payload : Payloads \cup {NoPayload}]
  /\ None \notin RunIds
  /\ NoPayload \notin Payloads
  /\ Retention \in Nat /\ MaxClock \in Nat /\ MaxStarts \in Nat /\ MaxFaults \in Nat
  /\ ObserverPanics \in BOOLEAN

VARIABLES
  \* the table job_runs
  status,     \* RunIds -> status ("none": not inserted, "deleted": removed)
  key,        \* RunIds -> (job_id, payload)
  retries,    \* RunIds -> retry_count
  created,    \* RunIds -> created_at
  \* the process
  server,     \* "down", "up", "stopping" (m.stop closed)
  tasks,      \* definitions in m.tasks
  known,      \* definitions with a row in job_definitions
  pc,         \* Workers -> program point
  cand,       \* Workers -> run selected or held
  attempt,    \* Workers -> failed claims in this atomicDequeue
  call,       \* Callers -> the call in progress
  \* the environment, and history
  clock, starts, faults,
  ran         \* runs whose task was executed since the last start

table == <<status, key, retries, created>>
work  == <<pc, cand, attempt>>
proc  == <<server, tasks, known>>
env   == <<clock, starts, faults>>
vars  == <<table, proc, work, call, env, ran>>

Active == {"planned", "running"}
Keys   == [job : Defs, payload : Payloads \cup {NoPayload}]
MaxAttempts == 3

IdleCall == [at |-> "idle", key |-> None, retry |-> 0]
Calls    == [at : {"idle", "insert", "lookup"}, key : Keys \cup {None}, retry : Nat]

TypeOK ==
  /\ status \in [RunIds -> {"none", "planned", "running", "done", "errored",
                            "cancelled", "deleted"}]
  /\ key \in [RunIds -> Keys \cup {None}]
  /\ \A r \in RunIds : status[r] # "none" => key[r] \in Keys
  /\ retries \in [RunIds -> Nat]
  /\ created \in [RunIds -> Nat]
  /\ server \in {"down", "up", "stopping"}
  /\ tasks \in SUBSET Defs
  /\ known \in SUBSET Defs
  /\ pc \in [Workers -> {"poll", "claim", "run", "record", "report"}]
  /\ cand \in [Workers -> RunIds \cup {None}]
  /\ \A w \in Workers : pc[w] # "poll" => cand[w] \in RunIds
  /\ attempt \in [Workers -> 0 .. MaxAttempts - 1]
  /\ call \in [Callers -> Calls]
  /\ \A c \in Callers : call[c].at # "idle" => call[c].key \in Keys
  /\ clock \in Nat /\ starts \in Nat /\ faults \in Nat
  /\ ran \in SUBSET RunIds

Init ==
  /\ status = [r \in RunIds |-> "none"]
  /\ key = [r \in RunIds |-> None]
  /\ retries = [r \in RunIds |-> 0]
  /\ created = [r \in RunIds |-> 0]
  /\ server = "down" /\ tasks = {} /\ known = {}
  /\ pc = [w \in Workers |-> "poll"]
  /\ cand = [w \in Workers |-> None]
  /\ attempt = [w \in Workers |-> 0]
  /\ call = [c \in Callers |-> IdleCall]
  /\ clock = 0 /\ starts = 0 /\ faults = 0
  /\ ran = {}

-----------------------------------------------------------------------------
(* Statements on job_runs. *)

\* Mutant: the partial index covers planned rows only.
Twins_PlannedOnly(k) == {r \in RunIds : status[r] = "planned" /\ key[r] = k /\ k.payload # NoPayload}

\* Rows the partial index idx_job_runs_active_unique would conflict with;
\* SQL NULLs are distinct, so a NULL payload never conflicts.
Twins(k) == {r \in RunIds : status[r] \in Active /\ key[r] = k /\ k.payload # NoPayload}

InsertRow(r, k, n) ==
  /\ status[r] = "none"
  /\ status' = [status EXCEPT ![r] = "planned"]
  /\ key' = [key EXCEPT ![r] = k]
  /\ retries' = [retries EXCEPT ![r] = n]
  /\ created' = [created EXCEPT ![r] = clock]

\* UPDATE ... WHERE id = ?: touches nothing when the row is not there.
SetStatus(r, s) ==
  status' = [status EXCEPT ![r] = IF @ \in {"none", "deleted"} THEN @ ELSE s]

\* Mutant: no ORDER BY.
OldestPlanned_AnyOrder == {r \in RunIds : status[r] = "planned"}

\* SELECT ... WHERE status = 'planned' ORDER BY created_at LIMIT 1
OldestPlanned ==
  {r \in RunIds : /\ status[r] = "planned"
                  /\ \A s \in RunIds : status[s] = "planned" => created[r] <= created[s]}

\* A write may fail (SQLITE_BUSY after the busy timeout, disk full).
Fault == faults < MaxFaults /\ faults' = faults + 1

-----------------------------------------------------------------------------
(* Callers: Enqueue, RetryRun, CancelRun. *)

Pending(k, n) == [at |-> "insert", key |-> k, retry |-> n]
Return(c)     == call' = [call EXCEPT ![c] = IdleCall]

Enqueue(c, k) ==
  /\ server # "down"
  /\ call[c].at = "idle"
  /\ k.job \in known
  /\ call' = [call EXCEPT ![c] = Pending(k, 0)]
  /\ UNCHANGED <<table, proc, work, env, ran>>

\* Mutant: a retry re-plans the row itself instead of inserting a new one.
RetryRun_InPlace(c, r) ==
  /\ server # "down"
  /\ call[c].at = "idle"
  /\ status[r] \in {"errored", "cancelled"}
  /\ status' = [status EXCEPT ![r] = "planned"]
  /\ UNCHANGED <<key, retries, created, proc, work, call, env, ran>>

\* RetryRun up to the check of the status it read.
RetryRun(c, r) ==
  /\ server # "down"
  /\ call[c].at = "idle"
  /\ status[r] \in {"errored", "cancelled"}
  /\ call' = [call EXCEPT ![c] = Pending(key[r], retries[r] + 1)]
  /\ UNCHANGED <<table, proc, work, env, ran>>

\* insertPlannedRun, the INSERT.
InsertPlannedRun(c, r) ==
  /\ call[c].at = "insert"
  /\ Twins(call[c].key) = {}
  /\ InsertRow(r, call[c].key, call[c].retry)
  /\ Return(c)
  /\ UNCHANGED <<proc, work, env, ran>>

\* ... rejected by the unique index, or by a failing write.
InsertRejected(c) ==
  /\ call[c].at = "insert"
  /\ \/ Twins(call[c].key) # {} /\ UNCHANGED faults
     \/ Fault
  /\ call' = [call EXCEPT ![c].at = "lookup"]
  /\ UNCHANGED <<table, proc, work, clock, starts, ran>>

\* insertPlannedRun, the SELECT of the existing active run: its id is returned,
\* or the INSERT's error when there is none any more.
LookupExisting(c) ==
  /\ call[c].at = "lookup"
  /\ Return(c)
  /\ UNCHANGED <<table, proc, work, env, ran>>

\* Mutant: running runs can be cancelled too.
CancelRun_AnyActive(r) ==
  /\ server # "down"
  /\ status[r] \in Active
  /\ status' = [status EXCEPT ![r] = "cancelled"]
  /\ UNCHANGED <<key, retries, created, proc, work, call, env, ran>>

CancelRun(r) ==
  /\ server # "down"
  /\ status[r] = "planned"
  /\ status' = [status EXCEPT ![r] = "cancelled"]
  /\ UNCHANGED <<key, retries, created, proc, work, call, env, ran>>

-----------------------------------------------------------------------------
(* runScheduler: a tick inserts without looking at what is queued. *)

SchedulerTick(d, r) ==
  /\ server = "up"
  /\ d \in CronDefs \cap tasks
  /\ InsertRow(r, [job |-> d, payload |-> NoPayload], 0)
  /\ UNCHANGED <<proc, work, call, env, ran>>

-----------------------------------------------------------------------------
(* runWorker and atomicDequeue. *)

ToPoll(w, n) ==
  /\ pc' = [pc EXCEPT ![w] = "poll"]
  /\ cand' = [cand EXCEPT ![w] = None]
  /\ attempt' = [attempt EXCEPT ![w] = n]

\* atomicDequeue step 1; m.stop is looked at only before the first attempt.
SelectCandidate(w, r) ==
  /\ pc[w] = "poll"
  /\ server = "up" \/ (server = "stopping" /\ attempt[w] > 0)
  /\ r \in OldestPlanned
  /\ pc' = [pc EXCEPT ![w] = "claim"]
  /\ cand' = [cand EXCEPT ![w] = r]
  /\ UNCHANGED <<table, proc, attempt, call, env, ran>>

\* Nothing planned any more in attempt 2 or 3: back to the worker's loop.
NothingPlanned(w) ==
  /\ pc[w] = "poll" /\ attempt[w] > 0
  /\ OldestPlanned = {}
  /\ ToPoll(w, 0)
  /\ UNCHANGED <<table, proc, call, env, ran>>

\* Mutant: UPDATE without AND status = 'planned'.
ClaimRun_Unguarded(w) ==
  /\ pc[w] = "claim"
  /\ status' = [status EXCEPT ![cand[w]] = "running"]
  /\ pc' = [pc EXCEPT ![w] = "run"]
  /\ attempt' = [attempt EXCEPT ![w] = 0]
  /\ UNCHANGED <<key, retries, created, proc, cand, call, env, ran>>

\* atomicDequeue step 2, the compare-and-swap succeeds.
ClaimRun(w) ==
  /\ pc[w] = "claim"
  /\ status[cand[w]] = "planned"
  /\ status' = [status EXCEPT ![cand[w]] = "running"]
  /\ pc' = [pc EXCEPT ![w] = "run"]
  /\ attempt' = [attempt EXCEPT ![w] = 0]
  /\ UNCHANGED <<key, retries, created, proc, cand, call, env, ran>>

\* Mutant: the attempt counter is not bounded.
LoseClaim_FourAttempts(w) ==
  /\ pc[w] = "claim"
  /\ status[cand[w]] # "planned"
  /\ ToPoll(w, (attempt[w] + 1) % (MaxAttempts + 1))
  /\ UNCHANGED <<table, proc, call, env, ran>>

\* ... no row matched, or the UPDATE failed: next attempt, at most three.
LoseClaim(w) ==
  /\ pc[w] = "claim"
  /\ \/ status[cand[w]] # "planned" /\ UNCHANGED faults
     \/ Fault
  /\ ToPoll(w, (attempt[w] + 1) % MaxAttempts)
  /\ UNCHANGED <<table, proc, call, clock, starts, ran>>

Expired(r) == status[r] # "none" /\ created[r] + Retention < clock

\* The task; the janitor's deletes every old row, whatever its status.
RunTask(w) ==
  /\ pc[w] = "run"
  /\ key[cand[w]].job \in tasks
  /\ status' = IF key[cand[w]].job = Janitor
               THEN [r \in RunIds |-> IF Expired(r) THEN "deleted" ELSE status[r]]
               ELSE status
  /\ ran' = ran \cup {cand[w]}
  /\ pc' = [pc EXCEPT ![w] = "record"]
  /\ UNCHANGED <<key, retries, created, proc, cand, attempt, call, env>>

\* The task returned, failed or panicked: the outcome is written, and emitted
\* when the write went wrong too (its error is ignored).
RecordOutcome(w, outcome) ==
  /\ pc[w] = "record"
  /\ \/ SetStatus(cand[w], outcome) /\ UNCHANGED faults
     \/ Fault /\ UNCHANGED status
  /\ IF outcome = "done"
     THEN pc' = [pc EXCEPT ![w] = "report"] /\ UNCHANGED <<cand, attempt>>
     ELSE ToPoll(w, 0)
  /\ UNCHANGED <<key, retries, created, proc, call, clock, starts, ran>>

\* A claimed run without a registered task.
NoTask(w) ==
  /\ pc[w] = "run"
  /\ key[cand[w]].job \notin tasks
  /\ \/ SetStatus(cand[w], "errored") /\ UNCHANGED faults
     \/ Fault /\ UNCHANGED status
  /\ ToPoll(w, 0)
  /\ UNCHANGED <<key, retries, created, proc, call, clock, starts, ran>>

\* emitEvent("done") runs under the task's recover: a panic there turns the
\* recorded "done" into "errored".  A panic of an event emitted elsewhere in a
\* worker or scheduler ends the process, which is Crash.
ReportDone(w) ==
  /\ pc[w] = "report"
  /\ \/ UNCHANGED status
     \/ ObserverPanics /\ SetStatus(cand[w], "errored")
  /\ ToPoll(w, 0)
  /\ UNCHANGED <<key, retries, created, proc, call, env, ran>>

-----------------------------------------------------------------------------
(* The process: Start, Stop, crash. *)

\* Volatile state is gone.
ProcessGone ==
  /\ server' = "down"
  /\ tasks' = {}
  /\ pc' = [w \in Workers |-> "poll"]
  /\ cand' = [w \in Workers |-> None]
  /\ attempt' = [w \in Workers |-> 0]
  /\ call' = [c \in Callers |-> IdleCall]
  /\ UNCHANGED <<table, known, env, ran>>

\* Mutant: zombie recovery forgets the running rows.
Start_KeepsZombies ==
  /\ server = "down"
  /\ starts < MaxStarts
  /\ starts' = starts + 1
  /\ \E R \in RegSets :
       /\ tasks' = R
       /\ known' = known \cup R
       /\ status' = [r \in RunIds |->
            IF status[r] = "planned" /\ key[r].job \notin R THEN "errored" ELSE status[r]]
  /\ server' = "up"
  /\ ran' = {}
  /\ UNCHANGED <<key, retries, created, work, call, clock, faults>>

\* Registrations, then zombieRecovery, then the goroutines.
Start ==
  /\ server = "down"
  /\ starts < MaxStarts
  /\ starts' = starts + 1
  /\ \E R \in RegSets :
       /\ tasks' = R
       /\ known' = known \cup R
       /\ status' = [r \in RunIds |->
            IF status[r] \in Active
            THEN IF key[r].job \in R THEN "planned" ELSE "errored"
            ELSE status[r]]
  /\ server' = "up"
  /\ ran' = {}
  /\ UNCHANGED <<key, retries, created, work, call, clock, faults>>

Stop ==
  /\ server = "up"
  /\ starts < MaxStarts
  /\ server' = "stopping"
  /\ UNCHANGED <<table, tasks, known, work, call, env, ran>>

\* All goroutines have left their loops: Stop returns and the process ends.
Exit ==
  /\ server = "stopping"
  /\ \A w \in Workers : pc[w] = "poll" /\ attempt[w] = 0
  /\ ProcessGone

\* A crash at any point; also Stop's 30 s timeout with a task still running.
Crash ==
  /\ server # "down"
  /\ starts < MaxStarts
  /\ ProcessGone

AdvanceClock ==
  /\ clock < MaxClock
  /\ clock' = clock + 1
  /\ UNCHANGED <<table, proc, work, call, starts, faults, ran>>

-----------------------------------------------------------------------------
CallerStep(c) ==
  \/ \E k \in CallerKeys : Enqueue(c, k)
  \/ \E r \in RunIds : RetryRun(c, r) \/ InsertPlannedRun(c, r)
  \/ InsertRejected(c)
  \/ LookupExisting(c)

WorkerStep(w) ==
  \/ \E r \in RunIds : SelectCandidate(w, r)
  \/ NothingPlanned(w)
  \/ ClaimRun(w)
  \/ LoseClaim(w)
  \/ RunTask(w)
  \/ \E o \in {"done", "errored"} : RecordOutcome(w, o)
  \/ NoTask(w)
  \/ ReportDone(w)

Next ==
  \/ \E c \in Callers : CallerStep(c)
  \/ \E r \in RunIds : CancelRun(r)
  \/ \E d \in CronDefs, r \in RunIds : SchedulerTick(d, r)
  \/ \E w \in Workers : WorkerStep(w)
  \/ Start \/ Stop \/ Exit \/ Crash
  \/ AdvanceClock

Spec == Init /\ [][Next]_vars

\* Workers keep polling; every task is assumed to return, those that wait for a
\* model's answer too; the operator restarts the process.  Callers, ticks, cancels,
\* stops and crashes owe nothing.
Fairness ==
  /\ \A w \in Workers : WF_vars(WorkerStep(w))
  /\ WF_vars(Start) /\ WF_vars(Exit)

FairSpec == Spec /\ Fairness

-----------------------------------------------------------------------------
(* Properties. *)

Holds(w)  == pc[w] \in {"run", "record"}
Executing == {cand[w] : w \in {v \in Workers : Holds(v)}}

\* README "no two workers ever grab the same job": a run is held by at most
\* one worker, from its claim until its outcome has been reported.
ExclusiveExecution ==
  \A v, w \in Workers :
    /\ Holds(v) \/ pc[v] = "report"
    /\ Holds(w) \/ pc[w] = "report"
    /\ cand[v] = cand[w]
    => v = w

\* Within one server life a run's task is started at most once: only a crash
\* or a stop may make it run again.
AtMostOncePerLife == \A w \in Workers : pc[w] = "run" => cand[w] \notin ran

\* What the unique index is for, through enqueues, retries and recovery: two
\* active rows never carry the same job and payload.
ActiveUnique ==
  \A r, s \in RunIds :
    /\ status[r] \in Active /\ status[s] \in Active
    /\ key[r] = key[s] /\ key[r].payload # NoPayload
    => r = s

\* insertPlannedRun's purpose: identical work (same job, same payload) is
\* never executed by two workers at once.
NoTwinExecution ==
  \A v, w \in Workers :
    /\ Holds(v) /\ Holds(w) /\ v # w
    /\ key[cand[v]] = key[cand[w]]
    => key[cand[v]].payload = NoPayload

\* A row marked running is really being executed: no run is stranded in
\* "running" by a lost claim, a cancel, a retry or a restart.
NoStrandedRun ==
  server # "down" => {r \in RunIds : status[r] = "running"} \subseteq Executing

\* A settled run never changes again except by deletion: a cancelled run is not
\* executed, a retry leaves its source alone.
SettledIsFinal ==
  [][\A r \in RunIds : status[r] \in {"done", "errored", "cancelled", "deleted"}
        => status'[r] \in {status[r], "deleted"}]_vars

\* Runs are started in the order they were created, whatever conflicts,
\* cancellations and retries happen between the SELECT and the UPDATE.
OldestFirst ==
  [][\A r, s \in RunIds : /\ status[r] = "planned" /\ status'[r] = "running"
                         /\ status[s] = "planned"
                         => created[r] <= created[s]]_vars

\* A run that is over for its worker but not for the table: the write of its
\* outcome failed.  Only the next start gives it back.
Unrecorded(r) == faults > 0 /\ status[r] = "running" /\ r \notin Executing

\* Every run that is queued or interrupted comes to an end, unless a database
\* error keeps its outcome from being recorded.
EveryRunSettles ==
  \A r \in RunIds : (status[r] \in Active) ~> (status[r] \notin Active \/ Unrecorded(r))

\* insertPlannedRun's comment: an identical active run makes the call return
\* that run's id instead of inserting, "race-free" (so Enqueue does not fail
\* while the database works).
EnqueueNeverFails ==
  [][\A c \in Callers : call[c].at = "lookup" /\ call'[c].at = "idle" /\ server' # "down"
        => Twins(call[c].key) # {}]_vars

\* The job system implements the ledger of JobLedger.
Ledger == INSTANCE JobLedger WITH executing <- Executing, alive <- (server # "down")
LedgerSpec == Ledger!Spec
=============================================================================
