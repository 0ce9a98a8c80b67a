--------------------------- MODULE JobQueueProofs ---------------------------
(***************************************************************************)
(* What holds of JobQueue for every set of workers, callers, runs and      *)
(* definitions, with failing writes, a panicking observer, deletion of     *)
(* active rows and any number of restarts.                                 *)
(***************************************************************************)
EXTENDS JobQueue, TLAPS

(***************************************************************************)
(* The inductive invariant.  A run in a worker's hands has left "planned"  *)
(* and is still "running" unless the janitor deleted it, so the guarded    *)
(* claim cannot hand it out again; only a process that is up has workers   *)
(* at work, so recovery re-plans nothing a worker still holds; and what    *)
(* was executed in this life is no longer planned.                         *)
(***************************************************************************)
Busy(w) == Holds(w) \/ pc[w] = "report"

HeldRow  == \A w \in Workers :
              /\ Holds(w) => status[cand[w]] \in {"running", "deleted"}
              /\ pc[w] = "report" => status[cand[w]] \notin {"none", "planned"}
DownIdle == server = "down" => \A w \in Workers : pc[w] = "poll"
CallsIdle == server = "down" => \A c \in Callers : call[c].at = "idle"
RanRow   == \A r \in ran : status[r] \notin {"none", "planned"}

ExecInv == ExclusiveExecution /\ HeldRow /\ DownIdle /\ CallsIdle /\ RanRow /\ AtMostOncePerLife

\* The conjuncts of TypeOK about the status column and about the workers.
StatusTyped ==
  /\ status \in [RunIds -> {"none", "planned", "running", "done", "errored",
                            "cancelled", "deleted"}]
  /\ \A r \in RunIds : status[r] # "none" => key[r] \in Keys
WorkersTyped ==
  /\ pc \in [Workers -> {"poll", "claim", "run", "record", "report"}]
  /\ cand \in [Workers -> RunIds \cup {None}]
  /\ \A w \in Workers : pc[w] # "poll" => cand[w] \in RunIds
  /\ attempt \in [Workers -> 0 .. MaxAttempts - 1]

\* The initial state is well typed.
LEMMA InitTypeOK == Init => TypeOK
  BY ConstantsAssumption DEF Init, TypeOK, IdleCall, Calls, MaxAttempts

\* Every action keeps the type of every variable.
LEMMA NextTypeOK == TypeOK /\ [Next]_vars => TypeOK'
<1> SUFFICES ASSUME TypeOK, [Next]_vars PROVE TypeOK'
  OBVIOUS
<1> USE DEF TypeOK, table, work, proc, env
<1>1. ASSUME NEW c \in Callers, CallerStep(c) PROVE TypeOK'
  <2>1. ASSUME NEW k \in CallerKeys, Enqueue(c, k) PROVE TypeOK'
    BY <2>1, ConstantsAssumption DEF Enqueue, Pending, Calls, Keys
  <2>2. ASSUME NEW r \in RunIds, RetryRun(c, r) PROVE TypeOK'
    BY <2>2 DEF RetryRun, Pending, Calls
  <2>3. ASSUME NEW r \in RunIds, InsertPlannedRun(c, r) PROVE TypeOK'
    BY <2>3 DEF InsertPlannedRun, InsertRow, Return, IdleCall, Calls
  <2>4. CASE InsertRejected(c)
    BY <2>4 DEF InsertRejected, Fault, Calls
  <2>5. CASE LookupExisting(c)
    BY <2>5 DEF LookupExisting, Return, IdleCall, Calls
  <2>6. QED
    BY <1>1, <2>1, <2>2, <2>3, <2>4, <2>5 DEF CallerStep
<1>2. ASSUME NEW r \in RunIds, CancelRun(r) PROVE TypeOK'
  BY <1>2 DEF CancelRun
<1>3. ASSUME NEW d \in CronDefs, NEW r \in RunIds, SchedulerTick(d, r) PROVE TypeOK'
  BY <1>3, ConstantsAssumption DEF SchedulerTick, InsertRow, Keys
<1>4. ASSUME NEW w \in Workers, WorkerStep(w) PROVE TypeOK'
  <2>1. ASSUME NEW r \in RunIds, SelectCandidate(w, r) PROVE TypeOK'
    BY <2>1 DEF SelectCandidate
  <2>2. CASE NothingPlanned(w)
    BY <2>2 DEF NothingPlanned, ToPoll, MaxAttempts
  <2>3. CASE ClaimRun(w)
    BY <2>3 DEF ClaimRun, MaxAttempts
  <2>4. CASE LoseClaim(w)
    BY <2>4 DEF LoseClaim, ToPoll, Fault, MaxAttempts
  <2>5. CASE RunTask(w)
    <3>1. StatusTyped'
      BY <2>5 DEF RunTask, Expired, StatusTyped
    <3>2. QED
      BY <2>5, <3>1 DEF RunTask, StatusTyped
  <2>6. ASSUME NEW o \in {"done", "errored"}, RecordOutcome(w, o) PROVE TypeOK'
    <3>1. StatusTyped'
      BY <2>6 DEF RecordOutcome, SetStatus, StatusTyped
    <3>2. faults' \in Nat
      BY <2>6 DEF RecordOutcome, Fault
    <3>3. WorkersTyped'
      <4>1. CASE o = "done"
        BY <2>6, <4>1 DEF RecordOutcome, WorkersTyped
      <4>2. CASE o = "errored"
        BY <2>6, <4>2 DEF RecordOutcome, ToPoll, WorkersTyped, MaxAttempts
      <4>3. QED
        BY <4>1, <4>2
    <3>4. QED
      BY <2>6, <3>1, <3>2, <3>3 DEF RecordOutcome, StatusTyped, WorkersTyped
  <2>7. CASE NoTask(w)
    <3>1. StatusTyped'
      BY <2>7 DEF NoTask, SetStatus, StatusTyped
    <3>2. faults' \in Nat
      BY <2>7 DEF NoTask, Fault
    <3>3. WorkersTyped'
      BY <2>7 DEF NoTask, ToPoll, WorkersTyped, MaxAttempts
    <3>4. QED
      BY <2>7, <3>1, <3>2, <3>3 DEF NoTask, StatusTyped, WorkersTyped
  <2>8. CASE ReportDone(w)
    BY <2>8 DEF ReportDone, SetStatus, ToPoll, MaxAttempts
  <2>9. QED
    BY <1>4, <2>1, <2>2, <2>3, <2>4, <2>5, <2>6, <2>7, <2>8 DEF WorkerStep
<1>5. CASE Start
  BY <1>5, ConstantsAssumption DEF Start, Active
<1>6. CASE Stop
  BY <1>6 DEF Stop
<1>7. CASE Exit
  BY <1>7 DEF Exit, ProcessGone, IdleCall, Calls, MaxAttempts
<1>8. CASE Crash
  BY <1>8 DEF Crash, ProcessGone, IdleCall, Calls, MaxAttempts
<1>9. CASE AdvanceClock
  BY <1>9 DEF AdvanceClock
<1>10. CASE UNCHANGED vars
  BY <1>10 DEF vars
<1>11. QED
  BY <1>1, <1>2, <1>3, <1>4, <1>5, <1>6, <1>7, <1>8, <1>9, <1>10 DEF Next

\* Type correctness of the table, the workers and the calls.
THEOREM TypeCorrect == Spec => []TypeOK
<1>1. QED
  BY InitTypeOK, NextTypeOK, PTL DEF Spec

-----------------------------------------------------------------------------
\* Nothing is held or executed at first.
LEMMA InitExecInv == Init => ExecInv
  BY DEF Init, IdleCall, ExecInv, ExclusiveExecution, HeldRow, DownIdle, CallsIdle, RanRow,
         AtMostOncePerLife, Holds

\* The invariant survives every step of every actor.
LEMMA NextExecInv == TypeOK /\ TypeOK' /\ ExecInv /\ [Next]_vars => ExecInv'
<1> SUFFICES ASSUME TypeOK, TypeOK', ExecInv, [Next]_vars PROVE ExecInv'
  OBVIOUS
<1> USE DEF ExecInv, ExclusiveExecution, HeldRow, DownIdle, CallsIdle, RanRow, AtMostOncePerLife,
            Holds, table, work, proc, env
<1>1. ASSUME NEW c \in Callers, CallerStep(c) PROVE ExecInv'
  <2>1. ASSUME NEW k \in CallerKeys, Enqueue(c, k) PROVE ExecInv'
    BY <2>1 DEF Enqueue
  <2>2. ASSUME NEW r \in RunIds, RetryRun(c, r) PROVE ExecInv'
    BY <2>2 DEF RetryRun
  <2>3. ASSUME NEW r \in RunIds, InsertPlannedRun(c, r) PROVE ExecInv'
    BY <2>3 DEF InsertPlannedRun, InsertRow, TypeOK
  <2>4. CASE InsertRejected(c)
    BY <2>4 DEF InsertRejected, TypeOK
  <2>5. CASE LookupExisting(c)
    BY <2>5 DEF LookupExisting, TypeOK
  <2>6. QED
    BY <1>1, <2>1, <2>2, <2>3, <2>4, <2>5 DEF CallerStep
<1>2. ASSUME NEW r \in RunIds, CancelRun(r) PROVE ExecInv'
  BY <1>2 DEF CancelRun, TypeOK
<1>3. ASSUME NEW d \in CronDefs, NEW r \in RunIds, SchedulerTick(d, r) PROVE ExecInv'
  BY <1>3 DEF SchedulerTick, InsertRow, TypeOK
<1>4. ASSUME NEW w \in Workers, WorkerStep(w) PROVE ExecInv'
  <2>1. ASSUME NEW r \in RunIds, SelectCandidate(w, r) PROVE ExecInv'
    BY <2>1 DEF SelectCandidate, TypeOK
  <2>2. CASE NothingPlanned(w)
    BY <2>2 DEF NothingPlanned, ToPoll, TypeOK
  <2>3. CASE ClaimRun(w)
    BY <2>3 DEF ClaimRun, TypeOK
  <2>4. CASE LoseClaim(w)
    BY <2>4 DEF LoseClaim, ToPoll, TypeOK
  <2>5. CASE RunTask(w)
    BY <2>5 DEF RunTask, Expired, TypeOK
  <2>6. ASSUME NEW o \in {"done", "errored"}, RecordOutcome(w, o) PROVE ExecInv'
    BY <2>6 DEF RecordOutcome, SetStatus, ToPoll, TypeOK
  <2>7. CASE NoTask(w)
    BY <2>7 DEF NoTask, SetStatus, ToPoll, TypeOK
  <2>8. CASE ReportDone(w)
    BY <2>8 DEF ReportDone, SetStatus, ToPoll, TypeOK
  <2>9. QED
    BY <1>4, <2>1, <2>2, <2>3, <2>4, <2>5, <2>6, <2>7, <2>8 DEF WorkerStep
<1>5. CASE Start
  BY <1>5 DEF Start, TypeOK
<1>6. CASE Stop
  BY <1>6 DEF Stop
<1>7. CASE Exit
  BY <1>7 DEF Exit, ProcessGone, IdleCall, TypeOK
<1>8. CASE Crash
  BY <1>8 DEF Crash, ProcessGone, IdleCall, TypeOK
<1>9. CASE AdvanceClock
  BY <1>9 DEF AdvanceClock
<1>10. CASE UNCHANGED vars
  BY <1>10 DEF vars
<1>11. QED
  BY <1>1, <1>2, <1>3, <1>4, <1>5, <1>6, <1>7, <1>8, <1>9, <1>10 DEF Next

\* The inductive invariant holds of every reachable state.
THEOREM ExecInvariant == Spec => []ExecInv
<1>1. QED
  BY InitExecInv, NextExecInv, TypeCorrect, PTL DEF Spec

\* No two workers ever hold the same run.
THEOREM Exclusive == Spec => []ExclusiveExecution
<1>1. ExecInv => ExclusiveExecution
  BY DEF ExecInv
<1>2. QED
  BY <1>1, ExecInvariant, PTL

\* Between two starts of the server a run's task is started at most once.
THEOREM AtMostOnce == Spec => []AtMostOncePerLife
<1>1. ExecInv => AtMostOncePerLife
  BY DEF ExecInv
<1>2. QED
  BY <1>1, ExecInvariant, PTL
-----------------------------------------------------------------------------
\* The unique index, as an invariant of every statement.
LEMMA NextActiveUnique == TypeOK /\ ActiveUnique /\ [Next]_vars => ActiveUnique'
<1> SUFFICES ASSUME TypeOK, ActiveUnique, [Next]_vars PROVE ActiveUnique'
  OBVIOUS
<1> USE DEF ActiveUnique, Active, TypeOK, table, work, proc, env
<1>1. ASSUME NEW c \in Callers, CallerStep(c) PROVE ActiveUnique'
  <2>1. ASSUME NEW r \in RunIds, InsertPlannedRun(c, r) PROVE ActiveUnique'
    BY <2>1 DEF InsertPlannedRun, InsertRow, Twins
  <2>2. QED
    BY <1>1, <2>1 DEF CallerStep, Enqueue, RetryRun, InsertRejected, LookupExisting
<1>2. ASSUME NEW r \in RunIds, CancelRun(r) PROVE ActiveUnique'
  BY <1>2 DEF CancelRun
<1>3. ASSUME NEW d \in CronDefs, NEW r \in RunIds, SchedulerTick(d, r) PROVE ActiveUnique'
  BY <1>3 DEF SchedulerTick, InsertRow
<1>4. ASSUME NEW w \in Workers, WorkerStep(w) PROVE ActiveUnique'
  <2>1. CASE ClaimRun(w)
    BY <2>1 DEF ClaimRun
  <2>2. CASE RunTask(w)
    BY <2>2 DEF RunTask, Expired
  <2>3. ASSUME NEW o \in {"done", "errored"}, RecordOutcome(w, o) PROVE ActiveUnique'
    BY <2>3 DEF RecordOutcome, SetStatus
  <2>4. CASE NoTask(w)
    BY <2>4 DEF NoTask, SetStatus
  <2>5. CASE ReportDone(w)
    BY <2>5 DEF ReportDone, SetStatus
  <2>6. QED
    BY <1>4, <2>1, <2>2, <2>3, <2>4, <2>5
    DEF WorkerStep, SelectCandidate, NothingPlanned, LoseClaim
<1>5. CASE Start
  BY <1>5 DEF Start
<1>6. CASE Stop \/ Exit \/ Crash \/ AdvanceClock \/ UNCHANGED vars
  BY <1>6 DEF Stop, Exit, Crash, ProcessGone, AdvanceClock, vars
<1>7. QED
  BY <1>1, <1>2, <1>3, <1>4, <1>5, <1>6 DEF Next

\* At most one active row per job and payload text, whatever fails.
THEOREM UniqueActive == Spec => []ActiveUnique
<1>1. Init => ActiveUnique
  BY DEF Init, ActiveUnique, Active
<1>2. QED
  BY <1>1, NextActiveUnique, TypeCorrect, PTL DEF Spec

-----------------------------------------------------------------------------
\* Identical work (job and payload text) is in the hands of two workers only
\* when the janitor has deleted the row of one of them while it was at work
\* (jobs.go:258 deletes by age, whatever the status): as long as both rows are
\* there, the index and the claim keep them apart.
TwinsOnlyByDeletion ==
  \A v, w \in Workers :
    /\ Holds(v) /\ Holds(w) /\ v # w
    /\ key[cand[v]] = key[cand[w]] /\ key[cand[v]].payload # NoPayload
    => "deleted" \in {status[cand[v]], status[cand[w]]}

THEOREM NoTwins == Spec => []TwinsOnlyByDeletion
<1>1. TypeOK /\ ExecInv /\ ActiveUnique => TwinsOnlyByDeletion
  <2> SUFFICES ASSUME TypeOK, ExecInv, ActiveUnique, NEW v \in Workers, NEW w \in Workers,
                      Holds(v), Holds(w), v # w,
                      key[cand[v]] = key[cand[w]], key[cand[v]].payload # NoPayload,
                      status[cand[v]] # "deleted", status[cand[w]] # "deleted"
               PROVE  FALSE
    BY DEF TwinsOnlyByDeletion
  <2>1. cand[v] \in RunIds /\ cand[w] \in RunIds
    BY DEF TypeOK, Holds
  <2>2. status[cand[v]] \in Active /\ status[cand[w]] \in Active
    BY DEF ExecInv, HeldRow, Active
  <2>3. cand[v] = cand[w]
    BY <2>1, <2>2 DEF ActiveUnique
  <2>4. QED
    BY <2>3 DEF ExecInv, ExclusiveExecution
<1>2. QED
  BY <1>1, TypeCorrect, ExecInvariant, UniqueActive, PTL

-----------------------------------------------------------------------------
\* The status column never leaves a settled value, except by deletion.
LEMMA StepSettledIsFinal ==
  ASSUME ~ObserverPanics, TypeOK, ExecInv, [Next]_vars, NEW r \in RunIds,
         status[r] \in {"done", "errored", "cancelled", "deleted"}
  PROVE  status'[r] \in {status[r], "deleted"}
<1> USE DEF TypeOK, table, work, proc, env
<1>1. ASSUME NEW c \in Callers, CallerStep(c) PROVE status'[r] = status[r]
  BY <1>1 DEF CallerStep, Enqueue, RetryRun, InsertPlannedRun, InsertRow, InsertRejected,
              LookupExisting
<1>2. ASSUME NEW x \in RunIds, CancelRun(x) PROVE status'[r] = status[r]
  BY <1>2 DEF CancelRun
<1>3. ASSUME NEW d \in CronDefs, NEW x \in RunIds, SchedulerTick(d, x)
      PROVE  status'[r] = status[r]
  BY <1>3 DEF SchedulerTick, InsertRow
<1>4. ASSUME NEW w \in Workers, WorkerStep(w) PROVE status'[r] \in {status[r], "deleted"}
  <2>1. CASE ClaimRun(w)
    BY <2>1 DEF ClaimRun
  <2>2. CASE RunTask(w)
    BY <2>2 DEF RunTask
  <2>3. ASSUME NEW o \in {"done", "errored"}, RecordOutcome(w, o)
        PROVE  status'[r] = status[r]
    BY <2>3 DEF RecordOutcome, SetStatus, ExecInv, HeldRow, Holds
  <2>4. CASE NoTask(w)
    BY <2>4 DEF NoTask, SetStatus, ExecInv, HeldRow, Holds
  <2>5. CASE ReportDone(w)
    BY <2>5 DEF ReportDone
  <2>6. QED
    BY <1>4, <2>1, <2>2, <2>3, <2>4, <2>5
    DEF WorkerStep, SelectCandidate, NothingPlanned, LoseClaim
<1>5. CASE Start
  BY <1>5 DEF Start, Active
<1>6. CASE Stop \/ Exit \/ Crash \/ AdvanceClock \/ UNCHANGED vars
  BY <1>6 DEF Stop, Exit, Crash, ProcessGone, AdvanceClock, vars
<1>7. QED
  BY <1>1, <1>2, <1>3, <1>4, <1>5, <1>6 DEF Next

\* Unless the observer panics, what has been settled stays settled.
THEOREM Finality == ~ObserverPanics => (Spec => SettledIsFinal)
<1> SUFFICES ASSUME ~ObserverPanics PROVE Spec => SettledIsFinal
  OBVIOUS
<1>1. TypeOK /\ ExecInv /\ [Next]_vars =>
        [\A r \in RunIds : status[r] \in {"done", "errored", "cancelled", "deleted"}
            => status'[r] \in {status[r], "deleted"}]_vars
  BY StepSettledIsFinal
<1>2. QED
  BY <1>1, TypeCorrect, ExecInvariant, PTL DEF Spec, SettledIsFinal

-----------------------------------------------------------------------------
(* The order of claims. *)

\* created_at never lies in the future, and a selected run that is still
\* planned is still an oldest one.
OrderInv ==
  /\ \A r \in RunIds : created[r] <= clock
  /\ \A w \in Workers : pc[w] = "claim" =>
       /\ status[cand[w]] # "none"
       /\ status[cand[w]] = "planned" => cand[w] \in OldestPlanned

\* No step lets an older run overtake a selected one.
LEMMA NextOrderInv ==
  ASSUME TypeOK, TypeOK', DownIdle, OrderInv, [Next]_vars
  PROVE  OrderInv'
<1> USE DEF OrderInv, OldestPlanned, TypeOK, table, work, proc, env
<1>1. ASSUME NEW c \in Callers, CallerStep(c) PROVE OrderInv'
  <2>1. ASSUME NEW r \in RunIds, InsertPlannedRun(c, r) PROVE OrderInv'
    BY <2>1 DEF InsertPlannedRun, InsertRow
  <2>2. QED
    BY <1>1, <2>1 DEF CallerStep, Enqueue, RetryRun, InsertRejected, LookupExisting
<1>2. ASSUME NEW r \in RunIds, CancelRun(r) PROVE OrderInv'
  BY <1>2 DEF CancelRun
<1>3. ASSUME NEW d \in CronDefs, NEW r \in RunIds, SchedulerTick(d, r) PROVE OrderInv'
  BY <1>3 DEF SchedulerTick, InsertRow
<1>4. ASSUME NEW w \in Workers, WorkerStep(w) PROVE OrderInv'
  <2>1. ASSUME NEW r \in RunIds, SelectCandidate(w, r) PROVE OrderInv'
    BY <2>1 DEF SelectCandidate
  <2>2. CASE ClaimRun(w)
    BY <2>2 DEF ClaimRun
  <2>3. CASE RunTask(w)
    BY <2>3 DEF RunTask, Expired
  <2>4. ASSUME NEW o \in {"done", "errored"}, RecordOutcome(w, o) PROVE OrderInv'
    BY <2>4 DEF RecordOutcome, SetStatus, ToPoll
  <2>5. CASE NoTask(w)
    BY <2>5 DEF NoTask, SetStatus, ToPoll
  <2>6. CASE ReportDone(w)
    BY <2>6 DEF ReportDone, SetStatus, ToPoll
  <2>7. CASE NothingPlanned(w) \/ LoseClaim(w)
    BY <2>7 DEF NothingPlanned, LoseClaim, ToPoll
  <2>8. QED
    BY <1>4, <2>1, <2>2, <2>3, <2>4, <2>5, <2>6, <2>7 DEF WorkerStep
<1>5. CASE Start
  BY <1>5 DEF Start, DownIdle
<1>6. CASE Stop \/ UNCHANGED vars
  BY <1>6 DEF Stop, vars
<1>7. CASE Exit \/ Crash
  BY <1>7 DEF Exit, Crash, ProcessGone
<1>8. CASE AdvanceClock
  BY <1>8 DEF AdvanceClock
<1>9. QED
  BY <1>1, <1>2, <1>3, <1>4, <1>5, <1>6, <1>7, <1>8 DEF Next

\* Runs are started oldest first.
THEOREM Fifo == Spec => OldestFirst
<1>1. Init => OrderInv
  BY DEF Init, OrderInv
<1>2. TypeOK /\ TypeOK' /\ ExecInv /\ OrderInv /\ [Next]_vars => OrderInv'
  BY NextOrderInv DEF ExecInv
<1>3. TypeOK /\ OrderInv /\ [Next]_vars =>
        [\A r, s \in RunIds : /\ status[r] = "planned" /\ status'[r] = "running"
                             /\ status[s] = "planned"
                             => created[r] <= created[s]]_vars
  <2> SUFFICES ASSUME TypeOK, OrderInv, [Next]_vars,
                      NEW r \in RunIds, NEW s \in RunIds,
                      status[r] = "planned", status'[r] = "running", status[s] = "planned"
               PROVE  created[r] <= created[s]
    OBVIOUS
  <2> USE DEF TypeOK, table, work, proc, env
  <2>1. \E w \in Workers : ClaimRun(w) /\ cand[w] = r
    <3>1. ASSUME NEW w \in Workers, WorkerStep(w) PROVE ClaimRun(w) /\ cand[w] = r
      <4>1. CASE ClaimRun(w)
        BY <4>1 DEF ClaimRun
      <4>2. ASSUME NEW o \in {"done", "errored"}, RecordOutcome(w, o) PROVE FALSE
        BY <4>2 DEF RecordOutcome, SetStatus
      <4>3. QED
        BY <3>1, <4>1, <4>2 DEF WorkerStep, SelectCandidate, NothingPlanned, LoseClaim,
           RunTask, NoTask, ReportDone, SetStatus
    <3>2. ASSUME NEW c \in Callers, CallerStep(c) PROVE FALSE
      BY <3>2 DEF CallerStep, Enqueue, RetryRun, InsertPlannedRun, InsertRow,
                  InsertRejected, LookupExisting
    <3>3. ASSUME NEW d \in CronDefs, NEW x \in RunIds, SchedulerTick(d, x) PROVE FALSE
      BY <3>3 DEF SchedulerTick, InsertRow
    <3>4. ASSUME NEW x \in RunIds, CancelRun(x) PROVE FALSE
      BY <3>4 DEF CancelRun
    <3>5. CASE Start \/ Stop \/ Exit \/ Crash \/ AdvanceClock \/ UNCHANGED vars
      BY <3>5 DEF Start, Active, Stop, Exit, Crash, ProcessGone, AdvanceClock, vars
    <3>6. QED
      BY <3>1, <3>2, <3>3, <3>4, <3>5 DEF Next
  <2>2. QED
    BY <2>1 DEF OrderInv, OldestPlanned, ClaimRun
<1>4. QED
  BY <1>1, <1>2, <1>3, TypeCorrect, ExecInvariant, PTL DEF Spec, OldestFirst
-----------------------------------------------------------------------------
(* JobQueue implements JobLedger. *)

\* The executing runs only change with the workers that hold them.
LEMMA ExecutingFrame ==
  ASSUME \A v \in Workers : (Holds(v)' <=> Holds(v)) /\ (Holds(v) => cand'[v] = cand[v])
  PROVE  Executing' = Executing
  BY DEF Executing

\* Every step is a ledger step or leaves the ledger unchanged.
LEMMA LedgerStep ==
  ASSUME MaxFaults = 0, ~ObserverPanics, TypeOK, TypeOK', ExecInv, [Next]_vars
  PROVE  [Ledger!Next]_(Ledger!vars)
<1> USE DEF TypeOK, table, work, proc, env
<1>f. ~Fault
  BY DEF Fault
<1>g. ASSUME UNCHANGED <<pc, cand>> PROVE Executing' = Executing
  BY <1>g, ExecutingFrame DEF Holds
<1>1. ASSUME NEW c \in Callers, CallerStep(c) PROVE [Ledger!Next]_(Ledger!vars)
  <2>1. ASSUME NEW r \in RunIds, InsertPlannedRun(c, r) PROVE Ledger!Submit(r)
    <3>1. server # "down"
      BY <2>1 DEF InsertPlannedRun, ExecInv, CallsIdle
    <3>2. Executing' = Executing
      BY <2>1, <1>g DEF InsertPlannedRun
    <3>3. QED
      BY <2>1, <3>1, <3>2 DEF InsertPlannedRun, InsertRow, Ledger!Submit
  <2>2. ASSUME NEW r \in RunIds, InsertPlannedRun(c, r) PROVE Ledger!Next
    BY <2>1, <2>2 DEF Ledger!Next
  <2>3. CASE \/ \E k \in CallerKeys : Enqueue(c, k)
             \/ \E r \in RunIds : RetryRun(c, r)
             \/ InsertRejected(c)
             \/ LookupExisting(c)
    BY <2>3, <1>g DEF Enqueue, RetryRun, InsertRejected, LookupExisting, Ledger!vars
  <2>4. QED
    BY <1>1, <2>2, <2>3 DEF CallerStep
<1>2. ASSUME NEW r \in RunIds, CancelRun(r) PROVE Ledger!Next
  <2>1. Ledger!Cancel(r)
    BY <1>2, <1>g DEF CancelRun, Ledger!Cancel
  <2>2. QED
    BY <2>1 DEF Ledger!Next
<1>3. ASSUME NEW d \in CronDefs, NEW r \in RunIds, SchedulerTick(d, r) PROVE Ledger!Next
  <2>1. Ledger!Submit(r)
    BY <1>3, <1>g DEF SchedulerTick, InsertRow, Ledger!Submit
  <2>2. QED
    BY <2>1 DEF Ledger!Next
<1>4. ASSUME NEW w \in Workers, WorkerStep(w) PROVE [Ledger!Next]_(Ledger!vars)
  <2>1. ASSUME NEW r \in RunIds, SelectCandidate(w, r)
        PROVE  [Ledger!Next]_(Ledger!vars)
    <3>1. Executing' = Executing
      BY <2>1, ExecutingFrame DEF SelectCandidate, Holds
    <3>2. QED
      BY <2>1, <3>1 DEF SelectCandidate, Ledger!vars
  <2>0. ASSUME NothingPlanned(w) \/ LoseClaim(w) \/ ReportDone(w)
        PROVE  [Ledger!Next]_(Ledger!vars)
    <3>1. Executing' = Executing
      BY <2>0, ExecutingFrame DEF NothingPlanned, LoseClaim, ReportDone, ToPoll, Holds
    <3>2. QED
      BY <2>0, <3>1 DEF NothingPlanned, LoseClaim, ReportDone, Ledger!vars
  <2>2. CASE ClaimRun(w)
    <3> PICK r \in RunIds : r = cand[w]
      BY <2>2 DEF ClaimRun
    <3>1. Executing' = Executing \cup {r}
      BY <2>2 DEF ClaimRun, Executing, Holds
    <3>2. r \notin Executing
      BY <2>2 DEF ClaimRun, ExecInv, HeldRow, Executing
    <3>3. server # "down" /\ server' = server
      BY <2>2 DEF ClaimRun, ExecInv, DownIdle
    <3>4. Ledger!Dispatch(r)
      BY <2>2, <3>1, <3>2, <3>3 DEF ClaimRun, Ledger!Dispatch
    <3>5. QED
      BY <3>4 DEF Ledger!Next
  <2>3. CASE RunTask(w)
    <3>1. Executing' = Executing /\ server' = server
      BY <2>3, ExecutingFrame DEF RunTask, Holds
    <3>2. CASE key[cand[w]].job = Janitor
      <4> DEFINE old == {r \in RunIds : Expired(r)}
      <4>1. Ledger!Purge(old)
        BY <2>3, <3>1, <3>2 DEF RunTask, Expired, Ledger!Purge
      <4>2. QED
        BY <4>1 DEF Ledger!Next
    <3>3. CASE key[cand[w]].job # Janitor
      BY <2>3, <3>1, <3>3 DEF RunTask, Ledger!vars
    <3>4. QED
      BY <3>2, <3>3
  <2>4. ASSUME NEW o \in {"done", "errored"},
               RecordOutcome(w, o) \/ (NoTask(w) /\ o = "errored")
        PROVE  Ledger!Next
    <3> PICK r \in RunIds : r = cand[w]
      BY <2>4 DEF RecordOutcome, NoTask
    <3>1. Executing' = Executing \ {r}
      <4>1. ~Holds(w)' /\ Holds(w)
        BY <2>4 DEF RecordOutcome, NoTask, ToPoll, Holds
      <4>2. \A v \in Workers \ {w} : (Holds(v)' <=> Holds(v)) /\ cand'[v] = cand[v]
        BY <2>4 DEF RecordOutcome, NoTask, ToPoll, Holds
      <4>3. \A v \in Workers \ {w} : Holds(v) => cand[v] # r
        BY <4>1 DEF ExecInv, ExclusiveExecution
      <4>4. QED
        BY <4>1, <4>2, <4>3 DEF Executing
    <3>2. SetStatus(r, o) /\ server' = server
      BY <2>4, <1>f DEF RecordOutcome, NoTask
    <3>3. status[r] \in {"running", "deleted"} /\ r \in Executing
      BY <2>4 DEF RecordOutcome, NoTask, ExecInv, HeldRow, Holds, Executing
    <3>4. \/ status[r] = "running" /\ status' = [status EXCEPT ![r] = o]
          \/ status[r] = "deleted" /\ status' = status
      BY <3>2, <3>3 DEF SetStatus
    <3>5. Ledger!Settle(r)
      BY <3>1, <3>2, <3>3, <3>4 DEF Ledger!Settle, Ledger!Settled
    <3>6. QED
      BY <3>5 DEF Ledger!Next
  <2>5. ASSUME NoTask(w) PROVE [Ledger!Next]_(Ledger!vars)
    BY <2>4, <2>5
  <2>6. ASSUME NEW o \in {"done", "errored"}, RecordOutcome(w, o)
        PROVE  [Ledger!Next]_(Ledger!vars)
    BY <2>4, <2>6
  <2>7. QED
    BY <1>4, <2>0, <2>1, <2>2, <2>3, <2>5, <2>6 DEF WorkerStep
<1>5. CASE Start
  <2> PICK R \in RegSets : status' = [r \in RunIds |->
            IF status[r] \in Active
            THEN IF key[r].job \in R THEN "planned" ELSE "errored"
            ELSE status[r]]
    BY <1>5 DEF Start
  <2> DEFINE orphans == {r \in RunIds : status[r] \in Active /\ key[r].job \notin R}
  <2>1. Executing' = Executing /\ server = "down" /\ server' = "up"
    BY <1>5, <1>g DEF Start
  <2>2. Ledger!Recover(orphans)
    BY <2>1 DEF Active, Ledger!Recover
  <2>3. QED
    BY <2>2 DEF Ledger!Next
<1>6. CASE Exit \/ Crash
  <2>1. Executing' = {} /\ server # "down" /\ server' = "down" /\ status' = status
    BY <1>6 DEF Exit, Crash, ProcessGone, Executing, Holds
  <2>2. QED
    BY <2>1 DEF Ledger!Next, Ledger!Halt
<1>7. CASE Stop \/ AdvanceClock \/ UNCHANGED vars
  BY <1>7, <1>g DEF Stop, AdvanceClock, vars, Ledger!vars
<1>8. QED
  BY <1>1, <1>2, <1>3, <1>4, <1>5, <1>6, <1>7 DEF Next

\* With a database whose writes succeed and an observer that does not panic,
\* the job system implements the ledger.
THEOREM ImplementsLedger == MaxFaults = 0 /\ ~ObserverPanics => (Spec => LedgerSpec)
<1> SUFFICES ASSUME MaxFaults = 0, ~ObserverPanics PROVE Spec => LedgerSpec
  OBVIOUS
<1>1. Init => Ledger!Init
  BY DEF Init, Ledger!Init, Executing, Holds
<1>2. TypeOK /\ TypeOK' /\ ExecInv /\ [Next]_vars => [Ledger!Next]_(Ledger!vars)
  BY LedgerStep
<1>3. QED
  BY <1>1, <1>2, TypeCorrect, ExecInvariant, PTL DEF Spec, LedgerSpec, Ledger!Spec
=============================================================================
