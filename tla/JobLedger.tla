------------------------------ MODULE JobLedger ------------------------------
(***************************************************************************)
(* What the job system promises of a run, with the workers, the callers    *)
(* and the SQL taken away: a table of statuses and the set of runs whose   *)
(* task is being executed.  JobQueue implements it (JobQueue!Ledger).      *)
(***************************************************************************)

CONSTANT RunIds          \* the ids job_runs.AUTOINCREMENT may hand out

VARIABLES status,        \* status of each row
          executing,     \* runs being executed
          alive          \* is a server process running?

vars == <<status, executing, alive>>

Statuses == {"none", "planned", "running", "done", "errored", "cancelled", "deleted"}
Settled  == {"done", "errored"}

TypeOK == /\ status \in [RunIds -> Statuses]
          /\ executing \in SUBSET RunIds
          /\ alive \in BOOLEAN

Init == /\ status = [r \in RunIds |-> "none"]
        /\ executing = {}
        /\ alive = FALSE

\* A new run is recorded.
Submit(r) == /\ alive
             /\ status[r] = "none"
             /\ status' = [status EXCEPT ![r] = "planned"]
             /\ UNCHANGED <<executing, alive>>

\* A planned run is handed out once.
Dispatch(r) == /\ alive
               /\ status[r] = "planned"
               /\ r \notin executing
               /\ status' = [status EXCEPT ![r] = "running"]
               /\ executing' = executing \cup {r}
               /\ UNCHANGED alive

\* Its execution ends with an outcome, recorded unless the row was deleted.
Settle(r) == /\ r \in executing
             /\ \/ /\ status[r] = "running"
                   /\ \E o \in Settled : status' = [status EXCEPT ![r] = o]
                \/ /\ status[r] = "deleted"
                   /\ UNCHANGED status
             /\ executing' = executing \ {r}
             /\ UNCHANGED alive

\* Only a run nobody has started can be cancelled.
Cancel(r) == /\ status[r] = "planned"
             /\ status' = [status EXCEPT ![r] = "cancelled"]
             /\ UNCHANGED <<executing, alive>>

\* Old rows disappear for good.
Purge(old) == /\ \A r \in old : status[r] # "none"
              /\ status' = [r \in RunIds |-> IF r \in old THEN "deleted" ELSE status[r]]
              /\ UNCHANGED <<executing, alive>>

\* The process ends, and with it every execution.
Halt == /\ alive
        /\ alive' = FALSE
        /\ executing' = {}
        /\ UNCHANGED status

\* A new process gives interrupted runs another chance; those it has no task
\* for are errored.
Recover(orphans) ==
  /\ ~alive
  /\ alive' = TRUE
  /\ \A r \in orphans : status[r] \in {"planned", "running"}
  /\ status' = [r \in RunIds |-> IF r \in orphans THEN "errored"
                                 ELSE IF status[r] = "running" THEN "planned"
                                 ELSE status[r]]
  /\ UNCHANGED executing

Next == \/ \E r \in RunIds : Submit(r) \/ Dispatch(r) \/ Settle(r) \/ Cancel(r)
        \/ \E old \in SUBSET RunIds : Purge(old)
        \/ Halt
        \/ \E orphans \in SUBSET RunIds : Recover(orphans)

Spec == Init /\ [][Next]_vars
=============================================================================
