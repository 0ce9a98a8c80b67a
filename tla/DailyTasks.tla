------------------------------- MODULE DailyTasks -------------------------------
(* The task overview (pkg/notetype/taskoverview): scoring of the open tasks,   *)
(* generations of daily tasks stored by the nightly job, by the button and by  *)
(* the first view, and what a view shows of them. Several of these run side by *)
(* side; one action is one statement or one transaction of SQLite.             *)
EXTENDS Integers, Sequences, FiniteSets

CONSTANTS
    Tasks,          \* note ids of tasks
    Overviews, Makers,
    Weight,         \* [due, priority]: the score's weights; the other terms are
                    \* one number of the task
    UrgentDueDays,
    DayLength,      \* ticks of a day; assigned_at is a tick
    Configs         \* [count, tasks, overs, ways, time, makes, changes,
                    \* restarts, legacy]: daily_task_count, attributes of the tasks,
                    \* who makes lists of which overviews, what may happen

VARIABLES
    now,
    task,        \* notes and ct_task_config: id -> attributes, or Deleted
    daily,       \* ct_taskoverview_daily
    seq,         \* dailyGenerationSeq, in memory
    maker,
    stores,      \* every generation ever stored: [over, gen, tasks, day, picked]
    recounted,   \* history: the seconds that a restart let two processes see
    config, used

vars == <<now, task, daily, seq, maker, stores, recounted, config, used>>

Deleted == [status |-> "deleted", due |-> 0, priority |-> 0, rest |-> 0, quiet |-> FALSE]
NoDue == 99
Today == now \div DayLength
Live(t) == task[t] # Deleted

-------------------------------------------------------------------------------
(* Scoring and selection: tasks are those a caller loaded, on that day         *)

DueInDays(t, day) == IF t.due = NoDue THEN NoDue ELSE t.due - day
DueSoon(t, day) == DueInDays(t, day) <= UrgentDueDays
Pending(t) == t.status = "in_progress" /\ ~t.quiet
Forced(t, day) == DueSoon(t, day) \/ Pending(t)
Rank(t, day) == IF DueSoon(t, day) THEN 2 ELSE IF Pending(t) THEN 1 ELSE 0

Score(t, day) ==
    (IF DueSoon(t, day) THEN (UrgentDueDays + 1 - DueInDays(t, day)) * Weight.due ELSE 0)
    + t.priority * Weight.priority + t.rest

\* Mutant: the due date decides before the score.
Before_DueFirst(ts, day, a, b) ==
    LET Key(t) == <<-Rank(ts[t], day), DueInDays(ts[t], day), -Score(ts[t], day), t>> IN
    \E i \in 1 .. 4 : Key(a)[i] < Key(b)[i] /\ \A j \in 1 .. i - 1 : Key(a)[j] = Key(b)[j]

(* Forced first, then by score, due date, priority and id. *)
Before(ts, day, a, b) ==
    LET Key(t) == <<-Rank(ts[t], day), -Score(ts[t], day), DueInDays(ts[t], day), -ts[t].priority, t>> IN
    \E i \in 1 .. 5 : Key(a)[i] < Key(b)[i] /\ \A j \in 1 .. i - 1 : Key(a)[j] = Key(b)[j]

OpenTasks(ts) == {t \in DOMAIN ts : ts[t].status \notin {"done", "deleted"}}
(* A set in an order that is total: then splitting what is sorted and sorting  *)
(* what was split are the same.                                                *)
Sorted(S, Less(_, _)) ==
    CHOOSE s \in [1 .. Cardinality(S) -> S] : \A i, j \in DOMAIN s : i < j => Less(s[i], s[j])
Scored(S, ts, day) == Sorted(S, LAMBDA a, b : Before(ts, day, a, b))

(* All forced tasks, filled up with the best others. *)
Selected(ts, day) ==
    LET forced == Scored({t \in OpenTasks(ts) : Forced(ts[t], day)}, ts, day)
        optional == Scored({t \in OpenTasks(ts) : ~Forced(ts[t], day)}, ts, day)
        target == IF config.count < 1 THEN 1 ELSE config.count
        room == IF Len(forced) > target THEN 0 ELSE target - Len(forced) IN
    forced \o SubSeq(optional, 1, IF room < Len(optional) THEN room ELSE Len(optional))

-------------------------------------------------------------------------------
(* Generations                                                                 *)

Legacy == 0        \* a row of before generation ids: generation_id = ''
Later(g, h) == g.at > h.at \/ (g.at = h.at /\ g.seq > h.seq)

\* Mutant: the number of the generation is left out of its id.
NewId_Time(n) == [at |-> now, seq |-> 1]
NewId(n) == [at |-> now, seq |-> n]

Rows(over) == {r \in daily : r.over = over}
(* findLatestDailyGeneration *)
LatestGens(over) == {r.gen : r \in {x \in Rows(over) : \A y \in Rows(over) : ~Later(y.gen, x.gen)}}
InOrder(rows) == [i \in 1 .. Cardinality(rows) |->
    Sorted(rows, LAMBDA x, y : x.pos < y.pos \/ (x.pos = y.pos /\ x.task < y.task))[i].task]
(* loadDailyTasks' second query; notes that were deleted took their rows along. *)
RowsOf(over, gen) == InOrder({r \in Rows(over) : r.gen = gen})

NoGen == [at |-> 0, seq |-> -1]
Idle == [at |-> "idle", way |-> "view", over |-> 0, left |-> {}, tasks |-> <<>>, day |-> 0,
         gen |-> NoGen, shown |-> NoGen, list |-> <<>>, history |-> {}]

Init ==
    /\ config \in Configs
    /\ now = config.time[1] /\ seq = 0 /\ recounted = {}
    /\ task = config.tasks
    /\ LET gen == [at |-> 0, seq |-> Legacy]
           old == config.legacy IN
       /\ daily = {[over |-> o, gen |-> gen, task |-> old[i], pos |-> 0] : o \in Overviews, i \in 1 .. Len(old)}
       /\ stores = IF old = <<>> THEN {}
                   ELSE {[over |-> o, gen |-> gen, tasks |-> task, day |-> 0, picked |-> old] : o \in Overviews}
    /\ maker = [m \in Makers |-> Idle]
    /\ used = [makes |-> 0, changes |-> 0, restarts |-> 0]

Use(k) == used[k] < config[k] /\ used' = [used EXCEPT ![k] = @ + 1]
Go(m, r) == maker' = [maker EXCEPT ![m] = r]

-------------------------------------------------------------------------------
(* The makers                                                                  *)

(* BuildView, the action daily_tasks and the nightly job load all tasks first; *)
(* the job once for all overviews.                                             *)
LoadTasks(m) ==
    /\ maker[m].at = "idle" /\ Use("makes")
    /\ \/ \E o \in config.overs, way \in config.ways \ {"job"} :
              Go(m, [Idle EXCEPT !.at = IF way = "view" THEN "find" ELSE "stamp", !.way = way, !.over = o,
                                 !.tasks = task, !.day = Today])
       \/ /\ "job" \in config.ways /\ \A n \in Makers : maker[n].at = "idle" \/ maker[n].way # "job"
          /\ Go(m, [Idle EXCEPT !.at = "next", !.way = "job", !.left = config.overs, !.tasks = task, !.day = Today])
    /\ UNCHANGED <<now, task, daily, seq, stores, recounted, config>>

NextOverview(m) ==
    /\ maker[m].at = "next"
    /\ IF maker[m].left = {} THEN Go(m, Idle)
       ELSE LET o == CHOOSE x \in maker[m].left : \A y \in maker[m].left : x <= y IN
            Go(m, [maker[m] EXCEPT !.at = "stamp", !.over = o, !.left = @ \ {o}])
    /\ UNCHANGED <<now, task, daily, seq, stores, recounted, config, used>>

(* A view looks for the latest generation ...  *)
FindLatest(m) ==
    /\ maker[m].at = "find"
    /\ IF Rows(maker[m].over) = {} THEN Go(m, [maker[m] EXCEPT !.at = "stamp"])
       ELSE \E g \in LatestGens(maker[m].over) : Go(m, [maker[m] EXCEPT !.at = "read", !.shown = g])
    /\ UNCHANGED <<now, task, daily, seq, stores, recounted, config, used>>

(* ... and reads it; if nothing is left of it, the view makes a new one. *)
ReadDaily(m) ==
    LET list == RowsOf(maker[m].over, maker[m].shown) IN
    /\ maker[m].at = "read"
    /\ Go(m, [maker[m] EXCEPT !.at = IF list = <<>> THEN "stamp" ELSE "history", !.list = list])
    /\ UNCHANGED <<now, task, daily, seq, stores, recounted, config, used>>

(* storeDailyTasks takes the time and a number ...  *)
StampGeneration(m) ==
    /\ maker[m].at = "stamp"
    /\ seq' = seq + 1
    /\ Go(m, [maker[m] EXCEPT !.at = "store", !.gen = NewId(seq + 1)])
    /\ UNCHANGED <<now, task, daily, stores, recounted, config, used>>

\* Mutant: without the transaction the rows before a deleted task stay.
StoredRows_Partial(picked) ==
    {i \in DOMAIN picked : \A j \in 1 .. i : Live(picked[j])}
StoredRows(picked) == IF \A i \in DOMAIN picked : Live(picked[i]) THEN DOMAIN picked ELSE {}

(* ... and inserts the rows in a transaction, which a task deleted meanwhile   *)
(* makes fail. That ends the job; views and the button go on without.          *)
StoreGeneration(m) ==
    LET s == maker[m]
        picked == Selected(s.tasks, s.day)
        rows == StoredRows(picked)
        failed == \E i \in DOMAIN picked : ~Live(picked[i]) IN
    /\ s.at = "store"
    /\ daily' = daily \cup {[over |-> s.over, gen |-> s.gen, task |-> picked[i], pos |-> i] : i \in rows}
    /\ stores' = IF failed \/ picked = <<>> THEN stores
                 ELSE stores \cup {[over |-> s.over, gen |-> s.gen, tasks |-> s.tasks, day |-> s.day, picked |-> picked]}
    /\ Go(m, CASE s.way = "view" -> [s EXCEPT !.at = "history", !.list = picked, !.shown = s.gen]
               [] s.way = "button" -> Idle
               [] s.way = "job" -> IF failed THEN Idle ELSE [s EXCEPT !.at = "next"])
    /\ UNCHANGED <<now, task, seq, recounted, config, used>>

(* loadDailyHistory: the latest again, then all but that one. *)
FindCurrent(m) ==
    /\ maker[m].at = "history"
    /\ IF Rows(maker[m].over) = {} THEN Go(m, [maker[m] EXCEPT !.at = "answer"])
       ELSE \E g \in LatestGens(maker[m].over) : Go(m, [maker[m] EXCEPT !.at = "list", !.gen = g])
    /\ UNCHANGED <<now, task, daily, seq, stores, recounted, config, used>>

ReadHistory(m) ==
    /\ maker[m].at = "list"
    /\ Go(m, [maker[m] EXCEPT !.at = "answer", !.history = {r.gen : r \in Rows(maker[m].over)} \ {maker[m].gen}])
    /\ UNCHANGED <<now, task, daily, seq, stores, recounted, config, used>>

Answer(m) ==
    /\ maker[m].at = "answer" /\ Go(m, Idle)
    /\ UNCHANGED <<now, task, daily, seq, stores, recounted, config, used>>

-------------------------------------------------------------------------------
(* What else happens                                                           *)

(* quick_set_status and the editor. *)
ChangeStatus(t) ==
    /\ Live(t) /\ Use("changes")
    /\ \E s \in {"todo", "in_progress", "done"} \ {task[t].status} : task' = [task EXCEPT ![t].status = s]
    /\ UNCHANGED <<now, daily, seq, maker, stores, recounted, config>>

(* The rows of a deleted note go with it. *)
DeleteTask(t) ==
    /\ Live(t) /\ Use("changes")
    /\ task' = [task EXCEPT ![t] = Deleted]
    /\ daily' = {r \in daily : r.task # t}
    /\ UNCHANGED <<now, seq, maker, stores, recounted, config>>

Tick ==
    /\ now < config.time[2] /\ now' = now + 1
    /\ UNCHANGED <<task, daily, seq, maker, stores, recounted, config, used>>

(* The new process counts from one again. It may be up within the second, and  *)
(* the clock may have been set back meanwhile; nothing keeps the ids of such a *)
(* second from being given again (equal rows are stored twice: one row here).  *)
Restart ==
    /\ Use("restarts")
    /\ \E t \in config.time[1] .. config.time[2] : now' = t /\ recounted' = recounted \cup (t .. now)
    /\ seq' = 0
    /\ maker' = [m \in Makers |-> Idle]
    /\ UNCHANGED <<task, daily, stores, config>>

Next ==
    \/ \E m \in Makers :
          \/ LoadTasks(m) \/ NextOverview(m) \/ FindLatest(m) \/ ReadDaily(m)
          \/ StampGeneration(m) \/ StoreGeneration(m) \/ FindCurrent(m) \/ ReadHistory(m) \/ Answer(m)
    \/ \E t \in Tasks : ChangeStatus(t) \/ DeleteTask(t)
    \/ Tick \/ Restart

Spec == Init /\ [][Next]_vars

-------------------------------------------------------------------------------
(* Properties                                                                  *)

TypeOK ==
    /\ daily \subseteq [over : Overviews, gen : [at : 0 .. config.time[2], seq : 0 .. 99], task : Tasks, pos : 0 .. 99]
    /\ \A m \in Makers : maker[m].at \in {"idle", "next", "find", "read", "stamp", "store", "history", "list", "answer"}

(* What the table holds of a generation, and so what a view shows, is what one *)
(* maker picked, whole and in order but for the tasks deleted since: makers    *)
(* that run side by side or in the same second never mix their lists, nor does *)
(* a restart, but in a second that both processes saw (daily.go: id and        *)
(* transaction).                                                               *)
RowsFor(s) ==
    {[over |-> s.over, gen |-> s.gen, task |-> s.picked[i],
      pos |-> IF s.gen.seq = Legacy THEN 0 ELSE i] : i \in DOMAIN s.picked}
GenerationIsWhole ==
    \A r \in {x \in daily : x.gen.seq = Legacy \/ x.gen.at \notin recounted} : \E s \in stores :
        {x \in Rows(r.over) : x.gen = r.gen} = {x \in RowsFor(s) : Live(x.task)}

(* A stored list is the right one for the tasks its maker saw: all urgent and  *)
(* pending tasks, as many as asked for while there are any, no done one, none  *)
(* twice, and no task left out scores above an unforced one that was taken     *)
(* (scoring.go).                                                               *)
PickIsBest ==
    \A s \in {x \in stores : x.gen.seq # Legacy} :
        LET open == {t \in Tasks : s.tasks[t].status \in {"todo", "in_progress"}}
            must == {t \in open : \/ s.tasks[t].due # NoDue /\ s.tasks[t].due <= s.day + UrgentDueDays
                                  \/ s.tasks[t].status = "in_progress" /\ ~s.tasks[t].quiet}
            Worth(t) == s.tasks[t].priority * Weight.priority + s.tasks[t].rest
            taken == {s.picked[i] : i \in DOMAIN s.picked}
            wanted == IF config.count < Cardinality(open) THEN config.count ELSE Cardinality(open) IN
        /\ must \subseteq taken /\ taken \subseteq open
        /\ \A i, j \in DOMAIN s.picked : s.picked[i] = s.picked[j] => i = j
        /\ Cardinality(taken) = IF Cardinality(must) > wanted THEN Cardinality(must) ELSE wanted
        /\ \A t \in taken \ must, u \in open \ taken : Worth(u) <= Worth(t)

(* By hand, and each fails: lists are never mixed, also in a second that two   *)
(* processes saw (daily.go:158, "Each call creates a new generation"); an      *)
(* answer's history never holds the list it shows or a newer one; a list just  *)
(* stored has no task that is done by then; what is shown is never replaced by *)
(* an older list (deleting the tasks of the latest list brings the one before  *)
(* back).                                                                      *)
NeverMixed ==
    \A r \in daily : \E s \in stores : {x \in Rows(r.over) : x.gen = r.gen} \subseteq RowsFor(s)
HistoryIsPast ==
    \A m \in Makers : maker[m].at = "answer" => \A g \in maker[m].history : Later(maker[m].shown, g)
NoDoneStored ==
    [][\A r \in daily' \ daily : task[r.task].status # "done"]_vars
NeverBack ==
    [][\A o \in Overviews : \A g \in LatestGens(o), h \in LatestGens(o)' : ~Later(g, h)]_vars
================================================================================
