------------------------------- MODULE TaskNotes -------------------------------
(* Task notes (pkg/notetype/task, taskoverview/actions.go) and the job that    *)
(* plans subtasks with the language model (server/subtasks.go). Tabs edit a    *)
(* copy, tick boxes and set the status; one action is one statement or one     *)
(* transaction of SQLite.                                                      *)
EXTENDS Integers, Sequences, FiniteSets

CONSTANTS
    Tasks, Tabs,
    Typed,         \* subtask labels users type, normalized
    Planned,       \* labels the model may suggest, normalized
    MaxPlanned,    \* 20: rows one run adds at most
    Untitled,      \* the label of a row that was left blank
    Configs        \* [tabs, editors, statuses, planned, saves, others, jobs, crashes]:
                   \* which tabs edit, what may be chosen and happen how often

VARIABLES
    row,      \* ct_task_config: task -> [status, completed] or NoRow
    subs,     \* ct_task_subtasks: task -> sequence of [id, label, checked], by id
    lastId,   \* sqlite_sequence of the subtasks: ids are never used twice
    tab,      \* tab -> what it shows or does
    run,      \* task -> its run of generate_subtasks
    toggled,  \* labels of the last tick: [seen, hit]
    config, used

vars == <<row, subs, lastId, tab, run, toggled, config, used>>

Statuses == {"todo", "in_progress", "done"}
NoRow == [status |-> "none", completed |-> FALSE]
Gone == [status |-> "deleted", completed |-> FALSE]
Default == [status |-> "todo", completed |-> FALSE]
Labels(t) == {subs[t][i].label : i \in 1 .. Len(subs[t])}
Exists(t) == row[t] # Gone

Closed == [at |-> "closed", task |-> 0, config |-> NoRow, subs |-> <<>>, to |-> "todo", way |-> "note"]
NoRun == [at |-> "none", seen |-> {}, items |-> <<>>, added |-> 0]

Init ==
    /\ row \in [Tasks -> {NoRow, Default}]
    /\ subs = [t \in Tasks |-> <<>>] /\ lastId = 0
    /\ tab = [b \in Tabs |-> Closed]
    /\ run = [t \in Tasks |-> NoRun]
    /\ toggled = [seen |-> Untitled, hit |-> Untitled]
    /\ config \in Configs
    /\ used = [k \in {"saves", "others", "jobs", "crashes"} |-> 0]

Use(k) == used[k] < config[k] /\ used' = [used EXCEPT ![k] = @ + 1]
GoTab(b, r) == tab' = [tab EXCEPT ![b] = r]
GoRun(t, r) == run' = [run EXCEPT ![t] = r]

-------------------------------------------------------------------------------
(* The plugin                                                                  *)

(* LoadConfig: the row first; a task without one is shown empty at once. *)
LoadRow(b, t) ==
    /\ b \in config.tabs /\ tab[b].at = "closed" /\ Exists(t)
    /\ GoTab(b, IF row[t] = NoRow
                THEN [Closed EXCEPT !.at = "open", !.task = t, !.config = Default]
                ELSE [Closed EXCEPT !.at = "loading", !.task = t, !.config = row[t]])
    /\ UNCHANGED <<row, subs, lastId, run, toggled, config, used>>

LoadSubs(b) ==
    /\ tab[b].at = "loading"
    /\ GoTab(b, [tab[b] EXCEPT !.at = "open", !.subs = subs[tab[b].task]])
    /\ UNCHANGED <<row, subs, lastId, run, toggled, config, used>>

Close(b) ==
    /\ tab[b].at = "open" /\ GoTab(b, Closed)
    /\ UNCHANGED <<row, subs, lastId, run, toggled, config, used>>

(* What an edit of the copy may turn it into: one row typed, never one that is *)
(* there, or removed.                                                          *)
Without(s, i) == SubSeq(s, 1, i - 1) \o SubSeq(s, i + 1, Len(s))
Edited(items) ==
    {items}
    \cup {Append(items, [id |-> 0, label |-> l, checked |-> FALSE]) :
            l \in (Typed \cup {Untitled}) \ {items[i].label : i \in 1 .. Len(items)}}
    \cup {Without(items, i) : i \in 1 .. Len(items)}

Numbered(from, items) == [i \in 1 .. Len(items) |-> [items[i] EXCEPT !.id = from + i]]

\* Mutant: without AUTOINCREMENT the ids of the deleted rows are given again.
NextIds_Reused(t, items) == Numbered(0, items)
NextIds(t, items) == Numbered(lastId, items)

\* Blank labels are skipped; only the row just typed can be one.
Written(items) ==
    IF items # <<>> /\ items[Len(items)].label = Untitled THEN SubSeq(items, 1, Len(items) - 1) ELSE items

(* SaveConfig, in the transaction of the note: all rows are written anew. *)
Save(b) ==
    LET t == tab[b].task IN
    /\ b \in config.editors /\ tab[b].at = "open" /\ Use("saves")
    /\ IF Exists(t)
       THEN \E status \in config.statuses, items \in Edited(tab[b].subs) :
                LET kept == Written(items) IN
                /\ row' = [row EXCEPT ![t] =
                             [status |-> status,
                              completed |-> tab[b].config.completed \/ status = "done"]]
                /\ subs' = [subs EXCEPT ![t] = NextIds(t, kept)]
                /\ lastId' = lastId + Len(kept)
       ELSE UNCHANGED <<row, subs, lastId>>
    /\ GoTab(b, Closed)
    /\ UNCHANGED <<run, toggled, config>>

(* toggle_subtask: by the id the tab was shown; an id that is gone is an error. *)
Toggle(b) ==
    LET t == tab[b].task IN
    /\ tab[b].at = "open" /\ Use("others")
    /\ \E i \in 1 .. Len(tab[b].subs) :
           LET seen == tab[b].subs[i]
               hits == {j \in 1 .. Len(subs[t]) : subs[t][j].id = seen.id} IN
           /\ subs' = [subs EXCEPT ![t] =
                         [j \in 1 .. Len(subs[t]) |->
                            IF j \in hits THEN [subs[t][j] EXCEPT !.checked = ~seen.checked] ELSE subs[t][j]]]
           /\ toggled' = IF hits = {} THEN toggled
                         ELSE [seen |-> seen.label, hit |-> subs[t][CHOOSE j \in hits : TRUE].label]
           /\ GoTab(b, IF hits = {} THEN tab[b] ELSE [tab[b] EXCEPT !.subs[i].checked = ~@])
    /\ UNCHANGED <<row, lastId, run, config>>

(* set_status and quick_set_status read the row in one statement ...  *)
ReadStatus(b, t) ==
    /\ b \in config.tabs /\ tab[b].at = "closed" /\ Exists(t) /\ Use("others")
    /\ \E way \in {"note", "overview"}, to \in config.statuses :
           GoTab(b, [Closed EXCEPT !.at = "setting", !.task = t, !.config = row[t], !.to = to, !.way = way])
    /\ UNCHANGED <<row, subs, lastId, run, toggled, config>>

\* Mutant: the overview keeps the time of completion as it read it.
Stamp_Kept(c, to, way) == c.completed \/ (way = "note" /\ to = "done")

(* Done sets the time; only the overview takes it back. *)
Stamp(c, to, way) == IF way = "note" THEN c.completed \/ to = "done" ELSE to = "done"

(* ... and write it whole in another. The overview inserts when there was no  *)
(* row, which fails if there is one by now.                                    *)
WriteStatus(b) ==
    LET s == tab[b]
        t == s.task IN
    /\ s.at = "setting"
    /\ IF Exists(t) /\ (s.way = "overview" /\ s.config = NoRow => row[t] = NoRow)
       THEN row' = [row EXCEPT ![t] = [status |-> s.to, completed |-> Stamp(s.config, s.to, s.way)]]
       ELSE row' = row
    /\ GoTab(b, Closed)
    /\ UNCHANGED <<subs, lastId, run, toggled, config, used>>

(* Deleting the note deletes its rows. *)
Delete(t) ==
    /\ Exists(t) /\ Use("others")
    /\ row' = [row EXCEPT ![t] = Gone] /\ subs' = [subs EXCEPT ![t] = <<>>]
    /\ UNCHANGED <<lastId, tab, run, toggled, config>>

-------------------------------------------------------------------------------
(* The job generate_subtasks; the job system runs one at a time for a note     *)

Enqueue(t) ==
    /\ Exists(t) /\ run[t].at = "none" /\ Use("jobs")
    /\ GoRun(t, [NoRun EXCEPT !.at = "planned"])
    /\ UNCHANGED <<row, subs, lastId, tab, toggled, config>>

\* Mutant: the labels of an interrupted run are not seen again.
ReadLabels_None(t) == {}
ReadLabels(t) == Labels(t)

(* Note, description and labels; a missing note ends the run. *)
JobRead(t) ==
    /\ run[t].at = "planned"
    /\ GoRun(t, IF Exists(t) THEN [NoRun EXCEPT !.at = "asking", !.seen = ReadLabels(t)] ELSE NoRun)
    /\ UNCHANGED <<row, subs, lastId, tab, toggled, config, used>>

(* Any list of the model, or an error. *)
JobAnswer(t) ==
    /\ run[t].at = "asking"
    /\ \/ \E items \in [1 .. 2 -> config.planned \cup {Untitled}] \cup {<<>>} :
              GoRun(t, [run[t] EXCEPT !.at = "adding", !.items = items])
       \/ GoRun(t, NoRun)
    /\ UNCHANGED <<row, subs, lastId, tab, toggled, config, used>>

(* Each row is inserted by itself; without the note the insert fails. *)
JobAdd(t) ==
    LET r == run[t]
        label == Head(r.items) IN
    /\ r.at = "adding" /\ r.items # <<>> /\ r.added < MaxPlanned
    /\ \/ /\ label = Untitled \/ label \in r.seen
          /\ GoRun(t, [r EXCEPT !.items = Tail(@)])
          /\ UNCHANGED <<subs, lastId>>
       \/ /\ label # Untitled /\ label \notin r.seen /\ Exists(t)
          /\ subs' = [subs EXCEPT ![t] = Append(@, [id |-> lastId + 1, label |-> label, checked |-> FALSE])]
          /\ lastId' = lastId + 1
          /\ GoRun(t, [r EXCEPT !.items = Tail(@), !.seen = @ \cup {label}, !.added = @ + 1])
       \/ /\ label # Untitled /\ label \notin r.seen /\ ~Exists(t)
          /\ GoRun(t, NoRun)
          /\ UNCHANGED <<subs, lastId>>
    /\ UNCHANGED <<row, tab, toggled, config, used>>

JobEnd(t) ==
    /\ run[t].at = "adding" /\ (run[t].items = <<>> \/ run[t].added = MaxPlanned)
    /\ GoRun(t, NoRun)
    /\ UNCHANGED <<row, subs, lastId, tab, toggled, config, used>>

(* A restart plans interrupted runs anew; requests are lost, tabs stay open. *)
Restart ==
    /\ Use("crashes")
    /\ run' = [t \in Tasks |-> IF run[t].at = "none" THEN NoRun ELSE [NoRun EXCEPT !.at = "planned"]]
    /\ tab' = [b \in Tabs |-> IF tab[b].at = "open" THEN tab[b] ELSE Closed]
    /\ UNCHANGED <<row, subs, lastId, toggled, config>>

Next ==
    \/ \E b \in Tabs, t \in Tasks : LoadRow(b, t) \/ ReadStatus(b, t)
    \/ \E b \in Tabs : LoadSubs(b) \/ Close(b) \/ Save(b) \/ Toggle(b) \/ WriteStatus(b)
    \/ \E t \in Tasks : Delete(t) \/ Enqueue(t) \/ JobRead(t) \/ JobAnswer(t) \/ JobAdd(t) \/ JobEnd(t)
    \/ Restart

Spec == Init /\ [][Next]_vars

-------------------------------------------------------------------------------
TypeOK ==
    /\ \A t \in Tasks : row[t] \in [status : Statuses \cup {"none", "deleted"}, completed : BOOLEAN]
    /\ \A t \in Tasks, i \in 1 .. lastId : i <= Len(subs[t]) => subs[t][i].id \in 1 .. lastId
    /\ \A b \in Tabs : tab[b].at \in {"closed", "loading", "open", "setting"}

(* A plan never holds a subtask twice, although the job inserts row by row, is *)
(* interrupted and runs again, and the user ticks, edits and saves meanwhile   *)
(* (subtasks.go dedupes against the labels of its start) - as long as one tab  *)
(* edits and the user does not type what the model suggests.                   *)
OneEditor ==
    /\ Typed \cap config.planned = {}
    /\ \A b, c \in config.editors : b = c
Distinct(items) == \A i, j \in 1 .. Len(items) : items[i].label = items[j].label => i = j
LabelsUnique == OneEditor => \A t \in Tasks : Distinct(subs[t])

(* A box that is ticked belongs to the text the user saw next to it, although  *)
(* every save writes all rows anew (task.go: ids are AUTOINCREMENT, and a tick *)
(* of a row that is gone is refused).                                          *)
TickHitsTheSeen == toggled.seen = toggled.hit

(* A finished task has a time of completion on every way that finishes it. By  *)
(* hand: the converse, which fails where a task is opened again by set_status. *)
DoneHasTime == \A t \in Tasks : row[t].status = "done" => row[t].completed
TimeMeansDone == \A t \in Tasks : row[t].completed => row[t].status = "done"

(* By hand: a save keeps what the job has added since the tab was opened.      *)
PlanSurvives ==
    [][\A t \in Tasks : Exists(t) /\ row'[t] # Gone =>
        \A l \in Planned : l \in Labels(t) =>
            \/ l \in Labels(t)'
            \/ \E b \in Tabs : tab'[b] # tab[b] /\ l \in {tab[b].subs[i].label : i \in 1 .. Len(tab[b].subs)}]_vars
================================================================================
