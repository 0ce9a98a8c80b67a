------------------------------- MODULE MCServices -------------------------------
(* The scenarios of each part of Services and Tables.  Parts picks one of them *)
(* for a check by hand.                                                        *)
EXTENDS Tables, SequencesExt

-------------------------------------------------------------------------------
(* Backups: a long time without files, for the retention; overlapping jobs;    *)
(* files that get lost and come back by a restore.                             *)

Keeping(e, w, t, f, l, r, s) ==
    [endpoints |-> e, workers |-> w, time |-> t,
     files |-> f, losses |-> l, errors |-> r, restores |-> s]
MCEndpoints == <<"e1", "e2">>
MCRestoreTo == <<"e2", "e1">>
MCKeepings ==
    {Keeping(1, 1, 9, 0, 0, 0, 0), Keeping(1, 1, 6, 0, 0, 1, 0), Keeping(1, 2, 6, 0, 0, 0, 0),
     Keeping(2, 1, 1, 1, 1, 1, 1), Keeping(2, 1, 0, 2, 1, 0, 1)}

-------------------------------------------------------------------------------
(* Sessions: failing passwords against the clock; passkeys with retried        *)
(* answers; sessions that expire.                                              *)

MCSignIns ==
    {[ways |-> {"password"}, time |-> 4, requests |-> 4, restarts |-> 1],
     [ways |-> {"password", "passkey"}, time |-> 2, requests |-> 4, restarts |-> 0],
     [ways |-> {"password", "passkey"}, time |-> 4, requests |-> 2, restarts |-> 0]}

-------------------------------------------------------------------------------
(* Task notes: a job that runs twice beside a tab that edits; a tab that ticks *)
(* boxes beside one that saves; tabs that set the status.                      *)

Edits(tabs, s, p, saves, others, jobs, crashes) ==
    [tabs |-> tabs, editors |-> {"b1"}, statuses |-> s, planned |-> p,
     saves |-> saves, others |-> others, jobs |-> jobs, crashes |-> crashes]
MCTaskEdits ==
    {Edits({"b1"}, {"todo"}, {"p", "q"}, 2, 0, 2, 1), Edits({"b1", "b2"}, {"todo"}, {"p"}, 2, 1, 1, 0),
     Edits({"b1", "b2"}, {"todo", "done"}, {"p"}, 1, 2, 0, 0)}

-------------------------------------------------------------------------------
(* Recipes: two tabs saving the same recipe; an import and the job beside a    *)
(* tab; a job that is cut off and executed again.                              *)

Kitchen(tabs, names, saves, imports, jobs, errors, crashes) ==
    [tabs |-> tabs, names |-> names, picks |-> {"fish"}, saves |-> saves, imports |-> imports,
     jobs |-> jobs, errors |-> errors, crashes |-> crashes]
MCGuess == <<"fruit", "meat">>
MCKitchens ==
    {Kitchen({"b1", "b2"}, {2}, 2, 0, 0, 1, 0), Kitchen({"b1"}, {1, 2}, 1, 1, 0, 1, 1),
     Kitchen({"b1"}, {2}, 1, 1, 1, 0, 0), Kitchen({"b1"}, {2}, 1, 0, 2, 0, 1)}

-------------------------------------------------------------------------------
(* Notes and their index: saves with deletions, crashes and repairs; titles;   *)
(* tags.                                                                       *)

MCIndexings ==
    {[clients |-> {}, named |-> {TRUE}, tags |-> {{}}, saves |-> 3, events |-> 1],
     [clients |-> {"title"}, named |-> BOOLEAN, tags |-> {{}}, saves |-> 2, events |-> 0],
     [clients |-> {"tags"}, named |-> {TRUE}, tags |-> {{}, NoteTags}, saves |-> 1, events |-> 2]}

-------------------------------------------------------------------------------
(* Migrations: a new database, one of the first release, and two of later      *)
(* ones: with tag names that are not normal, doubled jobs and an incompatible  *)
(* vector table, with and without the full-text index.                         *)

MCTagNormal == [x \in TagForms |-> IF x = "#" THEN "" ELSE "foo"]
MCStartBounds == [crashes |-> 1, errors |-> 1, edits |-> 2]

\* For the names in the script alone, which no database matters to.
AnyDatabase == INSTANCE Migrations WITH
    title <- heading, saved <- wrote, used <- faults, Notes <- NoteIds, Names <- TagForms,
    NormalName <- TagNormal, Texts <- NoteTexts, Databases <- {}, Bounds <- StartBounds

Nil == [x \in {} |-> ""]
New ==
    [schema |-> {}, title |-> Nil, body |-> Nil, updates |-> <<>>, tags |-> Nil,
     refs |-> [table \in AnyDatabase!RefTables |-> {}], fts |-> Nil, runs |-> {}, vec |-> "absent",
     chunked |-> {}, saved |-> Nil]
FirstRelease ==
    [New EXCEPT !.schema = {"notes", "body", "updated_at"},
                !.title = [n \in {1, 2} |-> "a"],
                !.body = [n \in {1, 2} |-> IF n = 1 THEN "a" ELSE ""],
                !.saved = [n \in {1, 2} |-> IF n = 1 THEN "a" ELSE ""]]
Later ==
    [New EXCEPT !.schema = AnyDatabase!Items \ ({"active_unique", "retry_count", "status", "notes_fts"}
                                                     \cup ToSet(AnyDatabase!Triggers)),
                !.title = [n \in {1, 2} |-> "a"],
                !.updates = <<[note |-> 1, body |-> "a"], [note |-> 2, body |-> "a"]>>,
                !.saved = [n \in {1, 2} |-> "a"],
                !.tags = <<"Foo", "foo", "#">>,
                !.refs = [tags_refs |-> {<<1, 2>>, <<1, 3>>, <<2, 1>>}, auto_tags_refs |-> {<<2, 2>>}],
                !.runs = {[id |-> 1, payload |-> "p", active |-> FALSE],
                          [id |-> 2, payload |-> "p", active |-> TRUE],
                          [id |-> 3, payload |-> "p", active |-> TRUE],
                          [id |-> 4, payload |-> "none", active |-> TRUE],
                          [id |-> 5, payload |-> "none", active |-> TRUE]},
                !.vec = "old", !.chunked = {1}]
Indexed ==
    [Later EXCEPT !.schema = AnyDatabase!Items \ {"active_unique"},
                  !.fts = <<[title |-> "a", tags |-> {"foo", "#"}],
                            [title |-> "a", tags |-> {"Foo", "foo"}]>>]
MCDatabases == {New, FirstRelease, Later, Indexed}

-------------------------------------------------------------------------------
(* Daily tasks: makers in the same second with a restart; tasks that change    *)
(* and go under the makers; every choice of attributes for one maker.          *)

Never == 99
Task(s, d, p, r, q) == [status |-> s, due |-> d, priority |-> p, rest |-> r, quiet |-> q]
Day(count, tasks, overs, ways, time, makes, changes, restarts, legacy) ==
    [count |-> count, tasks |-> tasks, overs |-> overs, ways |-> ways, time |-> time,
     makes |-> makes, changes |-> changes, restarts |-> restarts, legacy |-> legacy]
Some == <<Task("todo", Never, 1, 0, FALSE), Task("todo", 4, 0, 3, FALSE), Task("in_progress", Never, 0, 0, FALSE)>>
TaskKinds ==
    {Task("todo", 9, 0, 1, FALSE), Task("todo", Never, 1, -2, FALSE),
     Task("in_progress", Never, 0, 3, TRUE), Task("in_progress", 8, 1, 0, FALSE), Task("done", 1, 2, 0, FALSE)}
MCDays ==
    {Day(2, Some, {51}, {"view", "button", "job"}, <<1, 2>>, 2, 1, 1, <<1, 2>>),
     Day(1, Some, {51, 52}, {"button", "job"}, <<1, 1>>, 2, 1, 0, <<>>),
     Day(1, Some, {51}, {"view"}, <<1, 1>>, 2, 2, 0, <<>>)}
    \cup {Day(c, ts, {51}, {"button"}, <<t, t>>, 1, 0, 0, <<>>) :
            c \in {1, 2}, t \in {0, 8, 12}, ts \in [1 .. 3 -> TaskKinds]}
MCWeight == [due |-> 6, priority |-> 4]

-------------------------------------------------------------------------------
(* Grocery lists: every pair of recipes out of kinds of ingredients; planners  *)
(* beside edits.                                                               *)

Number(n) == <<[low |-> 300 * n, rest |-> ""]>>
Between(n, high) == <<[low |-> 300 * n, rest |-> high]>>
Word(w) == <<[low |-> -1, rest |-> w]>>
Flour(a, u, k, ku, v, c) ==
    [name |-> "flour", amount |-> a, unit |-> u, kitchen |-> k, kitchenUnit |-> ku, validated |-> v, category |-> c]
Kinds ==
    {Flour(Number(501000), "g", <<>>, "", FALSE, "other"), Flour(Number(6), "mg", <<>>, "", FALSE, "other"),
     Flour(Number(20000), "g", Number(2), "cup", TRUE, "other"), Flour(Number(20000), "g", Number(2), "cup", FALSE, "other"),
     Flour(Word("some"), "g", <<>>, "", FALSE, "other"), Flour(<<>>, "", Word("some"), "cup", FALSE, "other"),
     Flour(Number(4000), "g", <<>>, "", FALSE, "frozen"), Flour(<<>>, "", <<>>, "", FALSE, "other")}
Few ==
    {Flour(Number(20000), "g", Number(2), "cup", FALSE, "other"), Flour(Number(6), "mg", <<>>, "", FALSE, "other"),
     Flour(Between(2000, "-2"), "g", <<>>, "", FALSE, "other")}
Shopping(servings, rs, people, makes, edits, saves) ==
    [meta |-> [r \in 1 .. 2 |-> [servings |-> servings, preCook |-> 4]], rows |-> rs, people |-> people,
     lists |-> makes, edits |-> edits, updates |-> saves]
Bread == <<Flour(Number(400000), "g", <<>>, "", FALSE, "other"), Flour(Word("some"), "g", <<>>, "", FALSE, "other")>>
MCShoppings ==
    {Shopping(2, <<<<x, y>>, <<z>>>>, {1, 2}, 1, 0, 0) : x \in Kinds, y \in Kinds, z \in Few}
    \cup {Shopping(s, <<<<x, x>>, <<x>>>>, {1}, 1, 0, 0) : x \in Few, s \in {3, 600}}
    \cup {Shopping(0, <<Bread, Bread>>, {2}, 2, 1, 0), Shopping(2, <<Bread, <<>>>>, {2}, 1, 1, 2)}
===============================================================================
