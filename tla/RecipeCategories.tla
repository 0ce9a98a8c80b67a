---------------------------- MODULE RecipeCategories ----------------------------
(* Recipes and the grocery categories of their ingredients: editing, import,   *)
(* and the runs that ask the embedding model for categories, one goroutine per *)
(* save or import and one job for all recipes (pkg/notetype/recipe,            *)
(* server/recipe_categories.go). One action is one transaction, one statement  *)
(* or one answer of the model.                                                 *)
EXTENDS Integers, Sequences, FiniteSets

CONSTANTS
    Notes,         \* note ids of recipes, those an import may create included
    Tabs,
    Names,         \* ingredient names, normalized
    Guess,         \* the model: name -> category it comes closest to
    Other,         \* the category of what has none
    MaxRuns,       \* bound: categorizer runs
    BatchSize,     \* 200: recipes the job takes at once
    Configs        \* [names, picks, tabs, saves, imports, jobs, errors, crashes]

VARIABLES
    rows,      \* ct_recipe_ingredients: note -> sequence of [id, name, category,
               \* manual], and the category its user picked; or Absent
    lastId,
    tab,       \* tab -> the copy it edits
    run,       \* categorizer -> what it does
    missed,    \* notes whose last run failed or was cut off
    config, used

vars == <<rows, lastId, tab, run, missed, config, used>>

Row(id, name, category, manual) ==
    [id |-> id, name |-> name, category |-> category, manual |-> manual, pick |-> category]
Absent == <<Row(0, 0, Other, FALSE)>>
Exists(n) == rows[n] # Absent
Closed == [note |-> 0, rows |-> <<>>]
NoRun == [at |-> "none", notes |-> {}, left |-> {}, todo |-> {}, asked |-> {}, found |-> {}]
Runs == 1 .. MaxRuns
None == [x \in {} |-> 0]

Least(S) == CHOOSE x \in S : \A y \in S : x <= y

Init ==
    /\ config \in Configs
    /\ rows \in {[n \in Notes |-> IF n = Least(Notes) THEN s ELSE Absent] :
                    s \in {<<>>, <<Row(1, Least(Names), Other, FALSE)>>}}
    /\ lastId = 1
    /\ tab = [b \in Tabs |-> Closed]
    /\ run = [r \in Runs |-> NoRun] /\ missed = Notes
    /\ used = [k \in {"saves", "imports", "jobs", "errors", "crashes"} |-> 0]

Use(k) == used[k] < config[k] /\ used' = [used EXCEPT ![k] = @ + 1]
Go(r, v) == run' = [run EXCEPT ![r] = v]
Free == CHOOSE r \in Runs : run[r].at = "none"

\* Mutant: a note whose categories are under way is not asked for again.
Classify_Once(ns) ==
    IF \E r \in Runs : run[r].notes \cap ns # {} THEN UNCHANGED run
    ELSE Go(Free, [NoRun EXCEPT !.at = "load", !.notes = ns])

(* classifyRecipeIngredientsForNotes: a goroutine for the notes just written. *)
Classify(ns) ==
    /\ \E r \in Runs : run[r].at = "none"
    /\ Go(Free, [NoRun EXCEPT !.at = "load", !.notes = ns])

-------------------------------------------------------------------------------
(* Editing and import                                                          *)

Open(b, n) ==
    /\ b \in config.tabs /\ tab[b] = Closed /\ Exists(n)
    /\ tab' = [tab EXCEPT ![b] = [note |-> n, rows |-> rows[n]]]
    /\ UNCHANGED <<rows, lastId, run, missed, config, used>>

(* One change: a row added, removed, renamed, picked for or left to the model. *)
Without(s, i) == SubSeq(s, 1, i - 1) \o SubSeq(s, i + 1, Len(s))
Edited(s) ==
    {s} \cup {Append(s, Row(0, name, Other, FALSE)) : name \in config.names}
    \cup {Without(s, i) : i \in DOMAIN s}
    \cup (UNION {{[s EXCEPT ![i].name = name] : name \in config.names} : i \in DOMAIN s})
    \cup (UNION {{[s EXCEPT ![i] = Row(0, s[i].name, c, TRUE)] : c \in config.picks} : i \in DOMAIN s})
    \cup {[s EXCEPT ![i].manual = FALSE] : i \in DOMAIN s}

Numbered(from, s) == [i \in DOMAIN s |-> [s[i] EXCEPT !.id = from + i]]

\* Mutant: without AUTOINCREMENT the ids of the deleted rows are given again.
NewRows_Reused(n, s) == Numbered(0, s)
\* Mutant: the ids begin one after the next one.
NewRows_Ahead(n, s) == Numbered(lastId + 1, s)
NewRows(n, s) == Numbered(lastId, s)

(* SaveConfig in the transaction of the note, then a run for it. *)
Save(b) ==
    LET n == tab[b].note IN
    /\ tab[b] # Closed /\ Use("saves")
    /\ IF Exists(n)
       THEN \E s \in Edited(tab[b].rows) :
                /\ rows' = [rows EXCEPT ![n] = NewRows(n, s)]
                /\ lastId' = lastId + Len(s)
                /\ missed' = missed \ {n}
                /\ Classify({n})
       ELSE UNCHANGED <<rows, lastId, run, missed>>
    /\ tab' = [tab EXCEPT ![b] = Closed]
    /\ UNCHANGED config

(* import_recipes_json: the first recipe replaces the note, a second is new;    *)
(* one transaction, one run for both. Nothing is picked in an import.           *)
Import(n) ==
    /\ Exists(n) /\ Use("imports")
    /\ \E name \in config.names, m \in {n} \cup {k \in Notes : ~Exists(k)} :
          LET last == IF m = n THEN lastId + 1 ELSE lastId + 2
              item(id) == <<Row(id, name, Other, FALSE)>> IN
          /\ rows' = [rows EXCEPT ![n] = item(lastId + 1), ![m] = item(last)]
          /\ lastId' = last
          /\ missed' = missed \ {n, m}
          /\ Classify({n, m})
    /\ UNCHANGED <<tab, config>>

(* The recipe is deleted with its rows. *)
Delete(n) ==
    /\ Exists(n) /\ Use("errors")
    /\ rows' = [rows EXCEPT ![n] = Absent]
    /\ UNCHANGED <<lastId, tab, run, missed, config>>

-------------------------------------------------------------------------------
(* The runs                                                                    *)

(* The job takes the recipes there are, batch by batch. *)
Recalculate ==
    /\ Use("jobs")
    /\ \E r \in Runs : run[r].at = "none"
    /\ Go(Free, [NoRun EXCEPT !.at = "batch", !.left = {n \in Notes : Exists(n)}])
    /\ UNCHANGED <<rows, lastId, tab, missed, config>>

NextBatch(r) ==
    LET batch == {n \in run[r].left : Cardinality({m \in run[r].left : m <= n}) <= BatchSize} IN
    /\ run[r].at = "batch"
    /\ Go(r, IF batch = {} THEN NoRun
             ELSE [run[r] EXCEPT !.at = "load", !.notes = batch, !.left = @ \ batch])
    /\ UNCHANGED <<rows, lastId, tab, missed, config, used>>

AfterBatch(v) == IF v.left = {} THEN NoRun ELSE [NoRun EXCEPT !.at = "batch", !.left = v.left]
AllRows(ns) == UNION {{rows[n][i] : i \in DOMAIN rows[n]} : n \in {m \in ns : Exists(m)}}

\* Mutant: picked categories are not left out.
ToCategorize_All(ns) == {[id |-> x.id, name |-> x.name] : x \in AllRows(ns)}
(* loadIngredientsForCategorization *)
ToCategorize(ns) == {[id |-> x.id, name |-> x.name] : x \in {y \in AllRows(ns) : ~y.manual}}

LoadIngredients(r) ==
    LET todo == ToCategorize(run[r].notes) IN
    /\ run[r].at = "load"
    /\ Go(r, IF todo = {} THEN AfterBatch(run[r]) ELSE [run[r] EXCEPT !.at = "categories", !.todo = todo])
    /\ UNCHANGED <<rows, lastId, tab, missed, config, used>>

(* The embeddings of the categories; an error ends the run. *)
EmbedCategories(r) ==
    /\ run[r].at = "categories"
    /\ \/ /\ Go(r, [run[r] EXCEPT !.at = "names", !.asked = {x.name : x \in run[r].todo}])
          /\ UNCHANGED <<missed, used>>
       \/ /\ Use("errors") /\ missed' = missed \cup run[r].notes \cup run[r].left
          /\ Go(r, NoRun)
    /\ UNCHANGED <<rows, lastId, tab, config>>

(* Workers answer the names in any order; a failing one is left out. *)
EmbedName(r) ==
    /\ run[r].at = "names"
    /\ \E name \in run[r].asked :
          LET v == [run[r] EXCEPT !.asked = @ \ {name}] IN
          \/ /\ Go(r, [v EXCEPT !.found = @ \cup {name}])
             /\ UNCHANGED <<missed, used>>
          \/ /\ Use("errors") /\ missed' = missed \cup run[r].notes
             /\ Go(r, v)
    /\ UNCHANGED <<rows, lastId, tab, config>>

(* One transaction; rows are found by id alone. *)
WriteCategories(r) ==
    LET v == run[r] IN
    /\ v.at = "names" /\ v.asked = {}
    /\ rows' = [n \in Notes |->
          IF ~Exists(n) THEN Absent
          ELSE [i \in DOMAIN rows[n] |->
                  LET x == rows[n][i]
                      mine == {t \in v.todo : t.id = x.id /\ t.name \in v.found} IN
                  IF mine = {} THEN x ELSE [x EXCEPT !.category = Guess[(CHOOSE t \in mine : TRUE).name]]]]
    /\ Go(r, AfterBatch(v))
    /\ UNCHANGED <<lastId, tab, missed, config, used>>

(* Goroutines end with the process; an interrupted job is executed again, which *)
(* Recalculate allows.                                                         *)
Restart ==
    /\ Use("crashes")
    /\ missed' = missed \cup UNION {run[r].notes \cup run[r].left : r \in Runs}
    /\ run' = [r \in Runs |-> NoRun]
    /\ UNCHANGED <<rows, lastId, tab, config>>

Next ==
    \/ \E b \in Tabs, n \in Notes : Open(b, n)
    \/ \E b \in Tabs : Save(b)
    \/ \E n \in Notes : Import(n) \/ Delete(n)
    \/ Recalculate \/ Restart
    \/ \E r \in Runs :
          \/ NextBatch(r) \/ LoadIngredients(r) \/ EmbedCategories(r)
          \/ EmbedName(r) \/ WriteCategories(r)

Spec == Init /\ [][Next]_vars

-------------------------------------------------------------------------------
TypeOK ==
    /\ \A x \in AllRows(Notes) : x.id \in 1 .. lastId /\ x.name \in Names /\ x.manual \in BOOLEAN
    /\ \A r \in Runs : run[r].at \in {"none", "batch", "load", "categories", "names"}
    /\ missed \subseteq Notes

(* A category the user picked stays, whatever runs were under way while it was *)
(* picked (README.md:267: "if it was manually selected it should not be        *)
(* overwritten"; the write itself does not look at the flag).                  *)
PickStays == \A x \in AllRows(Notes) : x.manual => x.category = x.pick

(* Once the runs for a recipe are through without an error, every ingredient   *)
(* left to the model has the model's category for its name: a late run of an   *)
(* older save neither undoes the newer nor hits rows of another name.          *)
SettledIsCategorized ==
    \A n \in Notes \ missed :
        (Exists(n) /\ \A r \in Runs : n \notin run[r].notes) =>
            \A i \in DOMAIN rows[n] : ~rows[n][i].manual => rows[n][i].category = Guess[rows[n][i].name]
================================================================================
