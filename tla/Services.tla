------------------------------- MODULE Services --------------------------------
(* Five parts of the server that keep tables or files of their own: a          *)
(* behaviour is one of one part, the variables of the others hold NotUsed.     *)
(* They stand together because they are asked the same question, whether       *)
(* concurrent handlers, jobs, crashes and repeated calls leave their tables    *)
(* whole; Tables asks it of three more.                                        *)
EXTENDS Integers, Sequences, FiniteSets

CONSTANTS
    Parts,                                                      \* the parts to look at
    Tabs,                                                       \* of tasks and recipes
    Endpoints, RestoreTo, BackupWorkers, MaxFiles, PerDay,
    DayLength, WeekLength, MonthLength,
    DailyWindow, WeeklyWindow, MonthlyWindow, Keepings,         \* backups
    Users, Addresses, Handlers, MaxTokens, SessionTime,
    CeremonyTime, FreeFailures, MaxDelay, ThrottleTime,
    SignIns,                                                    \* sessions
    Tasks, Typed, Planned, MaxPlanned, Untitled, TaskEdits,     \* tasks
    RecipeNotes, Ingredients, Guess, Other, MaxRuns, BatchSize,
    Kitchens,                                                   \* recipes
    MaxNotes, NoteTags, NoteHandlers, IndexWorkers, MaxSaves,
    Indexings                                                   \* index

(* Durations are whole numbers of ticks; the workers and endpoints of every    *)
(* configuration exist; the restore command is given endpoints; the windows  *)
(* of the retention follow each other and keep something.                      *)
ASSUME SignInAssumption == SessionTime \in Nat /\ MaxDelay \in Nat
ASSUME KeepingsAssumption == \A k \in Keepings :
    /\ 1 .. k.workers \subseteq BackupWorkers
    /\ k.endpoints \in Nat \ {0} /\ 1 .. k.endpoints \subseteq DOMAIN Endpoints
ASSUME RestoreAssumption == RestoreTo \in Seq({Endpoints[i] : i \in DOMAIN Endpoints})
ASSUME RetentionAssumption ==
    /\ {PerDay, DayLength, WeekLength, MonthLength} \subseteq Nat \ {0}
    /\ {DailyWindow, WeeklyWindow, MonthlyWindow} \subseteq Nat
    /\ DailyWindow <= WeeklyWindow /\ WeeklyWindow <= MonthlyWindow

VARIABLES
    part,
    now, config, used, tab, rows, lastId, run, title, saved,
    handler,                                                          \* of several parts
    clock, live, objects, bundles, worker, restore, ever, plan,
    spent,                                                            \* backups
    hash, sessions, ceremonies, passkeys, throttle, issued,
    closed, finished,                                                 \* sessions
    row, subs, toggled,                                               \* tasks
    missed,                                                           \* recipes
    life, parent, version, manual, auto, index, stray, queue,
    workers, failed                                                   \* index

backupsVars == <<clock, live, objects, bundles, worker, restore, ever, plan,
                 spent>>
sessionsVars == <<hash, sessions, ceremonies, passkeys, throttle, issued,
                  closed, finished>>
tasksVars == <<row, subs, toggled>>
recipesVars == <<missed>>
indexVars == <<life, parent, version, manual, auto, index, stray, queue,
               workers, failed>>
shared == <<now, config, used, tab, rows, lastId, run, title, saved, handler>>
vars == <<part, shared, backupsVars, sessionsVars, tasksVars, recipesVars,
          indexVars>>

-------------------------------------------------------------------------------
BAK == INSTANCE Backups WITH
    now <- clock, config <- plan, used <- spent, Workers <- BackupWorkers, Configs <- Keepings
SES == INSTANCE Sessions WITH Configs <- SignIns
TSK == INSTANCE TaskNotes WITH Configs <- TaskEdits
REC == INSTANCE RecipeCategories WITH Notes <- RecipeNotes, Names <- Ingredients, Configs <- Kitchens
IDX == INSTANCE NoteIndex WITH
    planned <- queue, running <- workers, errored <- failed, saves <- saved, events <- used,
    Tags <- NoteTags, Handlers <- NoteHandlers, Workers <- IndexWorkers, Configs <- Indexings

-------------------------------------------------------------------------------
(* Behaviours                                                                  *)

NotUsed == "-"
NoBackups ==
    /\ clock = NotUsed /\ live = NotUsed /\ objects = NotUsed
    /\ bundles = NotUsed /\ worker = NotUsed /\ restore = NotUsed
    /\ ever = NotUsed /\ plan = NotUsed /\ spent = NotUsed
NoSessions ==
    /\ hash = NotUsed /\ sessions = NotUsed /\ ceremonies = NotUsed
    /\ passkeys = NotUsed /\ throttle = NotUsed /\ issued = NotUsed
    /\ closed = NotUsed /\ finished = NotUsed
NoTasks ==
    /\ row = NotUsed /\ subs = NotUsed /\ toggled = NotUsed
NoRecipes ==
    /\ missed = NotUsed
NoIndex ==
    /\ life = NotUsed /\ parent = NotUsed /\ version = NotUsed
    /\ manual = NotUsed /\ auto = NotUsed /\ index = NotUsed
    /\ stray = NotUsed /\ queue = NotUsed /\ workers = NotUsed
    /\ failed = NotUsed

Init ==
    /\ part \in Parts
    /\ IF part = "backups" THEN BAK!Init ELSE NoBackups
    /\ IF part = "sessions" THEN SES!Init ELSE NoSessions
    /\ IF part = "tasks" THEN TSK!Init ELSE NoTasks
    /\ IF part = "recipes" THEN REC!Init ELSE NoRecipes
    /\ IF part = "index" THEN IDX!Init ELSE NoIndex
    /\ part # "sessions" => now = NotUsed
    /\ part \notin {"sessions", "tasks", "recipes", "index"} =>
          config = NotUsed /\ used = NotUsed
    /\ part \notin {"tasks", "recipes"} =>
          tab = NotUsed /\ lastId = NotUsed /\ run = NotUsed
    /\ part # "recipes" => rows = NotUsed
    /\ part # "index" => title = NotUsed /\ saved = NotUsed
    /\ part \notin {"sessions", "index"} => handler = NotUsed

BackupsStep ==
    /\ part = "backups" /\ BAK!Next
    /\ UNCHANGED <<part, shared, sessionsVars, tasksVars, recipesVars,
                   indexVars>>
SessionsStep ==
    /\ part = "sessions" /\ SES!Next
    /\ UNCHANGED <<part, tab, rows, lastId, run, title, saved, backupsVars,
                   tasksVars, recipesVars, indexVars>>
TasksStep ==
    /\ part = "tasks" /\ TSK!Next
    /\ UNCHANGED <<part, now, rows, title, saved, handler, backupsVars,
                   sessionsVars, recipesVars, indexVars>>
RecipesStep ==
    /\ part = "recipes" /\ REC!Next
    /\ UNCHANGED <<part, now, title, saved, handler, backupsVars,
                   sessionsVars, tasksVars, indexVars>>
IndexStep ==
    /\ part = "index" /\ IDX!Next
    /\ UNCHANGED <<part, now, tab, rows, lastId, run, backupsVars,
                   sessionsVars, tasksVars, recipesVars>>

Next ==
    \/ BackupsStep \/ SessionsStep \/ TasksStep \/ RecipesStep
    \/ IndexStep

Spec == Init /\ [][Next]_vars

-------------------------------------------------------------------------------
(* Properties; each is explained in its module                                 *)

(* Every part keeps its tables well typed and referential.                     *)
TypeOK ==
    /\ part = "backups" => BAK!TypeOK
    /\ part = "sessions" => SES!TypeOK
    /\ part = "tasks" => TSK!TypeOK
    /\ part = "recipes" => REC!TypeOK
    /\ part = "index" => IDX!TypeOK

(* A stored bundle holds every file of its database (bundle.go:77).            *)
BundleComplete == part = "backups" => BAK!BundleComplete

(* No purge deletes the newest bundle, and purges that do not overlap leave a  *)
(* bundle for every period (backup.go:112, retention.go:34).                   *)
RetentionHolds == part = "backups" => BAK!LatestKept /\ BAK!CoverageKept

(* A restore that reports success names endpoints that have every file.        *)
RestoredIsReadable == [][part = "backups" => BAK!Restored]_vars

(* A ceremony counts once, sessions are independent, and nobody is locked out  *)
(* for longer than the longest delay (webauthn.go:82, login_throttle.go:12).   *)
SignInHolds ==
    part = "sessions" => SES!CeremonyOnce /\ SES!SessionsAreIndependent /\ SES!WaitIsBounded

(* A task's plan has no subtask twice, a tick hits the box the user saw, and   *)
(* what is done has its time (subtasks.go:66, task.go:430).                    *)
PlanIsSound == part = "tasks" => TSK!LabelsUnique /\ TSK!TickHitsTheSeen /\ TSK!DoneHasTime

(* A category picked by the user is never overwritten (category.go:76).        *)
PickStays == part = "recipes" => REC!PickStays

(* Without errors every other ingredient gets the model's category in the end  *)
(* of the runs, those of older saves included (recipe_categories.go:34).       *)
SettledIsCategorized == part = "recipes" => REC!SettledIsCategorized

(* Only live notes have chunks, and every chunk has its vectors                *)
(* (notes.go:725).                                                             *)
IndexIsOfLiveNotes == part = "index" => IDX!IndexIsOfLiveNotes

(* The chunks of a note never go back to an older body (searchindex.go:136).   *)
IndexMovesForward == [][part = "index" => IDX!MovesForward]_vars

(* By hand, with the one part: what the code does not keep (README 4).         *)
SignCountGrows == SES!SignCountGrows
TimeMeansDone == part = "tasks" => TSK!TimeMeansDone
PlanSurvives == TSK!PlanSurvives
===============================================================================
