------------------------------- MODULE Tables --------------------------------
(* Three more parts of the server that keep tables, beside those of Services   *)
(* and in the same way.  They have variables of their own, which hold NotUsed  *)
(* in a behaviour of another part; a behaviour of ServerSpec is one of any of  *)
(* the eight.                                                                  *)
EXTENDS Services

CONSTANTS
    NoteIds, MaxTags, TagForms, TagNormal, NoteTexts, NoPayload,
    Databases, StartBounds,                                     \* migrations
    Todos, Overviews, Makers, Weight, UrgentDueDays,
    TicksOfDay, Days,                                           \* daily
    Dishes, Planners, ListTabs, Kilo, Fine, MaxLists, Shoppings       \* grocery

VARIABLES
    schema, heading, body, updates, tags, refs, fts, runs, vec, vectors,
    chunked, at, driver, wrote, faults,                                \* migrations
    today, task, daily, seq, maker, stores, recounted,                 \* daily
    open, amounts, meta, planner, lists, made,                         \* grocery
    scenario, spending                                                 \* of the latter two

migrationsVars == <<schema, heading, body, updates, tags, refs, fts, runs, vec, vectors,
                    chunked, at, driver, wrote, faults>>
dailyVars == <<today, task, daily, seq, maker, stores, recounted>>
groceryVars == <<open, amounts, meta, planner, lists, made>>
scenarioVars == <<scenario, spending>>
tablesVars == <<migrationsVars, dailyVars, groceryVars, scenarioVars>>

-------------------------------------------------------------------------------
MIG == INSTANCE Migrations WITH
    title <- heading, saved <- wrote, used <- faults, Notes <- NoteIds, Names <- TagForms,
    NormalName <- TagNormal, Texts <- NoteTexts, Bounds <- StartBounds
DAY == INSTANCE DailyTasks WITH
    now <- today, config <- scenario, used <- spending, Tasks <- Todos, DayLength <- TicksOfDay,
    Configs <- Days
GRO == INSTANCE GroceryLists WITH
    tab <- open, rows <- amounts, config <- scenario, used <- spending, Recipes <- Dishes,
    Tabs <- ListTabs, Configs <- Shoppings

(* Ids of rows are positive, and as many as there are notes; a normal form is  *)
(* its own; the databases are those that earlier releases left behind.         *)
ASSUME DatabaseAssumption ==
    /\ MIG!LastId(NoteIds) \in Nat /\ NoteIds \subseteq 1 .. MIG!LastId(NoteIds)
    /\ MaxTags \in Nat /\ IsFiniteSet(TagForms)
    /\ TagNormal \in [TagForms -> TagForms \cup {""}]
    /\ \A x \in TagForms : TagNormal[x] # "" => TagNormal[TagNormal[x]] = TagNormal[x]
    /\ \A d \in Databases : MIG!IsWhole(d)

(* What the score adds up are numbers, a list has one task at least, and no    *)
(* urgent due date is as far off as NoDue stands for.                          *)
ASSUME DaysAssumption ==
    /\ IsFiniteSet(Todos) /\ Todos \subseteq Int
    /\ Weight \in [due : Int, priority : Int]
    /\ UrgentDueDays \in Int /\ UrgentDueDays < DAY!NoDue /\ TicksOfDay \in Nat \ {0}
    /\ \A d \in Days :
          /\ d.count \in Nat \ {0} /\ d.time[1] \in Nat /\ d.time[2] \in Nat
          /\ d.legacy \in Seq(Todos)
          /\ d.ways \subseteq {"view", "button", "job"}
          /\ d.tasks \in [Todos -> [status : {"todo", "in_progress", "done"}, due : Int,
                                    priority : Int, rest : Int, quiet : BOOLEAN]]

(* A recipe has its servings, 0 where they are not set.                        *)
ASSUME ShoppingAssumption ==
    /\ MaxLists \in Nat
    /\ \A c \in Shoppings : c.meta \in [Dishes -> [servings : Int, preCook : Int]]

-------------------------------------------------------------------------------
(* Behaviours                                                                  *)

NoMigrations ==
    /\ schema = NotUsed /\ heading = NotUsed /\ body = NotUsed
    /\ updates = NotUsed /\ tags = NotUsed /\ refs = NotUsed /\ fts = NotUsed
    /\ runs = NotUsed /\ vec = NotUsed /\ vectors = NotUsed
    /\ chunked = NotUsed /\ at = NotUsed /\ driver = NotUsed
    /\ wrote = NotUsed /\ faults = NotUsed
NoDaily ==
    /\ today = NotUsed /\ task = NotUsed /\ daily = NotUsed
    /\ seq = NotUsed /\ maker = NotUsed /\ stores = NotUsed /\ recounted = NotUsed
NoGrocery ==
    /\ open = NotUsed /\ amounts = NotUsed /\ meta = NotUsed
    /\ planner = NotUsed /\ lists = NotUsed /\ made = NotUsed

TablesInit ==
    /\ IF part = "migrations" THEN MIG!Init ELSE NoMigrations
    /\ IF part = "daily" THEN DAY!Init ELSE NoDaily
    /\ IF part = "grocery" THEN GRO!Init ELSE NoGrocery
    /\ part \notin {"daily", "grocery"} => scenario = NotUsed /\ spending = NotUsed

MigrationsStep ==
    /\ part = "migrations" /\ MIG!Next
    /\ UNCHANGED <<dailyVars, groceryVars, scenarioVars>>
DailyStep ==
    /\ part = "daily" /\ DAY!Next
    /\ UNCHANGED <<migrationsVars, groceryVars>>
GroceryStep ==
    /\ part = "grocery" /\ GRO!Next
    /\ UNCHANGED <<migrationsVars, dailyVars>>

TablesNext == MigrationsStep \/ DailyStep \/ GroceryStep

ServerInit == Init /\ TablesInit
ServerNext ==
    \/ Next /\ UNCHANGED tablesVars
    \/ TablesNext /\ UNCHANGED vars
ServerSpec == ServerInit /\ [][ServerNext]_<<vars, tablesVars>>

-------------------------------------------------------------------------------
(* Properties; each is explained in its module                                 *)

(* Every part, those of Services included, keeps its tables well typed and     *)
(* referential.                                                                *)
TablesTyped ==
    /\ TypeOK
    /\ part = "migrations" => MIG!TypeOK
    /\ part = "daily" => DAY!TypeOK
    /\ part = "grocery" => GRO!TypeOK

(* No start of the server, cut off, failed or repeated, loses a user's text,   *)
(* and the full-text index is that of the notes (db.go:369, 640).              *)
DatabaseIsWhole == part = "migrations" => MIG!TextsKept /\ MIG!FtsInSync

(* A start keeps the pending jobs and the tags of the notes (db.go:265, 494).  *)
StartKeepsWork == [][part = "migrations" => MIG!KeepsWork]_tablesVars

(* A shown list of daily tasks is what one maker picked, whole, unless it was  *)
(* stored in a second that a restart let two processes see, and each holds the *)
(* right tasks for what its maker saw (daily.go:15, scoring.go:77).            *)
DailyListIsSound == part = "daily" => DAY!GenerationIsWhole /\ DAY!PickIsBest

(* A grocery list asks for what its recipes need, up to the rounding, and is   *)
(* linked to all of them (actions.go:138, 183).                                *)
ListsMatch == part = "grocery" => GRO!TotalsMatch /\ GRO!LinksAreWhole

(* By hand, with the one part: what the code does not keep (README 4).         *)
BodyCopiedOnce == part = "migrations" => MIG!BodyCopiedOnce
ReindexFindsLost == MIG!ReindexFindsLost
NeverMixed == part = "daily" => DAY!NeverMixed
HistoryIsPast == part = "daily" => DAY!HistoryIsPast
NoDoneStored == DAY!NoDoneStored
NeverBack == DAY!NeverBack
NothingVanishes == part = "grocery" => GRO!NothingVanishes
RangeIsWhole == part = "grocery" => GRO!RangeIsWhole
===============================================================================
