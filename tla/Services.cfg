CONSTANTS
  Parts = {"backups", "sessions", "tasks", "recipes", "index", "migrations", "daily", "grocery"}
  RecipeNotes = {1, 2}
  Tabs = {"b1", "b2"}
  DayLength = 2
  Endpoints <- MCEndpoints
  RestoreTo <- MCRestoreTo
  BackupWorkers = {1, 2}
  MaxFiles = 2
  PerDay = 1
  WeekLength = 2
  MonthLength = 2
  DailyWindow = 2
  WeeklyWindow = 4
  MonthlyWindow = 9
  Keepings <- MCKeepings
  Users = {11}
  Addresses = {21}
  Handlers = {"h1", "h2"}
  MaxTokens = 2
  SessionTime = 2
  CeremonyTime = 1
  FreeFailures = 1
  MaxDelay = 2
  ThrottleTime = 2
  SignIns <- MCSignIns
  Tasks = {1}
  Typed = {"x"}
  Planned = {"p", "q"}
  MaxPlanned = 2
  Untitled = ""
  TaskEdits <- MCTaskEdits
  Ingredients = {1, 2}
  Guess <- MCGuess
  Other = "other"
  MaxRuns = 2
  BatchSize = 1
  Kitchens <- MCKitchens
  MaxNotes = 2
  NoteTags = {"t1"}
  NoteHandlers = {"h1"}
  IndexWorkers = 2
  MaxSaves = 3
  Indexings <- MCIndexings
  NoteIds = {1, 2}
  MaxTags = 4
  TagForms = {"Foo", "foo", "#"}
  TagNormal <- MCTagNormal
  NoteTexts = {"a", "b"}
  NoPayload = "none"
  Databases <- MCDatabases
  StartBounds <- MCStartBounds
  Todos = {1, 2, 3}
  Overviews = {51, 52}
  Makers = {"m1", "m2"}
  Weight <- MCWeight
  UrgentDueDays = 3
  TicksOfDay = 2
  Days <- MCDays
  Dishes = {1, 2}
  Planners = {"p1", "p2"}
  ListTabs = {"b1", "b2"}
  Kilo = 1000
  Fine = 3
  MaxLists = 2
  Shoppings <- MCShoppings
SPECIFICATION ServerSpec
CHECK_DEADLOCK FALSE
INVARIANTS
  TablesTyped
  BundleComplete
  RetentionHolds
  SignInHolds
  PlanIsSound
  PickStays
  SettledIsCategorized
  IndexIsOfLiveNotes
  DatabaseIsWhole
  DailyListIsSound
  ListsMatch
PROPERTIES
  RestoredIsReadable
  IndexMovesForward
  StartKeepsWork
