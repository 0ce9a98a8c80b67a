CONSTANTS
  MaxNotes = 1
  Tags = {t1}
  Handlers = {h1}
  Workers = 2
  MaxSaves = 3
  Configs <- MCTwoSaves
SPECIFICATION Spec
CHECK_DEADLOCK FALSE
INVARIANT IndexFresh
