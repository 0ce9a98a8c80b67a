CONSTANTS
  MaxNotes = 2
  Tags = {t1}
  Handlers = {h1}
  Workers = 2
  MaxSaves = 3
  Configs <- MCConfigs
SPECIFICATION Spec
CHECK_DEADLOCK FALSE
PROPERTY EventuallyIndexed
