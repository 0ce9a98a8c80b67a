CONSTANTS
  Kinds = {"audio", "image"}
  Texts = {"one", "two", ""}
  Empty = ""
  Chunks = 1
  Workers = 2
  MaxSaves = 1
  MaxErrors = 2
  MaxEvents = 1
SPECIFICATION Spec
CHECK_DEADLOCK FALSE
INVARIANTS TaggedIsHeard HeardIsSearchable
PROPERTY TranscriptLands
