CONSTANTS
  Starts = {s1, s2, s3}
  Names = {"a", "b"}
  Values <- MCValues
  Unset = "unset"
  CommandLines <- MCCommandLines
SPECIFICATION Spec
INVARIANTS
  StoredWasGiven
  RestartByName
PROPERTIES
  KeepsOthers
CHECK_DEADLOCK FALSE
