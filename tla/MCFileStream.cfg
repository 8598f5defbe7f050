CONSTANTS
  Servers = {"answering", "silent"}
  Files = {"plain", "mid_empty", "ends_in_object", "ends_empty", "no_directory"}
  Reply <- MCReply
  Openable <- MCOpenable
  Responsive <- MCResponsive
  MaxAsks = 3
  MaxKills = 1
SPECIFICATION Spec
INVARIANTS
  OwnPartsOnly
  JammedByEmptyPart
  VerdictIsTrue
PROPERTIES
  KeepsPromise
  TransferEnds
CHECK_DEADLOCK FALSE
