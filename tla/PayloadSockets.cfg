CONSTANTS
  WorkerType = "process"
  MaxWrites = 2
  MaxHiccups = 1
SPECIFICATION Spec
INVARIANTS
  DeafHasCause
  RestsWhenDone
PROPERTIES
  DeafStaysDeaf
  JobsHandedOn
  StaleReadsAll
  ThreadRests
CHECK_DEADLOCK FALSE
