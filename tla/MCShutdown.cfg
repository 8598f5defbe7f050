CONSTANTS
  N = 2
  WorkerType = "service"
  Responsive <- MCResponsive
  MaxJobs = 1
  MaxBeats = 1
  MaxSignals = 1
SPECIFICATION StopSpec
INVARIANTS
  CrashOnlyUnregistered
  NothingLeftBehind
  NothingElseHolds
PROPERTIES
  SignalEndsWorker
CHECK_DEADLOCK FALSE
