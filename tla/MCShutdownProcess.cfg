CONSTANTS
  N = 1
  WorkerType = "process"
  Responsive <- MCResponsive
  MaxJobs = 2
  MaxBeats = 1
  MaxSignals = 2
SPECIFICATION StopSpec
INVARIANTS
  PushesGoOut
PROPERTIES
  SignalEndsWorker
CHECK_DEADLOCK FALSE
