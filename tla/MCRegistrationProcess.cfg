CONSTANTS
  N = 1
  WorkerType = "process"
  Responsive <- MCResponsive
  MaxJobs = 2
  MaxBeats = 2
SPECIFICATION Spec
INVARIANTS
  SingleServerSafe
  ReceiverPerRegister
  WatchdogIdentifies
CHECK_DEADLOCK FALSE
