CONSTANTS
  N = 1
  WorkerType = "process"
  Responsive <- MCResponsive
  MaxJobs = 1
  MaxBeats = 1
SPECIFICATION Spec
INVARIANT ProcessStartsNoService
CHECK_DEADLOCK FALSE
