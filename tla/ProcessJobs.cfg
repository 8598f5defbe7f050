CONSTANTS
  MaxJobs = 2
  MaxOutputs = 1
SPECIFICATION Spec
INVARIANTS
  ResultIsLastFinished
  UnracedArriveOnce
  ProcessInOrder
  AcknowledgedWhenOver
  NothingForgotten
PROPERTIES
  JobReported
CHECK_DEADLOCK FALSE
