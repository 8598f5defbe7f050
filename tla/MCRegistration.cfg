CONSTANTS
  N = 2
  WorkerType = "service"
  Responsive <- MCResponsive
  MaxJobs = 2
  MaxBeats = 2
SPECIFICATION Spec
INVARIANTS
  PushHasTarget
  JobAfterLaunch
PROPERTIES
  RegistrationCompletes
  GrantLeadsToLaunch
CHECK_DEADLOCK FALSE
