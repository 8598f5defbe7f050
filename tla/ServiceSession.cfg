CONSTANTS
  MaxSessions = 2
  MaxRequests = 2
  MaxLaunches = 2
SPECIFICATION Spec
INVARIANTS
  NeverReportedBack
  ReceivedFirst
  SerialReportsExact
  NoExtraEnd
  BufferedOnlyOnOverlap
PROPERTIES
  NoLineLost
  EveryLineReported
CHECK_DEADLOCK FALSE
