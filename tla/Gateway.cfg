SPECIFICATION Spec
CONSTANTS
  Streams = {"s1", "s2"}
  Pods = {"p1", "p2"}
  Loads <- MCLoads
  Metrics <- MCMetrics
  Criticality <- MCCriticality
  Env <- MCEnv
  bodyByteLimit = 2
  MaxEndpoints = 1
  MaxChanges = 1
  Absent = Absent
INVARIANTS
  ReplyOrder
  ResponseIntact
  CountersExact
  AdmissionSound
  RoutedAsScheduled
PROPERTY
  RequestAnswered
CHECK_DEADLOCK FALSE
