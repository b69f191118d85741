SPECIFICATION MCSpec
CONSTANTS
  s1 = s1
  p1 = p1
  Requests = {"r1"}
  Keys = {"k1", "k2"}
  StalenessThreshold = 1
INVARIANT
  FreshDataKept
PROPERTIES
  MetricsConverge
  StaleDetected
  CollectorStops
  ServerLossEndsProcess
  SidecarConverges
  StaleDataCollected
  RouterAnswers
CHECK_DEADLOCK FALSE
