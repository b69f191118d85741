SPECIFICATION MCSpec
CONSTANTS
  Flows = {1, 2, 3, 4}
  NoFlow = NoFlow
  MaxLen = 2
  NoItem = NoItem
  Absent = Absent
  None = None
  Readers = {"r1"}
  MaxObjects = 4
  Pods = {"p1", "p2"}
  PodStates <- SomePodStates
  PoolStates <- SomePoolStates
  Objectives = {"o1"}
  ObjStates <- SomeObjStates
  Getters = {"g1"}
  ListMayFail = TRUE
  Deletable = TRUE
  MaxChanges = 4
  Cycles = {"c1", "c2", "c3"}
  CandidatePods = {"p1", "p2"}
  Prompts <- SomePrompts
  Snapshots <- SomeLoads
  Profiles <- SomeProfiles
  Weight <- EvenWeight
  MaxNumOfEndpoints = 0
  MaxPrefixBlocks = 2
  LRUCapacityPerServer = 0
  One = 60
  RawConfigs <- SomeRawConfigs
  Roles <- PluginRoles
  BandConfigs <- SomeBands
  MaxBands = 3
  MaxTotal = 5
  MaxShards = 4
  s1 = s1
  Bodies = {"model", "absent", "other", "invalid"}
  MaxChunks = 4
  Options <- SomeOptions
  MaxStreams = 1
  Sources = {s1}
  Pages <- SomePages
  Specifications <- SomeSpecifications
  MaxPageChanges = 1
  TrimSpace <- Trimmed
INVARIANTS
  ExtractorsAgree
  ExitHonest
  StreamedRequestIntact
  BoundedBypass
  SnapshotsWhole
  HandlesExact
  CapacityConserved
  ShardsUsable
  LoadedRunnable
  ReverseMapExact
  MatchWithinWalk
  DominatedNeverPreferred
  RefreshersExact
  StoreConvergesUnlessReconfigured
PROPERTY
  ImplementsSafeQueue
CHECK_DEADLOCK FALSE
