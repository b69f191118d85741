CONSTANTS
  i1 = i1  i2 = i2  i3 = i3  i4 = i4
  f1 = f1  f2 = f2  f3 = f3
  NoItem = NoItem  NoFlow = NoFlow
  Items = {i1, i2, i3, i4}
  Flows = {f1, f2, f3}
  Bands = {0, 1}
  FlowOf <- RacesFlowOf
  PriorityOf <- RacesPriorityOf
  SizeOf <- RacesSizeOf
  TTLOf <- RacesTTLOf
  ShardMaxBytes = 3
  BandMaxBytes <- RacesBands
  ChanCap = 1
  Word = 16
  MaxTime = 0
SPECIFICATION Spec
INVARIANTS CapacitySafety CountersReadable StrictPriority
PROPERTY ImplementsAdmissionQueue
CONSTRAINT BeforeShutdown
