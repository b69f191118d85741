CONSTANTS
  i1 = i1  i2 = i2  i3 = i3  i4 = i4
  f1 = f1  f2 = f2  f3 = f3
  NoItem = NoItem  NoFlow = NoFlow
  Items = {i1, i2, i3}
  Flows = {f1, f3}
  Bands = {0, 1}
  FlowOf <- PairFlowOf
  PriorityOf <- PairPriorityOf
  SizeOf <- PairSizeOf
  TTLOf <- PairTTLOf
  ShardMaxBytes = 2
  BandMaxBytes <- TwoBands
  ChanCap = 1
  Word = 16
  MaxTime = 0
SPECIFICATION Spec
INVARIANTS TypeOK SoleOwner StatsExact
