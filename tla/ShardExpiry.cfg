CONSTANTS
  i1 = i1  i2 = i2  i3 = i3  i4 = i4
  f1 = f1  f2 = f2  f3 = f3
  NoItem = NoItem  NoFlow = NoFlow
  Items = {i1, i2}
  Flows = {f1}
  Bands = {0}
  FlowOf <- ExpiryFlowOf
  PriorityOf <- ExpiryPriorityOf
  SizeOf <- ExpirySizeOf
  TTLOf <- ExpiryTTLOf
  ShardMaxBytes = 0
  BandMaxBytes <- OneBand
  ChanCap = 1
  Word = 16
  MaxTime = 2
SPECIFICATION FairSpec
PROPERTIES DeadEventuallyFinalized
