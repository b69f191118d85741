SPECIFICATION Spec
CONSTANTS
  Cycles = {c1, c2}
  Pods = {"p1", "p2"}
  Prompts <- HashPrompts
  Snapshots <- MCSnapshots
  Configs <- MCConfigs
  Weight <- MCWeight
  MaxNumOfEndpoints = 0
  MaxPrefixBlocks = 2
  LRUCapacityPerServer = 0
  One = 60
  None = None
INVARIANT
  MatchIsTruePrefix
CHECK_DEADLOCK FALSE
