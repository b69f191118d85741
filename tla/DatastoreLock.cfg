SPECIFICATION StoreSpec
CONSTANTS
  Pods = {p1}
  PodStates <- MCPodStates
  PoolStates <- MCPoolStates
  Objectives = {o1}
  ObjStates <- MCObjStates
  Getters = {g1}
  ListMayFail = FALSE
  Deletable = FALSE
  MaxChanges = 2
  Absent = Absent
PROPERTY
  PoolSetCompletes
CHECK_DEADLOCK FALSE
