CONSTANTS
  NoItem = NoItem
  Items <- Numbers
  PriorityOf <- Tied
  SizeOf <- Own
  MaxLen = 7
SPECIFICATION Spec
INVARIANT MinimumIsChildOfRoot
