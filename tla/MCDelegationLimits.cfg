CONSTANTS
  MaxRequests = 3
  read = read
  Capabilities = {read}
  local = local
  absent = absent
  half = half
  Models <- TwoNames
  Pool <- OnePool
  MaxConcurrent <- OneSlot
  Halves = {half}
  NoModel = NoModel
  Wirings = {TRUE}
  BudgetCaps = {1}
  NoCap = NoCap
  Bodies <- MCBodies
  PostBodies <- PlainPosts
  PatchStates = {"completed"}
  MAX_DELEGATION_DEPTH = 2
  MAX_CHILDREN_PER_TASK = 2
  MaxPosts = 1
  MaxPatches = 0
  MaxRestarts = 0
SPECIFICATION Spec
INVARIANT ChildrenWithinLimit
CHECK_DEADLOCK FALSE
