CONSTANTS
  MaxRequests = 2
  read = read
  Capabilities = {read}
  local = local
  absent = absent
  half = half
  Models <- TwoNames
  Pool <- OnePool
  MaxConcurrent <- OneSlot
  Halves = {half}
  NoModel = NoModel
  Wirings = {TRUE, FALSE}
  BudgetCaps = {1}
  NoCap = NoCap
  Bodies <- MCBodies
  PostBodies <- MCPosts
  PatchStates = {"completed"}
  MAX_DELEGATION_DEPTH = 2
  MAX_CHILDREN_PER_TASK = 2
  MaxPosts = 2
  MaxPatches = 1
  MaxRestarts = 1
SPECIFICATION FairSpec
INVARIANTS CapabilitiesNarrow TreeWithinLimits LeasesAndTasksAgree
PROPERTIES CancelEndsSubtree WaitingIsAnswered
CHECK_DEADLOCK FALSE
