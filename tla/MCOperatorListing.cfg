CONSTANTS
  builtin1 = builtin1
  builtin2 = builtin2
  custom = custom
  b1 = b1
  b2 = b2
  Ids <- MCIds
  Bodies <- MCBodies
  DefaultRules <- MCDefaultRules
  Orders <- MCOrders
  Bundles <- MCBundles
  NoOrder = NoOrder
  MaxEdits = 2
  MaxRestarts = 1
  Requests = {r1, r2}
  Callers = {g1, g2, c1}
  Gateway = {g1, g2}
  Approvers = {alice, bob}
  NoOne = NoOne
SPECIFICATION OperatorSpec
INVARIANT ListedRulesAreActive
CHECK_DEADLOCK FALSE
