CONSTANTS
  Runtimes = {r1, r2}
  MaxTurns = 2
  maxRounds = 2
  Responses <- MCResponses
  TokensUsed = {1}
  InitialBudget = 3
  PatchBudgets = {1}
  MaxPatches = 1
SPECIFICATION FairSpec
INVARIANTS ModelCallsAccounted NothingChargedTwice
PROPERTY TurnsEnd
CHECK_DEADLOCK FALSE
