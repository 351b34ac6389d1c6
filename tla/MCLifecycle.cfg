CONSTANTS
  SessionIds = {1}
  TaskIds = {1, 2}
  Calls = {"c"}
  Deadlines = {1}
  Ages = {1}
  MaxCall = 1
  Releases <- MCReleases
  MaxTime = 3
  MaxRestarts = 2
  MaxPatches = 4
SPECIFICATION Spec
INVARIANTS PruningKeepsCallsWhole VersionTellsSchema
PROPERTIES RecoverySettles PruningIsComplete
CHECK_DEADLOCK FALSE
