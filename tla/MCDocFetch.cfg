CONSTANTS
  None = None
  Executions = {1, 2, 3}
  Urls <- MCUrls
  AllowedDomains <- MCDomains
  Bodies <- MCBodies
  Servers <- MCServers
  MaxBodyBytes = 2
  Sessions = {"a", "b", "c"}
  Tasks = {"t", "u"}
  Asked <- MCAsked
  PrincipalOf <- MCPrincipalOf
  CapableTasks = {"t"}
  TrustOf <- MCTrustOf
  InitialBudget = 3
  MaxInFlight = 2
  MaxTime = 1
SPECIFICATION FairSpec
INVARIANTS RecordedMeansDone ReplayFollowsStartOrder IntegrityKnowsOpenCalls DiffTellsOutcomes OnlyAllowedHostsContacted
PROPERTIES FetchEnds
CHECK_DEADLOCK FALSE
