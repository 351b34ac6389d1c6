CONSTANTS
  MaxDispatches = 2
  Tools = {"read", "send", "unlock", "fetch", "render", "nosuch"}
  Registry <- MCRegistry
  CapabilitySet = {"read", "send", "unlock", "fetch", "nosuch"}
  Principals <- OneUser
  Domains = {"none"}
  Rulesets <- MCRulesets
  Workers = {"sandbox", "host_elevated"}
  WorkerResults <- MCResults
  Wirings <- MCWirings
  InitialBudget = 2
  PatchBudgets = {1}
  PatchModes = {"readonly"}
  MaxPatches = 1
  MaxRestarts = 1
  Rules <- DEFAULT_POLICY_RULES
  ToolNames = {"tool"}
SPECIFICATION MCSpec
INVARIANTS ApprovalNotBypassed AuditTellsWhatHappened BudgetAccounted EffectsOnlyOfCapableRuns TableOfRiskClasses
PROPERTIES StartsUnderRulesInForce CallsAreAnswered PrivilegeIsMonotone HiddenToolsCannotRun
CHECK_DEADLOCK FALSE
