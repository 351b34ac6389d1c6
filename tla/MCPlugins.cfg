CONSTANTS
  PluginIds = {"notes"}
  Manifests <- MCManifests
  Capabilities = {"look", "post"}
  PolicyGroups = {"default", "staff"}
  Principals <- MCPrincipals
  Sessions <- MCSessions
  PatchModes = {"task", "readonly"}
  Rulesets <- MCRulesets
  MaxRecords = 5
  MaxRestarts = 1
SPECIFICATION Spec
INVARIANTS TrailTellsPlugins UpgradesAreEnabledAnew ForgottenPrincipalsOnlyRead
CHECK_DEADLOCK FALSE
