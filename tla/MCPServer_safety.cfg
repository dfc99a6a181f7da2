SPECIFICATION Spec
CONSTANTS
  Servers = {1, 2}
  Raw = {}
  LegacyRows = FALSE
  PolicySet = {"Orphan"}
  BadSpecs = {3}
  RecreateLimit = 1
  MaxEvents = 2
  MaxFaults = 2
INVARIANTS OneClaims HonestSynced NoSilentLeak
PROPERTY SiblingSpared
CHECK_DEADLOCK FALSE
