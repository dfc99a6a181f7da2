SPECIFICATION FairSpec
CONSTANTS
  Servers = {1, 2}
  Raw = {2}
  LegacyRows = TRUE
  PolicySet = {"Delete"}
  BadSpecs = {3}
  RecreateLimit = 1
  MaxEvents = 1
  MaxFaults = 2
PROPERTY Converges
CHECK_DEADLOCK FALSE
