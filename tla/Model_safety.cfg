SPECIFICATION Spec
CONSTANTS
  PolicySettings <- BothPolicies
  BadSpecs = {3}
  IsRouter = FALSE
  Legacy = TRUE
  StaleReads = TRUE
  CanHide = FALSE
  Reverts = FALSE
  RecreateLimit = 1
  MaxIds = 4
  MaxEvents = 2
  MaxFaults = 1
  MaxCrashes = 1
INVARIANTS TypeOK SyncedMatches NoSilentLeak OneRow
PROPERTY IdNeverBlanked
CHECK_DEADLOCK FALSE
