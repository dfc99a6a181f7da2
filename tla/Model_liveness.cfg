SPECIFICATION FairSpec
CONSTANTS
  PolicySettings <- DeletePolicy
  BadSpecs = {}
  IsRouter = FALSE
  Legacy = FALSE
  StaleReads = FALSE
  CanHide = TRUE
  Reverts = FALSE
  RecreateLimit = 1
  MaxIds = 5
  MaxEvents = 2
  MaxFaults = 1
  MaxCrashes = 0
PROPERTY Converges
CHECK_DEADLOCK FALSE
