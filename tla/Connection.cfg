SPECIFICATION FairSpec
CONSTANTS
  a = a
  b = b
  x = x
  Dependents = {d1}
  Endpoints = {a, b}
  Invalid = {}
  Insecure = {b}
  RequireHTTPS = TRUE
  Answers = {"ok", "401", "down"}
  NoEndpoint = none
  MaxEvents = 2
  MaxUpsets = 1
INVARIANTS AgreeAtRest NoStaleClient
PROPERTIES DependentsSettle AbsentDrains
CHECK_DEADLOCK FALSE
