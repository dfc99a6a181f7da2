SPECIFICATION FairSpec
CONSTANTS
  Dependents = {d1}
  MaxFlaps = 3
INVARIANTS
  NoLostReprobe
  NoStuckGate
PROPERTIES
  ConnectionRecovers
  DependentsRecover
CHECK_DEADLOCK FALSE
