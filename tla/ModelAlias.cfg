SPECIFICATION FairSpec
CONSTANTS
  CRs = {1, 2}
  Aliases = {a1, a2}
  MaxUpsets = 3
INVARIANTS NoOrphanEntry HonestStatus UnrelatedSurvive
PROPERTY Converges
CHECK_DEADLOCK FALSE
