SPECIFICATION FairSpec
CONSTANTS
  Callers = {c1, c2, c3}
  Writers = {w1}
  NoEntry = NoEntry
  Nobody = Nobody
  MaxVersion = 1
  MaxPanics = 1
INVARIANTS
  ReadYourWrites
  SingleFlight
  ExpiredOnlyAfterPanic
PROPERTY CallsReturn
