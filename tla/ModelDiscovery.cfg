SPECIFICATION FairSpec
CONSTANTS
  Discoveries = {d1, d2}
  Names = {m1}
  UserSpec = 0
  Filter <- SomeFilters
  Aliased = {m1}
  Agents = {d2}
  Changing = {d1}
  MaxUpsets = 2
INVARIANT RefreshPending
PROPERTIES KeepsPromise VanishSparesListed Converges
CHECK_DEADLOCK FALSE
