SPECIFICATION FairSpec
CONSTANTS
  n1 = n1
  s1 = s1
  s2 = s2
  k1 = k1
  k2 = k2
  Discoveries = {d1}
  Names = {n1}
  Kinds = {k1, k2}
  Sources = {s1, s2}
  KindOf <- Kind
  ChildOf <- OneChild
  Order <- Ranks
  UserSpec <- NoSpec
  Filter <- SomeFilters
  Changing = {d1}
  MaxUpsets = 2
PROPERTIES KeepsPromise VanishSparesListed Converges
CHECK_DEADLOCK FALSE
