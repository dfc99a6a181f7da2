SPECIFICATION FairSpec
CONSTANTS
  g1 = g1
  Names = {"default", "team"}
  Groups = {g1}
  PolicySettings <- Orphaning
  Reverts = FALSE
  RecreateLimit = 1
  ServerIds <- Assigned
  MaxUpsets = 3
INVARIANTS
  TypeOK
  SyncedMatches
  Narrowed
  NoSilentLeak
  OneRow
PROPERTY
  Converges
CHECK_DEADLOCK FALSE
