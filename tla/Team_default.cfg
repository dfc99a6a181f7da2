SPECIFICATION FairSpec
CONSTANTS
  g1 = g1
  Names = {"default"}
  Groups = {g1}
  PolicySettings <- Unset
  Reverts = FALSE
  RecreateLimit = 1
  ServerIds <- Assigned
  MaxUpsets = 3
PROPERTY
  DefaultIsReset
CHECK_DEADLOCK FALSE
