SPECIFICATION FairSpec
CONSTANTS
  MaxIds = 6
  MaxLag = 2
  Scenarios <- OnePatchFails
PROPERTIES
  EnvironmentDeletionCompletes
CHECK_DEADLOCK FALSE
