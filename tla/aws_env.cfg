SPECIFICATION FairSpec
CONSTANTS
  MaxIds = 6
  MaxLag = 3
  Scenarios <- AnyFew
INVARIANTS
  TypeOK
  EnvironmentComplete
  HostStaysConnected
  NetworkIsRemoved
PROPERTIES
  DeletionSurvivesRefusal
CHECK_DEADLOCK FALSE
