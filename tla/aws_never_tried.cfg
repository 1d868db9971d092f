SPECIFICATION FairSpec
CONSTANTS
  MaxIds = 6
  MaxLag = 2
  Scenarios <- OneRefusal
PROPERTIES
  HostIsTried
CHECK_DEADLOCK FALSE
