SPECIFICATION Spec
CONSTANTS
  m1 = m1
  m2 = m2
  n1 = n1
  n2 = n2
  NoMachine = NoMachine
  Machines = {m1}
  Names = {n1}
  Name <- OneName
  Driver <- Google
  Scripted = {m1}
  Groups = {"docker-machine", "own"}
  GroupParam <- OwnGroup
  RmMissingFails = TRUE
  DiskSurvives = TRUE
  MaxLag = 2
  Budget <- OneFault
INVARIANTS
  FailedCreateNotReady
CHECK_DEADLOCK FALSE
