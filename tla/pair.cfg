SPECIFICATION Spec
CONSTANTS
  m1 = m1
  m2 = m2
  n1 = n1
  n2 = n2
  NoMachine = NoMachine
  Machines = {m1, m2}
  Names = {n1, n2}
  Name <- OwnNames
  Driver <- AwsAndAzure
  Scripted = {m1, m2}
  Groups = {"docker-machine", "own"}
  GroupParam <- OwnGroups
  RmMissingFails = FALSE
  DiskSurvives = TRUE
  MaxLag = 1
  Budget <- TwoMachinesFault
INVARIANTS
  VerdictIsOwn
  ResourcesGuarded
CHECK_DEADLOCK FALSE
