SPECIFICATION Spec
CONSTANTS
  m1 = m1
  m2 = m2
  n1 = n1
  n2 = n2
  NoMachine = NoMachine
  Machines = {m1}
  Names = {n1}
  Name <- OneName
  Driver <- Azure
  Scripted = {m1}
  Groups = {"docker-machine", "own"}
  GroupParam <- NoGroupParam
  RmMissingFails = FALSE
  DiskSurvives = TRUE
  MaxLag = 2
  Budget <- TwiceAllSorts
INVARIANTS
  TypeOK
  ResourcesGuarded
  ReadyHasHost
  StatusIsWhole
  SuccessIsEarned
PROPERTIES
  TerminatingIsFinal
  KeepsLifecycle
CHECK_DEADLOCK FALSE
