SPECIFICATION FairSpec
CONSTANTS
  PodNames = {"web"}
  ContainersOf <- OneContainer
  Deletable = {"web"}
  MaxUid = 2
  MaxRestarts <- OneRestart
  MaxFaults = 1
PROPERTIES
  RestartsDiagnosed
CHECK_DEADLOCK FALSE
