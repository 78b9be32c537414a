SPECIFICATION FairSpec
CONSTANTS
  PodNames = {"api", "api-server"}
  ContainersOf <- Colliding
  Deletable = {}
  MaxUid = 1
  MaxRestarts <- ServerAlone
  MaxFaults = 0
PROPERTIES
  RestartsDiagnosed
CHECK_DEADLOCK FALSE
