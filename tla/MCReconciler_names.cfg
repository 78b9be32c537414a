SPECIFICATION Spec
CONSTANTS
  PodNames = {"api", "api-server"}
  ContainersOf <- Colliding
  Deletable = {"api"}
  MaxUid = 2
  MaxRestarts <- ServerAlone
  MaxFaults = 0
PROPERTIES
  OwnerAdvances
CHECK_DEADLOCK FALSE
