SPECIFICATION FairSpec
CONSTANTS
  PodNames = {"web"}
  ContainersOf <- OneContainer
  Deletable = {"web"}
  MaxUid = 1
  MaxRestarts <- NoRestart
  MaxFaults = 1
PROPERTIES
  EveryEpisodeDiagnosed
CHECK_DEADLOCK FALSE
