SPECIFICATION FairSpec
CONSTANTS
  PodNames = {"web"}
  ContainersOf <- OneContainer
  Deletable = {"web"}
  MaxUid = 2
  MaxRestarts <- OneRestart
  MaxFaults = 0
PROPERTIES
  EveryEpisodeDiagnosed
  EveryDeterminationAnnounced
CHECK_DEADLOCK FALSE
