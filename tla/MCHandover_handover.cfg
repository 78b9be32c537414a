SPECIFICATION FairHandoverSpec
CONSTANTS
  PodNames = {"web"}
  ContainersOf <- OneContainer
  Deletable = {}
  MaxUid = 1
  MaxRestarts <- OneRestart
  MaxFaults = 2
INVARIANTS
  HandoverTypeOK
  NeverForgotten
  NoLostUpdate
  OnlyReached
  HandoverInv
PROPERTIES
  LeaderAdvances
  EpisodesSettle
CHECK_DEADLOCK FALSE
