SPECIFICATION FairSpec
CONSTANTS
  PodNames = {"web"}
  ContainersOf <- OneContainer
  Deletable = {"web"}
  MaxUid = 2
  MaxRestarts <- OneRestart
  MaxFaults = 1
INVARIANTS
  TypeOK
  NeverForgotten
  NeverAhead
  EpisodeInv
  AnnouncementInv
PROPERTIES
  DiagnosesAdvance
  AnnouncedOnce
  ImplementsLedger
  EpisodesSettle
CHECK_DEADLOCK FALSE
