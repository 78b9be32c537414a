SPECIFICATION Spec
CONSTANTS
  PodNames = {"web"}
  ContainersOf <- InitAndApp
  Deletable = {"web"}
  MaxUid = 1
  MaxRestarts <- AppAlone
  MaxFaults = 0
PROPERTIES
  DiagnosesAdvance
  AnnouncedOnce
CHECK_DEADLOCK FALSE
