SPECIFICATION Spec
CONSTANTS
  Namespaces = {"payments", "batch", "dev"}
  Causes = {"OOMKilled"}
  Routes <- TeamRoutes
  Fallback <- Default
  Window = 2
  MaxTime = 2
  MaxDiagnoses <- Diagnoses
  MaxFailures = 1
  MaxRestarts = 1
  HubToken = "secret"
  DefaultListLimit = 1
  MaxListLimit = 2
  MaxOthers = 1
INVARIANTS
  FleetTypeOK
  AccountedFor
  OnePerWindow
  AcceptedIsShown
  ToldOnce
  FleetInv
PROPERTIES
  ImplementsNotifications
CHECK_DEADLOCK FALSE
