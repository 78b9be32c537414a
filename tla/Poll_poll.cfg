SPECIFICATION FairSpec
CONSTANTS
  Requests = {r1, r2, r3}
  MaxVersion = 2
  MaxMounts = 2
INVARIANTS
  TypeOK
  AllClearIsAnAnswer
  PollInv
PROPERTIES
  ViewMovesForward
  OnlyTheLatest
  KeepsUp
CHECK_DEADLOCK FALSE
