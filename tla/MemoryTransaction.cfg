SPECIFICATION MTFairSpec
CONSTANTS
  Commands = {"a", "b", "c"}
  ScopeOf <- MCScopeOf
  DirOf <- MCDirOf
  Earlier <- MCEarlier
  Mishaps = 3
  Hands = 1
  None = None
  Other = Other
INVARIANTS
  MTTypeOK
  ReceiptsAreTrue
  IndexIsTrue
  RejectedForCause
PROPERTIES
  NothingLost
  EveryCommandAnswered
CHECK_DEADLOCK FALSE
