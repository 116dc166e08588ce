SPECIFICATION FairSpec
CONSTANTS
  MaxTurns = 3
  MAX_QUEUED_TURNS = 2
  Inputs <- MCInputs
  CoalesceMs = {0, 300}
  MaxRevision = 2
INVARIANTS
  TypeOK
  PromiseKept
  DisposedIsQuiet
  TurnsArePinned
PROPERTIES
  StopHolds
  CallersReturn
  KeepsContract
CHECK_DEADLOCK FALSE
